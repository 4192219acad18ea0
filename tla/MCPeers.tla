------------------------------- MODULE MCPeers -------------------------------
(* Small instances of Peers for TLC. *)
EXTENDS Peers, TLC

CONSTANTS a1, a2, u1

MCAddresses == {a1, a2}
MCUsers == {u1}

=============================================================================
