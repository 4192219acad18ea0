--------------------------- MODULE MCClientSession ---------------------------
(* Small instances of ClientSession for TLC. *)
EXTENDS ClientSession

CONSTANTS p1, p2, n1, n2

TwoPeers == {p1, p2}
TwoNames == {n1, n2}

=============================================================================
