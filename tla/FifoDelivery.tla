---------------------------- MODULE FifoDelivery ----------------------------
(***************************************************************************)
(* What a reliable channel promises its user (network/mt_connection.h, the *)
(* notes on RELIABLE packets): the commands given to it are handed over at *)
(* the other end in the order they were given, each of them once.  The     *)
(* commands are numbered 1, 2, ... in the order they are submitted.        *)
(***************************************************************************)
EXTENDS Naturals, Sequences

VARIABLES
    pending,      \* submitted, not yet handed to the user at the other end
    delivered     \* handed to the user, in the order of the hand-overs

fifoVars == <<pending, delivered>>

FifoInit ==
    /\ pending = <<>>
    /\ delivered = <<>>

Submit ==
    /\ pending' = Append(pending, Len(delivered) + Len(pending) + 1)
    /\ UNCHANGED delivered

Deliver ==
    /\ pending # <<>>
    /\ delivered' = Append(delivered, Head(pending))
    /\ pending' = Tail(pending)

FifoNext == Submit \/ Deliver

FifoSpec == FifoInit /\ [][FifoNext]_fifoVars

=============================================================================
