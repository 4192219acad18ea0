---------------------------- MODULE PacketBuffer ----------------------------
(***************************************************************************)
(* What a ReliablePacketBuffer is for (network/connection.cpp): a set of   *)
(* numbered packets, at most one per sequence number, from which the one   *)
(* that comes first on the circle, or a given one, can be taken.  Packets  *)
(* are records with a field seq.  The code keeps them in a sorted list.    *)
(***************************************************************************)
EXTENDS SeqNum

(* The packet that comes first when the circle is walked from base. *)
FirstFrom(buffer, base) ==
    CHOOSE p \in buffer :
        \A q \in buffer : ToSeq(p.seq - base) =< ToSeq(q.seq - base)

(* A packet is buffered when its number lies in the window that starts at  *)
(* next_expected, is not next_expected itself, and is not there already.   *)
Bufferable(buffer, p, next_expected) ==
    /\ seqnum_in_window(p.seq, next_expected, HalfMod)
    /\ p.seq # next_expected
    /\ \A q \in buffer : q.seq # p.seq

Insert(buffer, p, next_expected) ==
    IF Bufferable(buffer, p, next_expected) THEN buffer \union {p} ELSE buffer

RemoveSeq(buffer, seqnum) == {q \in buffer : q.seq # seqnum}

=============================================================================
