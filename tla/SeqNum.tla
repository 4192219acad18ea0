------------------------------- MODULE SeqNum -------------------------------
(***************************************************************************)
(* The circular sequence numbers of the reliable channels                  *)
(* (network/mt_connection.h).  A sequence number is a u16: it counts up    *)
(* to SEQNUM_MAX and wraps to 0.  Whether a number is "newer" than another *)
(* is decided by which half of the circle it lies in, and the receiver     *)
(* accepts the half that starts at the number it expects next.             *)
(***************************************************************************)
EXTENDS Integers

CONSTANTS
    HalfMod,      \* half of the circle: MAX_RELIABLE_WINDOW_SIZE, 0x8000
    SeqInit       \* the first number a channel uses: SEQNUM_INITIAL, 65500

SeqMod == 2 * HalfMod                    \* SEQNUM_MAX + 1, the values of a u16

ASSUME SeqNumAssumption ==
    /\ HalfMod \in Nat \ {0, 1}
    /\ SeqInit \in 0 .. SeqMod - 1

SeqNums == 0 .. SeqMod - 1

(* The u16 value of an integer sum or difference. *)
ToSeq(n) == n % SeqMod

(* totest comes after base on the circle, seen from the shorter side. *)
seqnum_higher(totest, base) ==
    \/ /\ totest > base
       /\ totest - base =< (SeqMod - 1) \div 2
    \/ /\ totest =< base
       /\ base - totest > (SeqMod - 1) \div 2

(* seqnum is one of the window_size numbers that start at next. *)
seqnum_in_window(seqnum, next, window_size) ==
    LET window_end == ToSeq(next + window_size) IN
    IF next < window_end
    THEN next =< seqnum /\ seqnum < window_end
    ELSE seqnum < window_end \/ next =< seqnum

=============================================================================
