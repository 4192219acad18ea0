------------------------------- MODULE NameSeats -------------------------------
(***************************************************************************)
(* What a server promises of player names: a seat per name, taken by one   *)
(* peer at a time, and free before it is taken again.                      *)
(***************************************************************************)
CONSTANTS Names, Peers

VARIABLE seat       \* name -> the peer in its seat, or "nobody"

Init == seat = [name \in Names |-> "nobody"]

(* A peer takes one seat at most. *)
Take(name, p) ==
    /\ seat[name] = "nobody"
    /\ \A other \in Names : seat[other] # p
    /\ seat' = [seat EXCEPT ![name] = p]

Leave(names) ==
    seat' = [name \in Names |-> IF name \in names THEN "nobody" ELSE seat[name]]

Next ==
    \/ \E name \in Names, p \in Peers : Take(name, p)
    \/ \E names \in SUBSET Names : Leave(names)

Spec == Init /\ [][Next]_seat

=============================================================================
