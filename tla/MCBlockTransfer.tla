-------------------------- MODULE MCBlockTransfer --------------------------
EXTENDS BlockTransfer

CONSTANTS b0, b1, b2, b3

(* One block in each ring, up to FullDMax.                                *)
Positions(n) == {b \in {b0, b1, b2, b3} : b = b0 \/ (b = b1 /\ n > 0)
                                        \/ (b = b2 /\ n > 1) \/ (b = b3 /\ n > 2)}
One == Positions(0)
Near == Positions(1)
Far == Positions(3)
Distances == (b0 :> 0) @@ (b1 :> 1) @@ (b2 :> 2) @@ (b3 :> 3)
OneDist == [b \in One |-> Distances[b]]
NearDist == [b \in Near |-> Distances[b]]
FarDist == [b \in Far |-> Distances[b]]
(* b2 is a corner of its ring: as far away as a block of ring 3.          *)
Corner == (b0 :> 0) @@ (b1 :> 1) @@ (b2 :> 3) @@ (b3 :> 3)
=============================================================================
