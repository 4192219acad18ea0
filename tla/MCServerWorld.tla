---------------------------- MODULE MCServerWorld ----------------------------
(* Small instances of ActiveObjects for TLC. *)
EXTENDS ActiveObjects, TLC
CONSTANTS b1, b2, e1, terrain
Blocks == {b1, b2}
Sym == Permutations(Blocks)
OneObject == {1}
TwoObjects == {1, 2}

\* What follows a known exception is not explored.
NoException == \A o \in Objects : fate[o] \in {"none", "alive", "removed", "cleared"}

\* What is combined: generation with edits, generation with an object that
\* is not removed and that clients do not know, an edit with an object, two
\* objects of one block, an object and clearObjects with one active block.
AnyObject == \E o \in Objects : fate[o] # "none"
AllObjects == \A o \in Objects : fate[o] # "none"
AnyKnown == Known(m_active_objects) # {}
Generated == DOMAIN making
    \cup {p \in DOMAIN blocks : blocks[p].generated}
    \cup {p \in DOMAIN disk : disk[p].generated}
Cleared ==
    \/ \E o \in Objects : fate[o] = "cleared"
    \/ \E p \in DOMAIN blocks : blocks[p].stamp = Outdated
    \/ \E p \in DOMAIN disk : disk[p].stamp = Outdated
UsedBlocks == DOMAIN blocks \cup DOMAIN disk
    \cup {m_active_objects[id].pos : id \in DOMAIN m_active_objects}
Explored ==
    /\ NoException
    /\ 2 \in Objects => (fate[2] # "none" => fate[1] # "none")
    /\ Cardinality(Objects) > 1 /\ AllObjects =>
          Cardinality(UsedBlocks) = 1 /\ Generated = {} /\ kept = Nothing
    /\ AnyObject /\ Generated # {} =>
          ~AnyKnown /\ Cardinality(Generated) = 1 /\ kept = Nothing
    /\ ~AnyObject /\ Generated # {} => m_active_blocks = {}
    /\ Cleared \/ Generated # {} => \A o \in Objects : fate[o] # "removed"
    /\ Cleared => Generated = {} /\ kept = Nothing /\ (AllObjects => ~AnyKnown)
          /\ Cardinality(m_active_blocks) =< 1
    /\ AnyObject /\ kept # Nothing => ~AnyKnown /\ Cardinality(UsedBlocks) = 1
=============================================================================
