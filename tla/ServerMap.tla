------------------------------ MODULE ServerMap ------------------------------
(***************************************************************************)
(* The server's map blocks in memory and in the map database: loading,     *)
(* creating, generating, editing, saving, unloading and deleting them      *)
(* (map.cpp, mapblock.h, and the critical sections of the emerge threads   *)
(* in emerge.cpp).  Every action is a critical section of the environment  *)
(* lock; a chunk is generated between two of them, in a copy of the nodes. *)
(*                                                                         *)
(* A chunk is one block here and its area, borders included, is the whole  *)
(* set of positions.  The usage timer of a block, which unloads it after   *)
(* server_unload_unused_data_timeout (29 s), is reduced to whether the     *)
(* environment has managed its active blocks (every 2 s) since the block   *)
(* was used: only then it is old enough to be unloaded.                    *)
(***************************************************************************)
EXTENDS Naturals, FiniteSets, TLC

CONSTANTS
    Positions,   \* the blocks
    Objects,     \* the objects that static data can be of
    Edits,       \* the node edits that may be made, each once
    Terrain,     \* what the map generator puts in a block
    EmergeThreads\* how many chunks may be generated at a time

ASSUME MapAssumption ==
    /\ IsFiniteSet(Positions) /\ IsFiniteSet(Edits) /\ IsFiniteSet(Objects)
    /\ Terrain \notin Edits
    /\ EmergeThreads \in Nat

VARIABLES
    blocks,      \* the blocks in memory
    disk,        \* the blocks in the map database
    making,      \* the chunks in progress, with the copy they are made in
    kept         \* edit -> where it was made and must be (for the properties)

mapVars == <<blocks, disk, making, kept>>

(* ModifiedState *)
Clean == 0
WriteAtUnload == 2
WriteNeeded == 4

(* The function of no point. *)
Nothing == [x \in {} |-> 0]

(* The timestamp of a block: none, from before the last clearObjects, or    *)
(* from after it.                                                          *)
Undefined == "undefined"
Outdated == "outdated"
Valid == "valid"

(* m_stored, as the number of copies it has of each object.                *)
EmptyStore == [o \in Objects |-> 0]

(* A block without data. *)
BlankBlock ==
    [nodes |-> {}, generated |-> FALSE, stamp |-> Undefined, stored |-> EmptyStore,
     active |-> Nothing, modified |-> WriteNeeded, old |-> FALSE]

Raised(block, state) ==
    [block EXCEPT !.modified = IF state > @ THEN state ELSE @]

ActiveOf(active, o) == Cardinality({id \in DOMAIN active : active[id] = o})

(* What is written of a block: of its objects, active and stored alike. *)
Serialized(block) ==
    [nodes |-> block.nodes, generated |-> block.generated,
     stamp |-> block.stamp,
     objects |-> [o \in Objects |-> block.stored[o] + ActiveOf(block.active, o)]]

Deserialized(copy) ==
    [nodes |-> copy.nodes, generated |-> copy.generated,
     stamp |-> copy.stamp, stored |-> copy.objects,
     active |-> Nothing, modified |-> Clean, old |-> FALSE]

(* f with the value v at x, and f without the points of S.                 *)
Put(f, x, v) == [y \in DOMAIN f \cup {x} |-> IF y = x THEN v ELSE f[y]]
Without(f, S) == [x \in DOMAIN f \ S |-> f[x]]

(* emergeBlock: from memory, else from the database, else a blank block if *)
(* that is wanted.                                                         *)
EmergeBlock(mem, p, create_blank) ==
    IF p \in DOMAIN mem THEN mem
    ELSE IF p \in DOMAIN disk
         THEN Put(mem, p, Deserialized(disk[p]))
         ELSE IF create_blank THEN Put(mem, p, BlankBlock) ELSE mem

Init ==
    /\ blocks = Nothing
    /\ disk = Nothing
    /\ making = Nothing
    /\ kept = Nothing

-----------------------------------------------------------------------------
(* initBlockMake refuses a chunk that is in progress.                      *)
NeedsGeneration(mem, p) ==
    /\ p \in DOMAIN mem => ~mem[p].generated
    /\ p \notin DOMAIN making

(* initBlockMake: the blocks of the area are loaded or created, and their  *)
(* nodes copied.                                                           *)
InitBlockMake(mem, p) ==
    LET area == [x \in Positions |-> EmergeBlock(mem, x, TRUE)[x]]
    IN  /\ Cardinality(DOMAIN making) < EmergeThreads
        /\ blocks' = area
        /\ making' = Put(making, p, [x \in Positions |-> area[x].nodes])

(* getBlockOrStartGen.                                                     *)
GetBlockOrStartGen(p, allow_gen) ==
    LET mem == EmergeBlock(blocks, p, FALSE)
    IN  /\ IF allow_gen /\ NeedsGeneration(mem, p)
           THEN InitBlockMake(mem, p)
           ELSE blocks' = mem /\ UNCHANGED making
        /\ UNCHANGED <<disk, kept>>

(* A slip to be caught: only the chunk itself is marked as modified.       *)
FinishBlockMakeUnmarked(p) ==
    LET Made(b) ==
          [(IF b = p THEN Raised(blocks[b], WriteNeeded) ELSE blocks[b]) EXCEPT
               !.nodes = making[p][b] \cup (IF b = p THEN {Terrain} ELSE {}),
               !.generated = @ \/ b = p]
    IN  [b \in DOMAIN blocks |-> Made(b)]

(* A slip to be caught: the block is created again if it is gone, without  *)
(* its nodes.                                                              *)
FinishBlockMakeEmerging(p) ==
    LET Made(b) ==
          [Raised(blocks[b], WriteNeeded) EXCEPT
               !.nodes = making[p][b] \cup (IF b = p THEN {Terrain} ELSE {}),
               !.generated = @ \/ b = p]
    IN  [b \in DOMAIN blocks \cup {p} |->
           IF b \in DOMAIN blocks THEN Made(b)
           ELSE [BlankBlock EXCEPT !.generated = TRUE]]

(* finishBlockMake: the copy is blitted back, over generated blocks too,   *)
(* where there still is a block.                                           *)
FinishBlockMake(p) ==
    LET Made(b) ==
          [Raised(blocks[b], WriteNeeded) EXCEPT
               !.nodes = making[p][b] \cup (IF b = p THEN {Terrain} ELSE {}),
               !.generated = @ \/ b = p]
    IN  [b \in DOMAIN blocks |-> Made(b)]

(* set_node and the like, in a block in memory.  A chunk in progress will  *)
(* overwrite the edit: then nothing is promised of it.                     *)
EditNode(p, e) ==
    /\ p \in DOMAIN blocks /\ e \notin DOMAIN kept
    /\ blocks' = Put(blocks, p, [Raised(blocks[p], WriteNeeded) EXCEPT
                                     !.nodes = @ \cup {e}])
    /\ kept' = Put(kept, e, IF making = Nothing THEN {p} ELSE {})
    /\ UNCHANGED <<disk, making>>

(* saveBlock of the blocks in S. *)
Saved(mem, S) == [p \in S \cup DOMAIN disk |->
    IF p \in S THEN Serialized(mem[p]) ELSE disk[p]]
ResetModified(mem, S) == [p \in DOMAIN mem |->
    IF p \in S THEN [mem[p] EXCEPT !.modified = Clean] ELSE mem[p]]

AtLevel(mem, level) == {p \in DOMAIN mem : mem[p].modified >= level}

(* A slip to be caught: a block that could not be written is reset too.    *)
SaveResettingAll(written) ==
    /\ written # {} /\ written \subseteq AtLevel(blocks, WriteNeeded)
    /\ disk' = Saved(blocks, written)
    /\ blocks' = ResetModified(blocks, AtLevel(blocks, WriteNeeded))
    /\ UNCHANGED <<making, kept>>

(* The periodic save; writing a block may fail, which leaves it as it is.  *)
Save(written) ==
    /\ written # {} /\ written \subseteq AtLevel(blocks, WriteNeeded)
    /\ disk' = Saved(blocks, written)
    /\ blocks' = ResetModified(blocks, written)
    /\ UNCHANGED <<making, kept>>

(* What is left of the promises when the blocks in S are gone.             *)
Unkept(S) == [e \in DOMAIN kept |-> kept[e] \ S]

WrittenAtUnload(p) == {p} \cap AtLevel(blocks, WriteAtUnload)

(* timerUpdate, one block.  One that cannot be written is passed over, but *)
(* its sector counts as empty then and is deleted with what is in it, the  *)
(* block included, unless another block of the sector stays: in that case  *)
(* nothing has happened to the block.                                      *)
Unload(p, written) ==
    /\ p \in DOMAIN blocks /\ blocks[p].old
    /\ written \subseteq WrittenAtUnload(p)
    /\ disk' = Saved(blocks, written)
    /\ blocks' = Without(blocks, {p})
    /\ kept' = Unkept(({p} \cap AtLevel(blocks, WriteNeeded)) \ written)
    /\ UNCHANGED making

(* deleteBlock, for minetest.delete_area.                                  *)
DeleteBlock(p) ==
    /\ p \in DOMAIN blocks \cup DOMAIN disk
    /\ disk' = Without(disk, {p})
    /\ blocks' = Without(blocks, {p})
    /\ kept' = Unkept({p})
    /\ UNCHANGED making

(* The server dies; what was marked but not yet written is gone.  (What    *)
(* this makes of the timestamps on disk is said in ActiveObjects.)         *)
LoseMemory ==
    /\ blocks' = Nothing
    /\ making' = Nothing
    /\ kept' = Unkept(AtLevel(blocks, WriteNeeded))

-----------------------------------------------------------------------------
(* What counts as the content of a block: the copy in memory, if any.      *)
Nodes(p) == IF p \in DOMAIN blocks THEN blocks[p].nodes
            ELSE IF p \in DOMAIN disk THEN disk[p].nodes ELSE {}

(* A block in memory that is not marked WRITE_NEEDED is on disk as it is   *)
(* in memory, its objects included, whichever of their lists they are in:  *)
(* the code moves objects between the lists, and changes timestamps,       *)
(* without marking the block, to save writes.                              *)
UnmarkedIsSaved ==
    \A p \in DOMAIN blocks : blocks[p].modified # WriteNeeded =>
        /\ p \in DOMAIN disk
        /\ blocks[p].nodes = disk[p].nodes
        /\ blocks[p].generated = disk[p].generated
        /\ \A o \in Objects : Serialized(blocks[p]).objects[o] =< disk[p].objects[o]

(* An edit made while no chunk around it is being generated is not lost,   *)
(* whatever is unloaded, loaded again or generated around it.  Only three  *)
(* things take it away: its block is deleted, the server crashes before it *)
(* is written, or it cannot be written when its block leaves memory.       *)
EditsSurvive == \A e \in DOMAIN kept : \A p \in kept[e] : e \in Nodes(p)

(* A block is marked as generated only if its terrain is there, although   *)
(* the chunk may be unloaded, or loaded again, while it is being made.     *)
GeneratedHasTerrain ==
    /\ \A p \in DOMAIN blocks : blocks[p].generated => Terrain \in blocks[p].nodes
    /\ \A p \in DOMAIN disk : disk[p].generated => Terrain \in disk[p].nodes
=============================================================================
