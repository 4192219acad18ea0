---------------------------- MODULE ActiveObjects ----------------------------
(***************************************************************************)
(* The objects of the server environment (serverenvironment.cpp,           *)
(* staticobject.h, activeobjectmgr): an object is either stored in a block *)
(* as static data, or active, and then a copy of its static data is in the *)
(* list m_active of some block.  Objects are activated with their block,   *)
(* and stored again when they are in no active block any more; one that    *)
(* clients still know is only marked, and is removed later.                *)
(*                                                                         *)
(* The module adds the environment to ServerMap.  Its operators thread a   *)
(* record w of the blocks in memory, the objects and their fate through    *)
(* the loops of the code, in the order of the loops.  It is assumed that   *)
(* on_activate does not move its object to another block.                  *)
(***************************************************************************)
EXTENDS ServerMap, Sequences, SequencesExt

CONSTANTS
    MaxObjectsPerBlock,  \* the setting max_objects_per_block
    MaxKnown             \* bound: objects known by clients at a time

ASSUME ObjectsAssumption ==
    /\ MaxObjectsPerBlock \in Nat /\ MaxKnown \in Nat

VARIABLES
    m_active_objects,    \* id -> active object
    m_active_blocks,     \* the blocks in m_active_blocks.m_list
    fate                 \* of each object (for the properties)

envVars == <<m_active_objects, m_active_blocks, fate>>
vars == <<mapVars, envVars>>

(* The fate of an object: none before it is added, alive, removed by the   *)
(* game, cleared by clearObjects, or one of the ways in which the code     *)
(* loses track of it, which are listed with the hazards:                   *)
(*   over the limit  its block has max_objects_per_block already;          *)
(*   unstamped       stored in a block that was never active, forgotten    *)
(*                   when it becomes active;                               *)
(*   outdated        the same, in a block that was not active again since  *)
(*                   clearObjects;                                         *)
(*   overlooked      stored in a block that was not on disk yet when all   *)
(*                   objects were cleared, or was newer than the clearing; *)
(*   orphaned        its static data was unloaded while it was active;     *)
(*   returned        removed or cleared, but stored by the shutdown;       *)
(*   crashed         the server died with blocks still to be written;      *)
(*   unwritten       its block could not be written and left memory.       *)
Obj(o, p) == [obj |-> o, pos |-> p, known |-> FALSE, gone |-> "no",
              static_exists |-> FALSE, static_block |-> p]

World == [blocks |-> blocks, objects |-> m_active_objects, fate |-> fate]

(* The fate of those that were alive. *)
Fated(f, S, new) ==
    [o \in DOMAIN f |-> IF o \in S /\ f[o] = "alive" THEN new ELSE f[o]]

Known(objects) == {id \in DOMAIN objects : objects[id].known}
Gone(objects) == {id \in DOMAIN objects : objects[id].gone # "no"}

(* getFreeId, in the worst case: an id is used again at once. *)
FreeId(objects) ==
    CHOOSE id \in 1..Cardinality(DOMAIN objects) + 1 :
        /\ id \notin DOMAIN objects
        /\ \A i \in 1..id - 1 : i \in DOMAIN objects

Mark(block, flagged) == IF flagged THEN Raised(block, WriteNeeded) ELSE block

(* addActiveObjectRaw, of an object at p. *)
addActiveObjectRaw(w, o, p, set_changed) ==
    LET id == FreeId(w.objects)
        mem == EmergeBlock(w.blocks, p, TRUE)
        ao == [Obj(o, p) EXCEPT !.static_exists = TRUE]
        block == [Mark(mem[p], set_changed) EXCEPT !.active = Put(@, id, o)]
    IN  [w EXCEPT !.objects = Put(@, id, ao), !.blocks = Put(mem, p, block)]

(* deleteStaticFromBlock, which may have to load the block. *)
deleteStaticFromBlock(w, id, flagged) ==
    LET ao == w.objects[id]
        p == ao.static_block
        mem == EmergeBlock(w.blocks, p, FALSE)
        block == [Mark(mem[p], flagged) EXCEPT !.active = Without(@, {id})]
    IN  IF ~ao.static_exists \/ p \notin DOMAIN mem THEN w
        ELSE [w EXCEPT !.blocks = Put(mem, p, block),
                       !.objects = Put(@, id, [ao EXCEPT !.static_exists = FALSE])]

Size(stored) == FoldSet(LAMBDA o, n : stored[o] + n, 0, Objects)
StoredIn(stored) == {o \in Objects : stored[o] > 0}
HasRoom(mem, p) == Size(mem[p].stored) < MaxObjectsPerBlock

(* saveStaticToBlock, to m_active if the object stays for now and to       *)
(* m_stored if it does not.  Only m_stored counts for the limit.           *)
saveStaticToBlock(w, p, id, stays, flagged) ==
    LET mem == EmergeBlock(w.blocks, p, TRUE)
        ao == w.objects[id]
        block == Mark(mem[p], flagged)
        holding == IF stays THEN [block EXCEPT !.active = Put(@, id, ao.obj)]
                   ELSE [block EXCEPT !.stored[ao.obj] = @ + 1]
    IN  IF ~HasRoom(mem, p) THEN [w EXCEPT !.blocks = mem]
        ELSE [w EXCEPT
               !.blocks = Put(mem, p, holding),
               !.objects = Put(@, id, [ao EXCEPT !.static_exists = TRUE,
                                                 !.static_block = p])]

Unregister(w, id) == [w EXCEPT !.objects = Without(@, {id})]

-----------------------------------------------------------------------------
(* activateObjects: all objects stored in p become active, or all are      *)
(* dropped if they are too many.  The block is not marked when they are    *)
(* activated, "the block is essentially the same".                         *)
activateObjects(w, p) ==
    LET block == w.blocks[p]
        ones == SetToSeq({c \in Objects \X (1..Size(block.stored)) :
                             c[2] <= block.stored[c[1]]})
        empty == [w EXCEPT !.blocks = Put(@, p, [block EXCEPT !.stored = EmptyStore])]
    IN  IF Size(block.stored) > MaxObjectsPerBlock
        THEN [w EXCEPT
               !.blocks = Put(@, p, [Raised(block, WriteNeeded) EXCEPT
                                        !.stored = EmptyStore]),
               !.fate = Fated(@, StoredIn(block.stored), "over the limit")]
        ELSE FoldLeft(LAMBDA v, c : addActiveObjectRaw(v, c[1], p, FALSE), empty, ones)

(* activateBlock.  What is stored in a block that was never active, or not *)
(* since clearObjects, is forgotten, and the block is not marked.          *)
activateBlock(w, p) ==
    LET block == w.blocks[p]
        kept_ones == IF block.stamp = Valid THEN block.stored ELSE EmptyStore
        used == [block EXCEPT !.old = FALSE, !.stamp = Valid, !.stored = kept_ones]
        lost == IF block.stamp = Undefined THEN "unstamped" ELSE "outdated"
        forgotten == StoredIn(block.stored) \ StoredIn(kept_ones)
    IN  activateObjects([w EXCEPT !.blocks = Put(@, p, used),
                                  !.fate = Fated(@, forgotten, lost)], p)

(* A slip to be caught: the copy in the old block is left behind. *)
ResaveCopying(w, id) == saveStaticToBlock(w, w.objects[id].pos, id, TRUE, TRUE)

(* The object is in an active block and its static data in another: it     *)
(* moves there.  If there is no room it is active without static data.     *)
Resave(w, id) ==
    saveStaticToBlock(deleteStaticFromBlock(w, id, TRUE),
                      w.objects[id].pos, id, TRUE, TRUE)

(* The object is stored, or marked if clients know it.  The blocks are     *)
(* marked only if the object moved or its data changed.  If there is no    *)
(* room, the object is deleted at once.                                    *)
Deactivate(w, id, force, data_changed) ==
    LET ao == w.objects[id]
        pending == ao.known /\ ~force
        loaded == [w EXCEPT !.blocks =
            IF ao.static_exists THEN EmergeBlock(@, ao.static_block, FALSE) ELSE @]
        found == /\ ao.static_exists /\ ao.static_block \in DOMAIN loaded.blocks
                 /\ id \in DOMAIN loaded.blocks[ao.static_block].active
        same == found /\ ao.static_block = ao.pos /\ ~data_changed
        bare == deleteStaticFromBlock(loaded, id, ~same)
        fits == HasRoom(EmergeBlock(bare.blocks, ao.pos, TRUE), ao.pos)
        saved == saveStaticToBlock(bare, ao.pos, id, pending, ~same)
        lost == [saved EXCEPT !.fate = Fated(@, {ao.obj}, "over the limit")]
        marked == [saved.objects[id] EXCEPT !.gone = "deactivation"]
    IN  IF ~fits THEN Unregister(lost, id)
        ELSE IF pending THEN [saved EXCEPT !.objects = Put(@, id, marked)]
        ELSE Unregister(saved, id)

(* deactivateFarObjects, one object.                                       *)
deactivateFarObject(w, id, active, data_changed) ==
    LET ao == w.objects[id]
    IN  IF ao.gone # "no" THEN w
        ELSE IF /\ ao.static_exists /\ ao.static_block \notin active
                /\ ao.pos \in active
             THEN Resave(w, id)
        ELSE IF ao.pos \in active THEN w
        ELSE Deactivate(w, id, FALSE, data_changed)

(* The move from m_active to m_stored of an object that was deactivated    *)
(* while clients knew it, if the block still has it.                       *)
StoreDeactivated(w, id) ==
    LET p == w.objects[id].static_block
        mem == EmergeBlock(w.blocks, p, FALSE)
        block == mem[p]
    IN  IF p \in DOMAIN mem /\ id \in DOMAIN mem[p].active
        THEN [w EXCEPT !.blocks = Put(mem, p, [Raised(block, WriteNeeded) EXCEPT
                !.stored[block.active[id]] = @ + 1, !.active = Without(@, {id})])]
        ELSE [w EXCEPT !.blocks = mem]

(* removeRemovedObjects, one object.                                       *)
removeRemovedObject(w, id) ==
    LET ao == w.objects[id]
        bare == deleteStaticFromBlock(w, id, TRUE)
    IN  CASE ao.gone = "removal" /\ ao.known -> bare
          [] ao.gone = "removal" /\ ~ao.known -> Unregister(bare, id)
          [] ao.gone = "deactivation" /\ ao.known -> w
          [] ao.gone = "deactivation" /\ ~ao.known ->
               Unregister(IF ao.static_exists THEN StoreDeactivated(w, id) ELSE w, id)

-----------------------------------------------------------------------------
InitObjects ==
    /\ Init
    /\ m_active_objects = Nothing
    /\ m_active_blocks = {}
    /\ fate = [o \in Objects |-> "none"]

(* The actions of the map that leave the objects alone.                    *)
MapAction(A) == A /\ UNCHANGED envVars

Become(w) ==
    /\ blocks' = w.blocks
    /\ m_active_objects' = w.objects
    /\ fate' = w.fate

AddObject(o, p) ==
    /\ fate[o] = "none"
    /\ Become(addActiveObjectRaw([World EXCEPT !.fate[o] = "alive"], o, p, TRUE))
    /\ UNCHANGED <<disk, making, kept, m_active_blocks>>

MoveObject(id, p) ==
    /\ id \notin Gone(m_active_objects)
    /\ m_active_objects' = [m_active_objects EXCEPT ![id].pos = p]
    /\ UNCHANGED <<mapVars, m_active_blocks, fate>>

(* ObjectRef:remove(). *)
RemoveObject(id) ==
    /\ id \notin Gone(m_active_objects)
    /\ m_active_objects' = [m_active_objects EXCEPT ![id].gone = "removal"]
    /\ fate' = Fated(fate, {m_active_objects[id].obj}, "removed")
    /\ UNCHANGED <<mapVars, m_active_blocks>>

(* SendActiveObjectRemoveAdd: m_known_by_count leaves or reaches zero. An  *)
(* object that is gone is not added any more.                              *)
KnownChanges(id) ==
    /\ m_active_objects[id].known
       \/ /\ id \notin Gone(m_active_objects)
          /\ Cardinality(Known(m_active_objects)) < MaxKnown
    /\ m_active_objects' = [m_active_objects EXCEPT ![id].known = ~@]
    /\ UNCHANGED <<mapVars, m_active_blocks, fate>>

removeRemovedObjects ==
    /\ Become(FoldLeft(removeRemovedObject, World, SetToSeq(Gone(m_active_objects))))
    /\ UNCHANGED <<disk, making, kept, m_active_blocks>>

(* ActiveBlockList::update and what follows it; near are the blocks around *)
(* the players and those forceloaded, changed the objects whose data has   *)
(* changed, order that of m_active_objects.                                *)
UpdateActiveBlocks(near, changed, order) ==
    LET aged == [World EXCEPT !.blocks =
            [p \in DOMAIN @ |-> [@[p] EXCEPT !.old = p \notin near]]]
        far == FoldLeft(LAMBDA w, id : deactivateFarObject(w, id, near, id \in changed),
                        aged, order)
        left == (m_active_blocks \ near) \cap DOMAIN far.blocks
        stamped == [far EXCEPT !.blocks = [p \in DOMAIN @ |->
            IF p \in left THEN [Raised(@[p], WriteAtUnload) EXCEPT !.stamp = Valid]
            ELSE @[p]]]
        added == near \ m_active_blocks
        there == added \cap DOMAIN far.blocks
    IN  /\ Become(FoldLeft(activateBlock, stamped, SetToSeq(there)))
        /\ m_active_blocks' = near \ (added \ there)
        /\ UNCHANGED <<disk, making, kept>>

(* The node timers' interval: the active blocks get a new timestamp.  One  *)
(* that is more than a minute newer than the one on disk is to be written. *)
RunNodeTimers(expired) ==
    LET Used(p) == [blocks[p] EXCEPT !.old = FALSE, !.stamp = Valid]
    IN  /\ blocks' = [p \in DOMAIN blocks |->
              IF p \notin m_active_blocks THEN blocks[p]
              ELSE IF p \in expired THEN Raised(Used(p), WriteAtUnload)
              ELSE Used(p)]
        /\ UNCHANGED <<disk, making, kept, envVars>>

(* clearObjects, one active object: its static data is deleted if its      *)
(* block is in memory.                                                     *)
ClearObject(w, id) ==
    LET bare == IF w.objects[id].static_block \in DOMAIN w.blocks
                THEN deleteStaticFromBlock(w, id, TRUE) ELSE w
    IN  IF bare.objects[id].known
        THEN [bare EXCEPT !.objects[id].gone = "removal"]
        ELSE Unregister(bare, id)

Emptied(block) ==
    IF StoredIn(block.stored) = {} /\ block.active = Nothing THEN block
    ELSE [Raised(block, WriteNeeded) EXCEPT !.stored = EmptyStore, !.active = Nothing]

Aged(stamp, recently) == IF stamp = Valid /\ ~recently THEN Outdated ELSE stamp

(* The blocks on disk.  In full mode those that are not in memory are      *)
(* loaded, emptied and written.                                            *)
ClearedOnDisk(full, fresh) ==
    [p \in DOMAIN disk |->
       [disk[p] EXCEPT
          !.objects = IF full /\ p \notin DOMAIN blocks THEN EmptyStore ELSE @,
          !.stamp = Aged(@, p \in fresh)]]

(* clearObjects.  In full mode the blocks are those of the database: one   *)
(* that was never written is left out.  In quick mode those that are not   *)
(* in memory count as emptied if their timestamp is older: the blocks in   *)
(* recent (memory) and fresh (disk) got theirs in the same second, or,     *)
(* before a crash, from a clock that has been set back since.              *)
ClearObjects(full, recent, fresh) ==
    LET bare == FoldLeft(ClearObject, World, SetToSeq(DOMAIN m_active_objects))
        checked == IF full THEN DOMAIN disk ELSE DOMAIN blocks
        After(p, block) ==
            [(IF p \in checked THEN Emptied(block) ELSE block) EXCEPT
                !.stamp = Aged(@, p \in recent)]
        overlooked ==
            {o \in Objects :
               \/ \E p \in DOMAIN blocks \ checked : o \in StoredIn(blocks[p].stored)
               \/ \E p \in fresh \ (DOMAIN blocks \cup checked) :
                      o \in StoredIn(disk[p].objects)}
    IN  /\ Become([bare EXCEPT
              !.blocks = [p \in DOMAIN @ |-> After(p, @[p])],
              !.fate = Fated(Fated(@, overlooked, "overlooked"), Objects, "cleared")])
        /\ disk' = ClearedOnDisk(full, fresh)
        /\ UNCHANGED <<making, kept, m_active_blocks>>

(* finishGen; the chunk may be out of memory by now. *)
FinishGen(p) ==
    LET made == [World EXCEPT !.blocks = FinishBlockMake(p)]
    IN  /\ p \in DOMAIN making
        /\ Become(IF p \in DOMAIN blocks THEN activateBlock(made, p) ELSE made)
        /\ making' = Without(making, {p})
        /\ UNCHANGED <<disk, kept, m_active_blocks>>

(* An object whose static data leaves memory under it has lost track of it *)
(* (see the hazards).                                                      *)
Orphans(p) == {blocks[p].active[id] : id \in DOMAIN blocks[p].active}

(* What is read of a block that is not in memory: a blank one if it is not *)
(* on disk.                                                                *)
Copy(p) == IF p \in DOMAIN disk THEN disk[p] ELSE Serialized(BlankBlock)

(* The objects that are lost, or come back, when the blocks S of memory are *)
(* gone and what is on disk counts instead: there is more or less of them.  *)
(* One with fate "cleared" comes back only if it will not be forgotten.     *)
Unwritten(mem, f, S) == {o \in Objects : \E p \in S :
    IF f[o] = "cleared" THEN Copy(p).stamp = Valid /\ Copy(p).objects[o] > 0
    ELSE Copy(p).objects[o] # Serialized(mem[p]).objects[o]}

UnloadBlock(p, written) ==
    LET unwritten == Unwritten(blocks, fate,
                         ({p} \cap AtLevel(blocks, WriteNeeded)) \ written)
    IN  /\ Unload(p, written)
        /\ fate' = [o \in Objects |-> IF o \in Orphans(p) THEN "orphaned"
                                      ELSE IF o \in unwritten THEN "unwritten"
                                      ELSE fate[o]]
        /\ UNCHANGED <<m_active_objects, m_active_blocks>>

(* minetest.delete_area: a block, with what is stored in it and what waits  *)
(* to be.  Active objects stay, without their static data.                 *)
DeleteArea(p) ==
    LET stored == IF p \in DOMAIN blocks
                  THEN StoredIn(blocks[p].stored)
                       \cup {blocks[p].active[id] : id \in
                              DOMAIN blocks[p].active \ DOMAIN m_active_objects}
                       \cup {blocks[p].active[id] : id \in
                              DOMAIN blocks[p].active \cap Gone(m_active_objects)}
                  ELSE StoredIn(disk[p].objects)
    IN  /\ DeleteBlock(p)
        /\ fate' = Fated(fate, stored, "removed")
        /\ UNCHANGED <<m_active_objects, m_active_blocks>>

(* The objects whose static data is where m_static_block says.             *)
StaticDataResides(ao, id) ==
    /\ ao.static_exists /\ ao.static_block \in DOMAIN blocks
    /\ id \in DOMAIN blocks[ao.static_block].active

(* The server dies.  Nothing is promised of the objects if a block was to  *)
(* be written, of an active one without static data, and of one that was   *)
(* to be removed.  The time of the last clearObjects is forgotten if       *)
(* env_meta.txt was not written since.                                     *)
Crash(meta_saved) ==
    LET torn == AtLevel(blocks, WriteNeeded) # {}
        unsafe == {m_active_objects[id].obj : id \in {i \in DOMAIN m_active_objects :
            \/ m_active_objects[i].gone = "removal"
            \/ ~StaticDataResides(m_active_objects[i], i)}}
        Crashed(o) == \/ fate[o] # "none" /\ (torn \/ o \in unsafe)
                      \/ fate[o] = "cleared" /\ ~meta_saved
        Renewed(stamp) == IF stamp = Outdated /\ ~meta_saved THEN Valid ELSE stamp
    IN  /\ LoseMemory
        /\ disk' = [p \in DOMAIN disk |-> [disk[p] EXCEPT !.stamp = Renewed(@)]]
        /\ m_active_objects' = Nothing
        /\ m_active_blocks' = {}
        /\ fate' = [o \in Objects |-> IF Crashed(o) THEN "crashed" ELSE fate[o]]

(* ~ServerMap: the blocks of the world w that can be written are; the      *)
(* objects in returned are stored in it although they were removed.        *)
SaveAtEnd(w, returned) ==
    \E written \in SUBSET AtLevel(w.blocks, WriteAtUnload) :
        LET lost == AtLevel(w.blocks, WriteNeeded) \ written
            unwritten == Unwritten(w.blocks, w.fate, lost)
        IN  /\ disk' = Saved(w.blocks, written)
            /\ kept' = Unkept(lost)
            /\ fate' = [o \in Objects |->
                  IF o \in returned /\ fate[o] \in {"removed", "cleared"} THEN "returned"
                  ELSE IF o \in unwritten THEN "unwritten" ELSE w.fate[o]]

(* ~ServerEnvironment, after the emerge threads have ended: everything is  *)
(* stored, objects that are to be removed as well, and the map is saved;   *)
(* changed are the objects whose data has changed.                         *)
Shutdown(order, changed) ==
    /\ making = Nothing
    /\ SaveAtEnd(FoldLeft(LAMBDA w, id : Deactivate(w, id, TRUE, id \in changed),
                          World, order),
                 {m_active_objects[id].obj : id \in Gone(m_active_objects)})
    /\ blocks' = Nothing
    /\ m_active_objects' = Nothing
    /\ m_active_blocks' = {}
    /\ UNCHANGED making

Orders == SetToSeqs(DOMAIN m_active_objects)

Stamped(copies) == {p \in DOMAIN copies : copies[p].stamp = Valid}

Next ==
    \/ \E p \in Positions, allow_gen \in BOOLEAN :
          MapAction(GetBlockOrStartGen(p, allow_gen))
    \/ \E p \in Positions, e \in Edits : MapAction(EditNode(p, e))
    \/ \E written \in SUBSET Positions : MapAction(Save(written))
    \/ \E p \in Positions : FinishGen(p) \/ DeleteArea(p)
    \/ \E p \in Positions : \E written \in SUBSET {p} : UnloadBlock(p, written)
    \/ \E o \in Objects, p \in Positions : AddObject(o, p)
    \/ \E id \in DOMAIN m_active_objects :
          \/ RemoveObject(id) \/ KnownChanges(id)
          \/ \E p \in Positions : MoveObject(id, p)
    \/ removeRemovedObjects
    \/ \E near \in SUBSET Positions, changed \in SUBSET DOMAIN m_active_objects,
          order \in Orders : UpdateActiveBlocks(near, changed, order)
    \/ \E expired \in SUBSET (m_active_blocks \cap DOMAIN blocks) : RunNodeTimers(expired)
    \/ \E full \in BOOLEAN, recent \in SUBSET Stamped(blocks),
          fresh \in SUBSET Stamped(disk) :
          /\ fresh \cap DOMAIN blocks \subseteq recent
          /\ ClearObjects(full, recent, fresh)
    \/ \E meta_saved \in BOOLEAN : Crash(meta_saved)
    \/ \E order \in Orders, changed \in SUBSET DOMAIN m_active_objects :
          Shutdown(order, changed)

Spec == InitObjects /\ [][Next]_vars

-----------------------------------------------------------------------------
(* Where an object can come back from or is: an active object, static data *)
(* stored in memory, static data in m_active that no object claims or that *)
(* waits to be stored, and static data on disk of a block not in memory.   *)
Claimed(p, id) ==
    /\ id \in DOMAIN m_active_objects
    /\ m_active_objects[id].static_exists
    /\ m_active_objects[id].static_block = p
    /\ m_active_objects[id].gone # "deactivation"

Active(o) == {id \in DOMAIN m_active_objects :
    m_active_objects[id].obj = o /\ m_active_objects[id].gone = "no"}

Unclaimed(o) == {k \in UNION {{p} \X DOMAIN blocks[p].active : p \in DOMAIN blocks} :
    blocks[k[1]].active[k[2]] = o /\ ~Claimed(k[1], k[2])}

Total(f) == FoldSet(LAMBDA x, n : f[x] + n, 0, DOMAIN f)

(* The stored ones, on the blocks whose timestamp is one of S.             *)
Stored(o, S) ==
    Total([p \in DOMAIN blocks |-> IF blocks[p].stamp \in S THEN blocks[p].stored[o] ELSE 0])
    + Total([p \in DOMAIN disk \ DOMAIN blocks |->
               IF disk[p].stamp \in S THEN disk[p].objects[o] ELSE 0])

Homes(o, S) == Cardinality(Active(o)) + Cardinality(Unclaimed(o)) + Stored(o, S)

(* Every object that was added and not removed is in the world exactly     *)
(* once, active or stored, in memory or on disk, however blocks are        *)
(* activated, saved, unloaded and loaded around it; one that was removed   *)
(* does not come back; one that was cleared may still be stored, but only  *)
(* where it is forgotten when its block becomes active.  The known         *)
(* exceptions are the other fates.                                         *)
ExactlyOnce == \A o \in Objects :
    /\ fate[o] = "alive" => Homes(o, {Undefined, Outdated, Valid}) = 1
    /\ fate[o] \in {"none", "removed"} => Homes(o, {Undefined, Outdated, Valid}) = 0
    /\ fate[o] = "cleared" => Homes(o, {Valid}) = 0

(* "Remove stored static objects if clearObjects was called since block's  *)
(* timestamp": without clearObjects no stored object is forgotten.         *)
StoredAreKept == \A o \in Objects : fate[o] # "unstamped"
=============================================================================
