--------------------------- MODULE MeshUpdateQueue ---------------------------
(***************************************************************************)
(* The client's mesh updates (client/mesh_generator_thread.cpp, util/      *)
(* thread.h, and their callers in client/client.cpp).  The main thread     *)
(* changes blocks of the client's map and adds update tasks; each copies   *)
(* the data of the block and of the 26 around it to a cache that counts    *)
(* the queue entries that need it.  The mesh thread takes an entry with    *)
(* the cached data, makes the mesh without the lock, and hands it over to  *)
(* the main thread, which shows it and acknowledges the block.             *)
(*                                                                         *)
(* The data of a block is the number of the change that made it.  Meshes   *)
(* are what was seen when they were made; of a crack, only its block.      *)
(* What the age of a cached copy decides is left open.                     *)
(***************************************************************************)
EXTENDS Integers, Sequences, FiniteSets, SequencesExt

CONSTANTS
    Positions,   \* the positions of blocks, <<x, y, z>>
    None,        \* no block, no mesh, no crack
    MaxChanges   \* bound: changes of the map and of the crack

(* What a block, a mesh that is shown and a result of the thread can be.   *)
Data == 0..MaxChanges \cup {None}
Seen == UNION {[S -> Data] : S \in SUBSET Positions}
Meshes == [seen : Seen, cracked : BOOLEAN]
Results == [p : Positions, ack : BOOLEAN, seen : Seen, cracked : BOOLEAN]

ASSUME PositionsAssumption ==
    /\ Positions \subseteq Int \X Int \X Int /\ IsFiniteSet(Positions)
    /\ None \notin Positions /\ None \notin Nat
    /\ None \notin Meshes /\ None \notin Results
    /\ MaxChanges \in Nat

VARIABLES
    map,             \* the client's map: position -> data, or None
    mesh,            \* the mesh shown: position -> what it was made of
    m_crack_pos,     \* the block with the crack
    owed,            \* blocks received since their last acknowledgement
    changes,         \* changes so far
    modified,        \* changed blocks that no tasks were made for yet
    tasks,           \* what the main thread is about to add to the queue
    posting,         \* whether it is about to post the semaphore
    m_queue, m_urgents, m_cache, m_queue_out,
    making,          \* the entry the mesh thread works on
    m_update_sem,
    m_request_stop,
    pc               \* where the mesh thread is in UpdateThread::run

mainVars == <<map, mesh, m_crack_pos, owed, changes, modified, tasks, posting>>
queueVars == <<m_queue, m_urgents, m_cache>>
threadVars == <<m_queue_out, making, pc>>
vars == <<mainVars, queueVars, threadVars, m_update_sem, m_request_stop>>

(* The blocks whose data a mesh is made of, g_6dirs, and the negative ones *)
(* of them.                                                                *)
Around(p) == {q \in Positions : \A i \in 1..3 : q[i] - p[i] \in -1..1}
Faces(p) == {q \in Around(p) : Cardinality({i \in 1..3 : q[i] # p[i]}) = 1}
Leading(p) == {q \in Faces(p) : \A i \in 1..3 : q[i] <= p[i]}

Present == {p \in Positions : map[p] # None}
Queued == {m_queue[i].p : i \in DOMAIN m_queue}

Init ==
    /\ map = [p \in Positions |-> None]
    /\ mesh = [p \in Positions |-> None]
    /\ m_crack_pos = None /\ owed = {} /\ changes = 0
    /\ modified = {} /\ tasks = <<>> /\ posting = FALSE
    /\ m_queue = <<>> /\ m_urgents = {} /\ m_queue_out = <<>>
    /\ m_cache = [p \in {} |-> 0]
    /\ making = None /\ m_update_sem = 0 /\ m_request_stop = FALSE /\ pc = "top"

-----------------------------------------------------------------------------
(* The main thread: what changes its map.                                  *)
Busy == tasks # <<>> \/ posting
Idle == ~Busy /\ modified = {} /\ ~m_request_stop

Task(p, ack, urgent) == [p |-> p, ack |-> ack, urgent |-> urgent]

(* addUpdateMeshTaskWithEdge.                                              *)
WithEdge(p, ack, urgent) ==
    <<Task(p, ack, urgent)>>
    \o [i \in 1..Cardinality(Faces(p)) |-> Task(SetToSeq(Faces(p))[i], FALSE, urgent)]

Change(S) ==
    /\ Idle /\ changes < MaxChanges /\ changes' = changes + 1
    /\ map' = [p \in Positions |-> IF p \in S THEN changes' ELSE map[p]]

(* handleCommand_BlockData.                                                *)
ReceiveBlock(p) ==
    /\ Change({p})
    /\ owed' = owed \cup {p}
    /\ tasks' = WithEdge(p, TRUE, FALSE)
    /\ UNCHANGED <<mesh, m_crack_pos, modified, posting, queueVars, threadVars,
                   m_update_sem, m_request_stop>>

(* addNode, removeNode: light may change in other blocks.                  *)
ChangeNode(S) ==
    /\ S # {} /\ S \subseteq Present
    /\ Change(S)
    /\ modified' = S
    /\ UNCHANGED <<mesh, m_crack_pos, owed, tasks, posting, queueVars, threadVars,
                   m_update_sem, m_request_stop>>

(* Their loop over the modified blocks.                                    *)
NextModified(p) ==
    /\ ~Busy /\ p \in modified
    /\ modified' = modified \ {p}
    /\ tasks' = WithEdge(p, FALSE, TRUE)
    /\ UNCHANGED <<map, mesh, m_crack_pos, owed, changes, posting, queueVars,
                   threadVars, m_update_sem, m_request_stop>>

(* addUpdateMeshTaskForNode, if there is a block; a node at the edge       *)
(* concerns the blocks next to it.                                         *)
ForNode(p, edge) ==
    IF p = None THEN <<>>
    ELSE <<Task(p, FALSE, TRUE)>>
         \o [i \in 1..Cardinality(edge \cap Leading(p)) |->
               Task(SetToSeq(edge \cap Leading(p))[i], FALSE, TRUE)]

SetCrack(p, edge) ==
    /\ Idle /\ changes < MaxChanges /\ p # m_crack_pos
    /\ changes' = changes + 1
    /\ m_crack_pos' = p
    /\ tasks' = ForNode(m_crack_pos, edge) \o ForNode(p, edge)
    /\ UNCHANGED <<map, mesh, owed, modified, posting, queueVars, threadVars,
                   m_update_sem, m_request_stop>>

(* timerUpdate: nothing is queued for the blocks around.                   *)
UnloadBlock(p) ==
    /\ Idle /\ p \in Present
    /\ map' = [map EXCEPT ![p] = None]
    /\ mesh' = [mesh EXCEPT ![p] = None]
    /\ UNCHANGED <<m_crack_pos, owed, changes, modified, tasks, posting,
                   queueVars, threadVars, m_update_sem, m_request_stop>>

(* A slip to be caught: without the nudge.                                 *)
StopSilently ==
    /\ Idle
    /\ m_request_stop' = TRUE
    /\ UNCHANGED <<mainVars, queueVars, threadVars, m_update_sem>>

(* Client::Stop: the nudge follows.                                        *)
Stop ==
    /\ Idle
    /\ m_request_stop' = TRUE /\ posting' = TRUE
    /\ UNCHANGED <<map, mesh, m_crack_pos, owed, changes, modified, tasks,
                   queueVars, threadVars, m_update_sem>>

-----------------------------------------------------------------------------
(* MeshUpdateQueue::addBlock, with the lock.                               *)

(* A slip to be caught: what is cached already is not copied again.        *)
CopiedOnce(cache, p) ==
    [b \in DOMAIN cache \cup Around(p) |->
       IF b \in DOMAIN cache THEN cache[b] ELSE [data |-> map[b], refs |-> 0]]

(* cacheBlock of the block, FORCE_UPDATE, and of those around it.          *)
Copied(cache, p) ==
    [b \in DOMAIN cache \cup Around(p) |->
       IF b \in DOMAIN cache
       THEN IF b = p THEN [cache[b] EXCEPT !.data = map[b]] ELSE cache[b]
       ELSE [data |-> map[b], refs |-> 0]]

Counted(cache, S, n) ==
    [b \in DOMAIN cache |->
       IF b \in S THEN [cache[b] EXCEPT !.refs = @ + n] ELSE cache[b]]

Entry(t) == [p |-> t.p, ack |-> t.ack, cracked |-> m_crack_pos = t.p]

(* A slip to be caught: the merged entry keeps what it was added with.     *)
MergedKeeping(e, t) == e

Merged(e, t) == [Entry(t) EXCEPT !.ack = e.ack \/ t.ack]

(* cleanupCache: some of the copies that no entry needs.                   *)
Unneeded == {b \in DOMAIN m_cache : m_cache[b].refs = 0}

(* Slips to be caught: merged entries count again; what there is no data   *)
(* of does not count.                                                      *)
ReferencedAgain(cache, t) == Counted(cache, Around(t.p), 1)
ReferencedIfPresent(cache, t) ==
    IF t.p \in Queued THEN cache ELSE Counted(cache, Around(t.p) \cap Present, 1)

(* A new entry is a new reference to the copies.                           *)
Referenced(cache, t) ==
    IF t.p \in Queued THEN cache ELSE Counted(cache, Around(t.p), 1)

addBlock(t, expired) ==
    LET kept == [b \in DOMAIN m_cache \ expired |-> m_cache[b]]
    IN  /\ m_cache' = Referenced(Copied(kept, t.p), t)
        /\ m_urgents' = IF t.urgent THEN m_urgents \cup {t.p} ELSE m_urgents
        /\ m_queue' =
             IF t.p \in Queued
             THEN [i \in DOMAIN m_queue |->
                     IF m_queue[i].p = t.p THEN Merged(m_queue[i], t) ELSE m_queue[i]]
             ELSE Append(m_queue, Entry(t))

(* addUpdateMeshTask: of a block that there is.                            *)
AddTask ==
    /\ tasks # <<>> /\ ~posting
    /\ tasks' = Tail(tasks)
    /\ IF Head(tasks).p \in Present
       THEN /\ \E expired \in SUBSET Unneeded : addBlock(Head(tasks), expired)
            /\ posting' = TRUE
       ELSE UNCHANGED <<posting, queueVars>>
    /\ UNCHANGED <<map, mesh, m_crack_pos, owed, changes, modified, threadVars,
                   m_update_sem, m_request_stop>>

(* deferUpdate, and the nudge of stop().  Posts that were not waited for   *)
(* yet are as good as one.                                                 *)
Post ==
    /\ posting /\ posting' = FALSE
    /\ m_update_sem' = 1
    /\ UNCHANGED <<map, mesh, m_crack_pos, owed, changes, modified, tasks,
                   queueVars, threadVars, m_request_stop>>

(* What a handler that has begun goes on with. *)
HandlerStep == (\E p \in Positions : NextModified(p)) \/ AddTask \/ Post

(* Client::step, one result: the mesh is shown if there still is a block,  *)
(* and the block is acknowledged either way.                               *)
ReplaceMesh ==
    LET r == Head(m_queue_out)
    IN  /\ Idle /\ m_queue_out # <<>>
        /\ m_queue_out' = Tail(m_queue_out)
        /\ mesh' = IF r.p \in Present
                   THEN [mesh EXCEPT ![r.p] = [seen |-> r.seen, cracked |-> r.cracked]]
                   ELSE mesh
        /\ owed' = IF r.ack THEN owed \ {r.p} ELSE owed
        /\ UNCHANGED <<map, m_crack_pos, changes, modified, tasks, posting,
                       queueVars, making, pc, m_update_sem, m_request_stop>>

-----------------------------------------------------------------------------
(* The mesh thread.                                                        *)
ThreadLeaves == UNCHANGED <<mainVars, m_request_stop>>

CheckStop ==
    /\ pc = "top"
    /\ pc' = IF m_request_stop THEN "ended" ELSE "waiting"
    /\ UNCHANGED <<queueVars, m_queue_out, making, m_update_sem>> /\ ThreadLeaves

(* The semaphore is waited for, and set to 0.                              *)
Wake ==
    /\ pc = "waiting" /\ m_update_sem > 0
    /\ m_update_sem' = 0
    /\ pc' = "woken"
    /\ UNCHANGED <<queueVars, m_queue_out, making>> /\ ThreadLeaves

BeginUpdate ==
    /\ pc = "woken"
    /\ pc' = IF m_request_stop THEN "ended" ELSE "updating"
    /\ UNCHANGED <<queueVars, m_queue_out, making, m_update_sem>> /\ ThreadLeaves

(* Which entry is next: the first, or the first urgent one if any is.      *)
NextEntries ==
    {i \in DOMAIN m_queue : m_urgents # {} => m_queue[i].p \in m_urgents}

RemovedAt(s, i) == [j \in 1..Len(s) - 1 |-> IF j < i THEN s[j] ELSE s[j + 1]]

UrgentBut(p) == m_urgents \ {p}

(* pop, with fillDataFromMapBlockCache.                                    *)
Pop ==
    /\ pc = "updating" /\ making = None
    /\ \E i \in NextEntries :
         LET e == m_queue[i]
         IN  /\ \A j \in NextEntries : i <= j
             /\ m_queue' = RemovedAt(m_queue, i)
             /\ m_urgents' = UrgentBut(e.p)
             /\ m_cache' = Counted(m_cache, Around(e.p), -1)
             /\ making' = [p |-> e.p, ack |-> e.ack, cracked |-> e.cracked,
                           seen |-> [b \in Around(e.p) |->
                             IF b \in DOMAIN m_cache THEN m_cache[b].data ELSE None]]
    /\ UNCHANGED <<m_queue_out, pc, m_update_sem>> /\ ThreadLeaves

(* pop returned NULL.                                                      *)
EndUpdate ==
    /\ pc = "updating" /\ making = None /\ NextEntries = {}
    /\ pc' = "top"
    /\ UNCHANGED <<queueVars, m_queue_out, making, m_update_sem>> /\ ThreadLeaves

MakeMesh ==
    /\ making # None
    /\ m_queue_out' = Append(m_queue_out, making)
    /\ making' = None
    /\ UNCHANGED <<queueVars, pc, m_update_sem>> /\ ThreadLeaves

ThreadStep == CheckStop \/ Wake \/ BeginUpdate \/ Pop \/ EndUpdate \/ MakeMesh

Next ==
    \/ \E p \in Positions : ReceiveBlock(p) \/ UnloadBlock(p)
    \/ \E S \in SUBSET Positions : ChangeNode(S)
    \/ \E p \in Positions \cup {None}, edge \in SUBSET Positions : SetCrack(p, edge)
    \/ HandlerStep \/ ReplaceMesh
    \/ Stop
    \/ ThreadStep

Spec == Init /\ [][Next]_vars

(* The main thread comes back to the results in every step of the client,  *)
(* and the mesh thread is scheduled.                                       *)
FairSpec ==
    /\ Spec
    /\ WF_vars(HandlerStep) /\ SF_vars(ReplaceMesh)
    /\ WF_vars(ThreadStep)

-----------------------------------------------------------------------------
TypeOK ==
    /\ map \in [Positions -> Data] /\ mesh \in [Positions -> Meshes \cup {None}]
    /\ m_crack_pos \in Positions \cup {None} /\ owed \subseteq Positions
    /\ changes \in 0..MaxChanges /\ posting \in BOOLEAN
    /\ modified \subseteq Positions
    /\ tasks \in Seq([p : Positions, ack : BOOLEAN, urgent : BOOLEAN])
    /\ m_queue \in Seq([p : Positions, ack : BOOLEAN, cracked : BOOLEAN])
    /\ m_urgents \subseteq Positions
    /\ DOMAIN m_cache \subseteq Positions
    /\ \A b \in DOMAIN m_cache : m_cache[b] \in [data : Data, refs : Nat]
    /\ m_queue_out \in Seq(Results) /\ making \in Results \cup {None}
    /\ m_update_sem \in {0, 1} /\ m_request_stop \in BOOLEAN
    /\ pc \in {"top", "waiting", "woken", "updating", "ended"}

(* refcount_from_queue of a copy is the number of entries that need it,    *)
(* and every entry has the copies it needs: a copy in use is not cleaned   *)
(* up, and none is kept for ever.                                          *)
CountsMatch ==
    /\ \A b \in DOMAIN m_cache :
         m_cache[b].refs = Cardinality({p \in Queued : b \in Around(p)})
    /\ \A p \in Queued : Around(p) \subseteq DOMAIN m_cache

(* Every urgent block has an entry: otherwise pop would find nothing at    *)
(* all any more.  No block has two.                                        *)
UrgentsAreQueued ==
    /\ m_urgents \subseteq Queued
    /\ \A i, j \in DOMAIN m_queue : m_queue[i].p = m_queue[j].p => i = j

(* The queue, its urgent positions and the counts of the cache agree.      *)
QueueIsCoherent == CountsMatch /\ UrgentsAreQueued

Pending(p) ==
    \/ \E q \in modified : p \in {q} \cup Faces(q)
    \/ \E i \in DOMAIN tasks : tasks[i].p = p
    \/ p \in Queued
    \/ making # None /\ making.p = p
    \/ \E i \in DOMAIN m_queue_out : m_queue_out[i].p = p

(* When nothing is on its way for a block, its mesh shows what the map has *)
(* now: its own data, that of the blocks at its six faces, and the crack.  *)
(* A copy that was cached before a change, or a mesh that was made before, *)
(* does not stay.                                                          *)
SettledIsFresh ==
    \A p \in Present : ~Pending(p) =>
        /\ mesh[p] # None
        /\ mesh[p].seen[p] = map[p]
        /\ \A b \in Faces(p) \cap Present : mesh[p].seen[b] = map[b]
        /\ mesh[p].cracked = (m_crack_pos = p)

(* A block that was received is acknowledged: the server counts it as      *)
(* being sent until then.                                                  *)
BlocksAreAcknowledged ==
    \A p \in Positions : p \in owed ~> (p \notin owed \/ m_request_stop)

(* The thread ends when it is told to: the client waits for it.            *)
StopEndsThread == m_request_stop ~> pc = "ended"
=============================================================================
