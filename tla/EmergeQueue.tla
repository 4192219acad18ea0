---------------------------- MODULE EmergeQueue ----------------------------
(***************************************************************************)
(* The emerge manager and its threads (emerge.cpp).  The server thread     *)
(* enqueues positions of map blocks that are needed; each is given to one  *)
(* emerge thread, which fetches the block from memory or from disk or      *)
(* generates its chunk, runs the callbacks of the requests and announces   *)
(* the blocks to the clients.  The server thread starts the emerge threads *)
(* (every two seconds if they are not running); the main thread stops them *)
(* when it destroys the server.                                            *)
(*                                                                         *)
(* Steps that hold m_queue_mutex or m_env_mutex are single actions; what   *)
(* happens between two locks is another action.  Blocks stay in memory.    *)
(***************************************************************************)
EXTENDS Integers, Sequences, FiniteSets

CONSTANTS
  Positions,       \* positions of map blocks
  ChunkOf(_),      \* the chunk (a mapgen unit) a position belongs to
  OverLimit,       \* positions that blockpos_over_max_limit refuses
  Corrupt,         \* blocks whose copy on disk, if any, cannot be deserialized
  Peers,           \* clients with a peer id
  NoPeer,          \* PEER_ID_INEXISTENT: the server itself
  NThreads,        \* num_emerge_threads
  QLimitTotal, QLimitDiskOnly, QLimitGenerate,
  Areas,           \* calls of minetest.emerge_area with a callback
  AreaOf(_),       \* the positions of such a call, as a sequence
  Nobody,          \* no thread / no area
  MayStop          \* whether the program is ever shut down

ASSUME LimitsAssumption ==
  /\ NThreads \in Nat \ {0}
  /\ {QLimitTotal, QLimitDiskOnly, QLimitGenerate} \subseteq Nat \ {0}
  /\ NoPeer \notin Peers
  /\ Nobody \notin Areas \cup Positions \cup 1..NThreads
  /\ \A a \in Areas : AreaOf(a) \in Seq(Positions)

\* emerge_area goes through the positions of a box, each once.
ASSUME AreasAssumption ==
  \A a \in Areas : \A i, j \in DOMAIN AreaOf(a) : AreaOf(a)[i] = AreaOf(a)[j] => i = j

Threads == 1..NThreads

VARIABLES
  blocks_enqueued,    \* position -> [peer, gen, force, callbacks]
  peer_queue_count,   \* how many entries each peer is charged for
  block_queue,        \* the queue of each thread
  notified,           \* the flag of each thread's m_queue_event
  at,                 \* where each emerge thread is
  job,                \* what it popped last
  stop_requested,     \* m_request_stop of each thread
  threads_active,     \* m_threads_active
  server,             \* the server thread: what it is doing
  main,               \* the main thread: how far ~Server has got
  where,              \* each block: absent, ungenerated, disk or memory
  in_progress,        \* m_chunks_in_progress
  refcount,           \* ScriptCallbackState::refcount of each area
  asked,              \* the areas emerge_area has been called for
  not_sent,           \* blocks announced with SetBlocksNotSent
  fatal               \* the asynchronous fatal error is set

queue   == <<blocks_enqueued, peer_queue_count, block_queue>>
threads == <<at, job, notified, stop_requested>>
world   == <<where, in_progress, refcount, asked, not_sent, fatal>>
vars    == <<queue, threads, threads_active, server, main, world>>

Requesters == Peers \cup {NoPeer}
Entry == [peer : Requesters, gen : BOOLEAN, force : BOOLEAN, callbacks : Seq(Areas)]

Without(f, x) == [y \in DOMAIN f \ {x} |-> f[y]]
With(f, x, v) == [y \in DOMAIN f \cup {x} |-> IF y = x THEN v ELSE f[y]]

Idle == [doing |-> "idle", area |-> Nobody, left |-> <<>>, thread |-> Nobody]
NoJob == [pos |-> Nobody, gen |-> FALSE, callbacks |-> <<>>, modified |-> {}]

Init ==
  /\ blocks_enqueued = [p \in {} |-> 0]
  /\ peer_queue_count = [r \in Requesters |-> 0]
  /\ block_queue = [t \in Threads |-> <<>>]
  /\ notified = [t \in Threads |-> FALSE]
  /\ at = [t \in Threads |-> "off"]
  /\ job = [t \in Threads |-> NoJob]
  /\ stop_requested = [t \in Threads |-> FALSE]
  /\ threads_active = FALSE
  /\ server = Idle
  /\ main = "running"
  /\ \E saved \in SUBSET {ChunkOf(p) : p \in Positions} :
       where = [p \in Positions |-> IF ChunkOf(p) \in saved THEN "disk" ELSE "absent"]
  /\ in_progress = {}
  /\ refcount = [a \in Areas |-> 0]
  /\ asked = {}
  /\ not_sent = {}
  /\ fatal = FALSE

-----------------------------------------------------------------------------
(* The server thread: requests *)

\* The limits of pushBlockEmergeData, checked before it looks for the entry.
Refused(peer, gen, force) ==
  /\ ~force
  /\ \/ Cardinality(DOMAIN blocks_enqueued) >= QLimitTotal
     \/ /\ peer # NoPeer
        /\ peer_queue_count[peer] >= (IF gen THEN QLimitGenerate ELSE QLimitDiskOnly)
     \/ peer = NoPeer /\ peer_queue_count[peer] * 2 >= QLimitTotal

\* The first thread with a shortest queue.
OptimalThread ==
  CHOOSE t \in Threads : \A u \in Threads :
    \/ Len(block_queue[t]) < Len(block_queue[u])
    \/ Len(block_queue[t]) = Len(block_queue[u]) /\ t <= u

\* Mutant: the entry is charged to whoever asked last.
pushRecharged(pos, peer, gen, force, callbacks) ==
  /\ blocks_enqueued' = With(blocks_enqueued, pos,
       [peer |-> peer, gen |-> gen, force |-> force,
        callbacks |-> IF pos \in DOMAIN blocks_enqueued
                      THEN blocks_enqueued[pos].callbacks \o callbacks ELSE callbacks])
  /\ peer_queue_count' = IF pos \in DOMAIN blocks_enqueued THEN peer_queue_count
                         ELSE [peer_queue_count EXCEPT ![peer] = @ + 1]

\* Mutant: only the callback of the first request is kept.
pushFirstCallback(pos, peer, gen, force, callbacks) ==
  IF pos \in DOMAIN blocks_enqueued
  THEN UNCHANGED <<blocks_enqueued, peer_queue_count>>
  ELSE /\ blocks_enqueued' = With(blocks_enqueued, pos,
            [peer |-> peer, gen |-> gen, force |-> force, callbacks |-> callbacks])
       /\ peer_queue_count' = [peer_queue_count EXCEPT ![peer] = @ + 1]

\* A second request for a queued position only adds its flags and callback;
\* the entry stays charged to the peer that asked first.
pushBlockEmergeData(pos, peer, gen, force, callbacks) ==
  IF pos \in DOMAIN blocks_enqueued
  THEN /\ blocks_enqueued' = [blocks_enqueued EXCEPT
            ![pos].gen = @ \/ gen, ![pos].force = @ \/ force, ![pos].callbacks = @ \o callbacks]
       /\ UNCHANGED peer_queue_count
  ELSE /\ blocks_enqueued' = With(blocks_enqueued, pos,
            [peer |-> peer, gen |-> gen, force |-> force, callbacks |-> callbacks])
       /\ peer_queue_count' = [peer_queue_count EXCEPT ![peer] = @ + 1]

\* Mutant: the position is queued again although it has an entry.
EnqueueAgain(pos, peer, gen, force, callbacks, next) ==
  /\ pushBlockEmergeData(pos, peer, gen, force, callbacks)
  /\ block_queue' = [block_queue EXCEPT ![OptimalThread] = Append(@, pos)]
  /\ server' = [next EXCEPT !.doing = "signal", !.thread = OptimalThread]

\* Mutant: another thread than the one with the block is signalled.
EnqueueSignalsFirst(pos, peer, gen, force, callbacks, next) ==
  /\ pushBlockEmergeData(pos, peer, gen, force, callbacks)
  /\ IF pos \in DOMAIN blocks_enqueued
     THEN UNCHANGED block_queue /\ server' = next
     ELSE /\ block_queue' = [block_queue EXCEPT ![OptimalThread] = Append(@, pos)]
          /\ server' = [next EXCEPT !.doing = "signal", !.thread = 1]

\* Mutant: the thread is not signalled.
EnqueueUnsignalled(pos, peer, gen, force, callbacks, next) ==
  /\ pushBlockEmergeData(pos, peer, gen, force, callbacks)
  /\ block_queue' = IF pos \in DOMAIN blocks_enqueued THEN block_queue
                    ELSE [block_queue EXCEPT ![OptimalThread] = Append(@, pos)]
  /\ server' = next

\* enqueueBlockEmergeEx up to the end of its lock: the entry, the thread's
\* queue, and which thread is still to be signalled (Nobody if none is).
Enqueue(pos, peer, gen, force, callbacks, next) ==
  /\ pushBlockEmergeData(pos, peer, gen, force, callbacks)
  /\ IF pos \in DOMAIN blocks_enqueued
     THEN UNCHANGED block_queue /\ server' = next
     ELSE /\ block_queue' = [block_queue EXCEPT ![OptimalThread] = Append(@, pos)]
          /\ server' = [next EXCEPT !.doing = "signal", !.thread = OptimalThread]

\* A client needs the block (GetNextBlocks, the interact handler), or an
\* active block misses a neighbour (emergeBlock): without force.
Request(pos, peer, gen) ==
  /\ server.doing = "idle"
  /\ peer = NoPeer => ~gen
  /\ ~Refused(peer, gen, FALSE)
  /\ Enqueue(pos, peer, gen, FALSE, <<>>, server)
  /\ UNCHANGED <<threads, threads_active, main, world>>

\* minetest.emerge_area: the environment stays locked until it returns.
EmergeArea(area) ==
  /\ server.doing = "idle"
  /\ area \notin asked
  /\ asked' = asked \cup {area}
  /\ refcount' = [refcount EXCEPT ![area] = Len(AreaOf(area))]
  /\ server' = [server EXCEPT !.doing = "area", !.area = area, !.left = AreaOf(area)]
  /\ UNCHANGED <<queue, threads, threads_active, main, where, in_progress, not_sent, fatal>>

\* Mutant: the environment stays locked when emerge_area has returned.
EmergeAreaKeepsLock ==
  /\ server.doing = "area"
  /\ IF server.left = <<>>
     THEN server' = [server EXCEPT !.doing = "idle"] /\ UNCHANGED queue
     ELSE Enqueue(Head(server.left), NoPeer, TRUE, TRUE, <<server.area>>,
                  [server EXCEPT !.left = Tail(@)])
  /\ UNCHANGED <<threads, threads_active, main, world>>

EmergeAreaNext ==
  /\ server.doing = "area"
  /\ IF server.left = <<>>
     THEN server' = Idle /\ UNCHANGED queue
     ELSE Enqueue(Head(server.left), NoPeer, TRUE, TRUE, <<server.area>>,
                  [server EXCEPT !.left = Tail(@)])
  /\ UNCHANGED <<threads, threads_active, main, world>>

\* The signal is given after the queue lock is released.
Signal ==
  /\ server.doing = "signal"
  /\ notified' = [notified EXCEPT ![server.thread] = TRUE]
  /\ server' = IF server.area = Nobody THEN Idle
               ELSE [server EXCEPT !.doing = "area", !.thread = Nobody]
  /\ UNCHANGED <<queue, at, job, stop_requested, threads_active, main, world>>

EnvLocked == server.area # Nobody

(* The server thread: starting the threads, and its own end *)

\* startThreads: Thread::start leaves a running thread alone.
StartThreads ==
  /\ server.doing = "idle"
  /\ ~threads_active
  /\ at' = [t \in Threads |-> IF at[t] = "off" THEN "head" ELSE at[t]]
  /\ stop_requested' = [t \in Threads |-> at[t] # "off" /\ stop_requested[t]]
  /\ server' = [server EXCEPT !.doing = "starting"]
  /\ UNCHANGED <<queue, job, notified, threads_active, main, world>>

ThreadsStarted ==
  /\ server.doing = "starting"
  /\ threads_active' = TRUE
  /\ server' = Idle
  /\ UNCHANGED <<queue, threads, main, world>>

ServerThreadEnds ==
  /\ main = "stop server"
  /\ server.doing = "idle"
  /\ server' = [server EXCEPT !.doing = "ended"]
  /\ UNCHANGED <<queue, threads, threads_active, main, world>>

-----------------------------------------------------------------------------
(* An emerge thread *)

Leave(t) ==
  /\ at[t] = "head" /\ stop_requested[t]
  /\ at' = [at EXCEPT ![t] = "off"]
  /\ UNCHANGED <<queue, job, notified, stop_requested, threads_active, server, main, world>>

\* popBlockEmerge takes the entry out of the map, the queue and the count; run()
\* drops a position beyond the limit of the map.
PopBlock(t) ==
  /\ at[t] = "head" /\ ~stop_requested[t]
  /\ block_queue[t] # <<>>
  /\ LET pos == Head(block_queue[t])
         entry == blocks_enqueued[pos]
     IN  /\ block_queue' = [block_queue EXCEPT ![t] = Tail(@)]
         /\ blocks_enqueued' = Without(blocks_enqueued, pos)
         /\ peer_queue_count' = [peer_queue_count EXCEPT ![entry.peer] = @ - 1]
         /\ IF pos \in OverLimit
            THEN UNCHANGED <<at, job>>
            ELSE /\ at' = [at EXCEPT ![t] = "fetch"]
                 /\ job' = [job EXCEPT ![t] = [NoJob EXCEPT
                      !.pos = pos, !.gen = entry.gen, !.callbacks = entry.callbacks]]
  /\ UNCHANGED <<notified, stop_requested, threads_active, server, main, world>>

FindEmpty(t) ==
  /\ at[t] = "head" /\ ~stop_requested[t]
  /\ block_queue[t] = <<>>
  /\ at' = [at EXCEPT ![t] = "wait"]
  /\ UNCHANGED <<queue, job, notified, stop_requested, threads_active, server, main, world>>

Wake(t) ==
  /\ at[t] = "wait"
  /\ notified[t]
  /\ notified' = [notified EXCEPT ![t] = FALSE]
  /\ at' = [at EXCEPT ![t] = "head"]
  /\ UNCHANGED <<queue, job, stop_requested, threads_active, server, main, world>>

Chunk(c) == {p \in Positions : ChunkOf(p) = c}

\* getBlockOrStartGen when the block can be had without generating it.
GetBlock(t) ==
  /\ at[t] = "fetch" /\ ~EnvLocked
  /\ LET pos == job[t].pos
     IN  /\ \/ where[pos] = "memory"
            \/ where[pos] = "disk" /\ pos \notin Corrupt
         /\ where' = [where EXCEPT ![pos] = "memory"]
         /\ job' = [job EXCEPT ![t].modified = {pos}]
  /\ at' = [at EXCEPT ![t] = "callbacks"]
  /\ UNCHANGED <<queue, notified, stop_requested, threads_active, server, main,
                 in_progress, refcount, asked, not_sent, fatal>>

\* Mutant: without m_chunks_in_progress.
MayGenerateAnyway(t) == job[t].gen

\* initBlockMake refuses a chunk that another thread is making.
MayGenerate(t) == job[t].gen /\ ChunkOf(job[t].pos) \notin in_progress

StartGen(t) ==
  /\ at[t] = "fetch" /\ ~EnvLocked
  /\ where[job[t].pos] \in {"absent", "ungenerated"}
  /\ MayGenerate(t)
  /\ LET c == ChunkOf(job[t].pos)
     IN  /\ in_progress' = in_progress \cup {c}
         /\ where' = [p \in Positions |-> IF p \in Chunk(c) /\ where[p] = "absent"
                                          THEN "ungenerated" ELSE where[p]]
  /\ at' = [at EXCEPT ![t] = "generate"]
  /\ UNCHANGED <<queue, job, notified, stop_requested, threads_active, server, main,
                 refcount, asked, not_sent, fatal>>

\* All attempts failed: EMERGE_CANCELLED.  An ungenerated block that is in
\* memory is announced all the same.
Cancel(t) ==
  /\ at[t] = "fetch" /\ ~EnvLocked
  /\ where[job[t].pos] \in {"absent", "ungenerated"}
  /\ ~MayGenerate(t)
  /\ job' = [job EXCEPT ![t].modified = IF where[job[t].pos] = "absent" THEN {} ELSE {job[t].pos}]
  /\ at' = [at EXCEPT ![t] = "callbacks"]
  /\ UNCHANGED <<queue, notified, stop_requested, threads_active, server, main, world>>

\* loadBlock throws: run() reports the error to the server and returns.
LoadFails(t) ==
  /\ at[t] = "fetch" /\ ~EnvLocked
  /\ where[job[t].pos] = "disk" /\ job[t].pos \in Corrupt
  /\ fatal' = TRUE
  /\ at' = [at EXCEPT ![t] = "off"]
  /\ job' = [job EXCEPT ![t] = NoJob]
  /\ UNCHANGED <<queue, notified, stop_requested, threads_active, server, main,
                 where, in_progress, refcount, asked, not_sent>>

\* finishGen, after Mapgen::makeChunk has run without a lock.
FinishGen(t) ==
  /\ at[t] = "generate" /\ ~EnvLocked
  /\ LET c == ChunkOf(job[t].pos)
     IN  /\ in_progress' = in_progress \ {c}
         /\ where' = [p \in Positions |-> IF p \in Chunk(c) THEN "memory" ELSE where[p]]
         /\ job' = [job EXCEPT ![t].modified = Chunk(c)]
  /\ at' = [at EXCEPT ![t] = "callbacks"]
  /\ UNCHANGED <<queue, notified, stop_requested, threads_active, server, main,
                 refcount, asked, not_sent, fatal>>

\* One of runCompletionCallbacks: LuaEmergeAreaCallback locks the environment.
RunCallback(t) ==
  /\ at[t] = "callbacks" /\ ~EnvLocked
  /\ job[t].callbacks # <<>>
  /\ refcount' = [refcount EXCEPT ![Head(job[t].callbacks)] = @ - 1]
  /\ job' = [job EXCEPT ![t].callbacks = Tail(@)]
  /\ UNCHANGED <<queue, at, notified, stop_requested, threads_active, server, main,
                 where, in_progress, asked, not_sent, fatal>>

\* Mutant: only the block that was asked for is announced.
AnnounceOwnBlock(t) ==
  /\ at[t] = "callbacks"
  /\ job[t].callbacks = <<>>
  /\ not_sent' = not_sent \cup {job[t].pos}
  /\ at' = [at EXCEPT ![t] = "head"]
  /\ job' = [job EXCEPT ![t] = NoJob]
  /\ UNCHANGED <<queue, notified, stop_requested, threads_active, server, main,
                 where, in_progress, refcount, asked, fatal>>

AnnounceBlocks(t) ==
  /\ at[t] = "callbacks"
  /\ job[t].callbacks = <<>>
  /\ not_sent' = not_sent \cup job[t].modified
  /\ at' = [at EXCEPT ![t] = "head"]
  /\ job' = [job EXCEPT ![t] = NoJob]
  /\ UNCHANGED <<queue, notified, stop_requested, threads_active, server, main,
                 where, in_progress, refcount, asked, fatal>>

-----------------------------------------------------------------------------
(* The main thread: ~Server *)

MainGoes(from, to) == main = from /\ main' = to

\* The program ends, or Server::step throws because of the fatal error.
\* stopThreads does nothing if m_threads_active is not set.
Shutdown ==
  /\ MayStop
  /\ MainGoes("running", IF threads_active THEN "request" ELSE "threads stopped")
  /\ UNCHANGED <<queue, threads, threads_active, server, world>>

\* Mutant: the stop is requested without a signal.
RequestStopUnsignalled(t) ==
  /\ \/ main = "request"
     \/ main = "delete emerge" /\ threads_active
  /\ ~stop_requested[t]
  /\ stop_requested' = [stop_requested EXCEPT ![t] = TRUE]
  /\ UNCHANGED <<queue, at, job, notified, threads_active, server, main, world>>

RequestStop(t) ==
  /\ \/ main = "request"
     \/ main = "delete emerge" /\ threads_active
  /\ ~stop_requested[t]
  /\ stop_requested' = [stop_requested EXCEPT ![t] = TRUE]
  /\ notified' = [notified EXCEPT ![t] = TRUE]
  /\ UNCHANGED <<queue, at, job, threads_active, server, main, world>>

JoinThreads ==
  /\ \A t \in Threads : stop_requested[t] /\ at[t] = "off"
  /\ MainGoes("request", "threads stopped")
  /\ threads_active' = FALSE
  /\ UNCHANGED <<queue, threads, server, world>>

\* The shutdown hooks and saveMeta under the environment lock, then
\* Server::stop asks the server thread to end.
StopServerThread ==
  /\ ~EnvLocked
  /\ MainGoes("threads stopped", "stop server")
  /\ UNCHANGED <<queue, threads, threads_active, server, world>>

DeleteEnvironment ==
  /\ server.doing = "ended"
  /\ MainGoes("stop server", "delete emerge")
  /\ UNCHANGED <<queue, threads, threads_active, server, world>>

\* ~EmergeManager stops the threads again if they are marked active.
DeleteEmergeManager ==
  /\ threads_active => \A t \in Threads : stop_requested[t] /\ at[t] = "off"
  /\ MainGoes("delete emerge", "done")
  /\ UNCHANGED <<queue, threads, threads_active, server, world>>

-----------------------------------------------------------------------------
ThreadStep(t) ==
  \/ Leave(t) \/ PopBlock(t) \/ FindEmpty(t) \/ Wake(t)
  \/ GetBlock(t) \/ StartGen(t) \/ Cancel(t) \/ LoadFails(t)
  \/ FinishGen(t) \/ RunCallback(t) \/ AnnounceBlocks(t)

ServerStep == EmergeAreaNext \/ Signal \/ StartThreads \/ ThreadsStarted \/ ServerThreadEnds

MainStep ==
  \/ \E t \in Threads : RequestStop(t)
  \/ JoinThreads \/ StopServerThread \/ DeleteEnvironment \/ DeleteEmergeManager

Next ==
  \/ \E pos \in Positions, peer \in Requesters, gen \in BOOLEAN : Request(pos, peer, gen)
  \/ \E area \in Areas : EmergeArea(area)
  \/ ServerStep
  \/ \E t \in Threads : ThreadStep(t)
  \/ Shutdown
  \/ MainStep

Spec == Init /\ [][Next]_vars

\* Every emerge thread keeps running and gets the locks it tries for.  The
\* server thread goes on handling requests but finds time for startThreads,
\* which its step calls every two seconds.
FairSpec ==
  /\ Spec
  /\ WF_vars(EmergeAreaNext \/ Signal \/ ThreadsStarted)
  /\ SF_vars(StartThreads)
  /\ SF_vars(ServerThreadEnds)
  /\ \A t \in Threads : SF_vars(ThreadStep(t))
  /\ WF_vars(MainStep)

-----------------------------------------------------------------------------
Jobs == [pos : Positions \cup {Nobody}, gen : BOOLEAN, callbacks : Seq(Areas),
         modified : SUBSET Positions]
Doings == [doing : {"idle", "area", "signal", "starting", "ended"},
           area : Areas \cup {Nobody}, left : Seq(Positions),
           thread : Threads \cup {Nobody}]
Working == {"fetch", "generate", "callbacks"}

QueueType ==
  /\ DOMAIN blocks_enqueued \subseteq Positions
  /\ blocks_enqueued \in [DOMAIN blocks_enqueued -> Entry]
  /\ peer_queue_count \in [Requesters -> Int]
  /\ block_queue \in [Threads -> Seq(Positions)]

ThreadsType ==
  /\ notified \in [Threads -> BOOLEAN]
  /\ stop_requested \in [Threads -> BOOLEAN]
  /\ at \in [Threads -> {"off", "head", "wait"} \cup Working]
  /\ job \in [Threads -> Jobs]
  /\ \A t \in Threads : at[t] \in Working => job[t].pos \in Positions

ServerType ==
  /\ server \in Doings
  /\ server.doing = "signal" <=> server.thread \in Threads
  /\ server.doing = "area" => server.area \in Areas
  /\ server.doing \notin {"area", "signal"} => server.area = Nobody
  /\ threads_active \in BOOLEAN
  /\ main \in {"running", "request", "threads stopped", "stop server",
                "delete emerge", "done"}

WorldType ==
  /\ where \in [Positions -> {"absent", "ungenerated", "disk", "memory"}]
  /\ in_progress \subseteq {ChunkOf(p) : p \in Positions}
  /\ refcount \in [Areas -> Int]
  /\ asked \subseteq Areas /\ not_sent \subseteq Positions
  /\ fatal \in BOOLEAN

\* Types; and what the server thread and the emerge threads have in hand is
\* what their next step needs: the environment is locked for an emerge_area
\* call only until it returns.
TypeOK == QueueType /\ ThreadsType /\ ServerType /\ WorldType

\* The map of entries and the queues of the threads are two views of the same
\* requests: popBlockEmergeData finds an entry for what a thread pops, and no
\* entry is left that no thread will pop.
QueuesMatch ==
  /\ \A t \in Threads : \A i \in 1..Len(block_queue[t]) :
        block_queue[t][i] \in DOMAIN blocks_enqueued
  /\ \A p \in DOMAIN blocks_enqueued :
        \E t \in Threads : \E i \in 1..Len(block_queue[t]) : block_queue[t][i] = p
  /\ \A t, u \in Threads : \A i \in 1..Len(block_queue[t]), j \in 1..Len(block_queue[u]) :
        block_queue[t][i] = block_queue[u][j] => t = u /\ i = j

\* A peer is charged for exactly the entries it caused, so that the count
\* never reaches below zero (the assertion of popBlockEmergeData) and never
\* keeps a peer from asking; and no client gets more than its limits, however
\* requests for the same block are merged.
ChargedFairly ==
  /\ \A r \in Requesters :
       peer_queue_count[r] = Cardinality({p \in DOMAIN blocks_enqueued : blocks_enqueued[p].peer = r})
  /\ \A r \in Peers :
       peer_queue_count[r] <= QLimitGenerate \/ peer_queue_count[r] <= QLimitDiskOnly
  /\ Cardinality({p \in DOMAIN blocks_enqueued : ~blocks_enqueued[p].force}) <= QLimitTotal

\* "calls_remaining is the number of callbacks to be expected after this one"
\* (doc/lua_api.txt:5287): the reference count of an emerge_area call is the
\* number of its callbacks that are still to run, wherever they are.  (A thread
\* that dies of a corrupt block takes its callbacks along, and the server.)
CallsRemaining == ~fatal =>
  \A a \in Areas :
    LET Has(callbacks) == \E i \in DOMAIN callbacks : callbacks[i] = a
    IN  refcount[a] = Cardinality({p \in DOMAIN blocks_enqueued : Has(blocks_enqueued[p].callbacks)})
                      + Cardinality({t \in Threads : Has(job[t].callbacks)})
                      + (IF server.area = a THEN Len(server.left) ELSE 0)

\* No lost wake-up: a thread that waits on its event although it has a block
\* queued, or is to stop, has been signalled or is about to be.
NoLostWakeup ==
  \A t \in Threads : at[t] = "wait" =>
    /\ block_queue[t] # <<>> => notified[t] \/ server.thread = t
    /\ stop_requested[t] => notified[t]

\* Two threads never generate the same chunk, at the same time or one after
\* the other.
ChunkMadeOnce ==
  \A t \in Threads : at[t] = "generate" =>
    /\ \A p \in Chunk(ChunkOf(job[t].pos)) : where[p] # "memory"
    /\ \A u \in Threads \ {t} : at[u] = "generate" => ChunkOf(job[u].pos) # ChunkOf(job[t].pos)

\* ~Server stops the emerge threads before the server thread and before it
\* deletes the environment they use ("Do this before stopping the server in
\* case mapgen callbacks need to access server-controlled resources",
\* server.cpp:323): they do not run any more after that.
StoppedForGood ==
  main \in {"threads stopped", "stop server", "delete emerge", "done"} =>
    \A t \in Threads : at[t] = "off"

\* Every queued block is taken up by its thread, unless the thread has died or
\* the server shuts down.
EveryRequestIsServed ==
  \A p \in Positions :
    p \in DOMAIN blocks_enqueued ~>
      (p \notin DOMAIN blocks_enqueued \/ fatal \/ main # "running")

\* A block that a thread made available is announced to the clients, or the
\* thread still has it in hand, even if the threads are asked to stop.
AvailableIsAnnounced ==
  \A p \in Positions : where[p] = "memory" =>
    p \in not_sent \/ \E t \in Threads : p \in job[t].modified

\* stopThreads comes back: every thread sees the request and ends, one that
\* waits for work as well.
StopComesBack == main = "request" ~> main # "request"

=============================================================================
