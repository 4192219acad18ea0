-------------------------- MODULE EmergeQueueProofs --------------------------
(***************************************************************************)
(* Theorems about EmergeQueue, for any numbers of threads, blocks, peers,  *)
(* limits and emerge_area calls: types; the map of entries and the queues  *)
(* of the threads agree; no wake-up is lost; no chunk is made twice; what  *)
(* is made is announced; charges and counts of callbacks are right.        *)
(***************************************************************************)
EXTENDS EmergeQueue, FiniteSetTheorems, WellFoundedInduction, TLAPS

(* The assumptions, one by one. *)
LEMMA Assumptions ==
  /\ NThreads \in Nat \ {0}
  /\ Threads \subseteq Nat /\ 1 \in Threads
  /\ Nobody \notin Areas /\ Nobody \notin Positions /\ Nobody \notin Threads
  /\ \A a \in Areas : AreaOf(a) \in Seq(Positions)
<1>1. NThreads \in Nat \ {0}
  BY LimitsAssumption
<1>2. Threads \subseteq Nat /\ 1 \in Threads
  BY <1>1 DEF Threads
<1>3. Nobody \notin Areas /\ Nobody \notin Positions /\ Nobody \notin Threads
  BY LimitsAssumption, Zenon DEF Threads
<1>4. \A a \in Areas : AreaOf(a) \in Seq(Positions)
  BY LimitsAssumption, Zenon
<1>. QED  BY <1>1, <1>2, <1>3, <1>4

-----------------------------------------------------------------------------
(* Facts about sequences, and the choice of a thread *)

LEMMA AppendFacts ==
  ASSUME NEW S, NEW q \in Seq(S), NEW x \in S
  PROVE  /\ Append(q, x) \in Seq(S)
         /\ Len(Append(q, x)) = Len(q) + 1
         /\ \A i \in 1..Len(q) : Append(q, x)[i] = q[i]
         /\ Append(q, x)[Len(q) + 1] = x
OBVIOUS

LEMMA TailFacts ==
  ASSUME NEW S, NEW q \in Seq(S), q # <<>>
  PROVE  /\ Tail(q) \in Seq(S) /\ Head(q) \in S
         /\ Len(q) \in Nat \ {0} /\ Len(Tail(q)) = Len(q) - 1
         /\ \A i \in 1..Len(Tail(q)) : Tail(q)[i] = q[i + 1]
         /\ Head(q) = q[1]
OBVIOUS

LEMMA MinimumExists ==
  ASSUME NEW T \in SUBSET Nat, T # {}
  PROVE  \E x \in T : \A y \in T : x <= y
<1>1. PICK x \in T : \A y \in T : ~(<<y, x>> \in OpToRel(<, Nat))
  BY NatLessThanWellFounded, WFMin
<1>2. \A y \in T : ~(y < x)
  BY <1>1 DEF OpToRel
<1>. QED  BY <1>2

(* getOptimalThread finds a thread, whatever the queues hold. *)
LEMMA OptimalThreadType ==
  ASSUME block_queue \in [Threads -> Seq(Positions)]
  PROVE  OptimalThread \in Threads
<1>. DEFINE Lengths == {Len(block_queue[t]) : t \in Threads}
<1>. \A t \in Threads : Len(block_queue[t]) \in Nat
  OBVIOUS
<1>1. Lengths \in SUBSET Nat /\ Lengths # {}
  <2>1. Len(block_queue[1]) \in Lengths
    BY Assumptions
  <2>. QED  BY <2>1
<1>2. PICK n \in Lengths : \A m \in Lengths : n <= m
  BY <1>1, MinimumExists
<1>. DEFINE Shortest == {t \in Threads : Len(block_queue[t]) = n}
<1>3. Shortest \in SUBSET Nat /\ Shortest # {}
  BY <1>2, Assumptions
<1>4. PICK t \in Shortest : \A u \in Shortest : t <= u
  BY <1>3, MinimumExists
<1>5. \A u \in Threads :
        \/ Len(block_queue[t]) < Len(block_queue[u])
        \/ Len(block_queue[t]) = Len(block_queue[u]) /\ t <= u
  <2>1. t \in Threads /\ Len(block_queue[t]) = n /\ n \in Nat
    BY <1>1, <1>4
  <2>. SUFFICES ASSUME NEW u \in Threads
                PROVE  \/ Len(block_queue[t]) < Len(block_queue[u])
                       \/ Len(block_queue[t]) = Len(block_queue[u]) /\ t <= u
    OBVIOUS
  <2>2. n <= Len(block_queue[u]) /\ Len(block_queue[u]) \in Nat
    BY <1>2
  <2>3. Len(block_queue[u]) = n => t <= u
    BY <1>4
  <2>. QED  BY <2>1, <2>2, <2>3
<1>. QED  BY <1>4, <1>5 DEF OptimalThread

-----------------------------------------------------------------------------
(* Types *)

LEMMA EnqueueType ==
  ASSUME QueueType,
         NEW pos \in Positions, NEW peer \in Requesters, NEW gen \in BOOLEAN,
         NEW force \in BOOLEAN, NEW callbacks \in Seq(Areas), NEW next,
         Enqueue(pos, peer, gen, force, callbacks, next)
  PROVE  QueueType'
<1>1. CASE pos \in DOMAIN blocks_enqueued
  <2>1. blocks_enqueued[pos] \in Entry
    BY <1>1 DEF QueueType
  <2>2. blocks_enqueued[pos].callbacks \o callbacks \in Seq(Areas)
    BY <2>1 DEF Entry
  <2>3. [blocks_enqueued[pos] EXCEPT !.gen = @ \/ gen, !.force = @ \/ force,
                                     !.callbacks = @ \o callbacks] \in Entry
    BY <2>1, <2>2 DEF Entry
  <2>4. blocks_enqueued' = [blocks_enqueued EXCEPT
            ![pos] = [blocks_enqueued[pos] EXCEPT !.gen = @ \/ gen, !.force = @ \/ force,
                                     !.callbacks = @ \o callbacks]]
    BY <1>1 DEF Enqueue, pushBlockEmergeData
  <2>. QED  BY <1>1, <2>3, <2>4 DEF QueueType, Enqueue, pushBlockEmergeData
<1>2. CASE pos \notin DOMAIN blocks_enqueued
  <2>. DEFINE new == [peer |-> peer, gen |-> gen, force |-> force, callbacks |-> callbacks]
  <2>1. new \in Entry
    BY DEF Entry
  <2>2. blocks_enqueued' = With(blocks_enqueued, pos, new)
    BY <1>2 DEF Enqueue, pushBlockEmergeData
  <2>3. /\ DOMAIN blocks_enqueued' = DOMAIN blocks_enqueued \cup {pos}
        /\ blocks_enqueued' \in [DOMAIN blocks_enqueued' -> Entry]
    BY <2>1, <2>2 DEF With, QueueType
  <2>4. OptimalThread \in Threads
    BY OptimalThreadType DEF QueueType
  <2>5. block_queue' \in [Threads -> Seq(Positions)]
    <3>1. block_queue' = [block_queue EXCEPT ![OptimalThread] = Append(@, pos)]
      BY <1>2 DEF Enqueue
    <3>. QED  BY <2>4, <3>1, AppendFacts DEF QueueType
  <2>6. peer_queue_count' \in [Requesters -> Int]
    <3>1. peer_queue_count' = [peer_queue_count EXCEPT ![peer] = @ + 1]
      BY <1>2 DEF Enqueue, pushBlockEmergeData
    <3>2. peer_queue_count \in [Requesters -> Int]
      BY DEF QueueType
    <3>. QED  BY <3>1, <3>2
  <2>. QED  BY <2>3, <2>5, <2>6 DEF QueueType
<1>. QED  BY <1>1, <1>2


(* popBlockEmerge finds an entry for the position at the head of the queue. *)
LEMMA PopFinds ==
  ASSUME QueueType, QueuesMatch, NEW t \in Threads, block_queue[t] # <<>>
  PROVE  /\ Head(block_queue[t]) \in DOMAIN blocks_enqueued
         /\ Head(block_queue[t]) \in Positions
         /\ blocks_enqueued[Head(block_queue[t])] \in Entry
<1>1. block_queue[t] \in Seq(Positions)
  BY DEF QueueType
<1>2. Head(block_queue[t]) = block_queue[t][1] /\ 1 \in 1..Len(block_queue[t])
  BY <1>1, TailFacts
<1>3. Head(block_queue[t]) \in DOMAIN blocks_enqueued
  BY <1>2 DEF QueuesMatch
<1>. QED  BY <1>3 DEF QueueType

LEMMA QueueTypeStep ==
  ASSUME TypeOK, QueuesMatch, [Next]_vars
  PROVE  QueueType'
<1>. QueueType
  BY DEF TypeOK
<1>1. CASE UNCHANGED queue
  BY <1>1 DEF QueueType, queue
<1>2. ASSUME NEW pos \in Positions, NEW peer \in Requesters, NEW gen \in BOOLEAN,
             Request(pos, peer, gen)
      PROVE  QueueType'
  <2>1. Enqueue(pos, peer, gen, FALSE, <<>>, server)
    BY <1>2 DEF Request
  <2>2. <<>> \in Seq(Areas)
    OBVIOUS
  <2>. QED  BY <1>2, <2>1, <2>2, EnqueueType
<1>3. CASE EmergeAreaNext
  <2>1. server.left \in Seq(Positions) /\ server.area \in Areas
    BY <1>3 DEF EmergeAreaNext, TypeOK, ServerType, Doings
  <2>2. CASE server.left # <<>>
    <3>1. Enqueue(Head(server.left), NoPeer, TRUE, TRUE, <<server.area>>,
                  [server EXCEPT !.left = Tail(@)])
      BY <1>3, <2>2 DEF EmergeAreaNext
    <3>2. Head(server.left) \in Positions /\ <<server.area>> \in Seq(Areas) /\ NoPeer \in Requesters
      BY <2>1, <2>2, TailFacts DEF Requesters
    <3>. QED  BY <3>1, <3>2, EnqueueType
  <2>. QED  BY <1>1, <1>3, <2>2 DEF EmergeAreaNext
<1>4. ASSUME NEW t \in Threads, PopBlock(t)
      PROVE  QueueType'
  <2>. DEFINE pos == Head(block_queue[t])
  <2>1. /\ block_queue[t] # <<>>
        /\ block_queue' = [block_queue EXCEPT ![t] = Tail(@)]
        /\ blocks_enqueued' = Without(blocks_enqueued, pos)
        /\ peer_queue_count' = [peer_queue_count EXCEPT ![blocks_enqueued[pos].peer] = @ - 1]
    BY <1>4 DEF PopBlock
  <2>2. block_queue[t] \in Seq(Positions)
    BY DEF QueueType
  <2>3. block_queue' \in [Threads -> Seq(Positions)]
    BY <2>1, <2>2, TailFacts DEF QueueType
  <2>4. /\ DOMAIN blocks_enqueued' \subseteq Positions
        /\ blocks_enqueued' \in [DOMAIN blocks_enqueued' -> Entry]
    BY <2>1 DEF QueueType, Without
  <2>5. blocks_enqueued[pos].peer \in Requesters
    BY <2>1, PopFinds DEF Entry
  <2>6. peer_queue_count' \in [Requesters -> Int]
    <3>1. peer_queue_count \in [Requesters -> Int]
      BY DEF QueueType
    <3>. QED  BY <2>1, <2>5, <3>1
  <2>. QED  BY <2>3, <2>4, <2>6 DEF QueueType
<1>5. ASSUME NEW t \in Threads, ThreadStep(t), ~PopBlock(t)
      PROVE  UNCHANGED queue
  BY <1>5 DEF ThreadStep, Leave, FindEmpty, Wake, GetBlock, StartGen, Cancel, LoadFails,
              FinishGen, RunCallback, AnnounceBlocks
<1>6. CASE ServerStep /\ ~EmergeAreaNext
  BY <1>1, <1>6 DEF ServerStep, Signal, StartThreads, ThreadsStarted, ServerThreadEnds
<1>7. CASE Shutdown \/ MainStep
  BY <1>1, <1>7 DEF Shutdown, MainStep, RequestStop, JoinThreads, StopServerThread,
                    DeleteEnvironment, DeleteEmergeManager
<1>8. ASSUME NEW area \in Areas, EmergeArea(area)
      PROVE  UNCHANGED queue
  BY <1>8 DEF EmergeArea
<1>9. CASE UNCHANGED vars
  BY <1>1, <1>9 DEF vars
<1>. QED  BY <1>1, <1>2, <1>3, <1>4, <1>5, <1>6, <1>7, <1>8, <1>9 DEF Next

LEMMA ThreadsTypeStep ==
  ASSUME TypeOK, QueuesMatch, [Next]_vars
  PROVE  ThreadsType'
<1>. ThreadsType /\ QueueType
  BY DEF TypeOK
<1>1. CASE UNCHANGED threads
  BY <1>1 DEF ThreadsType, threads
<1>2. ASSUME NEW t \in Threads, ThreadStep(t)
      PROVE  ThreadsType'
  <2>1. ASSUME NEW s \in {"off", "head", "wait"}, at' = [at EXCEPT ![t] = s],
               UNCHANGED <<job, stop_requested>>, notified' \in [Threads -> BOOLEAN]
        PROVE  ThreadsType'
    BY <2>1 DEF ThreadsType, Working
  <2>2. ASSUME NEW s \in {"off", "head", "wait"}, NEW j \in Jobs,
               at' = [at EXCEPT ![t] = s], job' = [job EXCEPT ![t] = j],
               UNCHANGED <<notified, stop_requested>>
        PROVE  ThreadsType'
    BY <2>2 DEF ThreadsType, Working
  <2>3. ASSUME NEW s \in Working, NEW j \in Jobs, j.pos \in Positions,
               at' = [at EXCEPT ![t] = s], job' = [job EXCEPT ![t] = j],
               UNCHANGED <<notified, stop_requested>>
        PROVE  ThreadsType'
    BY <2>3 DEF ThreadsType
  <2>4. NoJob \in Jobs
    BY DEF NoJob, Jobs
  <2>5. CASE Leave(t)
    BY <2>1, <2>5 DEF Leave, ThreadsType
  <2>6. CASE FindEmpty(t)
    BY <2>1, <2>6 DEF FindEmpty, ThreadsType
  <2>7. CASE Wake(t)
    <3>1. notified' \in [Threads -> BOOLEAN]
      BY <2>7 DEF Wake, ThreadsType
    <3>. QED  BY <2>1, <2>7, <3>1 DEF Wake
  <2>8. CASE PopBlock(t)
    <3>. DEFINE pos == Head(block_queue[t])
                j == [NoJob EXCEPT !.pos = pos, !.gen = blocks_enqueued[pos].gen,
                                   !.callbacks = blocks_enqueued[pos].callbacks]
    <3>1. block_queue[t] # <<>>
      BY <2>8 DEF PopBlock
    <3>2. pos \in Positions /\ blocks_enqueued[pos] \in Entry
      BY <3>1, PopFinds
    <3>3. j \in Jobs /\ j.pos \in Positions
      BY <3>2 DEF Jobs, NoJob, Entry
    <3>4. CASE pos \in OverLimit
      BY <1>1, <2>8, <3>4 DEF PopBlock, threads
    <3>5. CASE pos \notin OverLimit
      <4>1. at' = [at EXCEPT ![t] = "fetch"] /\ job' = [job EXCEPT ![t] = j]
        BY <2>8, <3>5 DEF PopBlock
      <4>2. UNCHANGED <<notified, stop_requested>> /\ "fetch" \in Working
        BY <2>8 DEF PopBlock, Working
      <4>. HIDE DEF j, pos
      <4>. QED  BY <2>3, <3>3, <4>1, <4>2
    <3>. QED  BY <3>4, <3>5
  <2>9. ASSUME at[t] \in Working, NEW b \in SUBSET Positions
        PROVE  /\ [job[t] EXCEPT !.modified = b] \in Jobs
               /\ [job[t] EXCEPT !.modified = b].pos \in Positions
    BY <2>9 DEF ThreadsType, Jobs
  <2>10. ASSUME at[t] \in Working, NEW b \in SUBSET Positions,
                at' = [at EXCEPT ![t] = "callbacks"],
                job' = [job EXCEPT ![t].modified = b], UNCHANGED <<notified, stop_requested>>
         PROVE  ThreadsType'
    <3>. DEFINE j == [job[t] EXCEPT !.modified = b]
    <3>1. j \in Jobs /\ j.pos \in Positions
      BY <2>9, <2>10
    <3>2. job' = [job EXCEPT ![t] = j] /\ "callbacks" \in Working
      BY <2>10 DEF Working
    <3>. HIDE DEF j
    <3>. QED  BY <2>3, <2>10, <3>1, <3>2
  <2>11. CASE GetBlock(t)
    <3>1. at[t] \in Working /\ job[t].pos \in Positions
      BY <2>11 DEF GetBlock, Working, ThreadsType
    <3>. QED  BY <2>10, <2>11, <3>1 DEF GetBlock
  <2>12. CASE Cancel(t)
    <3>1. at[t] \in Working /\ job[t].pos \in Positions
      BY <2>12 DEF Cancel, Working, ThreadsType
    <3>. DEFINE b == IF where[job[t].pos] = "absent" THEN {} ELSE {job[t].pos}
    <3>2. b \in SUBSET Positions
      BY <3>1
    <3>3. /\ at' = [at EXCEPT ![t] = "callbacks"]
          /\ job' = [job EXCEPT ![t].modified = b]
          /\ UNCHANGED <<notified, stop_requested>>
      BY <2>12 DEF Cancel
    <3>. HIDE DEF b
    <3>. QED  BY <2>10, <3>1, <3>2, <3>3
  <2>13. CASE FinishGen(t)
    <3>1. at[t] \in Working
      BY <2>13 DEF FinishGen, Working
    <3>2. Chunk(ChunkOf(job[t].pos)) \in SUBSET Positions
      BY DEF Chunk
    <3>. QED  BY <2>10, <2>13, <3>1, <3>2 DEF FinishGen
  <2>14. CASE StartGen(t)
    <3>1. at[t] \in Working /\ job[t] \in Jobs /\ job[t].pos \in Positions
      BY <2>14 DEF StartGen, Working, ThreadsType
    <3>2. job' = [job EXCEPT ![t] = job[t]] /\ "generate" \in Working
      BY <2>14 DEF StartGen, ThreadsType, Working
    <3>. QED  BY <2>3, <2>14, <3>1, <3>2 DEF StartGen
  <2>15. CASE LoadFails(t)
    BY <2>2, <2>4, <2>15 DEF LoadFails
  <2>16. CASE AnnounceBlocks(t)
    BY <2>2, <2>4, <2>16 DEF AnnounceBlocks
  <2>17. CASE RunCallback(t)
    <3>. DEFINE j == [job[t] EXCEPT !.callbacks = Tail(@)]
    <3>1. at[t] \in Working /\ job[t] \in Jobs /\ job[t].pos \in Positions
      BY <2>17 DEF RunCallback, Working, ThreadsType
    <3>2. Tail(job[t].callbacks) \in Seq(Areas)
      BY <2>17, <3>1, TailFacts DEF RunCallback, Jobs
    <3>3. j \in Jobs /\ j.pos \in Positions
      BY <3>1, <3>2 DEF Jobs
    <3>4. job' = [job EXCEPT ![t] = j] /\ at' = [at EXCEPT ![t] = at[t]]
      BY <2>17 DEF RunCallback, ThreadsType
    <3>. HIDE DEF j
    <3>. QED  BY <2>3, <2>17, <3>1, <3>3, <3>4 DEF RunCallback
  <2>. QED  BY <1>2, <2>5, <2>6, <2>7, <2>8, <2>11, <2>12, <2>13, <2>14, <2>15, <2>16, <2>17
            DEF ThreadStep
<1>3. CASE Signal
  <2>1. notified' \in [Threads -> BOOLEAN]
    BY <1>3 DEF Signal, ThreadsType
  <2>. QED  BY <1>3, <2>1 DEF Signal, ThreadsType
<1>4. CASE StartThreads
  <2>1. at' \in [Threads -> {"off", "head", "wait"} \cup Working]
    BY <1>4 DEF StartThreads, ThreadsType
  <2>2. stop_requested' \in [Threads -> BOOLEAN]
    BY <1>4 DEF StartThreads, ThreadsType
  <2>3. \A t \in Threads : at'[t] \in Working => job'[t].pos \in Positions
    BY <1>4 DEF StartThreads, ThreadsType, Working
  <2>. QED  BY <1>4, <2>1, <2>2, <2>3 DEF StartThreads, ThreadsType
<1>5. ASSUME NEW t \in Threads, RequestStop(t)
      PROVE  ThreadsType'
  <2>1. notified' \in [Threads -> BOOLEAN] /\ stop_requested' \in [Threads -> BOOLEAN]
    BY <1>5 DEF RequestStop, ThreadsType
  <2>. QED  BY <1>5, <2>1 DEF RequestStop, ThreadsType
<1>6. CASE EmergeAreaNext \/ ThreadsStarted \/ ServerThreadEnds
  BY <1>1, <1>6 DEF EmergeAreaNext, ThreadsStarted, ServerThreadEnds
<1>7. CASE Shutdown \/ JoinThreads \/ StopServerThread \/ DeleteEnvironment \/ DeleteEmergeManager
  BY <1>1, <1>7 DEF Shutdown, JoinThreads, StopServerThread, DeleteEnvironment, DeleteEmergeManager
<1>8. ASSUME NEW area \in Areas, EmergeArea(area)
      PROVE  ThreadsType'
  BY <1>1, <1>8 DEF EmergeArea
<1>9. ASSUME NEW pos \in Positions, NEW peer \in Requesters, NEW gen \in BOOLEAN,
             Request(pos, peer, gen)
      PROVE  ThreadsType'
  BY <1>1, <1>9 DEF Request
<1>10. CASE UNCHANGED vars
  BY <1>1, <1>10 DEF vars
<1>. QED  BY <1>2, <1>3, <1>4, <1>5, <1>6, <1>7, <1>8, <1>9, <1>10 DEF Next, ServerStep, MainStep

LEMMA IdleType ==
  /\ Idle \in Doings
  /\ Idle.doing = "idle" /\ Idle.area = Nobody /\ Idle.thread \notin Threads
<1>1. <<>> \in Seq(Positions)
  OBVIOUS
<1>. QED  BY <1>1, Assumptions DEF Idle, Doings

LEMMA ServerTypeStep ==
  ASSUME TypeOK, [Next]_vars
  PROVE  ServerType'
<1>. ServerType /\ QueueType
  BY DEF TypeOK
<1>. server \in Doings
  BY DEF ServerType
<1>1. CASE UNCHANGED <<server, threads_active, main>>
  BY <1>1 DEF ServerType
<1>2. ASSUME NEW next \in Doings, next.thread \notin Threads,
             \/ next.doing = "idle" /\ next.area = Nobody
             \/ next.doing = "area" /\ next.area \in Areas,
             \/ server' = next
             \/ server' = [next EXCEPT !.doing = "signal", !.thread = OptimalThread],
             UNCHANGED <<threads_active, main>>
      PROVE  ServerType'
  <2>1. CASE server' = next
    BY <1>2, <2>1 DEF ServerType
  <2>2. CASE server' = [next EXCEPT !.doing = "signal", !.thread = OptimalThread]
    <3>1. OptimalThread \in Threads
      BY OptimalThreadType DEF QueueType
    <3>. QED  BY <1>2, <2>2, <3>1 DEF ServerType, Doings
  <2>. QED  BY <1>2, <2>1, <2>2
<1>3. ASSUME NEW pos \in Positions, NEW peer \in Requesters, NEW gen \in BOOLEAN,
             Request(pos, peer, gen)
      PROVE  ServerType'
  <2>1. server.doing = "idle" /\ server.area = Nobody /\ server.thread \notin Threads
    BY <1>3 DEF Request, ServerType
  <2>2. \/ server' = server
        \/ server' = [server EXCEPT !.doing = "signal", !.thread = OptimalThread]
    BY <1>3 DEF Request, Enqueue
  <2>3. UNCHANGED <<threads_active, main>>
    BY <1>3 DEF Request
  <2>. QED  BY <1>2, <2>1, <2>2, <2>3
<1>4. CASE EmergeAreaNext
  <2>1. server.doing = "area" /\ server.area \in Areas /\ server.thread \notin Threads
    BY <1>4 DEF EmergeAreaNext, ServerType
  <2>2. CASE server.left = <<>>
    <3>1. server' = Idle /\ UNCHANGED <<threads_active, main>>
      BY <1>4, <2>2 DEF EmergeAreaNext
    <3>. QED  BY <3>1, IdleType DEF ServerType
  <2>3. CASE server.left # <<>>
    <3>1. Head(server.left) \in Positions /\ Tail(server.left) \in Seq(Positions)
      BY <2>3, TailFacts DEF Doings
    <3>. DEFINE next == [server EXCEPT !.left = Tail(@)]
    <3>2. /\ next \in Doings /\ next.area \in Areas /\ next.thread \notin Threads
          /\ next.doing = "area"
      BY <2>1, <3>1 DEF Doings
    <3>3. \/ server' = next
          \/ server' = [next EXCEPT !.doing = "signal", !.thread = OptimalThread]
      BY <1>4, <2>3 DEF EmergeAreaNext, Enqueue
    <3>4. UNCHANGED <<threads_active, main>>
      BY <1>4 DEF EmergeAreaNext
    <3>. HIDE DEF next
    <3>. QED  BY <1>2, <3>2, <3>3, <3>4
  <2>. QED  BY <2>2, <2>3
<1>5. CASE Signal
  <2>1. CASE server.area = Nobody
    <3>1. server' = Idle /\ UNCHANGED <<threads_active, main>>
      BY <1>5, <2>1 DEF Signal
    <3>. QED  BY <3>1, IdleType DEF ServerType
  <2>2. CASE server.area # Nobody
    <3>1. /\ server' = [server EXCEPT !.doing = "area", !.thread = Nobody]
          /\ UNCHANGED <<threads_active, main>>
      BY <1>5, <2>2 DEF Signal
    <3>. QED  BY <2>2, <3>1, Assumptions DEF ServerType, Doings
  <2>. QED  BY <2>1, <2>2
<1>6. CASE StartThreads \/ ThreadsStarted \/ ServerThreadEnds
  <2>1. CASE ThreadsStarted
    <3>1. server' = Idle /\ threads_active' = TRUE /\ main' = main
      BY <2>1 DEF ThreadsStarted
    <3>. QED  BY <3>1, IdleType DEF ServerType
  <2>2. CASE StartThreads \/ ServerThreadEnds
    <3>1. PICK d \in {"starting", "ended"} : server' = [server EXCEPT !.doing = d]
      BY <2>2 DEF StartThreads, ServerThreadEnds
    <3>2. server.doing = "idle" /\ UNCHANGED <<threads_active, main>>
      BY <2>2 DEF StartThreads, ServerThreadEnds
    <3>. QED  BY <3>1, <3>2 DEF ServerType, Doings
  <2>. QED  BY <1>6, <2>1, <2>2
<1>7. ASSUME NEW area \in Areas, EmergeArea(area)
      PROVE  ServerType'
  <2>1. AreaOf(area) \in Seq(Positions)
    BY Assumptions
  <2>. QED  BY <1>7, <2>1 DEF EmergeArea, ServerType, Doings
<1>8. ASSUME NEW t \in Threads, ThreadStep(t)
      PROVE  ServerType'
  BY <1>1, <1>8 DEF ThreadStep, Leave, PopBlock, FindEmpty, Wake, GetBlock, StartGen, Cancel,
                    LoadFails, FinishGen, RunCallback, AnnounceBlocks
<1>9. CASE Shutdown \/ MainStep
  BY <1>9 DEF Shutdown, MainStep, RequestStop, JoinThreads, StopServerThread, DeleteEnvironment,
              DeleteEmergeManager, MainGoes, ServerType
<1>10. CASE UNCHANGED vars
  BY <1>1, <1>10 DEF vars
<1>. QED  BY <1>3, <1>4, <1>5, <1>6, <1>7, <1>8, <1>9, <1>10 DEF Next, ServerStep

LEMMA WorldTypeStep ==
  ASSUME TypeOK, [Next]_vars
  PROVE  WorldType'
<1>. WorldType /\ ThreadsType
  BY DEF TypeOK
<1>1. CASE UNCHANGED world
  BY <1>1 DEF WorldType, world
<1>2. ASSUME NEW area \in Areas, EmergeArea(area)
      PROVE  WorldType'
  <2>1. AreaOf(area) \in Seq(Positions)
    BY Assumptions
  <2>2. Len(AreaOf(area)) \in Int
    BY <2>1
  <2>. QED  BY <1>2, <2>2 DEF EmergeArea, WorldType
<1>3. ASSUME NEW t \in Threads, ThreadStep(t)
      PROVE  WorldType'
  <2>1. CASE at[t] \notin Working
    BY <1>1, <1>3, <2>1 DEF ThreadStep, Leave, PopBlock, FindEmpty, Wake, GetBlock, StartGen,
         Cancel, LoadFails, FinishGen, RunCallback, AnnounceBlocks, Working, world
  <2>2. CASE at[t] \in Working
    <3>1. job[t] \in Jobs /\ job[t].pos \in Positions
      BY <2>2 DEF ThreadsType
    <3>2. job[t].modified \subseteq Positions /\ job[t].callbacks \in Seq(Areas)
      BY <3>1 DEF Jobs
    <3>3. ChunkOf(job[t].pos) \in {ChunkOf(p) : p \in Positions}
      BY <3>1
    <3>4. CASE GetBlock(t)
      BY <3>4 DEF GetBlock, WorldType
    <3>5. CASE StartGen(t)
      BY <3>3, <3>5 DEF StartGen, WorldType
    <3>6. CASE Cancel(t)
      BY <1>1, <3>6 DEF Cancel
    <3>7. CASE LoadFails(t)
      BY <3>7 DEF LoadFails, WorldType
    <3>8. CASE FinishGen(t)
      BY <3>8 DEF FinishGen, WorldType
    <3>9. CASE RunCallback(t)
      <4>1. Head(job[t].callbacks) \in Areas
        BY <3>2, <3>9, TailFacts DEF RunCallback
      <4>. QED  BY <3>9, <4>1 DEF RunCallback, WorldType
    <3>10. CASE AnnounceBlocks(t)
      BY <3>2, <3>10 DEF AnnounceBlocks, WorldType
    <3>. QED  BY <1>3, <2>2, <3>4, <3>5, <3>6, <3>7, <3>8, <3>9, <3>10
              DEF ThreadStep, Leave, PopBlock, FindEmpty, Wake, Working
  <2>. QED  BY <2>1, <2>2
<1>4. ASSUME NEW pos \in Positions, NEW peer \in Requesters, NEW gen \in BOOLEAN,
             Request(pos, peer, gen)
      PROVE  WorldType'
  BY <1>1, <1>4 DEF Request
<1>5. CASE ServerStep
  BY <1>1, <1>5 DEF ServerStep, EmergeAreaNext, Signal, StartThreads, ThreadsStarted,
                    ServerThreadEnds
<1>6. CASE Shutdown \/ MainStep
  BY <1>1, <1>6 DEF Shutdown, MainStep, RequestStop, JoinThreads, StopServerThread,
                    DeleteEnvironment, DeleteEmergeManager, world
<1>7. CASE UNCHANGED vars
  BY <1>1, <1>7 DEF vars
<1>. QED  BY <1>2, <1>3, <1>4, <1>5, <1>6, <1>7 DEF Next

-----------------------------------------------------------------------------
(* The map of entries and the queues *)

LEMMA EnqueueMatches ==
  ASSUME QueueType, QueuesMatch, NEW pos \in Positions,
         \/ /\ DOMAIN blocks_enqueued' = DOMAIN blocks_enqueued
            /\ UNCHANGED block_queue
         \/ /\ pos \notin DOMAIN blocks_enqueued
            /\ DOMAIN blocks_enqueued' = DOMAIN blocks_enqueued \cup {pos}
            /\ block_queue' = [block_queue EXCEPT ![OptimalThread] = Append(@, pos)]
  PROVE  QueuesMatch'
<1>1. CASE /\ DOMAIN blocks_enqueued' = DOMAIN blocks_enqueued
           /\ UNCHANGED block_queue
  BY <1>1 DEF QueuesMatch
<1>2. CASE /\ pos \notin DOMAIN blocks_enqueued
           /\ DOMAIN blocks_enqueued' = DOMAIN blocks_enqueued \cup {pos}
           /\ block_queue' = [block_queue EXCEPT ![OptimalThread] = Append(@, pos)]
  <2>. DEFINE o == OptimalThread
              n == Len(block_queue[o]) + 1
  <2>1. o \in Threads /\ block_queue[o] \in Seq(Positions)
    BY OptimalThreadType DEF QueueType
  <2>2. block_queue'[o] = Append(block_queue[o], pos)
    BY <1>2, <2>1 DEF QueueType
  <2>3. /\ Len(block_queue'[o]) = n /\ block_queue'[o][n] = pos
        /\ \A i \in 1..Len(block_queue[o]) : block_queue'[o][i] = block_queue[o][i]
        /\ Len(block_queue[o]) \in Nat
    BY <2>1, <2>2, AppendFacts
  <2>4. \A t \in Threads : t # o => block_queue'[t] = block_queue[t]
    BY <1>2 DEF QueueType
  <2>. HIDE DEF o
  <2>5. ASSUME NEW t \in Threads, NEW i \in 1..Len(block_queue'[t])
        PROVE  \/ t = o /\ i = n /\ block_queue'[t][i] = pos
               \/ i \in 1..Len(block_queue[t]) /\ block_queue'[t][i] = block_queue[t][i]
    BY <2>3, <2>4
  <2>6. ASSUME NEW t \in Threads, NEW i \in 1..Len(block_queue[t])
        PROVE  block_queue[t][i] \in DOMAIN blocks_enqueued /\ block_queue[t][i] # pos
    BY <1>2 DEF QueuesMatch
  <2>. HIDE DEF n
  <2>7. \A t \in Threads : \A i \in 1..Len(block_queue'[t]) :
          block_queue'[t][i] \in DOMAIN blocks_enqueued'
    BY <1>2, <2>5, <2>6
  <2>8. ASSUME NEW p \in DOMAIN blocks_enqueued'
        PROVE  \E t \in Threads : \E i \in 1..Len(block_queue'[t]) : block_queue'[t][i] = p
    <3>1. CASE p = pos
      <4>1. n \in 1..Len(block_queue'[o])
        BY <2>3 DEF n
      <4>. QED  BY <2>1, <2>3, <3>1, <4>1
    <3>2. CASE p # pos
      <4>1. PICK t \in Threads : \E i \in 1..Len(block_queue[t]) : block_queue[t][i] = p
        BY <1>2, <3>2 DEF QueuesMatch
      <4>. PICK i \in 1..Len(block_queue[t]) : block_queue[t][i] = p
        BY <4>1
      <4>2. i \in 1..Len(block_queue'[t]) /\ block_queue'[t][i] = p
        BY <2>3, <2>4 DEF n
      <4>. QED  BY <4>2
    <3>. QED  BY <3>1, <3>2
  <2>9. ASSUME NEW t \in Threads, NEW u \in Threads,
               NEW i \in 1..Len(block_queue'[t]), NEW j \in 1..Len(block_queue'[u]),
               block_queue'[t][i] = block_queue'[u][j]
        PROVE  t = u /\ i = j
    <3>1. CASE t = o /\ i = n /\ block_queue'[t][i] = pos
      BY <2>5, <2>6, <2>9, <3>1
    <3>2. CASE i \in 1..Len(block_queue[t]) /\ block_queue'[t][i] = block_queue[t][i]
      <4>1. j \in 1..Len(block_queue[u]) /\ block_queue'[u][j] = block_queue[u][j]
        BY <2>5, <2>6, <2>9, <3>2
      <4>2. block_queue[t][i] = block_queue[u][j]
        BY <2>9, <3>2, <4>1
      <4>3. \A x \in 1..Len(block_queue[t]), y \in 1..Len(block_queue[u]) :
              block_queue[t][x] = block_queue[u][y] => t = u /\ x = y
        BY DEF QueuesMatch
      <4>. QED  BY <3>2, <4>1, <4>2, <4>3
    <3>. QED  BY <2>5, <3>1, <3>2
  <2>. QED  BY <2>7, <2>8, <2>9 DEF QueuesMatch
<1>. QED  BY <1>1, <1>2

LEMMA EnqueueShape ==
  ASSUME NEW pos, NEW peer, NEW gen, NEW force, NEW callbacks, NEW next,
         Enqueue(pos, peer, gen, force, callbacks, next)
  PROVE  \/ /\ DOMAIN blocks_enqueued' = DOMAIN blocks_enqueued
            /\ UNCHANGED block_queue
            /\ server' = next
         \/ /\ pos \notin DOMAIN blocks_enqueued
            /\ DOMAIN blocks_enqueued' = DOMAIN blocks_enqueued \cup {pos}
            /\ block_queue' = [block_queue EXCEPT ![OptimalThread] = Append(@, pos)]
            /\ server' = [next EXCEPT !.doing = "signal", !.thread = OptimalThread]
BY DEF Enqueue, pushBlockEmergeData, With

LEMMA PopMatches ==
  ASSUME QueueType, QueuesMatch, NEW t \in Threads, block_queue[t] # <<>>,
         block_queue' = [block_queue EXCEPT ![t] = Tail(@)],
         DOMAIN blocks_enqueued' = DOMAIN blocks_enqueued \ {Head(block_queue[t])}
  PROVE  QueuesMatch'
<1>. DEFINE pos == Head(block_queue[t])
            K(u, i) == IF u = t THEN i + 1 ELSE i
<1>1. block_queue[t] \in Seq(Positions)
  BY DEF QueueType
<1>2. /\ pos = block_queue[t][1] /\ 1 \in 1..Len(block_queue[t])
      /\ Len(block_queue[t]) \in Nat
      /\ block_queue'[t] = Tail(block_queue[t])
      /\ Len(block_queue'[t]) = Len(block_queue[t]) - 1
      /\ \A i \in 1..Len(block_queue'[t]) : block_queue'[t][i] = block_queue[t][i + 1]
  BY <1>1, TailFacts DEF QueueType
<1>3. \A u \in Threads : u # t => block_queue'[u] = block_queue[u]
  BY DEF QueueType
<1>. HIDE DEF pos
<1>4. ASSUME NEW u \in Threads, NEW i \in 1..Len(block_queue'[u])
      PROVE  /\ K(u, i) \in 1..Len(block_queue[u])
             /\ block_queue'[u][i] = block_queue[u][K(u, i)]
             /\ block_queue[u][K(u, i)] # pos
  <2>1. CASE u = t
    BY <1>2, <2>1 DEF QueuesMatch
  <2>2. CASE u # t
    BY <1>2, <1>3, <2>2 DEF QueuesMatch
  <2>. QED  BY <2>1, <2>2
<1>5. \A u \in Threads : \A i \in 1..Len(block_queue'[u]) :
        block_queue'[u][i] \in DOMAIN blocks_enqueued'
  BY <1>4 DEF QueuesMatch, pos
<1>6. ASSUME NEW p \in DOMAIN blocks_enqueued'
      PROVE  \E u \in Threads : \E i \in 1..Len(block_queue'[u]) : block_queue'[u][i] = p
  <2>1. p # pos
    BY DEF pos
  <2>2. PICK u \in Threads : \E i \in 1..Len(block_queue[u]) : block_queue[u][i] = p
    BY DEF QueuesMatch
  <2>. PICK i \in 1..Len(block_queue[u]) : block_queue[u][i] = p
    BY <2>2
  <2>3. CASE u = t
    <3>1. i - 1 \in 1..Len(block_queue'[t]) /\ block_queue'[t][i - 1] = p
      BY <1>2, <2>1, <2>2, <2>3
    <3>. QED  BY <3>1
  <2>4. CASE u # t
    BY <1>3, <2>4
  <2>. QED  BY <2>3, <2>4
<1>7. ASSUME NEW u \in Threads, NEW v \in Threads,
             NEW i \in 1..Len(block_queue'[u]), NEW j \in 1..Len(block_queue'[v]),
             block_queue'[u][i] = block_queue'[v][j]
      PROVE  u = v /\ i = j
  <2>1. u = v /\ K(u, i) = K(v, j)
    BY <1>4, <1>7 DEF QueuesMatch
  <2>. QED  BY <2>1
<1>. QED  BY <1>5, <1>6, <1>7 DEF QueuesMatch

LEMMA QueuesMatchStep ==
  ASSUME TypeOK, QueuesMatch, [Next]_vars
  PROVE  QueuesMatch'
<1>. QueueType
  BY DEF TypeOK
<1>1. CASE UNCHANGED queue
  BY <1>1 DEF QueuesMatch, queue
<1>2. ASSUME NEW pos \in Positions, NEW peer \in Requesters, NEW gen \in BOOLEAN,
             Request(pos, peer, gen)
      PROVE  QueuesMatch'
  <2>1. Enqueue(pos, peer, gen, FALSE, <<>>, server)
    BY <1>2 DEF Request
  <2>. QED  BY <2>1, EnqueueShape, EnqueueMatches
<1>3. CASE EmergeAreaNext
  <2>1. server.left \in Seq(Positions)
    BY DEF TypeOK, ServerType, Doings
  <2>2. CASE server.left # <<>>
    <3>1. Enqueue(Head(server.left), NoPeer, TRUE, TRUE, <<server.area>>,
                  [server EXCEPT !.left = Tail(@)])
      BY <1>3, <2>2 DEF EmergeAreaNext
    <3>2. Head(server.left) \in Positions
      BY <2>1, <2>2, TailFacts
    <3>. QED  BY <3>1, <3>2, EnqueueShape, EnqueueMatches
  <2>. QED  BY <1>1, <1>3, <2>2 DEF EmergeAreaNext
<1>4. ASSUME NEW t \in Threads, PopBlock(t)
      PROVE  QueuesMatch'
  <2>1. /\ block_queue[t] # <<>>
        /\ block_queue' = [block_queue EXCEPT ![t] = Tail(@)]
        /\ DOMAIN blocks_enqueued' = DOMAIN blocks_enqueued \ {Head(block_queue[t])}
    BY <1>4 DEF PopBlock, Without
  <2>. QED  BY <2>1, PopMatches
<1>5. ASSUME NEW t \in Threads, ThreadStep(t), ~PopBlock(t)
      PROVE  UNCHANGED queue
  BY <1>5 DEF ThreadStep, Leave, FindEmpty, Wake, GetBlock, StartGen, Cancel, LoadFails,
              FinishGen, RunCallback, AnnounceBlocks
<1>6. CASE ServerStep /\ ~EmergeAreaNext
  BY <1>1, <1>6 DEF ServerStep, Signal, StartThreads, ThreadsStarted, ServerThreadEnds
<1>7. CASE Shutdown \/ MainStep
  BY <1>1, <1>7 DEF Shutdown, MainStep, RequestStop, JoinThreads, StopServerThread,
                    DeleteEnvironment, DeleteEmergeManager
<1>8. ASSUME NEW area \in Areas, EmergeArea(area)
      PROVE  UNCHANGED queue
  BY <1>8 DEF EmergeArea
<1>9. CASE UNCHANGED vars
  BY <1>1, <1>9 DEF vars
<1>. QED  BY <1>1, <1>2, <1>3, <1>4, <1>5, <1>6, <1>7, <1>8, <1>9 DEF Next

-----------------------------------------------------------------------------
(* No lost wake-up *)

LEMMA EnqueueWakes ==
  ASSUME TypeOK, NoLostWakeup, server.thread \notin Threads, UNCHANGED threads,
         \/ /\ UNCHANGED block_queue
            /\ server'.thread = server.thread
         \/ /\ \A t \in Threads : t # OptimalThread => block_queue'[t] = block_queue[t]
            /\ server'.thread = OptimalThread
  PROVE  NoLostWakeup'
BY DEF NoLostWakeup, threads, TypeOK, QueueType
LEMMA WakeupStep ==
  ASSUME TypeOK, NoLostWakeup, [Next]_vars
  PROVE  NoLostWakeup'
<1>. ThreadsType /\ QueueType /\ ServerType /\ server \in Doings
  BY DEF TypeOK, ServerType
<1>1. CASE UNCHANGED <<block_queue, at, notified, stop_requested>> /\ server'.thread = server.thread
  BY <1>1 DEF NoLostWakeup
<1>2. CASE /\ UNCHANGED <<block_queue, at, notified, stop_requested>>
           /\ server.doing # "signal"
  BY <1>2 DEF NoLostWakeup, ServerType
<1>3. ASSUME NEW pos \in Positions, NEW peer \in Requesters, NEW gen \in BOOLEAN,
             Request(pos, peer, gen)
      PROVE  NoLostWakeup'
  <2>1. Enqueue(pos, peer, gen, FALSE, <<>>, server)
    BY <1>3 DEF Request
  <2>2. server.thread \notin Threads /\ UNCHANGED threads
    BY <1>3 DEF Request, ServerType
  <2>3. \/ UNCHANGED block_queue /\ server' = server
        \/ /\ block_queue' = [block_queue EXCEPT ![OptimalThread] = Append(@, pos)]
           /\ server' = [server EXCEPT !.doing = "signal", !.thread = OptimalThread]
    BY <2>1, EnqueueShape
  <2>. QED  BY <2>2, <2>3, EnqueueWakes DEF QueueType, Doings
<1>4. CASE EmergeAreaNext
  <2>1. server.doing = "area" /\ server.thread \notin Threads /\ UNCHANGED threads
    BY <1>4 DEF EmergeAreaNext, ServerType
  <2>2. CASE server.left # <<>>
    <3>. DEFINE next == [server EXCEPT !.left = Tail(@)]
    <3>1. Enqueue(Head(server.left), NoPeer, TRUE, TRUE, <<server.area>>, next)
      BY <1>4, <2>2 DEF EmergeAreaNext
    <3>2. \/ UNCHANGED block_queue /\ server' = next
          \/ /\ block_queue' = [block_queue EXCEPT ![OptimalThread] = Append(@, Head(server.left))]
             /\ server' = [next EXCEPT !.doing = "signal", !.thread = OptimalThread]
      BY <3>1, EnqueueShape
    <3>. QED  BY <2>1, <3>2, EnqueueWakes DEF QueueType, Doings
  <2>. QED  BY <1>2, <1>4, <2>1, <2>2 DEF EmergeAreaNext, queue, threads
<1>5. CASE Signal
  BY <1>5 DEF Signal, NoLostWakeup, ThreadsType, queue
<1>6. CASE StartThreads
  <2>1. server'.thread = server.thread /\ UNCHANGED <<block_queue, notified>>
    BY <1>6 DEF StartThreads, Doings, queue
  <2>2. \A t \in Threads : /\ at'[t] = "wait" => at[t] = "wait"
                           /\ stop_requested'[t] => stop_requested[t]
    BY <1>6 DEF StartThreads
  <2>. QED  BY <2>1, <2>2 DEF NoLostWakeup
<1>7. CASE ThreadsStarted \/ ServerThreadEnds
  BY <1>2, <1>7 DEF ThreadsStarted, ServerThreadEnds, queue, threads
<1>8. ASSUME NEW area \in Areas, EmergeArea(area)
      PROVE  NoLostWakeup'
  BY <1>2, <1>8 DEF EmergeArea, queue, threads
<1>9. ASSUME NEW t \in Threads, ThreadStep(t)
      PROVE  NoLostWakeup'
  <2>1. CASE PopBlock(t)
    BY <1>9, <2>1 DEF PopBlock, NoLostWakeup, ThreadsType, QueueType
  <2>2. CASE FindEmpty(t)
    BY <1>9, <2>2 DEF FindEmpty, NoLostWakeup, ThreadsType, queue
  <2>3. CASE Wake(t)
    BY <1>9, <2>3 DEF Wake, NoLostWakeup, ThreadsType, queue
  <2>4. CASE ThreadStep(t) /\ ~PopBlock(t) /\ ~FindEmpty(t) /\ ~Wake(t)
    <3>1. UNCHANGED <<block_queue, notified, stop_requested, server>>
      BY <2>4 DEF ThreadStep, Leave, GetBlock, StartGen, Cancel, LoadFails, FinishGen, RunCallback,
                  AnnounceBlocks, queue
    <3>2. \A u \in Threads : at'[u] = "wait" => at[u] = "wait"
      BY <2>4 DEF ThreadStep, Leave, GetBlock, StartGen, Cancel, LoadFails, FinishGen, RunCallback,
                  AnnounceBlocks, ThreadsType
    <3>. QED  BY <3>1, <3>2 DEF NoLostWakeup
  <2>. QED  BY <1>9, <2>1, <2>2, <2>3, <2>4
<1>10. ASSUME NEW t \in Threads, RequestStop(t)
       PROVE  NoLostWakeup'
  BY <1>10 DEF RequestStop, NoLostWakeup, ThreadsType, queue
<1>11. CASE Shutdown \/ JoinThreads \/ StopServerThread \/ DeleteEnvironment \/ DeleteEmergeManager
  BY <1>1, <1>11 DEF Shutdown, JoinThreads, StopServerThread, DeleteEnvironment,
                     DeleteEmergeManager, queue, threads
<1>12. CASE UNCHANGED vars
  BY <1>1, <1>12 DEF vars, queue, threads
<1>. QED  BY <1>3, <1>4, <1>5, <1>6, <1>7, <1>8, <1>9, <1>10, <1>11, <1>12
          DEF Next, ServerStep, MainStep

-----------------------------------------------------------------------------
(* No chunk is made twice *)

Missing == {"absent", "ungenerated"}

\* A thread that generates has its chunk in m_chunks_in_progress and to itself.
OwnChunk ==
  \A t \in Threads : at[t] = "generate" =>
    /\ ChunkOf(job[t].pos) \in in_progress
    /\ where[job[t].pos] \in Missing
    /\ \A u \in Threads \ {t} : at[u] = "generate" => ChunkOf(job[u].pos) # ChunkOf(job[t].pos)

\* The blocks of a chunk are generated together.
WholeChunks ==
  \A p, q \in Positions : ChunkOf(p) = ChunkOf(q) => (where[p] \in Missing <=> where[q] \in Missing)

LEMMA GeneratingStays ==
  ASSUME OwnChunk, WholeChunks, UNCHANGED in_progress,
         \A u \in Threads : at'[u] = "generate" => at[u] = "generate" /\ job'[u].pos = job[u].pos,
         \A p \in Positions : where'[p] \in Missing <=> where[p] \in Missing,
         \A u \in Threads : at[u] = "generate" => job[u].pos \in Positions
  PROVE  OwnChunk' /\ WholeChunks'
BY DEF OwnChunk, WholeChunks

LEMMA ChunksStep ==
  ASSUME TypeOK, OwnChunk, WholeChunks, [Next]_vars
  PROVE  OwnChunk' /\ WholeChunks'
<1>. ThreadsType /\ WorldType
  BY DEF TypeOK
<1>0. \A u \in Threads : at[u] = "generate" => job[u].pos \in Positions
  BY DEF ThreadsType, Working
<1>1. CASE UNCHANGED <<at, job, where, in_progress>>
  BY <1>0, <1>1, GeneratingStays
<1>2. ASSUME NEW t \in Threads, ThreadStep(t)
      PROVE  OwnChunk' /\ WholeChunks'
  <2>1. CASE GetBlock(t)
    <3>1. where[job[t].pos] \notin Missing /\ job[t].pos \in Positions
      BY <2>1 DEF GetBlock, Missing, ThreadsType, Working
    <3>2. \A p \in Positions : where'[p] \in Missing <=> where[p] \in Missing
      BY <2>1, <3>1 DEF GetBlock, Missing, WorldType
    <3>3. \A u \in Threads : at'[u] = "generate" => at[u] = "generate" /\ job'[u].pos = job[u].pos
      BY <2>1 DEF GetBlock, ThreadsType
    <3>. QED  BY <1>0, <2>1, <3>2, <3>3, GeneratingStays DEF GetBlock
  <2>2. CASE StartGen(t)
    <3>. DEFINE c == ChunkOf(job[t].pos)
    <3>1. /\ job[t].pos \in Positions /\ where[job[t].pos] \in Missing
          /\ c \notin in_progress /\ in_progress' = in_progress \cup {c}
      BY <2>2 DEF StartGen, MayGenerate, Missing, ThreadsType, Working
    <3>2. at' = [at EXCEPT ![t] = "generate"] /\ UNCHANGED job
      BY <2>2 DEF StartGen
    <3>3. \A p \in Positions : where'[p] \in Missing <=> where[p] \in Missing
      BY <2>2 DEF StartGen, Missing, WorldType
    <3>4. \A u \in Threads : u # t /\ at'[u] = "generate" =>
            at[u] = "generate" /\ ChunkOf(job[u].pos) \in in_progress
      BY <3>2 DEF OwnChunk, ThreadsType
    <3>. HIDE DEF c
    <3>5. ASSUME NEW u \in Threads, at'[u] = "generate"
          PROVE  ChunkOf(job'[u].pos) \in in_progress' /\ where'[job'[u].pos] \in Missing
      BY <1>0, <3>1, <3>2, <3>3, <3>4, <3>5 DEF OwnChunk, c
    <3>6. ASSUME NEW u \in Threads, NEW v \in Threads \ {u},
                 at'[u] = "generate", at'[v] = "generate"
          PROVE  ChunkOf(job'[v].pos) # ChunkOf(job'[u].pos)
      BY <3>1, <3>2, <3>4, <3>6 DEF OwnChunk, c
    <3>7. WholeChunks'
      BY <3>3 DEF WholeChunks
    <3>. QED  BY <3>5, <3>6, <3>7 DEF OwnChunk
  <2>3. CASE FinishGen(t)
    <3>. DEFINE c == ChunkOf(job[t].pos)
    <3>1. /\ at[t] = "generate" /\ job[t].pos \in Positions
          /\ in_progress' = in_progress \ {c}
      BY <1>0, <2>3 DEF FinishGen
    <3>2. /\ at' = [at EXCEPT ![t] = "callbacks"]
          /\ \A u \in Threads : job'[u].pos = job[u].pos
      BY <2>3 DEF FinishGen, ThreadsType, Jobs
    <3>3. \A p \in Positions : where'[p] = IF ChunkOf(p) = c THEN "memory" ELSE where[p]
      BY <2>3 DEF FinishGen, Chunk
    <3>. HIDE DEF c
    <3>4. \A u \in Threads : at'[u] = "generate" =>
            u # t /\ at[u] = "generate" /\ ChunkOf(job[u].pos) # c
      BY <3>1, <3>2 DEF OwnChunk, ThreadsType, c
    <3>5. ASSUME NEW u \in Threads, at'[u] = "generate"
          PROVE  ChunkOf(job'[u].pos) \in in_progress' /\ where'[job'[u].pos] \in Missing
      BY <1>0, <3>1, <3>2, <3>3, <3>4, <3>5 DEF OwnChunk
    <3>6. ASSUME NEW u \in Threads, NEW v \in Threads \ {u},
                 at'[u] = "generate", at'[v] = "generate"
          PROVE  ChunkOf(job'[v].pos) # ChunkOf(job'[u].pos)
      BY <3>2, <3>4, <3>6 DEF OwnChunk
    <3>7. WholeChunks'
      BY <3>3 DEF WholeChunks, Missing
    <3>. QED  BY <3>5, <3>6, <3>7 DEF OwnChunk
  <2>4. CASE ~GetBlock(t) /\ ~StartGen(t) /\ ~FinishGen(t)
    <3>1. UNCHANGED <<where, in_progress>>
      BY <1>2, <2>4 DEF ThreadStep, Leave, PopBlock, FindEmpty, Wake, Cancel, LoadFails, RunCallback,
                        AnnounceBlocks, world
    <3>2. at[t] # "generate"
      BY <1>2, <2>4 DEF ThreadStep, Leave, PopBlock, FindEmpty, Wake, Cancel, LoadFails, RunCallback,
                        AnnounceBlocks
    <3>3. at'[t] # "generate" /\ \A u \in Threads : u # t => at'[u] = at[u] /\ job'[u] = job[u]
      BY <1>2, <2>4 DEF ThreadStep, Leave, PopBlock, FindEmpty, Wake, Cancel, LoadFails, RunCallback,
                        AnnounceBlocks, ThreadsType
    <3>. QED  BY <1>0, <3>1, <3>3, GeneratingStays
  <2>. QED  BY <1>2, <2>1, <2>2, <2>3, <2>4
<1>3. CASE StartThreads
  <2>1. \A u \in Threads : at'[u] = "generate" => at[u] = "generate" /\ job'[u].pos = job[u].pos
    BY <1>3 DEF StartThreads
  <2>. QED  BY <1>0, <1>3, <2>1, GeneratingStays DEF StartThreads, world
<1>4. ASSUME NEW pos \in Positions, NEW peer \in Requesters, NEW gen \in BOOLEAN,
             Request(pos, peer, gen)
      PROVE  OwnChunk' /\ WholeChunks'
  BY <1>1, <1>4 DEF Request, threads, world
<1>5. ASSUME NEW area \in Areas, EmergeArea(area)
      PROVE  OwnChunk' /\ WholeChunks'
  BY <1>1, <1>5 DEF EmergeArea, threads
<1>6. CASE ServerStep /\ ~StartThreads
  BY <1>1, <1>6 DEF ServerStep, EmergeAreaNext, Signal, ThreadsStarted, ServerThreadEnds,
                    threads, world
<1>7. CASE Shutdown \/ MainStep
  BY <1>1, <1>7 DEF Shutdown, MainStep, RequestStop, JoinThreads, StopServerThread,
                    DeleteEnvironment, DeleteEmergeManager, threads, world
<1>8. CASE UNCHANGED vars
  BY <1>1, <1>8 DEF vars, threads, world
<1>. QED  BY <1>2, <1>3, <1>4, <1>5, <1>6, <1>7, <1>8 DEF Next

-----------------------------------------------------------------------------
(* What was made available is announced *)

\* A thread without work has nothing in hand, and one that has still to get
\* its block has made none available.
InHand ==
  \A t \in Threads :
    /\ at[t] \notin Working => job[t] = NoJob
    /\ at[t] \in {"fetch", "generate"} => job[t].modified = {}

\* One thread's step, seen from the blocks that are in memory.
LEMMA AnnouncingStays ==
  ASSUME InHand, AvailableIsAnnounced, NEW t \in Threads,
         \A u \in Threads \ {t} : at'[u] = at[u] /\ job'[u] = job[u],
         at'[t] \notin Working => job'[t] = NoJob,
         at'[t] \in {"fetch", "generate"} => job'[t].modified = {},
         not_sent \subseteq not_sent',
         job[t].modified \subseteq job'[t].modified \cup not_sent',
         \A p \in Positions : where'[p] = "memory" => where[p] = "memory" \/ p \in job'[t].modified
  PROVE  InHand' /\ AvailableIsAnnounced'
<1>1. InHand'
  BY DEF InHand
<1>2. ASSUME NEW p \in Positions, where'[p] = "memory"
      PROVE  p \in not_sent' \/ \E u \in Threads : p \in job'[u].modified
  BY <1>2 DEF AvailableIsAnnounced
<1>. QED  BY <1>1, <1>2 DEF AvailableIsAnnounced

LEMMA AnnouncedStep ==
  ASSUME TypeOK, QueuesMatch, InHand, AvailableIsAnnounced, [Next]_vars
  PROVE  InHand' /\ AvailableIsAnnounced'
<1>. ThreadsType /\ WorldType
  BY DEF TypeOK
<1>1. CASE UNCHANGED <<at, job, where, not_sent>>
  BY <1>1 DEF InHand, AvailableIsAnnounced
<1>2. ASSUME NEW t \in Threads, ThreadStep(t)
      PROVE  InHand' /\ AvailableIsAnnounced'
  <2>. NoJob.modified = {}
    BY DEF NoJob
  <2>1. CASE Leave(t) \/ FindEmpty(t) \/ Wake(t)
    <3>1. job[t] = NoJob
      BY <2>1 DEF Leave, FindEmpty, Wake, InHand, Working
    <3>. QED  BY <2>1, <3>1, AnnouncingStays
              DEF Leave, FindEmpty, Wake, ThreadsType, Working, world
  <2>2. CASE PopBlock(t)
    <3>1. job[t] = NoJob
      BY <2>2 DEF PopBlock, InHand, Working
    <3>2. CASE UNCHANGED <<at, job>>
      BY <1>1, <2>2, <3>2 DEF PopBlock, world
    <3>3. CASE ~ UNCHANGED <<at, job>>
      <4>. DEFINE pos == Head(block_queue[t])
                  j == [NoJob EXCEPT !.pos = pos, !.gen = blocks_enqueued[pos].gen,
                                     !.callbacks = blocks_enqueued[pos].callbacks]
      <4>1. /\ at' = [at EXCEPT ![t] = "fetch"] /\ job' = [job EXCEPT ![t] = j]
            /\ j.modified = {}
        BY <2>2, <3>3 DEF PopBlock, NoJob
      <4>. HIDE DEF j
      <4>2. job'[t].modified = {} /\ at'[t] = "fetch"
            /\ \A u \in Threads \ {t} : at'[u] = at[u] /\ job'[u] = job[u]
        BY <4>1 DEF ThreadsType
      <4>. QED  BY <2>2, <3>1, <4>2, AnnouncingStays DEF PopBlock, world, Working
    <3>. QED  BY <3>2, <3>3
  <2>3. CASE GetBlock(t) \/ Cancel(t) \/ FinishGen(t)
    <3>1. PICK b : at' = [at EXCEPT ![t] = "callbacks"] /\ job' = [job EXCEPT ![t].modified = b]
      BY <2>3 DEF GetBlock, Cancel, FinishGen
    <3>2. /\ at'[t] = "callbacks" /\ job'[t].modified = b
          /\ \A u \in Threads \ {t} : at'[u] = at[u] /\ job'[u] = job[u]
      BY <3>1 DEF ThreadsType, Jobs
    <3>3. job[t].modified = {} /\ UNCHANGED not_sent
      BY <2>3 DEF GetBlock, Cancel, FinishGen, InHand, world
    <3>4. \A p \in Positions : where'[p] = "memory" => where[p] = "memory" \/ p \in job'[t].modified
      <4>1. CASE Cancel(t)
        BY <4>1 DEF Cancel, world
      <4>2. CASE GetBlock(t)
        <5>1. job'[t].modified = {job[t].pos} /\ where' = [where EXCEPT ![job[t].pos] = "memory"]
          BY <4>2 DEF GetBlock, ThreadsType, Jobs
        <5>. QED  BY <5>1 DEF WorldType
      <4>3. CASE FinishGen(t)
        <5>1. job'[t].modified = Chunk(ChunkOf(job[t].pos))
          BY <4>3 DEF FinishGen, ThreadsType, Jobs
        <5>. QED  BY <4>3, <5>1 DEF FinishGen
      <4>. QED  BY <2>3, <4>1, <4>2, <4>3
    <3>. QED  BY <3>2, <3>3, <3>4, AnnouncingStays DEF Working
  <2>4. CASE StartGen(t)
    BY <2>4, AnnouncingStays DEF StartGen, InHand, ThreadsType, WorldType, Working
  <2>5. CASE LoadFails(t)
    <3>1. job[t].modified = {}
      BY <2>5 DEF LoadFails, InHand
    <3>. QED  BY <2>5, <3>1, AnnouncingStays DEF LoadFails, ThreadsType, Working
  <2>6. CASE AnnounceBlocks(t)
    BY <2>6, AnnouncingStays DEF AnnounceBlocks, ThreadsType, Working
  <2>7. CASE RunCallback(t)
    <3>1. /\ at'[t] = "callbacks" /\ job'[t].modified = job[t].modified
          /\ \A u \in Threads \ {t} : at'[u] = at[u] /\ job'[u] = job[u]
          /\ UNCHANGED <<where, not_sent>>
      BY <2>7 DEF RunCallback, ThreadsType, Jobs
    <3>. QED  BY <3>1, AnnouncingStays DEF Working
  <2>. QED  BY <1>2, <2>1, <2>2, <2>3, <2>4, <2>5, <2>6, <2>7 DEF ThreadStep
<1>3. CASE StartThreads
  BY <1>3 DEF StartThreads, InHand, AvailableIsAnnounced, Working, world
<1>4. ASSUME NEW pos \in Positions, NEW peer \in Requesters, NEW gen \in BOOLEAN,
             Request(pos, peer, gen)
      PROVE  InHand' /\ AvailableIsAnnounced'
  BY <1>1, <1>4 DEF Request, threads, world
<1>5. ASSUME NEW area \in Areas, EmergeArea(area)
      PROVE  InHand' /\ AvailableIsAnnounced'
  BY <1>1, <1>5 DEF EmergeArea, threads
<1>6. CASE ServerStep /\ ~StartThreads
  BY <1>1, <1>6 DEF ServerStep, EmergeAreaNext, Signal, ThreadsStarted, ServerThreadEnds,
                    threads, world
<1>7. CASE Shutdown \/ MainStep
  BY <1>1, <1>7 DEF Shutdown, MainStep, RequestStop, JoinThreads, StopServerThread,
                    DeleteEnvironment, DeleteEmergeManager, threads, world
<1>8. CASE UNCHANGED vars
  BY <1>1, <1>8 DEF vars, threads, world
<1>. QED  BY <1>2, <1>3, <1>4, <1>5, <1>6, <1>7, <1>8 DEF Next

-----------------------------------------------------------------------------
(* Charges *)

Charged(r) == {p \in DOMAIN blocks_enqueued : blocks_enqueued[p].peer = r}
Unforced == {p \in DOMAIN blocks_enqueued : ~blocks_enqueued[p].force}

\* The entries are finitely many, and fairly charged.
ChargedInv == IsFiniteSet(DOMAIN blocks_enqueued) /\ ChargedFairly

LEMMA ChargedFacts ==
  ASSUME ChargedInv
  PROVE  /\ IsFiniteSet(Unforced) /\ Cardinality(Unforced) \in Nat
         /\ Cardinality(Unforced) <= Cardinality(DOMAIN blocks_enqueued)
         /\ Cardinality(DOMAIN blocks_enqueued) \in Nat
         /\ \A r \in Requesters : /\ IsFiniteSet(Charged(r)) /\ Cardinality(Charged(r)) \in Nat
                                  /\ peer_queue_count[r] = Cardinality(Charged(r))
         /\ QLimitTotal \in Nat /\ QLimitGenerate \in Nat /\ QLimitDiskOnly \in Nat
<1>1. IsFiniteSet(DOMAIN blocks_enqueued)
  BY DEF ChargedInv
<1>2. Unforced \subseteq DOMAIN blocks_enqueued
      /\ \A r : Charged(r) \subseteq DOMAIN blocks_enqueued
  BY DEF Unforced, Charged
<1>3. \A r \in Requesters : peer_queue_count[r] = Cardinality(Charged(r))
  BY DEF ChargedInv, ChargedFairly, Charged
<1>4. \A S \in SUBSET DOMAIN blocks_enqueued :
        IsFiniteSet(S) /\ Cardinality(S) \in Nat
        /\ Cardinality(S) <= Cardinality(DOMAIN blocks_enqueued)
  BY <1>1, FS_Subset, FS_CardinalityType
<1>5. QLimitTotal \in Nat /\ QLimitGenerate \in Nat /\ QLimitDiskOnly \in Nat
  BY LimitsAssumption
<1>6. /\ Unforced \in SUBSET DOMAIN blocks_enqueued
      /\ DOMAIN blocks_enqueued \in SUBSET DOMAIN blocks_enqueued
      /\ \A r : Charged(r) \in SUBSET DOMAIN blocks_enqueued
  BY <1>2
<1>. QED  BY <1>3, <1>4, <1>5, <1>6

\* A request that adds to an entry changes no charge.
LEMMA MergeCharges ==
  ASSUME ChargedInv, UNCHANGED peer_queue_count,
         DOMAIN blocks_enqueued' = DOMAIN blocks_enqueued,
         \A p \in DOMAIN blocks_enqueued :
            /\ blocks_enqueued'[p].peer = blocks_enqueued[p].peer
            /\ blocks_enqueued[p].force => blocks_enqueued'[p].force
  PROVE  ChargedInv'
<1>1. \A r : Charged(r)' = Charged(r)
  BY DEF Charged
<1>2. Unforced' \subseteq Unforced
  BY DEF Unforced
<1>3. Cardinality(Unforced') <= Cardinality(Unforced) /\ Cardinality(Unforced') \in Nat
  BY <1>2, ChargedFacts, FS_Subset, FS_CardinalityType
<1>4. Cardinality(Unforced) <= QLimitTotal
  BY DEF ChargedInv, ChargedFairly, Unforced
<1>5. Cardinality(Unforced') <= QLimitTotal
  BY <1>3, <1>4, ChargedFacts
<1>. QED  BY <1>1, <1>5 DEF ChargedInv, ChargedFairly, Charged, Unforced

\* A new entry is charged to the peer that asks, who has not reached its limit
\* unless the request is forced.
LEMMA NewEntryCharges ==
  ASSUME ChargedInv, QueueType, NEW pos, pos \notin DOMAIN blocks_enqueued,
         NEW peer \in Requesters, NEW gen \in BOOLEAN, NEW force \in BOOLEAN, NEW callbacks,
         blocks_enqueued' = With(blocks_enqueued, pos,
            [peer |-> peer, gen |-> gen, force |-> force, callbacks |-> callbacks]),
         peer_queue_count' = [peer_queue_count EXCEPT ![peer] = @ + 1],
         ~Refused(peer, gen, force), force => peer \notin Peers
  PROVE  ChargedInv'
<1>1. /\ DOMAIN blocks_enqueued' = DOMAIN blocks_enqueued \cup {pos}
      /\ blocks_enqueued'[pos] =
           [peer |-> peer, gen |-> gen, force |-> force, callbacks |-> callbacks]
      /\ \A p \in DOMAIN blocks_enqueued : blocks_enqueued'[p] = blocks_enqueued[p]
  BY DEF With
<1>2. /\ Charged(peer)' = Charged(peer) \cup {pos}
      /\ \A r \in Requesters \ {peer} : Charged(r)' = Charged(r)
      /\ Unforced' = IF force THEN Unforced ELSE Unforced \cup {pos}
  BY <1>1 DEF Charged, Unforced
<1>3. pos \notin Charged(peer) /\ pos \notin Unforced
  BY DEF Charged, Unforced
<1>4. /\ Cardinality(Charged(peer) \cup {pos}) = Cardinality(Charged(peer)) + 1
      /\ Cardinality(Unforced \cup {pos}) = Cardinality(Unforced) + 1
  BY <1>3, ChargedFacts, FS_AddElement
<1>5. IsFiniteSet(DOMAIN blocks_enqueued')
  BY <1>1, FS_AddElement DEF ChargedInv
<1>6. /\ peer_queue_count'[peer] = peer_queue_count[peer] + 1
      /\ \A r \in Requesters \ {peer} : peer_queue_count'[r] = peer_queue_count[r]
  BY DEF QueueType
<1>7. \A r \in Requesters : peer_queue_count'[r] = Cardinality(Charged(r)')
  BY <1>2, <1>4, <1>6, ChargedFacts
<1>8. ASSUME NEW r \in Peers
      PROVE  peer_queue_count'[r] <= QLimitGenerate \/ peer_queue_count'[r] <= QLimitDiskOnly
  <2>. r \in Requesters
    BY DEF Requesters
  <2>1. CASE r # peer
    BY <1>6, <2>1 DEF ChargedInv, ChargedFairly
  <2>2. CASE r = peer
    <3>1. ~(peer_queue_count[peer] >= (IF gen THEN QLimitGenerate ELSE QLimitDiskOnly))
      BY <2>2, LimitsAssumption DEF Refused
    <3>. QED  BY <1>6, <2>2, <3>1, ChargedFacts
  <2>. QED  BY <2>1, <2>2
<1>9. Cardinality(Unforced') <= QLimitTotal
  <2>1. Cardinality(Unforced) <= QLimitTotal
    BY DEF ChargedInv, ChargedFairly, Unforced
  <2>2. CASE force
    BY <1>2, <2>1, <2>2
  <2>3. CASE ~force
    <3>1. ~(Cardinality(DOMAIN blocks_enqueued) >= QLimitTotal)
      BY <2>3 DEF Refused
    <3>. QED  BY <1>2, <1>4, <2>3, <3>1, ChargedFacts
  <2>. QED  BY <2>2, <2>3
<1>. QED  BY <1>5, <1>7, <1>8, <1>9 DEF ChargedInv, ChargedFairly, Charged, Unforced

LEMMA EnqueueCharges ==
  ASSUME QueueType, ChargedInv,
         NEW pos, NEW peer \in Requesters, NEW gen \in BOOLEAN,
         NEW force \in BOOLEAN, NEW callbacks, NEW next,
         Enqueue(pos, peer, gen, force, callbacks, next),
         ~Refused(peer, gen, force), force => peer \notin Peers
  PROVE  ChargedInv'
<1>1. CASE pos \notin DOMAIN blocks_enqueued
  BY <1>1, NewEntryCharges DEF Enqueue, pushBlockEmergeData
<1>2. CASE pos \in DOMAIN blocks_enqueued
  <2>. DEFINE old == blocks_enqueued[pos]
              new == [old EXCEPT !.gen = @ \/ gen, !.force = @ \/ force,
                                 !.callbacks = @ \o callbacks]
  <2>1. old \in Entry
    BY <1>2 DEF QueueType
  <2>2. /\ blocks_enqueued' = [blocks_enqueued EXCEPT ![pos] = new]
        /\ UNCHANGED peer_queue_count
    BY <1>2 DEF Enqueue, pushBlockEmergeData
  <2>3. new.peer = old.peer /\ (old.force => new.force)
    BY <2>1 DEF Entry
  <2>. HIDE DEF new
  <2>4. /\ DOMAIN blocks_enqueued' = DOMAIN blocks_enqueued
        /\ \A p \in DOMAIN blocks_enqueued :
             /\ blocks_enqueued'[p].peer = blocks_enqueued[p].peer
             /\ blocks_enqueued[p].force => blocks_enqueued'[p].force
    BY <1>2, <2>2, <2>3
  <2>. QED  BY <2>2, <2>4, MergeCharges
<1>. QED  BY <1>1, <1>2

\* What is popped is no longer charged.
LEMMA PopCharges ==
  ASSUME QueueType, ChargedInv, NEW pos \in DOMAIN blocks_enqueued,
         blocks_enqueued' = Without(blocks_enqueued, pos),
         peer_queue_count' = [peer_queue_count EXCEPT ![blocks_enqueued[pos].peer] = @ - 1]
  PROVE  ChargedInv'
<1>. PICK peer : peer = blocks_enqueued[pos].peer
  OBVIOUS
<1>1. /\ DOMAIN blocks_enqueued' = DOMAIN blocks_enqueued \ {pos}
      /\ \A p \in DOMAIN blocks_enqueued' : blocks_enqueued'[p] = blocks_enqueued[p]
  BY DEF Without
<1>2. peer \in Requesters /\ pos \in Charged(peer)
  BY DEF QueueType, Entry, Charged
<1>3. /\ Charged(peer)' = Charged(peer) \ {pos}
      /\ \A r \in Requesters \ {peer} : Charged(r)' = Charged(r)
      /\ Unforced' \subseteq Unforced
  BY <1>1 DEF Charged, Unforced
<1>4. /\ Cardinality(Charged(peer) \ {pos}) = Cardinality(Charged(peer)) - 1
      /\ Cardinality(Unforced') <= Cardinality(Unforced) /\ Cardinality(Unforced') \in Nat
  BY <1>2, <1>3, ChargedFacts, FS_RemoveElement, FS_Subset, FS_CardinalityType
<1>5. IsFiniteSet(DOMAIN blocks_enqueued')
  BY <1>1, FS_Subset DEF ChargedInv
<1>6. /\ peer_queue_count'[peer] = peer_queue_count[peer] - 1
      /\ \A r \in Requesters \ {peer} : peer_queue_count'[r] = peer_queue_count[r]
  BY <1>2 DEF QueueType
<1>7. \A r \in Requesters : peer_queue_count'[r] = Cardinality(Charged(r)')
                            /\ peer_queue_count'[r] <= peer_queue_count[r]
                            /\ peer_queue_count'[r] \in Int
  <2>. TAKE r \in Requesters
  <2>1. peer_queue_count[r] = Cardinality(Charged(r)) /\ Cardinality(Charged(r)) \in Nat
    BY ChargedFacts
  <2>2. CASE r = peer
    <3>1. peer_queue_count'[r] = peer_queue_count[r] - 1
      BY <1>6, <2>2
    <3>2. Cardinality(Charged(r)') = Cardinality(Charged(r)) - 1
      BY <1>3, <1>4, <2>2
    <3>. QED  BY <2>1, <3>1, <3>2
  <2>3. CASE r # peer
    BY <1>3, <1>6, <2>1, <2>3
  <2>. QED  BY <2>2, <2>3
<1>8. ASSUME NEW r \in Peers
      PROVE  peer_queue_count'[r] <= QLimitGenerate \/ peer_queue_count'[r] <= QLimitDiskOnly
  <2>1. r \in Requesters
    BY DEF Requesters
  <2>2. peer_queue_count[r] <= QLimitGenerate \/ peer_queue_count[r] <= QLimitDiskOnly
    BY DEF ChargedInv, ChargedFairly
  <2>. QED  BY <1>7, <2>1, <2>2, ChargedFacts
<1>9. Cardinality(Unforced') <= QLimitTotal
  <2>1. Cardinality(Unforced) <= QLimitTotal
    BY DEF ChargedInv, ChargedFairly, Unforced
  <2>. QED  BY <1>4, <2>1, ChargedFacts
<1>. QED  BY <1>5, <1>7, <1>8, <1>9 DEF ChargedInv, ChargedFairly, Charged, Unforced

LEMMA ChargedStep ==
  ASSUME TypeOK, QueuesMatch, ChargedInv, [Next]_vars
  PROVE  ChargedInv'
<1>. QueueType
  BY DEF TypeOK
<1>1. CASE UNCHANGED queue
  BY <1>1 DEF ChargedInv, ChargedFairly, queue
<1>2. ASSUME NEW pos \in Positions, NEW peer \in Requesters, NEW gen \in BOOLEAN,
             Request(pos, peer, gen)
      PROVE  ChargedInv'
  BY <1>2, EnqueueCharges DEF Request
<1>3. CASE EmergeAreaNext
  <2>1. CASE server.left # <<>>
    <3>1. Enqueue(Head(server.left), NoPeer, TRUE, TRUE, <<server.area>>,
                  [server EXCEPT !.left = Tail(@)])
      BY <1>3, <2>1 DEF EmergeAreaNext
    <3>2. NoPeer \in Requesters /\ NoPeer \notin Peers
      BY LimitsAssumption DEF Requesters
    <3>3. ~Refused(NoPeer, TRUE, TRUE)
      BY DEF Refused
    <3>. QED  BY <3>1, <3>2, <3>3, EnqueueCharges
  <2>. QED  BY <1>1, <1>3, <2>1 DEF EmergeAreaNext
<1>4. ASSUME NEW t \in Threads, PopBlock(t)
      PROVE  ChargedInv'
  <2>1. block_queue[t] # <<>>
    BY <1>4 DEF PopBlock
  <2>. DEFINE pos == Head(block_queue[t])
  <2>2. pos \in DOMAIN blocks_enqueued
    BY <2>1, PopFinds
  <2>3. /\ blocks_enqueued' = Without(blocks_enqueued, pos)
        /\ peer_queue_count' = [peer_queue_count EXCEPT ![blocks_enqueued[pos].peer] = @ - 1]
    BY <1>4 DEF PopBlock
  <2>. HIDE DEF pos
  <2>. QED  BY <2>2, <2>3, PopCharges
<1>5. ASSUME NEW t \in Threads, ThreadStep(t), ~PopBlock(t)
      PROVE  UNCHANGED queue
  BY <1>5 DEF ThreadStep, Leave, FindEmpty, Wake, GetBlock, StartGen, Cancel, LoadFails,
              FinishGen, RunCallback, AnnounceBlocks
<1>6. CASE ServerStep /\ ~EmergeAreaNext
  BY <1>1, <1>6 DEF ServerStep, Signal, StartThreads, ThreadsStarted, ServerThreadEnds
<1>7. CASE Shutdown \/ MainStep
  BY <1>1, <1>7 DEF Shutdown, MainStep, RequestStop, JoinThreads, StopServerThread,
                    DeleteEnvironment, DeleteEmergeManager
<1>8. ASSUME NEW area \in Areas, EmergeArea(area)
      PROVE  UNCHANGED queue
  BY <1>8 DEF EmergeArea
<1>9. CASE UNCHANGED vars
  BY <1>1, <1>9 DEF vars
<1>. QED  BY <1>1, <1>2, <1>3, <1>4, <1>5, <1>6, <1>7, <1>8, <1>9 DEF Next

-----------------------------------------------------------------------------
(* Callbacks *)

Occurs(x, s) == \E i \in DOMAIN s : s[i] = x
Once(s) == \A i, j \in DOMAIN s : s[i] = s[j] => i = j

\* The entries and the threads that have a callback of area, and the positions
\* of area that are still to be enqueued.
Waiting(area) == {p \in DOMAIN blocks_enqueued : Occurs(area, blocks_enqueued[p].callbacks)}
Running(area) == {t \in Threads : Occurs(area, job[t].callbacks)}
Unqueued(area) == IF server.area = area THEN Len(server.left) ELSE 0

\* No callback is in one place twice: an entry has callbacks of areas that its
\* position belongs to, and of the area being enqueued only at positions that
\* were enqueued for it already.
CallsInPlace ==
  /\ \A p \in DOMAIN blocks_enqueued :
       /\ Once(blocks_enqueued[p].callbacks)
       /\ \A a \in Areas : Occurs(a, blocks_enqueued[p].callbacks) =>
            a \in asked /\ Occurs(p, AreaOf(a))
  /\ \A t \in Threads :
       /\ Once(job[t].callbacks)
       /\ \A a \in Areas : Occurs(a, job[t].callbacks) => a \in asked
  /\ server.area # Nobody =>
       /\ server.area \in asked /\ Once(server.left)
       /\ \A i \in DOMAIN server.left :
            /\ Occurs(server.left[i], AreaOf(server.area))
            /\ server.left[i] \notin Waiting(server.area)

\* CallsRemaining, in terms of these sets.
CallsSum == ~fatal => \A a \in Areas :
  refcount[a] = Cardinality(Waiting(a)) + Cardinality(Running(a)) + Unqueued(a)

CallsInv == CallsSum /\ CallsInPlace

\* emerge_area counts a position beyond the limit of the map, for which no
\* callback is ever run.
AreasWithinLimit == \A a \in Areas : \A i \in DOMAIN AreaOf(a) : AreaOf(a)[i] \notin OverLimit

LEMMA SumIsRemaining == CallsSum => CallsRemaining
BY DEF CallsSum, CallsRemaining, Waiting, Running, Unqueued, Occurs

LEMMA ConcatCalls ==
  ASSUME NEW S, NEW s \in Seq(S), NEW x \in S
  PROVE  /\ \A y : Occurs(y, s \o <<x>>) <=> Occurs(y, s) \/ y = x
         /\ Once(s) /\ ~Occurs(x, s) => Once(s \o <<x>>)
         /\ s \o <<>> = s
<1>1. /\ s \o <<x>> \in Seq(S) /\ Len(s) \in Nat /\ Len(s \o <<x>>) = Len(s) + 1
      /\ \A i \in 1..Len(s) : (s \o <<x>>)[i] = s[i]
      /\ (s \o <<x>>)[Len(s) + 1] = x /\ DOMAIN s = 1..Len(s)
      /\ DOMAIN (s \o <<x>>) = 1..(Len(s) + 1)
  OBVIOUS
<1>. DEFINE r == s \o <<x>>
<1>. HIDE DEF r
<1>2. /\ Len(s) \in Nat /\ \A i \in 1..Len(s) : r[i] = s[i]
      /\ r[Len(s) + 1] = x /\ DOMAIN s = 1..Len(s) /\ DOMAIN r = 1..(Len(s) + 1)
  BY <1>1 DEF r
<1>3. \A y : Occurs(y, r) <=> Occurs(y, s) \/ y = x
  BY <1>2 DEF Occurs
<1>4. Once(s) /\ ~Occurs(x, s) => Once(r)
  BY <1>2 DEF Occurs, Once
<1>5. s \o <<>> = s
  OBVIOUS
<1>. QED  BY <1>3, <1>4, <1>5 DEF r

LEMMA TailCalls ==
  ASSUME NEW S, NEW s \in Seq(S), s # <<>>, Once(s)
  PROVE  /\ Once(Tail(s)) /\ Occurs(Head(s), s) /\ ~Occurs(Head(s), Tail(s))
         /\ \A y : y # Head(s) => (Occurs(y, Tail(s)) <=> Occurs(y, s))
         /\ \A i \in DOMAIN Tail(s) : i + 1 \in DOMAIN s /\ Tail(s)[i] = s[i + 1]
<1>1. /\ Len(s) \in Nat \ {0} /\ Len(Tail(s)) = Len(s) - 1
      /\ DOMAIN s = 1..Len(s) /\ DOMAIN Tail(s) = 1..(Len(s) - 1)
      /\ \A i \in DOMAIN Tail(s) : i + 1 \in DOMAIN s /\ Tail(s)[i] = s[i + 1]
      /\ Head(s) = s[1]
  BY TailFacts
<1>2. Once(Tail(s)) /\ Occurs(Head(s), s) /\ ~Occurs(Head(s), Tail(s))
  BY <1>1 DEF Once, Occurs
<1>3. ASSUME NEW y, y # Head(s), Occurs(y, s) PROVE Occurs(y, Tail(s))
  <2>1. PICK i \in DOMAIN s : s[i] = y
    BY <1>3 DEF Occurs
  <2>2. i - 1 \in DOMAIN Tail(s) /\ Tail(s)[i - 1] = y
    BY <1>1, <1>3, <2>1
  <2>. QED  BY <2>2 DEF Occurs
<1>4. ASSUME NEW y, Occurs(y, Tail(s)) PROVE Occurs(y, s)
  BY <1>1, <1>4 DEF Occurs
<1>. QED  BY <1>1, <1>2, <1>3, <1>4

\* The sets that are counted are finite.
LEMMA CallsFinite ==
  ASSUME ChargedInv, NEW a
  PROVE  /\ IsFiniteSet(Waiting(a)) /\ Cardinality(Waiting(a)) \in Nat
         /\ IsFiniteSet(Running(a)) /\ Cardinality(Running(a)) \in Nat
<1>1. Waiting(a) \in SUBSET DOMAIN blocks_enqueued /\ Running(a) \in SUBSET Threads
  BY DEF Waiting, Running
<1>2. IsFiniteSet(DOMAIN blocks_enqueued)
  BY DEF ChargedInv
<1>3. IsFiniteSet(Threads)
  <2>1. 1 \in Int /\ NThreads \in Int
    BY Assumptions
  <2>. QED  BY <2>1, FS_Interval DEF Threads
<1>. QED  BY <1>1, <1>2, <1>3, FS_Subset, FS_CardinalityType

\* A step that moves no callback.
LEMMA CallsStay ==
  ASSUME CallsInv, UNCHANGED <<refcount, asked>>, fatal => fatal',
         \A a \in Areas : Waiting(a)' = Waiting(a) /\ Running(a)' = Running(a),
         \A p \in DOMAIN blocks_enqueued' :
            \/ /\ p \in DOMAIN blocks_enqueued
               /\ blocks_enqueued'[p].callbacks = blocks_enqueued[p].callbacks
            \/ blocks_enqueued'[p].callbacks = <<>>,
         \A t \in Threads : job'[t].callbacks = job[t].callbacks,
         server.area \in Areas \cup {Nobody},
         \/ server'.area = server.area /\ server'.left = server.left
         \/ server'.area = Nobody /\ (server.area = Nobody \/ server.left = <<>>)
  PROVE  CallsInv'
<1>1. \A a \in Areas : Unqueued(a)' = Unqueued(a)
  BY Assumptions DEF Unqueued
<1>2. CallsSum'
  BY <1>1 DEF CallsInv, CallsSum
<1>3. CallsInPlace'
  BY DEF CallsInv, CallsInPlace, Once, Occurs
<1>. QED  BY <1>2, <1>3 DEF CallsInv

LEMMA EnqueueCalls ==
  ASSUME QueueType, NEW pos, NEW peer, NEW gen, NEW force, NEW callbacks \in Seq(Areas),
         NEW next \in Doings, Enqueue(pos, peer, gen, force, callbacks, next)
  PROVE  /\ DOMAIN blocks_enqueued' = DOMAIN blocks_enqueued \cup {pos}
         /\ \A p \in DOMAIN blocks_enqueued \ {pos} :
              blocks_enqueued'[p].callbacks = blocks_enqueued[p].callbacks
         /\ blocks_enqueued'[pos].callbacks =
              IF pos \in DOMAIN blocks_enqueued
              THEN blocks_enqueued[pos].callbacks \o callbacks ELSE callbacks
         /\ server'.area = next.area /\ server'.left = next.left
<1>1. server'.area = next.area /\ server'.left = next.left
  BY DEF Enqueue, Doings
<1>2. CASE pos \notin DOMAIN blocks_enqueued
  <2>1. blocks_enqueued' = With(blocks_enqueued, pos,
          [peer |-> peer, gen |-> gen, force |-> force, callbacks |-> callbacks])
    BY <1>2 DEF Enqueue, pushBlockEmergeData
  <2>. QED  BY <1>1, <1>2, <2>1 DEF With
<1>3. CASE pos \in DOMAIN blocks_enqueued
  <2>. DEFINE old == blocks_enqueued[pos]
              new == [old EXCEPT !.gen = @ \/ gen, !.force = @ \/ force,
                                 !.callbacks = @ \o callbacks]
  <2>1. new.callbacks = old.callbacks \o callbacks
    BY <1>3 DEF QueueType, Entry
  <2>2. blocks_enqueued' = [blocks_enqueued EXCEPT ![pos] = new]
    BY <1>3 DEF Enqueue, pushBlockEmergeData
  <2>. HIDE DEF new
  <2>. QED  BY <1>1, <1>3, <2>1, <2>2
<1>. QED  BY <1>2, <1>3

LEMMA RequestCalls ==
  ASSUME TypeOK, CallsInv, NEW pos \in Positions, NEW peer, NEW gen, Request(pos, peer, gen)
  PROVE  CallsInv'
<1>. QueueType /\ server \in Doings
  BY DEF TypeOK, ServerType
<1>1. Enqueue(pos, peer, gen, FALSE, <<>>, server) /\ UNCHANGED <<job, refcount, asked, fatal>>
  BY DEF Request, threads, world
<1>2. /\ DOMAIN blocks_enqueued' = DOMAIN blocks_enqueued \cup {pos}
      /\ \A p \in DOMAIN blocks_enqueued \ {pos} :
           blocks_enqueued'[p].callbacks = blocks_enqueued[p].callbacks
      /\ blocks_enqueued'[pos].callbacks =
           IF pos \in DOMAIN blocks_enqueued
           THEN blocks_enqueued[pos].callbacks \o <<>> ELSE <<>>
      /\ server'.area = server.area /\ server'.left = server.left
  BY <1>1, EnqueueCalls, <<>> \in Seq(Areas)
<1>3. \A p \in DOMAIN blocks_enqueued :
        blocks_enqueued'[p].callbacks = blocks_enqueued[p].callbacks
  <2>1. pos \in DOMAIN blocks_enqueued =>
          blocks_enqueued[pos].callbacks \o <<>> = blocks_enqueued[pos].callbacks
    BY DEF QueueType, Entry
  <2>. QED  BY <1>2, <2>1
<1>4. pos \notin DOMAIN blocks_enqueued => blocks_enqueued'[pos].callbacks = <<>>
  BY <1>2
<1>5. \A a \in Areas : Waiting(a)' = Waiting(a) /\ Running(a)' = Running(a)
  BY <1>1, <1>2, <1>3, <1>4 DEF Waiting, Running, Occurs
<1>6. server.area \in Areas \cup {Nobody}
  BY DEF Doings
<1>. QED  BY <1>1, <1>2, <1>3, <1>4, <1>5, <1>6, CallsStay

\* A new call of emerge_area has no callback anywhere yet.
LEMMA AreaCalls ==
  ASSUME TypeOK, CallsInv, NEW area \in Areas, EmergeArea(area)
  PROVE  CallsInv'
<1>1. /\ area \notin asked /\ asked' = asked \cup {area}
      /\ refcount' = [refcount EXCEPT ![area] = Len(AreaOf(area))]
      /\ server' = [server EXCEPT !.doing = "area", !.area = area, !.left = AreaOf(area)]
      /\ UNCHANGED <<blocks_enqueued, job, fatal>> /\ server.doing = "idle"
  BY DEF EmergeArea, queue, threads
<1>2. server \in Doings /\ server.area = Nobody /\ refcount \in [Areas -> Int]
  BY <1>1 DEF TypeOK, ServerType, WorldType
<1>3. server'.area = area /\ server'.left = AreaOf(area)
  BY <1>1, <1>2 DEF Doings
<1>4. Waiting(area) = {} /\ Running(area) = {}
  BY <1>1 DEF CallsInv, CallsInPlace, Waiting, Running
<1>5. \A a : Waiting(a)' = Waiting(a) /\ Running(a)' = Running(a)
  BY <1>1 DEF Waiting, Running
<1>6. CallsSum'
  <2>. SUFFICES ASSUME ~fatal, NEW a \in Areas
                PROVE  refcount'[a] = Cardinality(Waiting(a)) + Cardinality(Running(a))
                                        + Unqueued(a)'
    BY <1>1, <1>5 DEF CallsSum
  <2>1. CASE a = area
    <3>1. refcount'[a] = Len(AreaOf(area)) /\ Unqueued(a)' = Len(AreaOf(area))
      BY <1>1, <1>2, <1>3, <2>1 DEF Unqueued
    <3>2. Cardinality(Waiting(a)) = 0 /\ Cardinality(Running(a)) = 0
      BY <1>4, <2>1, FS_EmptySet
    <3>3. Len(AreaOf(area)) \in Nat
      BY Assumptions
    <3>. QED  BY <3>1, <3>2, <3>3
  <2>2. CASE a # area
    <3>1. Unqueued(a) = 0 /\ Unqueued(a)' = 0 /\ refcount'[a] = refcount[a]
      BY <1>1, <1>2, <1>3, <2>2, Assumptions DEF Unqueued
    <3>. QED  BY <3>1 DEF CallsInv, CallsSum
  <2>. QED  BY <2>1, <2>2
<1>7. CallsInPlace'
  <2>1. Once(AreaOf(area)) /\ \A i \in DOMAIN AreaOf(area) : Occurs(AreaOf(area)[i], AreaOf(area))
    BY AreasAssumption DEF Once, Occurs
  <2>. QED  BY <1>1, <1>3, <1>4, <1>5, <2>1 DEF CallsInv, CallsInPlace
<1>. QED  BY <1>6, <1>7 DEF CallsInv

\* One position of the area goes from those still to be enqueued to the entries.
LEMMA AreaNextCalls ==
  ASSUME TypeOK, ChargedInv, CallsInv, EmergeAreaNext
  PROVE  CallsInv'
<1>. DEFINE area == server.area
            pos == Head(server.left)
<1>1. /\ server \in Doings /\ server.left \in Seq(Positions) /\ area \in Areas /\ QueueType
      /\ UNCHANGED <<job, refcount, asked, fatal>>
  BY DEF EmergeAreaNext, TypeOK, ServerType, Doings, threads, world
<1>2. CASE server.left = <<>>
  <2>1. server' = Idle /\ UNCHANGED blocks_enqueued
    BY <1>2 DEF EmergeAreaNext, queue
  <2>2. server'.area = Nobody /\ \A a \in Areas : Waiting(a)' = Waiting(a) /\ Running(a)' = Running(a)
    BY <1>1, <2>1 DEF Idle, Waiting, Running
  <2>. QED  BY <1>1, <1>2, <2>1, <2>2, CallsStay
<1>3. CASE server.left # <<>>
  <2>. DEFINE next == [server EXCEPT !.left = Tail(@)]
  <2>1. Enqueue(pos, NoPeer, TRUE, TRUE, <<area>>, next)
    BY <1>3 DEF EmergeAreaNext
  <2>2. Tail(server.left) \in Seq(Positions)
    BY <1>1, <1>3, TailFacts
  <2>3. next \in Doings /\ next.area = area /\ next.left = Tail(server.left)
    BY <1>1, <2>2 DEF Doings
  <2>. HIDE DEF next
  <2>4. PICK c \in Areas, p \in Positions : c = area /\ p = pos
    BY <1>1, <1>3, TailFacts
  <2>5. /\ DOMAIN blocks_enqueued' = DOMAIN blocks_enqueued \cup {p}
        /\ \A q \in DOMAIN blocks_enqueued \ {p} :
             blocks_enqueued'[q].callbacks = blocks_enqueued[q].callbacks
        /\ blocks_enqueued'[p].callbacks =
             IF p \in DOMAIN blocks_enqueued
             THEN blocks_enqueued[p].callbacks \o <<c>> ELSE <<c>>
        /\ server'.area = c /\ server'.left = Tail(server.left)
    <3>1. <<area>> \in Seq(Areas)
      BY <1>1
    <3>2. /\ DOMAIN blocks_enqueued' = DOMAIN blocks_enqueued \cup {pos}
          /\ \A q \in DOMAIN blocks_enqueued \ {pos} :
               blocks_enqueued'[q].callbacks = blocks_enqueued[q].callbacks
          /\ blocks_enqueued'[pos].callbacks =
               IF pos \in DOMAIN blocks_enqueued
               THEN blocks_enqueued[pos].callbacks \o <<area>> ELSE <<area>>
          /\ server'.area = next.area /\ server'.left = next.left
      BY <1>1, <2>1, <2>3, <3>1, EnqueueCalls
    <3>. QED  BY <2>3, <2>4, <3>2
  <2>6. /\ c \in Areas /\ c \in asked /\ Once(server.left)
        /\ Occurs(p, AreaOf(c)) /\ p \notin Waiting(c)
        /\ \A i \in DOMAIN server.left :
             Occurs(server.left[i], AreaOf(c)) /\ server.left[i] \notin Waiting(c)
    <3>1. area # Nobody /\ 1 \in DOMAIN server.left /\ pos = server.left[1]
      BY <1>1, <1>3, Assumptions
    <3>. QED  BY <1>1, <2>4, <3>1 DEF CallsInv, CallsInPlace
  <2>7. /\ Once(Tail(server.left)) /\ ~Occurs(p, Tail(server.left))
        /\ \A i \in DOMAIN Tail(server.left) :
             /\ Occurs(Tail(server.left)[i], AreaOf(c))
             /\ Tail(server.left)[i] \notin Waiting(c) \cup {p}
    <3>1. /\ Once(Tail(server.left)) /\ ~Occurs(p, Tail(server.left))
          /\ \A i \in DOMAIN Tail(server.left) :
               i + 1 \in DOMAIN server.left /\ Tail(server.left)[i] = server.left[i + 1]
      BY <1>1, <1>3, <2>4, <2>6, TailCalls
    <3>. QED  BY <2>6, <3>1 DEF Occurs
  <2>8. /\ \A a : Occurs(a, blocks_enqueued'[p].callbacks) <=>
              a = c \/ (p \in DOMAIN blocks_enqueued /\ Occurs(a, blocks_enqueued[p].callbacks))
        /\ Once(blocks_enqueued'[p].callbacks)
    <3>1. CASE p \in DOMAIN blocks_enqueued
      <4>1. blocks_enqueued[p].callbacks \in Seq(Areas)
        BY <1>1, <3>1 DEF QueueType, Entry
      <4>2. Once(blocks_enqueued[p].callbacks) /\ ~Occurs(c, blocks_enqueued[p].callbacks)
        BY <2>6, <3>1 DEF CallsInv, CallsInPlace, Waiting
      <4>3. blocks_enqueued'[p].callbacks = blocks_enqueued[p].callbacks \o <<c>>
        BY <2>5, <3>1
      <4>. QED  BY <2>6, <3>1, <4>1, <4>2, <4>3, ConcatCalls
    <3>2. CASE p \notin DOMAIN blocks_enqueued
      BY <2>5, <3>2 DEF Occurs, Once
    <3>. QED  BY <3>1, <3>2
  <2>9. /\ \A a \in Areas : Waiting(a)' = IF a = c THEN Waiting(a) \cup {p} ELSE Waiting(a)
        /\ \A a \in Areas : Running(a)' = Running(a)
    BY <1>1, <2>5, <2>8 DEF Waiting, Running
  <2>10. CallsSum'
    <3>. SUFFICES ASSUME ~fatal, NEW a \in Areas
                  PROVE  refcount[a] = Cardinality(Waiting(a)') + Cardinality(Running(a))
                                          + Unqueued(a)'
      BY <1>1, <2>9 DEF CallsSum
    <3>1. refcount[a] = Cardinality(Waiting(a)) + Cardinality(Running(a)) + Unqueued(a)
      BY DEF CallsInv, CallsSum
    <3>2. CASE a = c
      <4>1. /\ Cardinality(Waiting(a) \cup {p}) = Cardinality(Waiting(a)) + 1
            /\ Cardinality(Waiting(a)) \in Nat /\ Cardinality(Running(a)) \in Nat
        BY <2>6, <3>2, CallsFinite, FS_AddElement
      <4>2. Unqueued(a) = Len(server.left) /\ Unqueued(a)' = Len(server.left) - 1
            /\ Len(server.left) \in Nat
        BY <1>1, <1>3, <2>4, <2>5, <3>2, TailFacts DEF Unqueued
      <4>3. Cardinality(Waiting(a)') = Cardinality(Waiting(a)) + 1
        BY <2>9, <3>2, <4>1
      <4>. QED  BY <3>1, <4>1, <4>2, <4>3
    <3>3. CASE a # c
      BY <2>4, <2>5, <2>9, <3>1, <3>3 DEF Unqueued
    <3>. QED  BY <3>2, <3>3
  <2>11. CallsInPlace'
    <3>1. ASSUME NEW q \in DOMAIN blocks_enqueued'
          PROVE  /\ Once(blocks_enqueued'[q].callbacks)
                 /\ \A a \in Areas : Occurs(a, blocks_enqueued'[q].callbacks) =>
                      a \in asked /\ Occurs(q, AreaOf(a))
      BY <2>5, <2>6, <2>8 DEF CallsInv, CallsInPlace
    <3>2. server'.area \in asked /\ Once(server'.left)
          /\ \A i \in DOMAIN server'.left :
               /\ Occurs(server'.left[i], AreaOf(server'.area))
               /\ server'.left[i] \notin Waiting(c)'
      BY <2>5, <2>6, <2>7, <2>9
    <3>3. Waiting(server.area)' = Waiting(c)'
      BY <2>5 DEF Waiting
    <3>4. \A t \in Threads :
            /\ Once(job[t].callbacks)
            /\ \A a \in Areas : Occurs(a, job[t].callbacks) => a \in asked
      BY DEF CallsInv, CallsInPlace
    <3>. QED  BY <1>1, <3>1, <3>2, <3>3, <3>4 DEF CallsInPlace
  <2>. QED  BY <2>10, <2>11 DEF CallsInv
<1>. QED  BY <1>2, <1>3

\* A thread takes the callbacks of the entry it pops.
LEMMA PopCalls ==
  ASSUME TypeOK, QueuesMatch, InHand, ChargedInv, CallsInv, AreasWithinLimit,
         NEW t \in Threads, PopBlock(t)
  PROVE  CallsInv'
<1>. DEFINE j == [NoJob EXCEPT !.pos = Head(block_queue[t]),
                     !.gen = blocks_enqueued[Head(block_queue[t])].gen,
                     !.callbacks = blocks_enqueued[Head(block_queue[t])].callbacks]
<1>1. PICK p \in DOMAIN blocks_enqueued : p = Head(block_queue[t])
  <2>1. block_queue[t] # <<>>
    BY DEF PopBlock
  <2>. QED  BY <2>1, PopFinds DEF TypeOK
<1>2. /\ blocks_enqueued' = Without(blocks_enqueued, p)
      /\ IF p \in OverLimit THEN UNCHANGED job ELSE job' = [job EXCEPT ![t] = j]
      /\ UNCHANGED <<server, refcount, asked, fatal>>
  BY <1>1 DEF PopBlock, world
<1>3. j.callbacks = blocks_enqueued[p].callbacks
  BY <1>1 DEF NoJob
<1>. HIDE DEF j
<1>4. /\ DOMAIN blocks_enqueued' = DOMAIN blocks_enqueued \ {p}
      /\ \A q \in DOMAIN blocks_enqueued' : blocks_enqueued'[q] = blocks_enqueued[q]
  BY <1>2 DEF Without
<1>5. job[t].callbacks = <<>> /\ job \in [Threads -> Jobs]
  BY DEF PopBlock, InHand, Working, NoJob, TypeOK, ThreadsType
<1>6. p \in OverLimit => \A a \in Areas : p \notin Waiting(a)
  <2>1. \A a \in Areas : Occurs(p, AreaOf(a)) => p \notin OverLimit
    BY DEF AreasWithinLimit, Occurs
  <2>. QED  BY <2>1 DEF CallsInv, CallsInPlace, Waiting
<1>7. /\ job'[t].callbacks = IF p \in OverLimit THEN <<>> ELSE blocks_enqueued[p].callbacks
      /\ \A u \in Threads \ {t} : job'[u] = job[u]
  BY <1>2, <1>3, <1>5
<1>8. ASSUME NEW a \in Areas
      PROVE  /\ Waiting(a)' = Waiting(a) \ {p}
             /\ Running(a)' = IF p \in Waiting(a) THEN Running(a) \cup {t} ELSE Running(a)
             /\ t \notin Running(a)
  <2>1. Waiting(a)' = Waiting(a) \ {p}
    BY <1>4 DEF Waiting
  <2>2. t \notin Running(a)
    BY <1>5 DEF Running, Occurs
  <2>3. Occurs(a, job'[t].callbacks) <=> p \in Waiting(a)
    <3>1. CASE p \in OverLimit
      BY <1>6, <1>7, <3>1 DEF Occurs
    <3>2. CASE p \notin OverLimit
      BY <1>7, <3>2 DEF Waiting
    <3>. QED  BY <3>1, <3>2
  <2>4. \A u \in Threads : u \in Running(a)' <=> u \in Running(a) \/ (u = t /\ p \in Waiting(a))
    BY <1>7, <2>2, <2>3 DEF Running
  <2>5. Running(a) \subseteq Threads /\ Running(a)' \subseteq Threads
    BY DEF Running
  <2>. QED  BY <2>1, <2>2, <2>4, <2>5
<1>9. CallsSum'
  <2>. SUFFICES ASSUME ~fatal, NEW a \in Areas
                PROVE  refcount[a] = Cardinality(Waiting(a)') + Cardinality(Running(a)')
                                        + Unqueued(a)
    BY <1>2 DEF CallsSum, Unqueued
  <2>1. refcount[a] = Cardinality(Waiting(a)) + Cardinality(Running(a)) + Unqueued(a)
    BY DEF CallsInv, CallsSum
  <2>2. CASE p \in Waiting(a)
    <3>1. /\ Cardinality(Waiting(a)') = Cardinality(Waiting(a)) - 1
          /\ Cardinality(Waiting(a)) \in Nat
      BY <1>8, <2>2, CallsFinite, FS_RemoveElement
    <3>2. /\ Cardinality(Running(a)') = Cardinality(Running(a)) + 1
          /\ Cardinality(Running(a)) \in Nat
      BY <1>8, <2>2, CallsFinite, FS_AddElement
    <3>. QED  BY <2>1, <3>1, <3>2
  <2>3. CASE p \notin Waiting(a)
    <3>1. Waiting(a)' = Waiting(a) /\ Running(a)' = Running(a)
      BY <1>8, <2>3
    <3>. QED  BY <2>1, <3>1
  <2>. QED  BY <2>2, <2>3
<1>10. CallsInPlace'
  <2>1. ASSUME NEW u \in Threads
        PROVE  /\ Once(job'[u].callbacks)
               /\ \A a \in Areas : Occurs(a, job'[u].callbacks) => a \in asked
    <3>1. CASE u = t
      BY <1>7, <3>1 DEF CallsInv, CallsInPlace, Once, Occurs
    <3>2. CASE u # t
      BY <1>7, <3>2 DEF CallsInv, CallsInPlace
    <3>. QED  BY <3>1, <3>2
  <2>2. \A q : q \notin Waiting(server.area) => q \notin Waiting(server.area)'
    BY <1>2, <1>4 DEF Waiting
  <2>. QED  BY <1>2, <1>4, <2>1, <2>2 DEF CallsInv, CallsInPlace
<1>. QED  BY <1>9, <1>10 DEF CallsInv

\* A callback that has run is no longer counted.
LEMMA CallbackCalls ==
  ASSUME TypeOK, ChargedInv, CallsInv, NEW t \in Threads, RunCallback(t)
  PROVE  CallsInv'
<1>1. job \in [Threads -> Jobs] /\ refcount \in [Areas -> Int]
  BY DEF TypeOK, ThreadsType, WorldType
<1>2. job[t].callbacks \in Seq(Areas) /\ job[t].callbacks # <<>> /\ Once(job[t].callbacks)
  BY <1>1 DEF RunCallback, CallsInv, CallsInPlace, Jobs
<1>3. PICK c \in Areas : c = Head(job[t].callbacks)
  BY <1>2, TailFacts
<1>4. /\ refcount' = [refcount EXCEPT ![c] = @ - 1]
      /\ job' = [job EXCEPT ![t].callbacks = Tail(@)]
      /\ UNCHANGED <<blocks_enqueued, server, asked, fatal>>
  BY <1>3 DEF RunCallback, queue
<1>5. /\ job'[t].callbacks = Tail(job[t].callbacks)
      /\ \A u \in Threads \ {t} : job'[u] = job[u]
  BY <1>1, <1>4 DEF Jobs
<1>6. /\ Once(job'[t].callbacks) /\ Occurs(c, job[t].callbacks) /\ ~Occurs(c, job'[t].callbacks)
      /\ \A a : a # c => (Occurs(a, job'[t].callbacks) <=> Occurs(a, job[t].callbacks))
  BY <1>2, <1>3, <1>5, TailCalls
<1>7. \A a \in Areas : /\ Waiting(a)' = Waiting(a) /\ Unqueued(a)' = Unqueued(a)
                       /\ Running(a)' = IF a = c THEN Running(a) \ {t} ELSE Running(a)
  BY <1>4, <1>5, <1>6 DEF Waiting, Running, Unqueued
<1>8. t \in Running(c)
  BY <1>6 DEF Running
<1>9. CallsSum'
  <2>. SUFFICES ASSUME ~fatal, NEW a \in Areas
                PROVE  refcount'[a] = Cardinality(Waiting(a)) + Cardinality(Running(a)')
                                        + Unqueued(a)
    BY <1>4, <1>7 DEF CallsSum
  <2>1. refcount[a] = Cardinality(Waiting(a)) + Cardinality(Running(a)) + Unqueued(a)
    BY DEF CallsInv, CallsSum
  <2>2. CASE a = c
    <3>1. /\ Cardinality(Running(a)') = Cardinality(Running(a)) - 1
          /\ Cardinality(Running(a)) \in Nat /\ Cardinality(Waiting(a)) \in Nat
      BY <1>7, <1>8, <2>2, CallsFinite, FS_RemoveElement
    <3>2. refcount'[a] = refcount[a] - 1 /\ refcount[a] \in Int
      BY <1>1, <1>4, <2>2
    <3>3. Unqueued(a) \in Int
      <4>1. server.left \in Seq(Positions)
        BY DEF TypeOK, ServerType, Doings
      <4>2. Len(server.left) \in Nat
        BY <4>1
      <4>. QED  BY <4>2 DEF Unqueued
    <3>. QED  BY <2>1, <3>1, <3>2, <3>3
  <2>3. CASE a # c
    BY <1>1, <1>4, <1>7, <2>1, <2>3
  <2>. QED  BY <2>2, <2>3
<1>10. CallsInPlace'
  <2>1. ASSUME NEW u \in Threads
        PROVE  /\ Once(job'[u].callbacks)
               /\ \A a \in Areas : Occurs(a, job'[u].callbacks) => a \in asked
    <3>1. CASE u = t
      <4>1. \A a \in Areas : Occurs(a, job[t].callbacks) => a \in asked
        BY DEF CallsInv, CallsInPlace
      <4>2. \A a \in Areas : Occurs(a, job'[t].callbacks) => a \in asked
        BY <1>6, <4>1
      <4>. QED  BY <1>6, <3>1, <4>2
    <3>2. CASE u # t
      BY <1>5, <3>2 DEF CallsInv, CallsInPlace
    <3>. QED  BY <3>1, <3>2
  <2>. QED  BY <1>4, <2>1 DEF CallsInv, CallsInPlace, Waiting
<1>. QED  BY <1>9, <1>10 DEF CallsInv

LEMMA CallsStep ==
  ASSUME TypeOK, QueuesMatch, InHand, ChargedInv, CallsInv, AreasWithinLimit, [Next]_vars
  PROVE  CallsInv'
<1>. ThreadsType /\ server \in Doings
  BY DEF TypeOK, ServerType
<1>0. server.area \in Areas \cup {Nobody}
  BY DEF Doings
<1>1. ASSUME UNCHANGED <<blocks_enqueued, refcount, asked>>, fatal => fatal',
             \A t \in Threads : job'[t].callbacks = job[t].callbacks,
             \/ server'.area = server.area /\ server'.left = server.left
             \/ server'.area = Nobody /\ server.area = Nobody
      PROVE  CallsInv'
  <2>1. \A a \in Areas : Waiting(a)' = Waiting(a) /\ Running(a)' = Running(a)
    BY <1>1 DEF Waiting, Running
  <2>. QED  BY <1>0, <1>1, <2>1, CallsStay
<1>2. ASSUME NEW t \in Threads, ThreadStep(t)
      PROVE  CallsInv'
  <2>1. CASE PopBlock(t)
    BY <2>1, PopCalls
  <2>2. CASE RunCallback(t)
    BY <2>2, CallbackCalls
  <2>3. CASE Leave(t) \/ FindEmpty(t) \/ Wake(t) \/ StartGen(t)
    BY <1>1, <2>3 DEF Leave, FindEmpty, Wake, StartGen, queue, world
  <2>4. CASE GetBlock(t) \/ Cancel(t) \/ FinishGen(t)
    <3>1. PICK b : job' = [job EXCEPT ![t].modified = b]
      BY <2>4 DEF GetBlock, Cancel, FinishGen
    <3>2. \A u \in Threads : job'[u].callbacks = job[u].callbacks
      BY <3>1 DEF ThreadsType, Jobs
    <3>. QED  BY <1>1, <2>4, <3>2 DEF GetBlock, Cancel, FinishGen, queue, world
  <2>5. CASE AnnounceBlocks(t)
    <3>1. \A u \in Threads : job'[u].callbacks = job[u].callbacks
      BY <2>5 DEF AnnounceBlocks, ThreadsType, NoJob
    <3>. QED  BY <1>1, <2>5, <3>1 DEF AnnounceBlocks, queue
  <2>6. CASE LoadFails(t)
    <3>1. /\ fatal' = TRUE /\ UNCHANGED <<blocks_enqueued, server, asked>>
          /\ \A u \in Threads : job'[u] = job[u] \/ job'[u].callbacks = <<>>
      BY <2>6 DEF LoadFails, ThreadsType, NoJob, queue
    <3>2. CallsInPlace'
      BY <3>1 DEF CallsInv, CallsInPlace, Once, Occurs, Waiting
    <3>. QED  BY <3>1, <3>2 DEF CallsInv, CallsSum
  <2>. QED  BY <1>2, <2>1, <2>2, <2>3, <2>4, <2>5, <2>6 DEF ThreadStep
<1>3. ASSUME NEW pos \in Positions, NEW peer \in Requesters, NEW gen \in BOOLEAN,
             Request(pos, peer, gen)
      PROVE  CallsInv'
  BY <1>3, RequestCalls
<1>4. ASSUME NEW area \in Areas, EmergeArea(area)
      PROVE  CallsInv'
  BY <1>4, AreaCalls
<1>5. CASE EmergeAreaNext
  BY <1>5, AreaNextCalls
<1>6. CASE ServerStep /\ ~EmergeAreaNext
  <2>1. \/ server'.area = server.area /\ server'.left = server.left
        \/ server'.area = Nobody /\ server.area = Nobody
    <3>1. CASE Signal
      BY <3>1 DEF Signal, Idle, Doings
    <3>2. CASE StartThreads \/ ServerThreadEnds
      BY <3>2 DEF StartThreads, ServerThreadEnds, Doings
    <3>3. CASE ThreadsStarted
      BY <3>3 DEF ThreadsStarted, Idle, TypeOK, ServerType
    <3>. QED  BY <1>6, <3>1, <3>2, <3>3 DEF ServerStep
  <2>2. UNCHANGED <<blocks_enqueued, job, refcount, asked, fatal>>
    BY <1>6 DEF ServerStep, Signal, StartThreads, ThreadsStarted, ServerThreadEnds,
                queue, threads, world
  <2>. QED  BY <1>1, <2>1, <2>2
<1>7. CASE Shutdown \/ MainStep
  BY <1>1, <1>7 DEF Shutdown, MainStep, RequestStop, JoinThreads, StopServerThread,
                    DeleteEnvironment, DeleteEmergeManager, queue, threads, world
<1>8. CASE UNCHANGED vars
  BY <1>1, <1>8 DEF vars, queue, threads, world
<1>. QED  BY <1>2, <1>3, <1>4, <1>5, <1>6, <1>7, <1>8 DEF Next

-----------------------------------------------------------------------------
(* The theorems *)

LEMMA InitHolds ==
  ASSUME Init
  PROVE  /\ TypeOK /\ QueuesMatch /\ NoLostWakeup /\ OwnChunk /\ WholeChunks
         /\ InHand /\ AvailableIsAnnounced /\ ChargedInv /\ CallsInv
<1>1. QueueType
  BY DEF Init, QueueType
<1>2. ThreadsType
  <2>1. <<>> \in Seq(Areas)
    OBVIOUS
  <2>2. NoJob \in Jobs
    BY <2>1 DEF NoJob, Jobs
  <2>. QED  BY <2>2 DEF Init, ThreadsType, Working
<1>3. ServerType
  BY IdleType DEF Init, ServerType
<1>4. WorldType /\ WholeChunks
  <2>1. PICK saved \in SUBSET {ChunkOf(p) : p \in Positions} :
          where = [p \in Positions |-> IF ChunkOf(p) \in saved THEN "disk" ELSE "absent"]
    BY DEF Init
  <2>2. \A p \in Positions : where[p] = IF ChunkOf(p) \in saved THEN "disk" ELSE "absent"
    BY <2>1
  <2>3. WholeChunks
    BY <2>2 DEF WholeChunks, Missing
  <2>4. where \in [Positions -> {"absent", "ungenerated", "disk", "memory"}]
    BY <2>1
  <2>5. /\ in_progress = {} /\ asked = {} /\ not_sent = {} /\ fatal = FALSE
        /\ refcount \in [Areas -> Int]
    BY DEF Init
  <2>. QED  BY <2>3, <2>4, <2>5 DEF WorldType
<1>5. QueuesMatch /\ NoLostWakeup /\ OwnChunk
  BY DEF Init, QueuesMatch, NoLostWakeup, OwnChunk
<1>6. InHand /\ AvailableIsAnnounced
  BY DEF Init, InHand, AvailableIsAnnounced, Working, NoJob
<1>7. ChargedInv
  <2>1. DOMAIN blocks_enqueued = {} /\ \A r \in Requesters : peer_queue_count[r] = 0
    BY DEF Init
  <2>2. Unforced = {} /\ \A r \in Requesters : Charged(r) = {}
    BY <2>1 DEF Unforced, Charged
  <2>3. IsFiniteSet({}) /\ Cardinality({}) = 0
    BY FS_EmptySet
  <2>4. QLimitTotal \in Nat /\ QLimitGenerate \in Nat /\ Peers \subseteq Requesters
    BY LimitsAssumption DEF Requesters
  <2>. QED  BY <2>1, <2>2, <2>3, <2>4 DEF ChargedInv, ChargedFairly, Charged, Unforced
<1>8. CallsInv
  <2>1. /\ DOMAIN blocks_enqueued = {} /\ \A a \in Areas : refcount[a] = 0
        /\ \A t \in Threads : job[t].callbacks = <<>>
        /\ server.area = Nobody
    BY DEF Init, NoJob, Idle
  <2>2. DOMAIN <<>> = {}
    OBVIOUS
  <2>3. \A x : ~Occurs(x, <<>>)
    BY <2>2 DEF Occurs
  <2>4. ASSUME NEW a \in Areas
        PROVE  Waiting(a) = {} /\ Running(a) = {} /\ Unqueued(a) = 0
    <3>1. Waiting(a) = {}
      BY <2>1 DEF Waiting
    <3>2. Running(a) = {}
      BY <2>1, <2>3 DEF Running
    <3>3. Unqueued(a) = 0
      BY <2>1, Assumptions DEF Unqueued
    <3>. QED  BY <3>1, <3>2, <3>3
  <2>5. Cardinality({}) = 0
    BY FS_EmptySet
  <2>6. CallsSum
    <3>1. ASSUME NEW a \in Areas
          PROVE  refcount[a] = Cardinality(Waiting(a)) + Cardinality(Running(a)) + Unqueued(a)
      <4>1. Cardinality(Waiting(a)) = 0 /\ Cardinality(Running(a)) = 0
        BY <2>4, <2>5
      <4>. QED  BY <2>1, <2>4, <4>1
    <3>. QED  BY <3>1 DEF CallsSum
  <2>7. Once(<<>>)
    BY <2>2 DEF Once
  <2>8. CallsInPlace
    <3>1. ASSUME NEW t \in Threads
          PROVE  /\ Once(job[t].callbacks)
                 /\ \A a \in Areas : Occurs(a, job[t].callbacks) => a \in asked
      <4>1. job[t].callbacks = <<>>
        BY <2>1
      <4>. QED  BY <2>3, <2>7, <4>1
    <3>. QED  BY <2>1, <3>1 DEF CallsInPlace
  <2>. QED  BY <2>6, <2>8 DEF CallsInv
<1>. QED  BY <1>1, <1>2, <1>3, <1>4, <1>5, <1>6, <1>7, <1>8 DEF TypeOK

EmergeInv ==
  /\ TypeOK /\ QueuesMatch /\ NoLostWakeup /\ OwnChunk /\ WholeChunks
  /\ InHand /\ AvailableIsAnnounced /\ ChargedInv

LEMMA Invariance == Spec => []EmergeInv
<1>1. Init => EmergeInv
  BY InitHolds DEF EmergeInv
<1>2. EmergeInv /\ [Next]_vars => EmergeInv'
  <2>. SUFFICES ASSUME EmergeInv, [Next]_vars PROVE EmergeInv'
    OBVIOUS
  <2>1. TypeOK'
    BY QueueTypeStep, ThreadsTypeStep, ServerTypeStep, WorldTypeStep DEF TypeOK, EmergeInv
  <2>. QED  BY <2>1, QueuesMatchStep, WakeupStep, ChunksStep, AnnouncedStep, ChargedStep
            DEF EmergeInv
<1>. QED  BY <1>1, <1>2, PTL DEF Spec

\* Types: in particular every emerge thread has a position in hand while it
\* works, and the server thread is never left with the environment locked
\* (emerge.cpp, l_env.cpp).
THEOREM TypeCorrect == Spec => []TypeOK
<1>1. EmergeInv => TypeOK
  BY DEF EmergeInv
<1>. QED  BY <1>1, Invariance, PTL

\* popBlockEmerge always finds the entry of the position it pops, and every
\* entry of m_blocks_enqueued is in exactly one place of one thread's queue
\* (enqueueBlockEmergeEx and popBlockEmerge in emerge.cpp).
THEOREM QueuesMatchAlways == Spec => []QueuesMatch
<1>1. EmergeInv => QueuesMatch
  BY DEF EmergeInv
<1>. QED  BY <1>1, Invariance, PTL

\* However the server thread's signals, which it gives after it has released
\* the queue lock, fall between a thread's look at its queue and its wait:
\* no thread sleeps over a block or over a request to stop.
THEOREM NoWakeupIsLost == Spec => []NoLostWakeup
<1>1. EmergeInv => NoLostWakeup
  BY DEF EmergeInv
<1>. QED  BY <1>1, Invariance, PTL

\* initBlockMake refuses a chunk in m_chunks_in_progress, so no two threads
\* make the same chunk, and none makes a chunk that is there already.
THEOREM NoChunkIsMadeTwice == Spec => []ChunkMadeOnce
<1>1. EmergeInv => ChunkMadeOnce
  <2>. SUFFICES ASSUME EmergeInv, NEW t \in Threads, at[t] = "generate"
                PROVE  /\ \A p \in Chunk(ChunkOf(job[t].pos)) : where[p] # "memory"
                       /\ \A u \in Threads \ {t} : at[u] = "generate" =>
                             ChunkOf(job[u].pos) # ChunkOf(job[t].pos)
    BY DEF ChunkMadeOnce
  <2>. TypeOK /\ OwnChunk /\ WholeChunks
    BY DEF EmergeInv
  <2>1. job[t].pos \in Positions
    BY DEF TypeOK, ThreadsType, Working
  <2>2. \A p \in Chunk(ChunkOf(job[t].pos)) : where[p] \in Missing
    BY <2>1 DEF Chunk, OwnChunk, WholeChunks
  <2>. QED  BY <2>2 DEF OwnChunk, Missing
<1>. QED  BY <1>1, Invariance, PTL

\* A peer is charged for exactly the entries it caused, a client for no more
\* than its limit, and no more entries than the total limit wait that were not
\* forced, however requests for one position are merged (pushBlockEmergeData
\* and popBlockEmergeData in emerge.cpp).
THEOREM AlwaysChargedFairly == Spec => []ChargedFairly
<1>1. EmergeInv => ChargedFairly
  BY DEF EmergeInv, ChargedInv
<1>. QED  BY <1>1, Invariance, PTL

\* A block that a thread made available is in the hand of a thread or was
\* announced to the clients (EmergeThread::run), however the threads are
\* stopped and started.
THEOREM NothingIsKeptSecret == Spec => []AvailableIsAnnounced
<1>1. EmergeInv => AvailableIsAnnounced
  BY DEF EmergeInv
<1>. QED  BY <1>1, Invariance, PTL

\* calls_remaining of an emerge_area callback is the number of its callbacks
\* that are still to run (l_env.cpp), for areas within the limit of the map:
\* run() drops a position beyond it without running its callbacks.
THEOREM CallbacksAreCounted ==
  ASSUME AreasWithinLimit
  PROVE  Spec => []CallsRemaining
<1>1. Init => CallsInv
  BY InitHolds
<1>2. EmergeInv /\ CallsInv /\ [Next]_vars => CallsInv'
  BY CallsStep DEF EmergeInv
<1>3. CallsInv => CallsRemaining
  BY SumIsRemaining DEF CallsInv
<1>. QED  BY <1>1, <1>2, <1>3, Invariance, PTL DEF Spec
=============================================================================
