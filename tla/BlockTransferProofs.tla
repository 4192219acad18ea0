------------------------- MODULE BlockTransferProofs -------------------------
(***************************************************************************)
(* Theorems about BlockTransfer, for any finite set of blocks, any limits  *)
(* and any changes: every transfer slot is waiting for something, a block  *)
(* counted as sent is or will be at the client, no bulk change is          *)
(* forgotten, and the slots stay within their limit.                       *)
(***************************************************************************)
EXTENDS BlockTransfer, FiniteSetTheorems, WellFoundedInduction, TLAPS

-----------------------------------------------------------------------------
(* Facts about sequences and natural numbers *)

LEMMA ConcatMembers ==
  ASSUME NEW S, NEW q \in Seq(S), NEW r \in Seq(S)
  PROVE  /\ q \o r \in Seq(S)
         /\ \A i \in DOMAIN q : i \in DOMAIN (q \o r) /\ (q \o r)[i] = q[i]
         /\ \A j \in DOMAIN r : /\ Len(q) + j \in DOMAIN (q \o r)
                                /\ (q \o r)[Len(q) + j] = r[j]
         /\ \A k \in DOMAIN (q \o r) :
              \/ k \in DOMAIN q
              \/ /\ k > Len(q) /\ k - Len(q) \in DOMAIN r
                 /\ (q \o r)[k] = r[k - Len(q)]
OBVIOUS

LEMMA AppendMembers ==
  ASSUME NEW S, NEW q \in Seq(S), NEW x \in S
  PROVE  /\ Append(q, x) \in Seq(S)
         /\ \A i \in DOMAIN q : i \in DOMAIN Append(q, x) /\ Append(q, x)[i] = q[i]
         /\ Len(q) + 1 \in DOMAIN Append(q, x) /\ Append(q, x)[Len(q) + 1] = x
         /\ \A k \in DOMAIN Append(q, x) : k \in DOMAIN q \/ k = Len(q) + 1
OBVIOUS

LEMMA TailMembers ==
  ASSUME NEW S, NEW q \in Seq(S), q # <<>>
  PROVE  /\ Tail(q) \in Seq(S)
         /\ 1 \in DOMAIN q /\ Head(q) = q[1] /\ Head(q) \in S
         /\ \A i \in DOMAIN Tail(q) : i \in Nat /\ i + 1 \in DOMAIN q /\ Tail(q)[i] = q[i + 1]
         /\ \A k \in DOMAIN q : k = 1 \/ /\ k - 1 \in DOMAIN Tail(q)
                                         /\ Tail(q)[k - 1] = q[k]
OBVIOUS

LEMMA SmallestNumber ==
  ASSUME NEW T \in SUBSET Nat, T # {}
  PROVE  \E x \in T : \A y \in T : x <= y
<1>1. IsWellFoundedOn(OpToRel(<, Nat), Nat)
  BY NatLessThanWellFounded
<1>2. PICK x \in T : \A y \in T : ~ (<<y, x>> \in OpToRel(<, Nat))
  BY <1>1, WFMin
<1>3. \A y \in T : ~ (y < x)
  BY <1>2 DEF OpToRel
<1>. QED  BY <1>3

-----------------------------------------------------------------------------
(* The search *)

LEMMA SubsetsAreFinite ==
  ASSUME NEW S \in SUBSET Blocks
  PROVE  IsFiniteSet(S) /\ Cardinality(S) \in Nat
BY BlocksAssumption, FS_Subset, FS_CardinalityType

(* The blocks in order: all of them, each once.                            *)
LEMMA NearestFirstFacts ==
  ASSUME NEW S \in SUBSET Blocks, NEW order \in NearestFirst(S)
  PROVE  /\ order \in [1..Cardinality(S) -> S]
         /\ \A b \in S : \E i \in 1..Cardinality(S) : order[i] = b
<1>. DEFINE n == Cardinality(S)
<1>1. IsFiniteSet(S) /\ n \in Nat
  BY SubsetsAreFinite
<1>2. order \in [1..n -> S]
  BY DEF NearestFirst
<1>3. \A i, j \in 1..n : i < j => order[i] # order[j]
  BY DEF NearestFirst
<1>4. order \in Injection(1..n, S)
  <2>. SUFFICES ASSUME NEW i \in 1..n, NEW j \in 1..n, order[i] = order[j] PROVE i = j
    BY <1>2 DEF Injection, IsInjective
  <2>1. i < j \/ j < i \/ i = j
    BY <1>1
  <2>. QED  BY <1>3, <2>1
<1>5. Cardinality(1..n) = n
  BY <1>1, FS_Interval, 1 \in Int, n \in Int
<1>6. order \in Surjection(1..n, S)
  BY <1>1, <1>4, <1>5, FS_Injection
<1>. QED  BY <1>2, <1>6 DEF Surjection

(* The recursion of the search is a proper definition.                     *)
LEMMA SearchUnfolds ==
  ASSUME NEW order, NEW building
  PROVE  SearchSteps(order, building) =
           [i \in 0..Cardinality(Blocks) |->
              IF i = 0 THEN SearchStart
              ELSE Visit(SearchSteps(order, building)[i - 1], order[i], building)]
<1>. DEFINE N == Cardinality(Blocks)
            Solves(f, n) == f = [i \in 0..n |->
                IF i = 0 THEN SearchStart ELSE Visit(f[i - 1], order[i], building)]
            Open == {n \in 0..N : ~ \E f : Solves(f, n)}
<1>1. N \in Nat
  BY BlocksAssumption, FS_CardinalityType
<1>2. Open = {}
  <2>. SUFFICES ASSUME Open # {} PROVE FALSE
    OBVIOUS
  <2>0. Open \in SUBSET Nat
    BY <1>1
  <2>. HIDE DEF Open
  <2>1. PICK m \in Open : \A n \in Open : m <= n
    BY SmallestNumber, <2>0
  <2>2. m \in 0..N /\ ~ \E f : Solves(f, m)
    BY <2>1 DEF Open
  <2>3. m # 0
    <3>. DEFINE f == [i \in 0..0 |-> SearchStart]
    <3>1. Solves(f, 0)
      OBVIOUS
    <3>. QED  BY <3>1, <2>2
  <2>4. m - 1 \in 0..N /\ m - 1 \notin Open
    BY <2>1, <2>2, <2>3, <1>1
  <2>5. PICK f : Solves(f, m - 1)
    BY <2>4 DEF Open
  <2>. DEFINE g == [i \in 0..m |-> IF i < m THEN f[i]
                                   ELSE Visit(f[m - 1], order[m], building)]
  <2>6. Solves(g, m)
    <3>1. \A i \in 0..m - 1 : g[i] = f[i]
      BY <2>2
    <3>2. \A i \in 0..m - 1 :
            f[i] = IF i = 0 THEN SearchStart ELSE Visit(f[i - 1], order[i], building)
      BY <2>5
    <3>3. \A i \in 0..m : g[i] = IF i = 0 THEN SearchStart
                                 ELSE Visit(g[i - 1], order[i], building)
      <4>. TAKE i \in 0..m
      <4>1. CASE i = 0
        BY <4>1, <3>1, <3>2, <2>2, <2>3
      <4>2. CASE i \in 1..m - 1
        BY <4>2, <3>1, <3>2, <2>2, i - 1 \in 0..m - 1, i \in 0..m - 1
      <4>3. CASE i = m
        BY <4>3, <3>1, <2>2, <2>3, m - 1 \in 0..m - 1
      <4>. QED  BY <4>1, <4>2, <4>3, <2>2
    <3>. HIDE DEF g
    <3>4. DOMAIN g = 0..m /\ g = [i \in 0..m |-> g[i]]
      BY DEF g
    <3>. QED  BY <3>3, <3>4
  <2>. QED  BY <2>6, <2>2
<1>3. \E f : Solves(f, N)
  BY <1>1, <1>2
<1>. QED  BY <1>3 DEF SearchSteps

-----------------------------------------------------------------------------
(* The invariant *)

Packets == [pos : Blocks, data : SUBSET Changes]
Answers == [type : {"GOTBLOCKS", "DELETEDBLOCKS"}, pos : Blocks]

TypeInv ==
  /\ world \in [Blocks -> SUBSET Changes]
  /\ blocks_sending \in SUBSET Blocks /\ blocks_sent \in SUBSET Blocks
  /\ blocks_modified \in SUBSET Blocks
  /\ generated \in SUBSET Blocks
  /\ chan2 \in Seq(Packets) /\ upstream \in Seq(Answers)
  /\ loaded \in SUBSET Blocks /\ DOMAIN copy = Blocks
  /\ meshQueue \in SUBSET Blocks /\ meshOut \in Seq(Blocks)

(* m_blocks_sending stays within max_simultaneous_block_sends_per_client.  *)
SlotsWithinLimit == Cardinality(blocks_sending) <= MaxSimulSends

(* As SentIsThere, also of the blocks being sent: the acknowledgement that *)
(* makes them sent may be that of an earlier copy.                         *)
Arrives(b) == b \in loaded \/ OnWire(b) \/ Deleting(b)

KeptIsThere == \A b \in blocks_sending \cup blocks_sent : Arrives(b)

(* A search so far: what it has chosen is neither sent nor being sent, and *)
(* fits in the free slots.                                                 *)
SearchOK(acc) ==
  /\ acc = [chosen |-> acc.chosen, queue |-> acc.queue, stop |-> acc.stop, d |-> acc.d,
            sent_d |-> acc.sent_d, emerged_d |-> acc.emerged_d, full_d |-> acc.full_d]
  /\ acc.chosen \in SUBSET (generated \ (blocks_sending \cup blocks_sent))
  /\ Cardinality(blocks_sending) + Cardinality(acc.chosen) <= MaxSimulSends

LEMMA VisitKeeps ==
  ASSUME TypeInv, NEW acc, SearchOK(acc), NEW b \in Blocks, NEW building \in BOOLEAN
  PROVE  SearchOK(Visit(acc, b, building))
<1>1. acc.chosen \in SUBSET Blocks
  BY DEF SearchOK, TypeInv
<1>2. /\ IsFiniteSet(acc.chosen) /\ Cardinality(acc.chosen) \in Nat
      /\ Cardinality(blocks_sending) \in Nat /\ MaxSimulSends \in Nat
  BY <1>1, SubsetsAreFinite, BlocksAssumption DEF TypeInv
<1>3. CASE /\ b \in generated /\ b \notin blocks_sending \cup blocks_sent
           /\ Cardinality(blocks_sending) + Cardinality(acc.chosen) < MaxSimulSends
           /\ Visit(acc, b, building) =
                [acc EXCEPT !.chosen = @ \cup {b}, !.sent_d = @ \cup {Dist[b]}]
  <2>1. /\ Cardinality(acc.chosen \cup {b}) <= Cardinality(acc.chosen) + 1
        /\ Cardinality(acc.chosen \cup {b}) \in Nat
    <3>1. /\ IsFiniteSet(acc.chosen \cup {b})
          /\ Cardinality(acc.chosen \cup {b}) =
               IF b \in acc.chosen THEN Cardinality(acc.chosen) ELSE Cardinality(acc.chosen) + 1
      BY <1>2, FS_AddElement
    <3>. QED  BY <1>2, <3>1
  <2>2. Visit(acc, b, building) =
          [chosen |-> acc.chosen \cup {b}, queue |-> acc.queue, stop |-> acc.stop,
           d |-> acc.d, sent_d |-> acc.sent_d \cup {Dist[b]},
           emerged_d |-> acc.emerged_d, full_d |-> acc.full_d]
    BY <1>3 DEF SearchOK
  <2>3. /\ acc.chosen \cup {b} \in SUBSET (generated \ (blocks_sending \cup blocks_sent))
        /\ Cardinality(blocks_sending) + Cardinality(acc.chosen \cup {b}) <= MaxSimulSends
    BY <1>2, <1>3, <2>1 DEF SearchOK
  <2>. QED  BY <2>2, <2>3 DEF SearchOK
<1>4. ASSUME NEW q, NEW s, NEW e, NEW f, NEW t,
             Visit(acc, b, building) =
               [chosen |-> acc.chosen, queue |-> q, stop |-> s, d |-> e,
                sent_d |-> acc.sent_d, emerged_d |-> f, full_d |-> t]
      PROVE  SearchOK(Visit(acc, b, building))
  BY <1>4 DEF SearchOK
<1>. DEFINE d == Dist[b]
            count == Cardinality(blocks_sending) + Cardinality(acc.chosen)
            limit == IF building /\ d > 1 THEN 0 ELSE MaxSimulSends
<1>5. acc = [chosen |-> acc.chosen, queue |-> acc.queue, stop |-> acc.stop, d |-> acc.d,
             sent_d |-> acc.sent_d, emerged_d |-> acc.emerged_d, full_d |-> acc.full_d]
  BY DEF SearchOK
<1>. DEFINE skipped == [chosen |-> acc.chosen, queue |-> acc.queue, stop |-> acc.stop,
                        d |-> acc.d, sent_d |-> acc.sent_d,
                        emerged_d |-> acc.emerged_d, full_d |-> acc.full_d]
            stopped == [skipped EXCEPT !.stop = TRUE, !.d = d]
            emerged == [skipped EXCEPT !.queue = @ \cup {b}, !.emerged_d = @ \cup {d}]
            full == [skipped EXCEPT !.full_d = {d}, !.stop = TRUE, !.d = d]
<1>6. CASE Visit(acc, b, building) \in {skipped, stopped, emerged, full}
  BY <1>4, <1>6
<1>7. CASE \/ acc.stop \/ d \notin StartRing..EndRing \/ count >= limit
           \/ b \in blocks_sending \cup blocks_sent \/ b \notin generated
  BY <1>5, <1>6, <1>7, Zenon DEF Visit
<1>8. CASE /\ ~acc.stop /\ d \in StartRing..EndRing /\ ~(count >= limit)
           /\ b \notin blocks_sending \cup blocks_sent /\ b \in generated
  <2>1. count < MaxSimulSends
    BY <1>8, <1>2
  <2>2. Visit(acc, b, building) =
          [acc EXCEPT !.chosen = @ \cup {b}, !.sent_d = @ \cup {d}]
    BY <1>8 DEF Visit
  <2>. QED  BY <1>3, <1>8, <2>1, <2>2
<1>. QED  BY <1>7, <1>8

(* A search that starts with a free slot.                                  *)
LEMMA SearchFinds ==
  ASSUME TypeInv, NEW order \in NearestFirst(Blocks), NEW building \in BOOLEAN,
         Cardinality(blocks_sending) < MaxSimulSends
  PROVE  SearchOK(Search(order, building))
<1>. DEFINE N == Cardinality(Blocks)
            after == SearchSteps(order, building)
            Wrong == {n \in 0..N : ~ SearchOK(after[n])}
<1>1. N \in Nat /\ order \in [1..N -> Blocks]
  BY BlocksAssumption, FS_CardinalityType, NearestFirstFacts
<1>2. \A i \in 0..N : after[i] = IF i = 0 THEN SearchStart
                                 ELSE Visit(after[i - 1], order[i], building)
  <2>1. after = [i \in 0..N |-> IF i = 0 THEN SearchStart
                                ELSE Visit(after[i - 1], order[i], building)]
    BY SearchUnfolds, Zenon
  <2>. HIDE DEF after
  <2>. QED  BY <2>1, Zenon
<1>3. SearchOK(SearchStart)
  <2>1. Cardinality(blocks_sending) \in Nat /\ MaxSimulSends \in Nat
    BY SubsetsAreFinite, BlocksAssumption DEF TypeInv
  <2>2. SearchStart.chosen = {} /\ Cardinality({}) = 0
    BY FS_EmptySet DEF SearchStart
  <2>3. Cardinality(blocks_sending) + Cardinality(SearchStart.chosen) <= MaxSimulSends
    BY <2>1, <2>2
  <2>. QED  BY <2>2, <2>3 DEF SearchOK, SearchStart
<1>. HIDE DEF after
<1>4. Wrong = {}
  <2>. SUFFICES ASSUME Wrong # {} PROVE FALSE
    OBVIOUS
  <2>1. Wrong \in SUBSET Nat
    BY <1>1
  <2>. HIDE DEF Wrong
  <2>2. PICK m \in Wrong : \A n \in Wrong : m <= n
    BY SmallestNumber, <2>1
  <2>3. m \in 0..N /\ ~ SearchOK(after[m])
    BY <2>2 DEF Wrong
  <2>4. m # 0
    BY <1>2, <1>3, <2>3
  <2>5. m - 1 \in 0..N /\ m - 1 \notin Wrong /\ m \in 1..N
    BY <1>1, <2>2, <2>3, <2>4
  <2>6. SearchOK(after[m - 1]) /\ order[m] \in Blocks
    BY <2>5, <1>1 DEF Wrong
  <2>7. SearchOK(Visit(after[m - 1], order[m], building))
    BY <2>6, VisitKeeps
  <2>. QED  BY <1>2, <2>3, <2>4, <2>7
<1>. QED  BY <1>1, <1>4 DEF after, Search

-----------------------------------------------------------------------------
(* What is on its way *)

TransferInv ==
  /\ TypeInv /\ SlotsWithinLimit
  /\ SlotsAreAnswered /\ KeptIsThere /\ BulkChangesAreKept

(* The acknowledgement of b is on its way, or its mesh is.                 *)
Got(b) == InSeq(upstream, LAMBDA m : m = [type |-> "GOTBLOCKS", pos |-> b])
Asked(b) == b \in meshQueue \/ InSeq(meshOut, LAMBDA p : p = b) \/ Got(b)

LEMMA InitInv == Init => TransferInv
<1>. SUFFICES ASSUME Init PROVE TransferInv
  OBVIOUS
<1>1. TypeInv
  BY DEF Init, TypeInv
<1>2. SlotsWithinLimit
  BY BlocksAssumption, FS_EmptySet DEF Init, SlotsWithinLimit
<1>. QED  BY <1>1, <1>2 DEF Init, TransferInv, SlotsAreAnswered, KeptIsThere, BulkChangesAreKept

(* A step that only takes blocks off the two sets, and lets no bulk change *)
(* into a block that stays.                                                *)
LEMMA TakenOffKeeps ==
  ASSUME TransferInv, TypeInv',
         blocks_sending' \subseteq blocks_sending, blocks_sent' \subseteq blocks_sent,
         \A b \in blocks_sending' \cup blocks_sent' :
            world'[b] \cap BulkChanges = world[b] \cap BulkChanges,
         UNCHANGED <<chan2, upstream, loaded, copy, meshQueue, meshOut>>
  PROVE  TransferInv'
<1>1. SlotsWithinLimit'
  <2>1. Cardinality(blocks_sending') <= Cardinality(blocks_sending)
    BY SubsetsAreFinite, FS_Subset DEF TransferInv, TypeInv
  <2>2. Cardinality(blocks_sending') \in Nat /\ Cardinality(blocks_sending) \in Nat
        /\ MaxSimulSends \in Nat
    BY SubsetsAreFinite, BlocksAssumption DEF TransferInv, TypeInv
  <2>. QED  BY <2>1, <2>2 DEF TransferInv, SlotsWithinLimit
<1>2. SlotsAreAnswered' /\ KeptIsThere'
  BY DEF TransferInv, SlotsAreAnswered, KeptIsThere, Arrives, OnWire, Deleting, InSeq
<1>3. BulkChangesAreKept'
  BY DEF TransferInv, BulkChangesAreKept, NewestCopyHas, LastOnWire, OnWire, Deleting, InSeq
<1>. QED  BY <1>1, <1>2, <1>3 DEF TransferInv

(* The steps of RemoteClient and of the server's map are of that kind.     *)
LEMMA ServerStep ==
  ASSUME TransferInv,
         \/ PauseElapses \/ SendMapEdits
         \/ \E b \in Blocks, e \in NodeEdits : EditNode(b, e) \/ Dig(b, e)
         \/ \E b \in Blocks, e \in BulkChanges : BulkChange(b, e)
         \/ \E b \in Blocks : EmergeFinishes(b) \/ EmergeNotifies(b)
  PROVE  TransferInv'
<1>. DEFINE Off(S) == /\ blocks_sending' = blocks_sending \ S
                      /\ blocks_sent' = blocks_sent \ S
                      /\ blocks_modified' \in SUBSET Blocks
            Same == UNCHANGED <<chan2, upstream, loaded, copy, meshQueue, meshOut>>
<1>1. TypeInv /\ NodeEdits \cap BulkChanges = {}
  BY BlocksAssumption DEF TransferInv
<1>2. ASSUME NEW S, Off(S), Same, world' = world, generated' \in SUBSET Blocks
      PROVE  TransferInv'
  <2>1. TypeInv'
    BY <1>1, <1>2 DEF TypeInv
  <2>. QED  BY <1>2, <2>1, TakenOffKeeps
<1>3. ASSUME NEW S, Off(S), Same, generated' = generated,
             NEW b \in Blocks, NEW e \in Changes,
             world' = [world EXCEPT ![b] = @ \cup {e}], e \in BulkChanges => b \in S
      PROVE  TransferInv'
  <2>1. TypeInv'
    BY <1>1, <1>3 DEF TypeInv
  <2>2. \A c \in blocks_sending' \cup blocks_sent' :
          world'[c] \cap BulkChanges = world[c] \cap BulkChanges
    BY <1>1, <1>3 DEF TypeInv, Changes
  <2>. QED  BY <1>3, <2>1, <2>2, TakenOffKeeps
<1>4. ASSUME NEW S, SetBlocksNotSent(S) PROVE Off(S)
  BY <1>1, <1>4 DEF SetBlocksNotSent, TypeInv
<1>5. ASSUME UNCHANGED remoteClient PROVE Off({})
  BY <1>1, <1>5 DEF remoteClient, TypeInv
<1>. HIDE DEF Off
<1>6. CASE PauseElapses
  <2>1. Off({})
    BY <1>1, <1>6 DEF PauseElapses, Off, TypeInv
  <2>. QED  BY <1>1, <1>2, <1>6, <2>1 DEF PauseElapses, server, client, TypeInv
<1>7. CASE SendMapEdits
  <2>1. PICK S : Off(S)
    BY <1>4, <1>5, <1>7 DEF SendMapEdits
  <2>. QED  BY <1>1, <1>2, <1>7, <2>1 DEF SendMapEdits, client, TypeInv
<1>8. ASSUME NEW b \in Blocks, NEW e \in NodeEdits, EditNode(b, e) \/ Dig(b, e)
      PROVE  TransferInv'
  <2>1. PICK S : Off(S)
    BY <1>4, <1>5, <1>8 DEF EditNode, Dig, ResendBlockIfOnWire
  <2>2. e \in Changes /\ e \notin BulkChanges
    BY <1>1 DEF Changes
  <2>. QED  BY <1>3, <1>8, <2>1, <2>2 DEF EditNode, Dig, client
<1>9. ASSUME NEW b \in Blocks, NEW e \in BulkChanges, BulkChange(b, e)
      PROVE  TransferInv'
  BY <1>3, <1>4, <1>9 DEF BulkChange, client, Changes
<1>10. ASSUME NEW b \in Blocks, EmergeFinishes(b) PROVE TransferInv'
  <2>1. Off({}) /\ generated' \in SUBSET Blocks
    BY <1>1, <1>5, <1>10 DEF EmergeFinishes, TypeInv
  <2>. QED  BY <1>2, <1>10, <2>1 DEF EmergeFinishes, client
<1>11. ASSUME NEW b \in Blocks, EmergeNotifies(b) PROVE TransferInv'
  BY <1>1, <1>2, <1>4, <1>11 DEF EmergeNotifies, client, TypeInv
<1>. QED  BY <1>6, <1>7, <1>8, <1>9, <1>10, <1>11

(* The blocks found are sent.                                              *)
LEMMA SendBlocksStep ==
  ASSUME TransferInv, NEW building \in BOOLEAN, SendBlocks(building)
  PROVE  TransferInv'
<1>1. TypeInv /\ Cardinality(blocks_sending) < MaxSimulSends
  BY DEF TransferInv, SendBlocks
<1>2. PICK order \in NearestFirst(Blocks) :
        /\ blocks_sending' = blocks_sending \cup Search(order, building).chosen
        /\ \E queue \in NearestFirst(Search(order, building).chosen) :
             chan2' = chan2 \o [i \in 1..Cardinality(Search(order, building).chosen) |->
                                  [pos |-> queue[i], data |-> world[queue[i]]]]
  BY DEF SendBlocks
<1>. DEFINE C == Search(order, building).chosen
<1>3. SearchOK(Search(order, building))
  BY <1>1, SearchFinds
<1>4. /\ C \in SUBSET Blocks /\ C \cap (blocks_sending \cup blocks_sent) = {}
      /\ Cardinality(blocks_sending) + Cardinality(C) <= MaxSimulSends
  BY <1>1, <1>3 DEF SearchOK, TypeInv
<1>. HIDE DEF C
<1>5. PICK queue \in NearestFirst(C) :
        chan2' = chan2 \o [i \in 1..Cardinality(C) |->
                             [pos |-> queue[i], data |-> world[queue[i]]]]
  BY <1>2 DEF C
<1>. DEFINE new == [i \in 1..Cardinality(C) |-> [pos |-> queue[i], data |-> world[queue[i]]]]
<1>6. queue \in [1..Cardinality(C) -> C] /\ \A b \in C : \E i \in 1..Cardinality(C) : queue[i] = b
  BY <1>4, NearestFirstFacts
<1>7. Cardinality(C) \in Nat
  BY <1>4, SubsetsAreFinite
<1>8. new \in Seq(Packets)
  <2>1. \A i \in 1..Cardinality(C) : [pos |-> queue[i], data |-> world[queue[i]]] \in Packets
    BY <1>1, <1>4, <1>6 DEF Packets, TypeInv
  <2>2. new \in [1..Cardinality(C) -> Packets]
    BY <2>1
  <2>. HIDE DEF new
  <2>. QED  BY <1>7, <2>2
<1>9. /\ blocks_sending' = blocks_sending \cup C /\ chan2' = chan2 \o new
      /\ UNCHANGED <<blocks_sent, world, generated, upstream, loaded, copy, meshQueue, meshOut>>
      /\ blocks_modified' = {}
  BY <1>2, <1>5 DEF C, SendBlocks, client
<1>10. /\ DOMAIN new = 1..Cardinality(C)
       /\ \A i \in DOMAIN new : new[i].pos \in C /\ new[i].data = world[new[i].pos]
       /\ \A b \in C : \E i \in DOMAIN new : new[i].pos = b
  BY <1>6
<1>. HIDE DEF new
<1>11. /\ chan2' \in Seq(Packets)
       /\ \A i \in DOMAIN chan2 : i \in DOMAIN chan2' /\ chan2'[i] = chan2[i]
       /\ \A j \in DOMAIN new : Len(chan2) + j \in DOMAIN chan2' /\ chan2'[Len(chan2) + j] = new[j]
       /\ \A k \in DOMAIN chan2' :
            \/ k \in DOMAIN chan2
            \/ /\ k > Len(chan2) /\ k - Len(chan2) \in DOMAIN new
               /\ chan2'[k] = new[k - Len(chan2)]
  BY <1>1, <1>8, <1>9, ConcatMembers DEF TypeInv
<1>12. TypeInv'
  BY <1>1, <1>4, <1>9, <1>11 DEF TypeInv
<1>13. SlotsWithinLimit'
  <2>1. Cardinality(blocks_sending \cup C) =
          Cardinality(blocks_sending) + Cardinality(C) - Cardinality(blocks_sending \cap C)
    BY <1>1, <1>4, SubsetsAreFinite, FS_Union DEF TypeInv
  <2>2. Cardinality(blocks_sending \cap C) = 0 /\ Cardinality(blocks_sending) \in Nat
    <3>1. blocks_sending \cap C = {}
      BY <1>4
    <3>. QED  BY <1>1, <3>1, SubsetsAreFinite, FS_EmptySet DEF TypeInv
  <2>3. Cardinality(blocks_sending \cup C) <= MaxSimulSends
    BY <1>4, <1>7, <2>1, <2>2
  <2>. QED  BY <1>9, <2>3 DEF SlotsWithinLimit
<1>14. \A b \in Blocks : (OnWire(b) \/ b \in C) => OnWire(b)'
  BY <1>10, <1>11 DEF OnWire, InSeq
<1>15. SlotsAreAnswered' /\ KeptIsThere'
  <2>1. \A b \in blocks_sending' \cup blocks_sent' : b \in Blocks /\ (b \notin C =>
          b \in blocks_sending \cup blocks_sent /\ (b \in blocks_sending' => b \in blocks_sending))
    BY <1>1, <1>4, <1>9 DEF TypeInv
  <2>2. SlotsAreAnswered'
    BY <1>9, <1>14, <2>1 DEF TransferInv, SlotsAreAnswered, InSeq
  <2>3. KeptIsThere'
    BY <1>9, <1>14, <2>1 DEF TransferInv, KeptIsThere, Arrives, Deleting, InSeq
  <2>. QED  BY <2>2, <2>3
<1>16. BulkChangesAreKept'
  <2>. SUFFICES ASSUME NEW b \in (blocks_sent \cup blocks_sending)', ~Deleting(b)'
                PROVE  NewestCopyHas(b, world[b] \cap BulkChanges)'
    BY <1>9 DEF BulkChangesAreKept
  <2>1. CASE b \in C
    <3>1. PICK j \in DOMAIN new : Len(chan2) + j \in DOMAIN chan2' /\ chan2'[Len(chan2) + j].pos = b
      BY <1>10, <1>11, <2>1
    <3>2. ASSUME NEW i \in DOMAIN chan2', LastOnWire(i, b)'
          PROVE  chan2'[i].data = world[b]
      <4>1. j \in Nat \ {0} /\ i \in Nat /\ DOMAIN chan2 = 1..Len(chan2) /\ Len(chan2) \in Nat
        BY <1>1, <1>7, <1>10, <1>11, <3>1 DEF TypeInv
      <4>2. ~(Len(chan2) + j > i)
        BY <3>1, <3>2 DEF LastOnWire
      <4>3. i \notin DOMAIN chan2
        BY <4>1, <4>2
      <4>. QED  BY <1>10, <1>11, <3>2, <4>3 DEF LastOnWire
    <3>3. OnWire(b)'
      BY <3>1 DEF OnWire, InSeq
    <3>. QED  BY <1>9, <3>2, <3>3 DEF NewestCopyHas
  <2>2. CASE b \notin C
    <3>1. NewestCopyHas(b, world[b] \cap BulkChanges)
      BY <1>9, <2>2 DEF TransferInv, BulkChangesAreKept, Deleting, InSeq
    <3>2. \A k \in DOMAIN chan2' : chan2'[k].pos = b => k \in DOMAIN chan2
      BY <1>10, <1>11, <2>2
    <3>. QED  BY <1>9, <1>11, <3>1, <3>2 DEF NewestCopyHas, LastOnWire, OnWire, InSeq
  <2>. QED  BY <2>1, <2>2
<1>. QED  BY <1>12, <1>13, <1>15, <1>16 DEF TransferInv

(* A step of the client: the server keeps its books.                       *)
ClientStep == UNCHANGED <<world, generated, blocks_sending, blocks_sent, blocks_modified>>

LEMMA BlockDataStep ==
  ASSUME TransferInv, handleCommand_BlockData PROVE TransferInv'
<1>. DEFINE p == Head(chan2).pos
<1>1. /\ chan2 # <<>> /\ chan2' = Tail(chan2)
      /\ loaded' = loaded \cup {p} /\ meshQueue' = meshQueue \cup {p}
      /\ copy' = [copy EXCEPT ![p] = Head(chan2).data]
      /\ ClientStep /\ UNCHANGED <<meshOut, upstream>>
  BY DEF handleCommand_BlockData, ClientStep, server, remoteClient
<1>2. TypeInv
  BY DEF TransferInv
<1>3. /\ Tail(chan2) \in Seq(Packets)
      /\ 1 \in DOMAIN chan2 /\ Head(chan2) = chan2[1] /\ Head(chan2) \in Packets
      /\ \A i \in DOMAIN Tail(chan2) :
           i \in Nat /\ i + 1 \in DOMAIN chan2 /\ Tail(chan2)[i] = chan2[i + 1]
      /\ \A k \in DOMAIN chan2 :
           k = 1 \/ (k - 1 \in DOMAIN Tail(chan2) /\ Tail(chan2)[k - 1] = chan2[k])
  <2>. chan2 \in Seq(Packets) /\ chan2 # <<>>
    BY <1>1, <1>2 DEF TypeInv
  <2>. QED  BY TailMembers
<1>4. p \in Blocks
  BY <1>3 DEF Packets
<1>5. TypeInv'
  BY <1>1, <1>2, <1>3, <1>4 DEF TypeInv, ClientStep
<1>6. \A b : OnWire(b) => OnWire(b)' \/ b = p
  BY <1>1, <1>3 DEF OnWire, InSeq
<1>7. SlotsAreAnswered' /\ KeptIsThere'
  BY <1>1, <1>6 DEF TransferInv, SlotsAreAnswered, KeptIsThere, Arrives, Deleting, InSeq, ClientStep
<1>8. BulkChangesAreKept'
  <2>. SUFFICES ASSUME NEW b \in blocks_sent \cup blocks_sending, ~Deleting(b)
                PROVE  NewestCopyHas(b, world[b] \cap BulkChanges)'
    BY <1>1 DEF BulkChangesAreKept, ClientStep, Deleting, InSeq
  <2>1. b \in Blocks /\ NewestCopyHas(b, world[b] \cap BulkChanges)
    BY <1>2 DEF TransferInv, BulkChangesAreKept, TypeInv
  <2>2. ASSUME NEW i \in DOMAIN chan2', LastOnWire(i, b)'
        PROVE  world[b] \cap BulkChanges \subseteq chan2'[i].data
    <3>1. i + 1 \in DOMAIN chan2 /\ chan2'[i] = chan2[i + 1] /\ i \in Nat
      BY <1>1, <1>3
    <3>2. \A j \in DOMAIN chan2 : j > i + 1 => j # 1 /\ j - 1 > i
      BY <1>2, <3>1 DEF TypeInv
    <3>3. LastOnWire(i + 1, b)
      BY <1>1, <1>3, <2>2, <3>1, <3>2 DEF LastOnWire
    <3>. QED  BY <2>1, <3>1, <3>3 DEF NewestCopyHas
  <2>3. ASSUME ~OnWire(b)' PROVE world[b] \cap BulkChanges \subseteq copy'[b]
    <3>1. CASE b = p
      <4>1. ASSUME NEW j \in DOMAIN chan2, j > 1 PROVE chan2[j].pos # b
        <5>1. j - 1 \in DOMAIN chan2' /\ chan2'[j - 1] = chan2[j]
          BY <1>1, <1>3, <4>1
        <5>. QED  BY <2>3, <5>1 DEF OnWire, InSeq
      <4>2. LastOnWire(1, b)
        BY <1>3, <3>1, <4>1 DEF LastOnWire
      <4>3. copy'[b] = chan2[1].data
        BY <1>1, <1>2, <1>3, <1>4, <3>1 DEF TypeInv
      <4>. QED  BY <1>3, <2>1, <4>2, <4>3 DEF NewestCopyHas
    <3>2. CASE b # p
      BY <1>1, <1>2, <1>6, <2>1, <2>3, <3>2 DEF NewestCopyHas, TypeInv
    <3>. QED  BY <3>1, <3>2
  <2>. QED  BY <1>1, <2>2, <2>3 DEF NewestCopyHas, ClientStep
<1>. QED  BY <1>1, <1>5, <1>7, <1>8 DEF TransferInv, SlotsWithinLimit, ClientStep

LEMMA AddNodeStep ==
  ASSUME TransferInv, handleCommand_AddNode PROVE TransferInv'
<1>1. /\ ClientStep /\ UNCHANGED <<chan2, upstream, loaded, meshQueue, meshOut>>
      /\ \A b \in Blocks : copy[b] \subseteq copy'[b]
      /\ DOMAIN copy' = DOMAIN copy
  BY DEF TransferInv, TypeInv, handleCommand_AddNode, ClientStep, server, remoteClient
<1>2. TypeInv'
  BY <1>1 DEF TransferInv, TypeInv, ClientStep
<1>3. SlotsAreAnswered' /\ KeptIsThere' /\ SlotsWithinLimit'
  BY <1>1 DEF TransferInv, SlotsAreAnswered, KeptIsThere, Arrives, SlotsWithinLimit,
     OnWire, Deleting, InSeq, ClientStep
<1>4. BulkChangesAreKept'
  BY <1>1 DEF TransferInv, TypeInv, BulkChangesAreKept, NewestCopyHas, LastOnWire, OnWire,
     Deleting, InSeq, ClientStep
<1>. QED  BY <1>2, <1>3, <1>4 DEF TransferInv

(* A block on its way through the mesh queue stays on its way.             *)
LEMMA MeshStep ==
  ASSUME TransferInv, SendGotBlocks \/ \E b \in Blocks : MeshUpdate(b)
  PROVE  TransferInv'
<1>. DEFINE Handed ==
              /\ meshQueue' \in SUBSET Blocks /\ meshOut' \in Seq(Blocks)
              /\ upstream' \in Seq(Answers)
              /\ \A b \in Blocks : Asked(b) => Asked(b)'
              /\ \A b \in Blocks : Deleting(b)' <=> Deleting(b)
<1>1. /\ ClientStep /\ UNCHANGED <<chan2, loaded, copy>>
  BY DEF SendGotBlocks, MeshUpdate, ClientStep, server, remoteClient
<1>2. Handed
  <2>1. ASSUME NEW b \in Blocks, MeshUpdate(b)
        PROVE  Handed
    <3>1. /\ meshQueue' = meshQueue \ {b} /\ meshOut' = Append(meshOut, b)
          /\ upstream' = upstream /\ meshOut \in Seq(Blocks)
      BY <2>1 DEF MeshUpdate, TransferInv, TypeInv
    <3>2. /\ meshOut' \in Seq(Blocks)
          /\ \A i \in DOMAIN meshOut : i \in DOMAIN meshOut' /\ meshOut'[i] = meshOut[i]
          /\ Len(meshOut) + 1 \in DOMAIN meshOut' /\ meshOut'[Len(meshOut) + 1] = b
      BY <3>1, AppendMembers
    <3>. QED  BY <3>1, <3>2 DEF TransferInv, TypeInv, InSeq, Deleting, Asked, Got
  <2>2. ASSUME SendGotBlocks
        PROVE  Handed
    <3>. DEFINE got == [i \in DOMAIN meshOut |-> [type |-> "GOTBLOCKS", pos |-> meshOut[i]]]
    <3>1. /\ upstream' = upstream \o got /\ meshOut' = <<>> /\ meshQueue' = meshQueue
          /\ upstream \in Seq(Answers) /\ meshOut \in Seq(Blocks)
      BY <2>2 DEF SendGotBlocks, TransferInv, TypeInv
    <3>2. got \in Seq(Answers)
      <4>1. got \in [1..Len(meshOut) -> Answers] /\ Len(meshOut) \in Nat
        BY <3>1 DEF Answers
      <4>. HIDE DEF got
      <4>. QED  BY <4>1
    <3>3. /\ DOMAIN got = DOMAIN meshOut
          /\ \A i \in DOMAIN meshOut : got[i] = [type |-> "GOTBLOCKS", pos |-> meshOut[i]]
      OBVIOUS
    <3>. HIDE DEF got
    <3>4. /\ upstream' \in Seq(Answers)
          /\ \A i \in DOMAIN upstream : i \in DOMAIN upstream' /\ upstream'[i] = upstream[i]
          /\ \A j \in DOMAIN got : /\ Len(upstream) + j \in DOMAIN upstream'
                                   /\ upstream'[Len(upstream) + j] = got[j]
          /\ \A k \in DOMAIN upstream' :
               \/ k \in DOMAIN upstream
               \/ /\ k - Len(upstream) \in DOMAIN got
                  /\ upstream'[k] = got[k - Len(upstream)]
      BY <3>1, <3>2, ConcatMembers
    <3>5. \A b \in Blocks : Asked(b) => Asked(b)'
      <4>. TAKE b \in Blocks
      <4>1. Got(b) => Got(b)'
        BY <3>4 DEF Got, InSeq
      <4>2. ASSUME NEW i \in DOMAIN meshOut, meshOut[i] = b PROVE Got(b)'
        BY <3>3, <3>4, <4>2 DEF Got, InSeq
      <4>. QED  BY <3>1, <4>1, <4>2 DEF Asked, InSeq
    <3>6. \A b \in Blocks : Deleting(b)' <=> Deleting(b)
      BY <3>1, <3>3, <3>4 DEF Deleting, InSeq
    <3>. QED  BY <3>1, <3>4, <3>5, <3>6 DEF TransferInv, TypeInv
  <2>. QED  BY <2>1, <2>2
<1>3. TypeInv'
  BY <1>1, <1>2 DEF TransferInv, TypeInv, ClientStep
<1>4. SlotsAreAnswered'
  <2>1. \A b \in blocks_sending : b \in Blocks /\ (OnWire(b) \/ Asked(b))
    BY DEF TransferInv, TypeInv, SlotsAreAnswered, Asked, Got
  <2>2. \A b \in blocks_sending' : OnWire(b)' \/ Asked(b)'
    BY <1>1, <1>2, <2>1 DEF OnWire, InSeq, ClientStep
  <2>. QED  BY <2>2 DEF SlotsAreAnswered, Asked, Got
<1>5. KeptIsThere' /\ SlotsWithinLimit'
  BY <1>1, <1>2 DEF TransferInv, TypeInv, KeptIsThere, Arrives, SlotsWithinLimit, OnWire,
     InSeq, ClientStep
<1>6. BulkChangesAreKept'
  BY <1>1, <1>2 DEF TransferInv, TypeInv, BulkChangesAreKept, NewestCopyHas, LastOnWire,
     OnWire, InSeq, ClientStep
<1>. QED  BY <1>3, <1>4, <1>5, <1>6 DEF TransferInv

(* The client announces that it dropped the block.                         *)
LEMMA UnloadStep ==
  ASSUME TransferInv, NEW b \in Blocks, ClientUnloads(b) PROVE TransferInv'
<1>. DEFINE m == [type |-> "DELETEDBLOCKS", pos |-> b]
<1>1. /\ ClientStep /\ UNCHANGED <<chan2, meshQueue, meshOut>>
      /\ loaded' = loaded \ {b} /\ copy' = [copy EXCEPT ![b] = {}]
      /\ upstream' = Append(upstream, m)
  BY DEF ClientUnloads, ClientStep, server, remoteClient
<1>2. TypeInv /\ m \in Answers
  BY DEF TransferInv, Answers
<1>3. /\ upstream' \in Seq(Answers)
      /\ \A i \in DOMAIN upstream : i \in DOMAIN upstream' /\ upstream'[i] = upstream[i]
      /\ Len(upstream) + 1 \in DOMAIN upstream' /\ upstream'[Len(upstream) + 1] = m
  BY <1>1, <1>2, AppendMembers DEF TypeInv
<1>4. TypeInv'
  BY <1>1, <1>2, <1>3 DEF TypeInv, ClientStep
<1>5. Deleting(b)' /\ \A c \in Blocks : Deleting(c) => Deleting(c)'
  BY <1>3 DEF Deleting, InSeq
<1>6. SlotsAreAnswered' /\ SlotsWithinLimit'
  BY <1>1, <1>3 DEF TransferInv, SlotsAreAnswered, SlotsWithinLimit, OnWire, InSeq, ClientStep
<1>7. KeptIsThere'
  <2>. SUFFICES ASSUME NEW c \in blocks_sending \cup blocks_sent PROVE Arrives(c)'
    BY <1>1 DEF KeptIsThere, ClientStep
  <2>1. c \in Blocks /\ Arrives(c)
    BY <1>2 DEF TransferInv, KeptIsThere, TypeInv
  <2>. QED  BY <1>1, <1>5, <2>1 DEF Arrives, OnWire, InSeq
<1>8. BulkChangesAreKept'
  <2>. SUFFICES ASSUME NEW c \in blocks_sent \cup blocks_sending, ~Deleting(c)'
                PROVE  NewestCopyHas(c, world[c] \cap BulkChanges)'
    BY <1>1 DEF BulkChangesAreKept, ClientStep
  <2>1. c \in Blocks /\ c # b /\ NewestCopyHas(c, world[c] \cap BulkChanges)
    BY <1>2, <1>5 DEF TransferInv, BulkChangesAreKept, TypeInv
  <2>2. copy'[c] = copy[c]
    BY <1>1, <1>2, <2>1 DEF TypeInv
  <2>. QED  BY <1>1, <2>1, <2>2 DEF NewestCopyHas, LastOnWire, OnWire, InSeq, ClientStep
<1>. QED  BY <1>4, <1>6, <1>7, <1>8 DEF TransferInv

(* The server takes an answer: an acknowledged block moves from one set to *)
(* the other, a dropped one leaves both.                                   *)
LEMMA ReceiveStep ==
  ASSUME TransferInv, ServerReceives PROVE TransferInv'
<1>. DEFINE m == Head(upstream)
<1>1. /\ upstream # <<>> /\ upstream' = Tail(upstream)
      /\ UNCHANGED <<world, generated, loaded, copy, meshQueue, meshOut, chan2>>
  BY DEF ServerReceives, server, client
<1>2. TypeInv
  BY DEF TransferInv
<1>3. /\ upstream' \in Seq(Answers) /\ m \in Answers
      /\ \A k \in DOMAIN upstream :
           upstream[k] = m \/ (k - 1 \in DOMAIN upstream' /\ upstream'[k - 1] = upstream[k])
      /\ \A i \in DOMAIN upstream' :
           i + 1 \in DOMAIN upstream /\ upstream'[i] = upstream[i + 1]
  <2>. upstream \in Seq(Answers) /\ upstream # <<>>
    BY <1>1, <1>2 DEF TypeInv
  <2>. QED  BY <1>1, TailMembers
<1>4. \A b \in Blocks :
        /\ Got(b) => Got(b)' \/ m = [type |-> "GOTBLOCKS", pos |-> b]
        /\ Deleting(b) => Deleting(b)' \/ m = [type |-> "DELETEDBLOCKS", pos |-> b]
  BY <1>3 DEF Deleting, Got, InSeq
<1>5. m.pos \in Blocks /\ m.type \in {"GOTBLOCKS", "DELETEDBLOCKS"}
      /\ m = [type |-> m.type, pos |-> m.pos]
  BY <1>3 DEF Answers
<1>. DEFINE Books ==
       /\ blocks_sending' = blocks_sending \ {m.pos}
       /\ blocks_sent' \cup blocks_sending' \subseteq blocks_sent \cup blocks_sending
       /\ blocks_modified' \in SUBSET Blocks
       /\ m.type = "DELETEDBLOCKS" => m.pos \notin blocks_sent'
<1>6. Books
  <2>1. CASE m.type = "GOTBLOCKS"
    BY <1>2, <2>1 DEF ServerReceives, GotBlock, TypeInv
  <2>2. CASE m.type # "GOTBLOCKS"
    BY <1>2, <1>5, <2>2 DEF ServerReceives, SetBlocksNotSent, TypeInv
  <2>. QED  BY <2>1, <2>2
<1>7. TypeInv'
  BY <1>1, <1>2, <1>3, <1>6 DEF TypeInv
<1>8. \A b \in blocks_sent' \cup blocks_sending' :
        /\ b \in Blocks /\ b \in blocks_sent \cup blocks_sending
        /\ Deleting(b) => Deleting(b)'
  <2>. TAKE b \in blocks_sent' \cup blocks_sending'
  <2>1. b \in Blocks /\ b \in blocks_sent \cup blocks_sending
    BY <1>2, <1>6 DEF TypeInv
  <2>2. m # [type |-> "DELETEDBLOCKS", pos |-> b]
    BY <1>6
  <2>. QED  BY <1>4, <2>1, <2>2
<1>9. SlotsWithinLimit'
  <2>1. Cardinality(blocks_sending') <= Cardinality(blocks_sending)
    BY <1>2, <1>6, SubsetsAreFinite, FS_Subset DEF TypeInv
  <2>2. Cardinality(blocks_sending') \in Nat /\ Cardinality(blocks_sending) \in Nat
        /\ MaxSimulSends \in Nat
    BY <1>2, <1>7, SubsetsAreFinite, BlocksAssumption DEF TypeInv
  <2>. QED  BY <2>1, <2>2 DEF TransferInv, SlotsWithinLimit
<1>10. SlotsAreAnswered'
  <2>. SUFFICES ASSUME NEW b \in blocks_sending'
                PROVE  OnWire(b)' \/ Asked(b)'
    BY DEF SlotsAreAnswered, Asked, Got
  <2>1. b \in blocks_sending /\ b \in Blocks /\ b # m.pos
    BY <1>2, <1>6 DEF TypeInv
  <2>2. Got(b) => Got(b)'
    BY <1>4, <1>5, <2>1, m # [type |-> "GOTBLOCKS", pos |-> b]
  <2>3. OnWire(b) \/ Asked(b)
    BY <2>1 DEF TransferInv, SlotsAreAnswered, Asked, Got
  <2>. QED  BY <1>1, <2>2, <2>3 DEF OnWire, Asked, InSeq
<1>11. KeptIsThere'
  BY <1>1, <1>8 DEF TransferInv, KeptIsThere, Arrives, OnWire, InSeq
<1>12. BulkChangesAreKept'
  BY <1>1, <1>8 DEF TransferInv, BulkChangesAreKept, NewestCopyHas, LastOnWire, OnWire, InSeq
<1>. QED  BY <1>7, <1>9, <1>10, <1>11, <1>12 DEF TransferInv

-----------------------------------------------------------------------------
LEMMA NextStep == TransferInv /\ [Next]_vars => TransferInv'
<1>. SUFFICES ASSUME TransferInv, [Next]_vars PROVE TransferInv'
  OBVIOUS
<1>1. CASE UNCHANGED vars
  BY <1>1 DEF vars, server, remoteClient, client, TransferInv, TypeInv, SlotsWithinLimit,
     SlotsAreAnswered, KeptIsThere, Arrives, BulkChangesAreKept, NewestCopyHas, LastOnWire,
     OnWire, Deleting, InSeq
<1>2. CASE \E building \in BOOLEAN : SendBlocks(building)
  BY <1>2, SendBlocksStep
<1>3. CASE \/ PauseElapses \/ SendMapEdits
           \/ \E b \in Blocks, e \in NodeEdits : EditNode(b, e) \/ Dig(b, e)
           \/ \E b \in Blocks, e \in BulkChanges : BulkChange(b, e)
           \/ \E b \in Blocks : EmergeFinishes(b) \/ EmergeNotifies(b)
  BY <1>3, ServerStep
<1>4. CASE handleCommand_BlockData
  BY <1>4, BlockDataStep
<1>5. CASE handleCommand_AddNode
  BY <1>5, AddNodeStep
<1>6. CASE SendGotBlocks \/ \E b \in Blocks : MeshUpdate(b)
  BY <1>6, MeshStep
<1>7. CASE \E b \in Blocks : ClientUnloads(b)
  BY <1>7, UnloadStep
<1>8. CASE ServerReceives
  BY <1>8, ReceiveStep
<1>. QED  BY <1>1, <1>2, <1>3, <1>4, <1>5, <1>6, <1>7, <1>8 DEF Next

LEMMA InvAlways == Spec => []TransferInv
BY InitInv, NextStep, PTL DEF Spec

(* No transfer slot is lost: while a block counts as being sent, a copy of *)
(* it, its mesh or its acknowledgement is on its way (GetNextBlocks,       *)
(* GotBlock and SetBlocksNotSent of clientiface.cpp; Client::step).        *)
THEOREM SlotsAreAlwaysAnswered == Spec => []SlotsAreAnswered
<1>1. TransferInv => SlotsAreAnswered
  BY DEF TransferInv
<1>. QED  BY <1>1, InvAlways, PTL

(* What the server counts as sent is at the client, on its way there, or   *)
(* known to be dropped by a message still on its way back.                 *)
THEOREM SentIsAlwaysThere == Spec => []SentIsThere
<1>1. TransferInv => SentIsThere
  BY DEF TransferInv, KeptIsThere, Arrives, SentIsThere
<1>. QED  BY <1>1, InvAlways, PTL

(* The newest copy of a block that will not be sent again has every bulk   *)
(* change made to it, however late the acknowledgements of older copies    *)
(* are (SetBlocksNotSent takes the block off m_blocks_sending too).        *)
THEOREM BulkChangesAreAlwaysKept == Spec => []BulkChangesAreKept
<1>1. TransferInv => BulkChangesAreKept
  BY DEF TransferInv
<1>. QED  BY <1>1, InvAlways, PTL

(* However often the search runs and whatever is marked as not sent in     *)
(* between, no more blocks are being sent to a client than                 *)
(* max_simultaneous_block_sends_per_client.                                *)
THEOREM SlotsStayWithinLimit == Spec => []SlotsWithinLimit
<1>1. TransferInv => SlotsWithinLimit
  BY DEF TransferInv
<1>. QED  BY <1>1, InvAlways, PTL
=============================================================================
