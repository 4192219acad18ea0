------------------------ MODULE MeshUpdateQueueProofs ------------------------
(***************************************************************************)
(* Theorems about MeshUpdateQueue, for any finite set of blocks and any    *)
(* number of changes: types; the queue, its urgent positions and the       *)
(* counts of the cache agree; a settled mesh is fresh.                     *)
(***************************************************************************)
EXTENDS MeshUpdateQueue, FiniteSetTheorems, TLAPS

Tasks == [p : Positions, ack : BOOLEAN, urgent : BOOLEAN]
Entries == [p : Positions, ack : BOOLEAN, cracked : BOOLEAN]

(* A copy is a whole record. *)
CopiesOK == \A b \in DOMAIN m_cache : m_cache[b] \in [data : Data, refs : Nat]

(* The invariant: the count of a copy stays a natural number because it is *)
(* the number of the entries that need it.                                 *)
MeshInv == TypeOK /\ QueueIsCoherent

-----------------------------------------------------------------------------
(* Facts about sequences and finite sets *)

LEMMA AppendFacts ==
  ASSUME NEW S, NEW q \in Seq(S), NEW x \in S
  PROVE  /\ Append(q, x) \in Seq(S)
         /\ DOMAIN Append(q, x) = DOMAIN q \cup {Len(q) + 1}
         /\ \A i \in DOMAIN q : Append(q, x)[i] = q[i]
         /\ Append(q, x)[Len(q) + 1] = x
OBVIOUS

LEMMA TailFacts ==
  ASSUME NEW S, NEW q \in Seq(S), q # <<>>
  PROVE  Tail(q) \in Seq(S) /\ Head(q) \in S
OBVIOUS

LEMMA ConcatType ==
  ASSUME NEW S, NEW q \in Seq(S), NEW r \in Seq(S)
  PROVE  q \o r \in Seq(S)
OBVIOUS

LEMMA ConcatFacts ==
  ASSUME NEW S, NEW q \in Seq(S), NEW r \in Seq(S)
  PROVE  /\ q \o r \in Seq(S) /\ Len(q) \in Nat /\ Len(r) \in Nat
         /\ DOMAIN (q \o r) = 1..Len(q) + Len(r)
         /\ \A i \in 1..Len(q) : (q \o r)[i] = q[i]
         /\ \A i \in 1..Len(r) : (q \o r)[Len(q) + i] = r[i]
OBVIOUS

LEMMA SubsetsAreFinite ==
  ASSUME NEW S \in SUBSET Positions
  PROVE  IsFiniteSet(S) /\ Cardinality(S) \in Nat
BY PositionsAssumption, FS_Subset, FS_CardinalityType

(* A finite set can be put in a sequence. *)
LEMMA SetToSeqType ==
  ASSUME NEW S \in SUBSET Positions
  PROVE  SetToSeq(S) \in [1..Cardinality(S) -> S]
<1>1. ExistsBijection(1..Cardinality(S), S)
  BY SubsetsAreFinite, FS_CardinalityType
<1>2. PICK f \in [1..Cardinality(S) -> S] : IsInjective(f)
  BY <1>1 DEF ExistsBijection, Bijection, Injection, IsInjective
<1>. QED  BY <1>2 DEF SetToSeq

LEMMA AroundType ==
  ASSUME NEW p \in Positions
  PROVE  /\ Around(p) \in SUBSET Positions /\ p \in Around(p)
         /\ Faces(p) \in SUBSET Positions /\ Leading(p) \in SUBSET Positions
<1>1. Around(p) \in SUBSET Positions
  BY DEF Around
<1>2. p \in Around(p)
  <2>1. \A i \in 1..3 : p[i] \in Int
    BY PositionsAssumption
  <2>. QED  BY <2>1 DEF Around
<1>3. Faces(p) \in SUBSET Positions
  BY <1>1 DEF Faces
<1>. QED  BY <1>1, <1>2, <1>3 DEF Leading

(* The tasks for the blocks of a set. *)
LEMMA TasksType ==
  ASSUME NEW S \in SUBSET Positions, NEW ack \in BOOLEAN, NEW urgent \in BOOLEAN
  PROVE  [i \in 1..Cardinality(S) |-> Task(SetToSeq(S)[i], ack, urgent)] \in Seq(Tasks)
<1>1. \A i \in 1..Cardinality(S) : SetToSeq(S)[i] \in Positions
  BY SetToSeqType
<1>2. \A i \in 1..Cardinality(S) : Task(SetToSeq(S)[i], ack, urgent) \in Tasks
  BY <1>1 DEF Task, Tasks
<1>. QED  BY <1>2, SubsetsAreFinite

LEMMA OneTaskType ==
  ASSUME NEW p \in Positions, NEW ack \in BOOLEAN, NEW urgent \in BOOLEAN
  PROVE  <<Task(p, ack, urgent)>> \in Seq(Tasks)
<1>1. Task(p, ack, urgent) \in Tasks
  BY DEF Task, Tasks
<1>. QED  BY <1>1

LEMMA WithEdgeType ==
  ASSUME NEW p \in Positions, NEW ack \in BOOLEAN, NEW urgent \in BOOLEAN
  PROVE  WithEdge(p, ack, urgent) \in Seq(Tasks)
<1>1. [i \in 1..Cardinality(Faces(p)) |-> Task(SetToSeq(Faces(p))[i], FALSE, urgent)]
        \in Seq(Tasks)
  BY AroundType, TasksType
<1>. QED  BY <1>1, OneTaskType, ConcatType DEF WithEdge

LEMMA ForNodeType ==
  ASSUME NEW p \in Positions \cup {None}, NEW edge
  PROVE  ForNode(p, edge) \in Seq(Tasks)
<1>1. CASE p = None
  BY <1>1 DEF ForNode
<1>2. CASE p # None
  <2>1. edge \cap Leading(p) \in SUBSET Positions
    BY <1>2, AroundType
  <2>2. [i \in 1..Cardinality(edge \cap Leading(p)) |->
           Task(SetToSeq(edge \cap Leading(p))[i], FALSE, TRUE)] \in Seq(Tasks)
    BY <2>1, TasksType
  <2>3. <<Task(p, FALSE, TRUE)>> \in Seq(Tasks)
    BY <1>2, OneTaskType
  <2>. QED  BY <1>2, <2>2, <2>3, ConcatType DEF ForNode
<1>. QED  BY <1>1, <1>2

-----------------------------------------------------------------------------
(* The entries that need a copy *)

(* None of them, as many as the copy says, or an unneeded copy.            *)
LEMMA NeedersAreFinite ==
  ASSUME NEW Q \in SUBSET Positions, NEW b
  PROVE  LET S == {p \in Q : b \in Around(p)}
         IN  IsFiniteSet(S) /\ Cardinality(S) \in Nat
BY SubsetsAreFinite

LEMMA NeedersWithOneMore ==
  ASSUME NEW Q \in SUBSET Positions, NEW x \in Positions, x \notin Q, NEW b
  PROVE  Cardinality({p \in Q \cup {x} : b \in Around(p)})
           = Cardinality({p \in Q : b \in Around(p)})
             + (IF b \in Around(x) THEN 1 ELSE 0)
<1>. DEFINE S == {p \in Q : b \in Around(p)}
<1>1. IsFiniteSet(S) /\ Cardinality(S) \in Nat /\ x \notin S
  BY NeedersAreFinite
<1>2. CASE b \in Around(x)
  <2>1. {p \in Q \cup {x} : b \in Around(p)} = S \cup {x}
    BY <1>2
  <2>2. Cardinality(S \cup {x}) = Cardinality(S) + 1
    BY <1>1, FS_AddElement
  <2>. QED  BY <1>2, <2>1, <2>2
<1>3. CASE b \notin Around(x)
  <2>1. {p \in Q \cup {x} : b \in Around(p)} = S
    BY <1>3
  <2>2. Cardinality(S) = Cardinality(S) + 0
    BY <1>1
  <2>. QED  BY <1>3, <2>1, <2>2
<1>. QED  BY <1>2, <1>3

LEMMA QueuedType ==
  ASSUME TypeOK
  PROVE  Queued \in SUBSET Positions
<1>1. m_queue \in Seq(Entries)
  BY DEF TypeOK, Entries
<1>2. \A i \in DOMAIN m_queue : m_queue[i] \in Entries
  BY <1>1
<1>3. \A e \in Entries : e.p \in Positions
  BY DEF Entries
<1>. QED  BY <1>2, <1>3, Zenon DEF Queued

(* A copy that is not there, or that cleanupCache may drop, is needed by   *)
(* no entry.                                                               *)
LEMMA DroppedIsUnneeded ==
  ASSUME MeshInv, NEW b, b \notin DOMAIN m_cache \/ b \in Unneeded
  PROVE  {p \in Queued : b \in Around(p)} = {}
<1>1. CASE b \notin DOMAIN m_cache
  BY <1>1 DEF MeshInv, QueueIsCoherent, CountsMatch
<1>2. CASE b \in Unneeded
  <2>1. Cardinality({p \in Queued : b \in Around(p)}) = 0
    BY <1>2 DEF Unneeded, MeshInv, QueueIsCoherent, CountsMatch
  <2>2. IsFiniteSet({p \in Queued : b \in Around(p)})
    BY QueuedType, NeedersAreFinite DEF MeshInv
  <2>. QED  BY <2>1, <2>2, FS_EmptySet
<1>. QED  BY <1>1, <1>2

(* The cache after cleanupCache, and after cacheBlock of x and around it.   *)
Kept(expired) == [b \in DOMAIN m_cache \ expired |-> m_cache[b]]
Cached(expired, x) == Copied(Kept(expired), x)

LEMMA CountUpdate ==
  ASSUME NEW D, NEW r \in [data : D, refs : Nat], NEW n \in Int, r.refs + n \in Nat
  PROVE  /\ [r EXCEPT !.refs = @ + n] \in [data : D, refs : Nat]
         /\ [r EXCEPT !.refs = @ + n].refs = r.refs + n
OBVIOUS

(* cacheBlock leaves the counts alone, whatever cleanupCache dropped.      *)
LEMMA CopiedCounts ==
  ASSUME MeshInv, NEW x \in Positions, NEW expired \in SUBSET Unneeded
  PROVE  LET C == Cached(expired, x) IN
         /\ DOMAIN C = (DOMAIN m_cache \ expired) \cup Around(x)
         /\ DOMAIN C \subseteq Positions
         /\ \A b \in DOMAIN C :
              /\ C[b] \in [data : Data, refs : Nat]
              /\ C[b].refs = Cardinality({p \in Queued : b \in Around(p)})
         /\ \A p \in Queued : Around(p) \subseteq DOMAIN C
<1>. DEFINE kept == Kept(expired)
            C == Cached(expired, x)
<1>1. DOMAIN C = (DOMAIN m_cache \ expired) \cup Around(x)
  BY DEF Copied, Cached, Kept
<1>2. DOMAIN C \subseteq Positions
  BY <1>1, AroundType DEF MeshInv, TypeOK
<1>3. \A b \in DOMAIN C : map[b] \in Data
  BY <1>2 DEF MeshInv, TypeOK, Data
<1>4. ASSUME NEW b \in DOMAIN C
      PROVE  /\ C[b] \in [data : Data, refs : Nat]
             /\ C[b].refs = Cardinality({p \in Queued : b \in Around(p)})
  <2>1. CASE b \in DOMAIN kept
    <3>1. b \in DOMAIN m_cache /\ kept[b] = m_cache[b]
          /\ m_cache[b] \in [data : Data, refs : Nat]
      BY <2>1 DEF MeshInv, TypeOK, Kept
    <3>2. C[b] = IF b = x THEN [m_cache[b] EXCEPT !.data = map[b]] ELSE m_cache[b]
      BY <1>1, <2>1, <3>1 DEF Copied, Cached
    <3>3. C[b] \in [data : Data, refs : Nat] /\ C[b].refs = m_cache[b].refs
      BY <1>3, <3>1, <3>2
    <3>. QED  BY <3>1, <3>3 DEF MeshInv, QueueIsCoherent, CountsMatch
  <2>2. CASE b \notin DOMAIN kept
    <3>1. C[b] = [data |-> map[b], refs |-> 0]
      BY <1>1, <2>2 DEF Copied, Cached
    <3>2. {p \in Queued : b \in Around(p)} = {}
      BY <2>2, DroppedIsUnneeded DEF Kept
    <3>. QED  BY <1>3, <3>1, <3>2, FS_EmptySet
  <2>. QED  BY <2>1, <2>2
<1>5. ASSUME NEW p \in Queued, NEW b \in Around(p)
      PROVE  b \in DOMAIN C
  <2>1. b \in DOMAIN m_cache /\ b \notin expired
    BY DroppedIsUnneeded DEF MeshInv, QueueIsCoherent, CountsMatch
  <2>. QED  BY <1>1, <2>1
<1>. QED  BY <1>1, <1>2, <1>4, <1>5

(* addBlock keeps the invariant of what it changes.                        *)
LEMMA AddBlockKeeps ==
  ASSUME MeshInv, NEW t \in Tasks, NEW expired \in SUBSET Unneeded,
         addBlock(t, expired)
  PROVE  /\ m_queue' \in Seq(Entries) /\ m_urgents' \subseteq Positions
         /\ DOMAIN m_cache' \subseteq Positions /\ CopiesOK'
         /\ QueueIsCoherent'
<1>. DEFINE C == Cached(expired, t.p)
<1>1. t.p \in Positions /\ t.ack \in BOOLEAN /\ t.urgent \in BOOLEAN
  BY DEF Tasks
<1>2. Entry(t) \in Entries /\ Entry(t).p = t.p
  BY <1>1 DEF Entry, Entries
<1>3. m_queue \in Seq(Entries)
  BY DEF MeshInv, TypeOK, Entries
<1>4. /\ DOMAIN C \subseteq Positions /\ Around(t.p) \subseteq DOMAIN C
      /\ \A b \in DOMAIN C :
           /\ C[b] \in [data : Data, refs : Nat]
           /\ C[b].refs = Cardinality({p \in Queued : b \in Around(p)})
      /\ \A p \in Queued : Around(p) \subseteq DOMAIN C
  BY <1>1, CopiedCounts, Zenon
<1>5. m_cache' = Referenced(C, t)
  BY DEF addBlock, Cached, Kept
<1>. HIDE DEF C
<1>10. \A b \in DOMAIN C : C[b] \in [data : Data, refs : Nat]
  BY <1>4, Zenon
<1>6. m_urgents' = IF t.urgent THEN m_urgents \cup {t.p} ELSE m_urgents
  BY DEF addBlock
<1>7. m_urgents' \subseteq Positions
  BY <1>1, <1>6 DEF MeshInv, TypeOK
<1>8. CASE t.p \in Queued
  <2>1. m_queue' = [i \in DOMAIN m_queue |->
                      IF m_queue[i].p = t.p THEN Merged(m_queue[i], t) ELSE m_queue[i]]
    BY <1>8 DEF addBlock
  <2>2. \A e \in Entries : Merged(e, t) \in Entries /\ Merged(e, t).p = t.p
    BY <1>1, <1>2 DEF Merged, Entries
  <2>3. /\ m_queue' \in Seq(Entries) /\ DOMAIN m_queue' = DOMAIN m_queue
        /\ \A i \in DOMAIN m_queue : m_queue'[i].p = m_queue[i].p
    BY <1>3, <2>1, <2>2
  <2>4. Queued' = Queued
    BY <2>3 DEF Queued
  <2>5. m_cache' = C
    BY <1>5, <1>8 DEF Referenced
  <2>6. CountsMatch'
    BY <1>4, <2>4, <2>5 DEF CountsMatch, Around
  <2>7. UrgentsAreQueued'
    BY <1>6, <1>8, <2>3, <2>4 DEF MeshInv, QueueIsCoherent, UrgentsAreQueued
  <2>. QED  BY <1>4, <1>7, <2>3, <2>5, <2>6, <2>7 DEF CopiesOK, QueueIsCoherent
<1>9. CASE t.p \notin Queued
  <2>1. m_queue' = Append(m_queue, Entry(t))
    BY <1>9 DEF addBlock
  <2>2. /\ m_queue' \in Seq(Entries)
        /\ DOMAIN m_queue' = DOMAIN m_queue \cup {Len(m_queue) + 1}
        /\ \A i \in DOMAIN m_queue : m_queue'[i] = m_queue[i]
        /\ m_queue'[Len(m_queue) + 1] = Entry(t)
    BY <1>2, <1>3, <2>1, AppendFacts
  <2>3. Queued' = Queued \cup {t.p}
    BY <1>2, <2>2 DEF Queued
  <2>4. m_cache' = Counted(C, Around(t.p), 1)
    BY <1>5, <1>9 DEF Referenced
  <2>5. /\ DOMAIN m_cache' = DOMAIN C
        /\ \A b \in DOMAIN C :
             /\ m_cache'[b] \in [data : Data, refs : Nat]
             /\ m_cache'[b].refs = C[b].refs + (IF b \in Around(t.p) THEN 1 ELSE 0)
    <3>1. \A b \in DOMAIN C :
            m_cache'[b] = IF b \in Around(t.p) THEN [C[b] EXCEPT !.refs = @ + 1] ELSE C[b]
      BY <2>4, Zenon DEF Counted
    <3>2. DOMAIN m_cache' = DOMAIN C
      BY <2>4, Zenon DEF Counted
    <3>3. ASSUME NEW b \in DOMAIN C, b \in Around(t.p)
          PROVE  /\ m_cache'[b] \in [data : Data, refs : Nat]
                 /\ m_cache'[b].refs = C[b].refs + 1
      <4>1. C[b].refs \in Nat /\ C[b].refs + 1 \in Nat
        <5>1. C[b] \in [data : Data, refs : Nat]
          BY <1>10, Zenon
        <5>. QED  BY <5>1
      <4>2. m_cache'[b] = [C[b] EXCEPT !.refs = @ + 1]
        BY <3>1, <3>3, Zenon
      <4>3. 1 \in Int /\ C[b] \in [data : Data, refs : Nat]
        BY <1>10
      <4>4. /\ [C[b] EXCEPT !.refs = @ + 1] \in [data : Data, refs : Nat]
            /\ [C[b] EXCEPT !.refs = @ + 1].refs = C[b].refs + 1
        BY <4>1, <4>3, CountUpdate
      <4>. QED  BY <4>2, <4>4, Zenon
    <3>4. ASSUME NEW b \in DOMAIN C, b \notin Around(t.p)
          PROVE  /\ m_cache'[b] \in [data : Data, refs : Nat]
                 /\ m_cache'[b].refs = C[b].refs + 0
      <4>1. C[b] \in [data : Data, refs : Nat] /\ m_cache'[b] = C[b]
        BY <1>10, <3>1, <3>4, Zenon
      <4>. QED  BY <4>1
    <3>. QED  BY <3>2, <3>3, <3>4
  <2>6. Queued \in SUBSET Positions
    BY QueuedType DEF MeshInv
  <2>7. \A b \in DOMAIN C :
          m_cache'[b].refs = Cardinality({p \in Queued \cup {t.p} : b \in Around(p)})
    <3>. SUFFICES ASSUME NEW b \in DOMAIN C
                  PROVE  m_cache'[b].refs = Cardinality({p \in Queued \cup {t.p} : b \in Around(p)})
      OBVIOUS
    <3>1. Cardinality({p \in Queued \cup {t.p} : b \in Around(p)})
            = Cardinality({p \in Queued : b \in Around(p)})
              + (IF b \in Around(t.p) THEN 1 ELSE 0)
      BY <1>1, <1>9, <2>6, NeedersWithOneMore
    <3>2. m_cache'[b].refs = C[b].refs + (IF b \in Around(t.p) THEN 1 ELSE 0)
      BY <2>5
    <3>3. C[b].refs = Cardinality({p \in Queued : b \in Around(p)})
      BY <1>4
    <3>. QED  BY <3>1, <3>2, <3>3
  <2>8. CountsMatch'
    <3>1. \A p \in Queued' : Around(p) \subseteq DOMAIN m_cache'
      BY <1>4, <2>3, <2>5
    <3>. QED  BY <2>3, <2>5, <2>7, <3>1 DEF CountsMatch, Around
  <2>9. UrgentsAreQueued'
    <3>1. m_urgents' \subseteq Queued'
      BY <1>6, <2>3 DEF MeshInv, QueueIsCoherent, UrgentsAreQueued
    <3>2. \A i \in DOMAIN m_queue : m_queue[i].p # t.p
      BY <1>9 DEF Queued
    <3>3. \A i, j \in DOMAIN m_queue' : m_queue'[i].p = m_queue'[j].p => i = j
      BY <1>2, <2>2, <3>2 DEF MeshInv, QueueIsCoherent, UrgentsAreQueued
    <3>. QED  BY <3>1, <3>3 DEF UrgentsAreQueued
  <2>. QED  BY <1>4, <1>7, <2>2, <2>5, <2>8, <2>9 DEF CopiesOK, QueueIsCoherent
<1>. QED  BY <1>8, <1>9

(* pop takes one entry out, and no other one is of the same block.         *)
LEMMA RemovedAtFacts ==
  ASSUME NEW S, NEW q \in Seq(S), NEW i \in DOMAIN q
  PROVE  /\ RemovedAt(q, i) \in Seq(S)
         /\ DOMAIN RemovedAt(q, i) = 1..Len(q) - 1
         /\ \A j \in 1..Len(q) - 1 :
              RemovedAt(q, i)[j] = IF j < i THEN q[j] ELSE q[j + 1]
BY DEF RemovedAt

LEMMA RemovedEntry ==
  ASSUME MeshInv, NEW i \in DOMAIN m_queue, m_queue' = RemovedAt(m_queue, i)
  PROVE  /\ Queued' = Queued \ {m_queue[i].p}
         /\ \A j \in DOMAIN m_queue' : \E k \in DOMAIN m_queue : m_queue'[j] = m_queue[k]
<1>. DEFINE x == m_queue[i].p
<1>2. m_queue \in Seq(Entries)
  BY DEF MeshInv, TypeOK, Entries
<1>3. /\ m_queue' \in Seq(Entries) /\ DOMAIN m_queue' = 1..Len(m_queue) - 1
      /\ \A j \in 1..Len(m_queue) - 1 :
           m_queue'[j] = IF j < i THEN m_queue[j] ELSE m_queue[j + 1]
  BY <1>2, RemovedAtFacts
<1>4. /\ DOMAIN m_queue = 1..Len(m_queue) /\ Len(m_queue) \in Nat
      /\ \A j, k \in 1..Len(m_queue) : m_queue[j].p = m_queue[k].p => j = k
  BY <1>2 DEF MeshInv, QueueIsCoherent, UrgentsAreQueued
<1>5. ASSUME NEW j \in 1..Len(m_queue) - 1
      PROVE  \E k \in 1..Len(m_queue) : k # i /\ m_queue'[j] = m_queue[k]
  <2>1. CASE j < i
    <3>1. j \in 1..Len(m_queue) /\ j # i
      BY <1>2, <1>4, <2>1
    <3>. QED  BY <1>3, <2>1, <3>1
  <2>2. CASE ~(j < i)
    <3>1. j + 1 \in 1..Len(m_queue) /\ j + 1 # i
      BY <1>2, <1>4, <2>2
    <3>. QED  BY <1>3, <2>2, <3>1
  <2>. QED  BY <2>1, <2>2
<1>6. ASSUME NEW k \in 1..Len(m_queue), k # i
      PROVE  \E j \in 1..Len(m_queue) - 1 : m_queue'[j].p = m_queue[k].p
  <2>1. CASE k < i
    <3>1. k \in 1..Len(m_queue) - 1 /\ m_queue'[k] = m_queue[k]
      BY <1>2, <1>3, <1>4, <2>1
    <3>. QED  BY <3>1
  <2>2. CASE ~(k < i)
    <3>1. /\ k - 1 \in 1..Len(m_queue) - 1 /\ ~(k - 1 < i) /\ k - 1 + 1 = k
      BY <1>2, <1>4, <1>6, <2>2
    <3>2. m_queue'[k - 1] = m_queue[k]
      BY <1>3, <3>1
    <3>. QED  BY <3>1, <3>2
  <2>. QED  BY <2>1, <2>2
<1>7. Queued' \subseteq Queued \ {x}
  <2>1. ASSUME NEW j \in 1..Len(m_queue) - 1
        PROVE  m_queue'[j].p \in Queued \ {x}
    <3>1. PICK k \in 1..Len(m_queue) : k # i /\ m_queue'[j] = m_queue[k]
      BY <1>5
    <3>2. m_queue[k].p # x
      BY <1>2, <1>4, <3>1
    <3>3. m_queue[k].p \in Queued
      BY <1>4, <3>1 DEF Queued
    <3>. QED  BY <3>1, <3>2, <3>3, Zenon
  <2>. QED  BY <1>3, <2>1 DEF Queued
<1>8. Queued \ {x} \subseteq Queued'
  <2>1. ASSUME NEW k \in 1..Len(m_queue), m_queue[k].p # x
        PROVE  m_queue[k].p \in Queued'
    <3>1. PICK j \in 1..Len(m_queue) - 1 : m_queue'[j].p = m_queue[k].p
      BY <1>6, <2>1
    <3>. QED  BY <1>3, <3>1, Zenon DEF Queued
  <2>. QED  BY <1>4, <2>1 DEF Queued
<1>. QED  BY <1>3, <1>4, <1>5, <1>7, <1>8

LEMMA PopKeeps ==
  ASSUME MeshInv, Pop
  PROVE  /\ m_queue' \in Seq(Entries) /\ m_urgents' \subseteq Positions
         /\ DOMAIN m_cache' \subseteq Positions /\ CopiesOK'
         /\ QueueIsCoherent'
<1>1. PICK i \in NextEntries :
        /\ m_queue' = RemovedAt(m_queue, i)
        /\ m_urgents' = UrgentBut(m_queue[i].p)
        /\ m_cache' = Counted(m_cache, Around(m_queue[i].p), -1)
  BY Zenon DEF Pop
<1>. DEFINE x == m_queue[i].p
<1>2. m_queue \in Seq(Entries) /\ i \in DOMAIN m_queue /\ x \in Positions
  <2>1. m_queue \in Seq(Entries) /\ i \in DOMAIN m_queue
    BY <1>1 DEF NextEntries, MeshInv, TypeOK, Entries
  <2>2. m_queue[i] \in Entries
    BY <2>1
  <2>. QED  BY <2>1, <2>2 DEF Entries
<1>3. /\ m_queue' \in Seq(Entries) /\ DOMAIN m_queue' = 1..Len(m_queue) - 1
      /\ \A j \in 1..Len(m_queue) - 1 :
           m_queue'[j] = IF j < i THEN m_queue[j] ELSE m_queue[j + 1]
  BY <1>1, <1>2, RemovedAtFacts
<1>4. /\ DOMAIN m_queue = 1..Len(m_queue) /\ Len(m_queue) \in Nat
      /\ \A j, k \in 1..Len(m_queue) : m_queue[j].p = m_queue[k].p => j = k
  BY <1>2 DEF MeshInv, QueueIsCoherent, UrgentsAreQueued
<1>5. Queued' = Queued \ {x}
  BY <1>1, <1>2, RemovedEntry
<1>6. x \in Queued /\ Queued \in SUBSET Positions
  BY <1>2, QueuedType DEF Queued, MeshInv
<1>. HIDE DEF x
<1>7. \A b : Cardinality({p \in Queued : b \in Around(p)})
               = Cardinality({p \in Queued \ {x} : b \in Around(p)})
                 + (IF b \in Around(x) THEN 1 ELSE 0)
  <2>1. (Queued \ {x}) \cup {x} = Queued
    BY <1>6
  <2>2. Queued \ {x} \in SUBSET Positions /\ x \notin Queued \ {x} /\ x \in Positions
    BY <1>6
  <2>. QED  BY <2>1, <2>2, NeedersWithOneMore
<1>8. ASSUME NEW b \in DOMAIN m_cache
      PROVE  /\ m_cache'[b] \in [data : Data, refs : Nat]
             /\ m_cache'[b].refs = Cardinality({p \in Queued \ {x} : b \in Around(p)})
  <2>1. m_cache[b] \in [data : Data, refs : Nat]
    BY DEF MeshInv, TypeOK
  <2>2. m_cache[b].refs = Cardinality({p \in Queued : b \in Around(p)})
    BY DEF MeshInv, QueueIsCoherent, CountsMatch
  <2>3. Cardinality({p \in Queued \ {x} : b \in Around(p)}) \in Nat
    <3>1. Queued \ {x} \in SUBSET Positions
      BY <1>6
    <3>. QED  BY <3>1, NeedersAreFinite
  <2>4. m_cache'[b] = IF b \in Around(x) THEN [m_cache[b] EXCEPT !.refs = @ + (-1)]
                      ELSE m_cache[b]
    BY <1>1, Zenon DEF Counted, x
  <2>5. CASE b \in Around(x)
    <3>1. m_cache[b].refs = Cardinality({p \in Queued \ {x} : b \in Around(p)}) + 1
      BY <1>7, <2>2, <2>5
    <3>2. /\ m_cache[b].refs + (-1) \in Nat /\ -1 \in Int
          /\ m_cache[b].refs + (-1)
               = Cardinality({p \in Queued \ {x} : b \in Around(p)})
      BY <2>3, <3>1
    <3>3. /\ [m_cache[b] EXCEPT !.refs = @ + (-1)] \in [data : Data, refs : Nat]
          /\ [m_cache[b] EXCEPT !.refs = @ + (-1)].refs = m_cache[b].refs + (-1)
      BY <2>1, <3>2, CountUpdate
    <3>. QED  BY <2>4, <2>5, <3>2, <3>3, Zenon
  <2>6. CASE b \notin Around(x)
    <3>1. m_cache[b].refs = Cardinality({p \in Queued \ {x} : b \in Around(p)})
      BY <1>7, <2>2, <2>3, <2>6
    <3>. QED  BY <2>1, <2>4, <2>6, <3>1, Zenon
  <2>. QED  BY <2>5, <2>6
<1>9. DOMAIN m_cache' = DOMAIN m_cache
  BY <1>1, Zenon DEF Counted
<1>10. CopiesOK' /\ DOMAIN m_cache' \subseteq Positions
  BY <1>8, <1>9 DEF CopiesOK, MeshInv, TypeOK, Data
<1>11. CountsMatch'
  <2>1. \A p \in Queued' : Around(p) \subseteq DOMAIN m_cache'
    BY <1>5, <1>9 DEF MeshInv, QueueIsCoherent, CountsMatch
  <2>. QED  BY <1>5, <1>8, <1>9, <2>1 DEF CountsMatch, Around
<1>12. m_urgents' = m_urgents \ {x}
  BY <1>1 DEF UrgentBut, x
<1>13. UrgentsAreQueued'
  <2>1. m_urgents' \subseteq Queued'
    BY <1>5, <1>12 DEF MeshInv, QueueIsCoherent, UrgentsAreQueued
  <2>2. ASSUME NEW j \in 1..Len(m_queue) - 1, NEW k \in 1..Len(m_queue) - 1,
               m_queue'[j].p = m_queue'[k].p
        PROVE  j = k
    <3>1. \A n \in 1..Len(m_queue) - 1 :
            n \in 1..Len(m_queue) /\ n + 1 \in 1..Len(m_queue)
      BY <1>4
    <3>. QED  BY <1>2, <1>3, <1>4, <2>2, <3>1
  <2>. QED  BY <1>3, <2>1, <2>2 DEF UrgentsAreQueued
<1>. QED  BY <1>3, <1>10, <1>11, <1>12, <1>13 DEF QueueIsCoherent, MeshInv, TypeOK

(* What the mesh thread takes along: the copies as they are.               *)
LEMMA PopMakes ==
  ASSUME MeshInv, Pop
  PROVE  /\ making' \in Results
         /\ \E i \in NextEntries :
              /\ making'.p = m_queue[i].p /\ making'.cracked = m_queue[i].cracked
              /\ \A b \in Around(m_queue[i].p) : making'.seen[b] = m_cache[b].data
<1>1. PICK i \in NextEntries :
        making' = [p |-> m_queue[i].p, ack |-> m_queue[i].ack,
                   cracked |-> m_queue[i].cracked,
                   seen |-> [b \in Around(m_queue[i].p) |->
                     IF b \in DOMAIN m_cache THEN m_cache[b].data ELSE None]]
  BY Zenon DEF Pop
<1>2. i \in DOMAIN m_queue /\ m_queue[i] \in Entries
  <2>1. m_queue \in Seq(Entries) /\ i \in DOMAIN m_queue
    BY Zenon DEF NextEntries, MeshInv, TypeOK, Entries
  <2>. QED  BY <2>1
<1>. DEFINE x == m_queue[i].p
            f == [b \in Around(x) |->
                    IF b \in DOMAIN m_cache THEN m_cache[b].data ELSE None]
<1>3. x \in Positions /\ x \in Queued
  BY <1>2, Zenon DEF Entries, Queued
<1>4. f \in [Around(x) -> Data]
  <2>1. ASSUME NEW b \in Around(x)
        PROVE  (IF b \in DOMAIN m_cache THEN m_cache[b].data ELSE None) \in Data
    BY DEF MeshInv, TypeOK, Data
  <2>. QED  BY <2>1
<1>5. f \in Seen
  BY <1>3, <1>4, AroundType DEF Seen
<1>6. \A b \in Around(x) : f[b] = m_cache[b].data
  BY <1>3 DEF MeshInv, QueueIsCoherent, CountsMatch
<1>. HIDE DEF f
<1>7. making' = [p |-> x, ack |-> m_queue[i].ack, cracked |-> m_queue[i].cracked,
                 seen |-> f]
  BY <1>1 DEF f
<1>8. making' \in Results
  BY <1>2, <1>5, <1>7 DEF Results, Entries
<1>9. making'.p = x /\ making'.cracked = m_queue[i].cracked /\ making'.seen = f
  BY <1>7
<1>. QED  BY <1>6, <1>8, <1>9

-----------------------------------------------------------------------------
(* The invariant *)

(* What TypeOK says of the queue and the cache, and of the rest.           *)
QueueTypes ==
  /\ m_queue \in Seq(Entries) /\ m_urgents \subseteq Positions
  /\ DOMAIN m_cache \subseteq Positions

RestTypes ==
  /\ map \in [Positions -> Data] /\ mesh \in [Positions -> Meshes \cup {None}]
  /\ m_crack_pos \in Positions \cup {None} /\ owed \subseteq Positions
  /\ changes \in 0..MaxChanges /\ posting \in BOOLEAN
  /\ modified \subseteq Positions
  /\ tasks \in Seq(Tasks)
  /\ m_queue_out \in Seq(Results) /\ making \in Results \cup {None}
  /\ m_update_sem \in {0, 1} /\ m_request_stop \in BOOLEAN
  /\ pc \in {"top", "waiting", "woken", "updating", "ended"}

LEMMA TypesInTwo ==
  TypeOK <=> QueueTypes /\ CopiesOK /\ RestTypes
BY Zenon DEF TypeOK, QueueTypes, CopiesOK, RestTypes, Entries, Tasks

LEMMA InitInv == Init => MeshInv
<1>. SUFFICES ASSUME Init PROVE MeshInv
  OBVIOUS
<1>1. MaxChanges \in Nat
  BY PositionsAssumption
<1>2. RestTypes
  <2>1. map \in [Positions -> Data] /\ changes \in 0..MaxChanges
    BY <1>1 DEF Init, Data
  <2>2. m_update_sem \in {0, 1} /\ tasks \in Seq(Tasks)
    BY DEF Init
  <2>3. mesh \in [Positions -> Meshes \cup {None}]
    BY DEF Init
  <2>4. m_queue_out \in Seq(Results) /\ making \in Results \cup {None}
    BY DEF Init
  <2>. QED  BY <2>1, <2>2, <2>3, <2>4 DEF Init, RestTypes
<1>5. QueueTypes
  BY DEF Init, QueueTypes
<1>3. CopiesOK
  BY DEF Init, CopiesOK
<1>4. QueueIsCoherent
  BY DEF Init, QueueIsCoherent, CountsMatch, UrgentsAreQueued, Queued
<1>. QED  BY <1>2, <1>3, <1>4, <1>5, TypesInTwo DEF MeshInv

(* A step that leaves the queue and the cache alone.                       *)
LEMMA QueueFrame ==
  ASSUME MeshInv, UNCHANGED queueVars
  PROVE  QueueTypes' /\ CopiesOK' /\ QueueIsCoherent'
<1>1. QueueTypes /\ CopiesOK /\ QueueIsCoherent
  BY TypesInTwo DEF MeshInv
<1>. QED
  BY <1>1 DEF queueVars, QueueTypes, CopiesOK, QueueIsCoherent, CountsMatch,
              UrgentsAreQueued, Queued, Around

LEMMA ChangeTypes ==
  ASSUME RestTypes, NEW S \in SUBSET Positions, Change(S)
  PROVE  /\ map' \in [Positions -> Data]
         /\ changes' \in 0..MaxChanges
<1>1. MaxChanges \in Nat
  BY PositionsAssumption
<1>. QED  BY <1>1 DEF RestTypes, Change, Data

LEMMA MeshStep == MeshInv /\ [Next]_vars => MeshInv'
<1>. SUFFICES ASSUME MeshInv, [Next]_vars PROVE MeshInv'
  OBVIOUS
<1>0. RestTypes /\ QueueTypes
  BY TypesInTwo DEF MeshInv
<1>. SUFFICES RestTypes' /\ QueueTypes' /\ CopiesOK' /\ QueueIsCoherent'
  <2>1. (TypeOK <=> QueueTypes /\ CopiesOK /\ RestTypes)'
    BY TypesInTwo, PTL
  <2>. QED  BY <2>1 DEF MeshInv
<1>1. ASSUME NEW p \in Positions, ReceiveBlock(p)
      PROVE  RestTypes' /\ QueueTypes' /\ CopiesOK' /\ QueueIsCoherent'
  <2>1. WithEdge(p, TRUE, FALSE) \in Seq(Tasks)
    BY WithEdgeType
  <2>2. map' \in [Positions -> Data] /\ changes' \in 0..MaxChanges
    BY <1>0, <1>1, ChangeTypes DEF ReceiveBlock
  <2>3. RestTypes'
    BY <1>0, <1>1, <2>1, <2>2 DEF ReceiveBlock, RestTypes, threadVars
  <2>. QED  BY <1>1, <2>3, QueueFrame DEF ReceiveBlock
<1>2. ASSUME NEW p \in Positions, UnloadBlock(p)
      PROVE  RestTypes' /\ QueueTypes' /\ CopiesOK' /\ QueueIsCoherent'
  <2>2. map' \in [Positions -> Data] /\ mesh' \in [Positions -> Meshes \cup {None}]
    <3>1. None \in Data /\ None \in Meshes \cup {None}
      BY DEF Data
    <3>. QED  BY <1>0, <1>2, <3>1 DEF UnloadBlock, RestTypes
  <2>1. RestTypes'
    BY <1>0, <1>2, <2>2 DEF UnloadBlock, RestTypes, threadVars
  <2>. QED  BY <1>2, <2>1, QueueFrame DEF UnloadBlock
<1>3. ASSUME NEW p \in Positions, NextModified(p)
      PROVE  RestTypes' /\ QueueTypes' /\ CopiesOK' /\ QueueIsCoherent'
  <2>1. WithEdge(p, FALSE, TRUE) \in Seq(Tasks)
    BY WithEdgeType
  <2>2. RestTypes'
    BY <1>0, <1>3, <2>1 DEF NextModified, RestTypes, threadVars
  <2>. QED  BY <1>3, <2>2, QueueFrame DEF NextModified
<1>4. ASSUME NEW S \in SUBSET Positions, ChangeNode(S)
      PROVE  RestTypes' /\ QueueTypes' /\ CopiesOK' /\ QueueIsCoherent'
  <2>1. map' \in [Positions -> Data] /\ changes' \in 0..MaxChanges
    BY <1>0, <1>4, ChangeTypes DEF ChangeNode
  <2>2. RestTypes'
    BY <1>0, <1>4, <2>1 DEF ChangeNode, RestTypes, threadVars
  <2>. QED  BY <1>4, <2>2, QueueFrame DEF ChangeNode
<1>5. ASSUME NEW p \in Positions \cup {None}, NEW edge \in SUBSET Positions,
             SetCrack(p, edge)
      PROVE  RestTypes' /\ QueueTypes' /\ CopiesOK' /\ QueueIsCoherent'
  <2>1. ForNode(m_crack_pos, edge) \o ForNode(p, edge) \in Seq(Tasks)
    BY <1>0, ForNodeType, ConcatType DEF RestTypes
  <2>2. changes' \in 0..MaxChanges
    BY <1>0, <1>5, PositionsAssumption DEF SetCrack, RestTypes
  <2>3. RestTypes'
    BY <1>0, <1>5, <2>1, <2>2 DEF SetCrack, RestTypes, threadVars
  <2>. QED  BY <1>5, <2>3, QueueFrame DEF SetCrack
<1>6. CASE AddTask
  <2>1. Head(tasks) \in Tasks /\ Tail(tasks) \in Seq(Tasks)
    BY <1>0, <1>6, TailFacts DEF AddTask, RestTypes
  <2>2. RestTypes'
    BY <1>0, <1>6, <2>1 DEF AddTask, RestTypes, threadVars
  <2>3. CASE Head(tasks).p \in Present
    <3>1. PICK expired \in SUBSET Unneeded : addBlock(Head(tasks), expired)
      BY <1>6, <2>3, Zenon DEF AddTask
    <3>. QED  BY <2>1, <2>2, <3>1, AddBlockKeeps DEF QueueTypes
  <2>4. CASE Head(tasks).p \notin Present
    BY <1>6, <2>2, <2>4, QueueFrame DEF AddTask
  <2>. QED  BY <2>3, <2>4
<1>7. CASE Post
  <2>1. RestTypes'
    BY <1>0, <1>7 DEF Post, RestTypes, threadVars
  <2>. QED  BY <1>7, <2>1, QueueFrame DEF Post
<1>8. CASE ReplaceMesh
  <2>2. Head(m_queue_out) \in Results /\ Tail(m_queue_out) \in Seq(Results)
    BY <1>0, <1>8, TailFacts DEF ReplaceMesh, RestTypes
  <2>3. mesh' \in [Positions -> Meshes \cup {None}]
    <3>. DEFINE r == Head(m_queue_out)
    <3>1. [seen |-> r.seen, cracked |-> r.cracked] \in Meshes
      BY <2>2 DEF Results, Meshes
    <3>. QED  BY <1>0, <1>8, <3>1 DEF ReplaceMesh, RestTypes
  <2>4. owed' \subseteq Positions
    BY <1>0, <1>8 DEF ReplaceMesh, RestTypes
  <2>1. RestTypes'
    BY <1>0, <1>8, <2>2, <2>3, <2>4 DEF ReplaceMesh, RestTypes
  <2>. QED  BY <1>8, <2>1, QueueFrame DEF ReplaceMesh
<1>9. CASE Stop
  <2>1. RestTypes'
    BY <1>0, <1>9 DEF Stop, RestTypes, threadVars
  <2>. QED  BY <1>9, <2>1, QueueFrame DEF Stop
<1>10. CASE CheckStop \/ Wake \/ BeginUpdate \/ EndUpdate \/ MakeMesh
  <2>3. m_queue_out' \in Seq(Results) /\ making' \in Results \cup {None}
    <3>1. CASE MakeMesh
      <4>1. making \in Results
        BY <1>0, <3>1 DEF MakeMesh, RestTypes
      <4>. QED  BY <1>0, <3>1, <4>1, AppendFacts DEF MakeMesh, RestTypes
    <3>. QED
      BY <1>0, <1>10, <3>1 DEF CheckStop, Wake, BeginUpdate, EndUpdate, RestTypes
  <2>1. RestTypes'
    BY <1>0, <1>10, <2>3 DEF CheckStop, Wake, BeginUpdate, EndUpdate, MakeMesh,
                       ThreadLeaves, mainVars, RestTypes
  <2>2. UNCHANGED queueVars
    BY <1>10 DEF CheckStop, Wake, BeginUpdate, EndUpdate, MakeMesh
  <2>. QED  BY <2>1, <2>2, QueueFrame
<1>11. CASE Pop
  <2>2. making' \in Results
    BY <1>11, PopMakes
  <2>1. RestTypes'
    BY <1>0, <1>11, <2>2 DEF Pop, ThreadLeaves, mainVars, RestTypes
  <2>. QED  BY <1>11, <2>1, PopKeeps DEF QueueTypes
<1>12. CASE UNCHANGED vars
  <2>1. RestTypes'
    BY <1>0, <1>12 DEF vars, mainVars, threadVars, RestTypes
  <2>. QED  BY <1>12, <2>1, QueueFrame DEF vars
<1>. QED
  BY <1>1, <1>2, <1>3, <1>4, <1>5, <1>6, <1>7, <1>8, <1>9, <1>10, <1>11, <1>12
     DEF Next, HandlerStep, ThreadStep

LEMMA InvAlways == Spec => []MeshInv
BY InitInv, MeshStep, PTL DEF Spec

(* The types: a count of a cached copy does not fall below zero, and the   *)
(* main thread adds only what TypeOK allows.                               *)
THEOREM MeshTypeCorrect == Spec => []TypeOK
<1>1. MeshInv => TypeOK
  BY DEF MeshInv
<1>. QED  BY <1>1, InvAlways, PTL

(* The counts of the cache are the entries of the queue, each entry has    *)
(* its copies, an urgent block has an entry, and no block has two.         *)
THEOREM QueueAlwaysCoherent == Spec => []QueueIsCoherent
<1>1. MeshInv => QueueIsCoherent
  BY DEF MeshInv
<1>. QED  BY <1>1, InvAlways, PTL
-----------------------------------------------------------------------------
(* What settles: the blocks a mesh is made of *)

(* A task for the block is still to come: what is cached, queued, being    *)
(* made or shown for it may be old.                                        *)
Due(p) ==
  \/ \E q \in modified : p \in {q} \cup Faces(q)
  \/ \E i \in DOMAIN tasks : tasks[i].p = p

ThreadHas(p) == making # None /\ making.p = p
LastOut(i, p) ==
  /\ i \in DOMAIN m_queue_out /\ m_queue_out[i].p = p
  /\ \A j \in DOMAIN m_queue_out : j > i => m_queue_out[j].p # p

(* A mesh, or a result, shows what the map has now.                        *)
Shows(m, p) ==
  /\ m.seen[p] = map[p]
  /\ \A b \in Faces(p) \cap Present : m.seen[b] = map[b]
  /\ m.cracked = (m_crack_pos = p)

(* A copy in the cache is old only until the task for its block, and that  *)
(* comes before the tasks for the blocks at its faces.                     *)
CopiesAreRenewed ==
  \A b \in Present \cap DOMAIN m_cache :
    \/ m_cache[b].data = map[b]
    \/ b \in modified
    \/ /\ tasks # <<>> /\ tasks[1].p = b
       /\ \A x \in Faces(b) : \E i \in DOMAIN tasks : tasks[i].p = x

(* For a block that is not due the newest of what is on its way is fresh:  *)
(* the entry, or else the mesh being made, or else the last result, or     *)
(* else what is shown.                                                     *)
NewestFresh(p) ==
  /\ \A i \in DOMAIN m_queue :
       m_queue[i].p = p => m_queue[i].cracked = (m_crack_pos = p)
  /\ p \notin Queued /\ ThreadHas(p) => Shows(making, p)
  /\ p \notin Queued /\ ~ThreadHas(p) =>
       \A i \in DOMAIN m_queue_out : LastOut(i, p) => Shows(m_queue_out[i], p)
  /\ ~Pending(p) => mesh[p] # None /\ Shows(mesh[p], p)

NewestIsFresh == \A p \in Present : ~Due(p) => NewestFresh(p)

FreshInv == MeshInv /\ CopiesAreRenewed /\ NewestIsFresh

LEMMA FacesAreMutual ==
  ASSUME NEW p \in Positions, NEW q \in Faces(p)
  PROVE  p \in Faces(q) /\ q \in Around(p) /\ q \in Positions /\ q # p
<1>1. \A r \in Positions : r[1] \in Int /\ r[2] \in Int /\ r[3] \in Int
  BY PositionsAssumption
<1>2. q \in Positions /\ \A i \in 1..3 : q[i] - p[i] \in -1..1
  BY DEF Faces, Around
<1>3. \A i \in 1..3 : p[i] \in Int /\ q[i] \in Int
  BY <1>1, <1>2
<1>4. \A i \in 1..3 : p[i] - q[i] \in -1..1
  BY <1>2, <1>3
<1>5. {i \in 1..3 : q[i] # p[i]} = {i \in 1..3 : p[i] # q[i]}
  OBVIOUS
<1>6. Cardinality({i \in 1..3 : q[i] # p[i]}) = 1
  BY DEF Faces
<1>7. q # p
  <2>1. SUFFICES ASSUME q = p PROVE FALSE
    OBVIOUS
  <2>2. {i \in 1..3 : q[i] # p[i]} = {}
    BY <2>1
  <2>. QED  BY <1>6, <2>2, FS_EmptySet
<1>. QED  BY <1>2, <1>4, <1>5, <1>6, <1>7 DEF Faces, Around

(* The sequence of a set has all of it.                                    *)
LEMMA SetToSeqOnto ==
  ASSUME NEW S \in SUBSET Positions, NEW x \in S
  PROVE  \E i \in 1..Cardinality(S) : SetToSeq(S)[i] = x
<1>1. ExistsBijection(1..Cardinality(S), S)
  BY SubsetsAreFinite, FS_CardinalityType
<1>2. PICK g \in [1..Cardinality(S) -> S] : IsInjective(g)
  BY <1>1 DEF ExistsBijection, Bijection, Injection, IsInjective
<1>. DEFINE f == SetToSeq(S)
<1>3. f \in [1..Cardinality(S) -> S] /\ IsInjective(f)
  BY <1>2 DEF SetToSeq
<1>4. f \in Injection(1..Cardinality(S), S)
  BY <1>3 DEF Injection, IsInjective
<1>5. Cardinality(S) \in Nat /\ IsFiniteSet(S)
  BY SubsetsAreFinite
<1>6. Cardinality(1..Cardinality(S)) = Cardinality(S)
  BY <1>5, FS_Interval
<1>. HIDE DEF f
<1>7. f \in Surjection(1..Cardinality(S), S)
  BY <1>4, <1>5, <1>6, FS_Injection
<1>8. \E i \in 1..Cardinality(S) : f[i] = x
  BY <1>7 DEF Surjection
<1>. QED  BY <1>8 DEF f

LEMMA WithEdgeHas ==
  ASSUME NEW p \in Positions, NEW ack \in BOOLEAN, NEW urgent \in BOOLEAN
  PROVE  LET w == WithEdge(p, ack, urgent) IN
         /\ w # <<>> /\ w[1].p = p
         /\ \A x \in {p} \cup Faces(p) : \E i \in DOMAIN w : w[i].p = x
<1>. DEFINE S == Faces(p)
            h == <<Task(p, ack, urgent)>>
            t == [i \in 1..Cardinality(S) |-> Task(SetToSeq(S)[i], FALSE, urgent)]
            w == h \o t
<1>1. S \in SUBSET Positions /\ Cardinality(S) \in Nat
  BY AroundType, SubsetsAreFinite
<1>2. h \in Seq(Tasks) /\ t \in Seq(Tasks) /\ Len(h) = 1 /\ h[1].p = p
  <2>1. h \in Seq(Tasks)
    BY OneTaskType
  <2>2. t \in Seq(Tasks)
    BY <1>1, TasksType
  <2>. QED  BY <2>1, <2>2 DEF Task
<1>3. Len(t) = Cardinality(S)
  BY <1>1
<1>4. \A i \in 1..Cardinality(S) : t[i].p = SetToSeq(S)[i]
  BY DEF Task
<1>. HIDE DEF h, t, S
<1>5. /\ DOMAIN w = 1..1 + Cardinality(S)
      /\ \A i \in 1..1 : w[i] = h[i]
      /\ \A i \in 1..Cardinality(S) : w[1 + i] = t[i]
  <2>1. /\ DOMAIN w = 1..Len(h) + Len(t)
        /\ \A i \in 1..Len(h) : w[i] = h[i]
        /\ \A i \in 1..Len(t) : w[Len(h) + i] = t[i]
    <3>1. h \in Seq(Tasks) /\ t \in Seq(Tasks)
      BY <1>2
    <3>2. DOMAIN (h \o t) = 1..Len(h) + Len(t)
      BY <3>1, ConcatFacts
    <3>3. \A i \in 1..Len(h) : (h \o t)[i] = h[i]
      BY <3>1, ConcatFacts
    <3>4. \A i \in 1..Len(t) : (h \o t)[Len(h) + i] = t[i]
      BY <3>1, ConcatFacts
    <3>. QED  BY <3>2, <3>3, <3>4
  <2>2. Len(h) = 1
    BY <1>2
  <2>. HIDE DEF w
  <2>. QED  BY <1>3, <2>1, <2>2, Zenon
<1>10. w # <<>>
  <2>1. 1 \in DOMAIN w
    BY <1>1, <1>5
  <2>2. 1 \notin DOMAIN <<>>
    OBVIOUS
  <2>. HIDE DEF w
  <2>. QED  BY <2>1, <2>2
<1>7. w # <<>> /\ w[1].p = p /\ 1 \in DOMAIN w
  BY <1>1, <1>2, <1>5, <1>10
<1>8. ASSUME NEW x \in S
      PROVE  \E i \in DOMAIN w : w[i].p = x
  <2>1. PICK i \in 1..Cardinality(S) : SetToSeq(S)[i] = x
    BY <1>1, SetToSeqOnto
  <2>2. i + 1 \in DOMAIN w /\ w[i + 1].p = x
    <3>1. 1 + i = i + 1 /\ i + 1 \in 1..1 + Cardinality(S)
      BY <1>1
    <3>. QED  BY <1>4, <1>5, <2>1, <3>1
  <2>. QED  BY <2>2
<1>9. w = WithEdge(p, ack, urgent)
  BY DEF WithEdge, h, t, S
<1>. HIDE DEF w
<1>. QED  BY <1>7, <1>8, <1>9 DEF S

(* setCrack makes tasks for the block that had the crack and the one that  *)
(* has it now.                                                             *)
LEMMA ForNodeHas ==
  ASSUME NEW p \in Positions, NEW edge
  PROVE  ForNode(p, edge) \in Seq(Tasks) /\ \E i \in DOMAIN ForNode(p, edge) : ForNode(p, edge)[i].p = p
<1>. DEFINE h == <<Task(p, FALSE, TRUE)>>
            E == edge \cap Leading(p)
            t == [i \in 1..Cardinality(E) |-> Task(SetToSeq(E)[i], FALSE, TRUE)]
<1>1. E \in SUBSET Positions
  BY AroundType
<1>2. h \in Seq(Tasks) /\ t \in Seq(Tasks) /\ Len(h) = 1 /\ h[1].p = p
  <2>1. h \in Seq(Tasks)
    BY OneTaskType
  <2>2. t \in Seq(Tasks)
    BY <1>1, TasksType
  <2>. QED  BY <2>1, <2>2 DEF Task
<1>3. ForNode(p, edge) = h \o t
  <2>1. p # None
    BY PositionsAssumption
  <2>. QED  BY <2>1 DEF ForNode
<1>. HIDE DEF h, t, E
<1>4. h \o t \in Seq(Tasks) /\ 1 \in DOMAIN (h \o t) /\ (h \o t)[1].p = p
  <2>1. /\ h \o t \in Seq(Tasks) /\ Len(t) \in Nat
        /\ DOMAIN (h \o t) = 1..Len(h) + Len(t)
        /\ \A i \in 1..Len(h) : (h \o t)[i] = h[i]
    BY <1>2, ConcatFacts
  <2>. QED  BY <1>2, <2>1
<1>. QED  BY <1>3, <1>4
-----------------------------------------------------------------------------
(* One block in a step *)

(* Nothing that its mesh is made of changes, nor is it due.                *)
Undisturbed(p) ==
  /\ p \in Present /\ ~Due(p)
  /\ map'[p] = map[p] /\ mesh'[p] = mesh[p]
  /\ \A b \in Faces(p) \cap Present' : b \in Present /\ map'[b] = map[b]
  /\ (m_crack_pos' = p) = (m_crack_pos = p)

LEMMA PendingIs ==
  ASSUME NEW p
  PROVE  Pending(p) <=> \/ Due(p) \/ p \in Queued \/ ThreadHas(p)
                        \/ \E i \in DOMAIN m_queue_out : m_queue_out[i].p = p
BY Zenon DEF Pending, Due, ThreadHas

(* What is on its way for it stays as it is, too.                          *)
LEMMA FreshKept ==
  ASSUME NEW p \in Positions, NewestIsFresh, Undisturbed(p),
         p \in Queued' <=> p \in Queued,
         \A i \in DOMAIN m_queue' : m_queue'[i].p = p =>
           \E j \in DOMAIN m_queue :
             m_queue[j].p = p /\ m_queue'[i].cracked = m_queue[j].cracked,
         ThreadHas(p)' <=> ThreadHas(p), ThreadHas(p) => making' = making,
         \A i \in DOMAIN m_queue_out' : LastOut(i, p)' =>
           \E j \in DOMAIN m_queue_out :
             LastOut(j, p) /\ m_queue_out'[i] = m_queue_out[j],
         Pending(p) => Pending(p)'
  PROVE  NewestFresh(p)'
<1>1. NewestFresh(p)
  BY DEF NewestIsFresh, Undisturbed
<1>2. ASSUME NEW i \in DOMAIN m_queue', m_queue'[i].p = p
      PROVE  m_queue'[i].cracked = (m_crack_pos' = p)
  <2>1. PICK j \in DOMAIN m_queue :
          m_queue[j].p = p /\ m_queue'[i].cracked = m_queue[j].cracked
    BY <1>2
  <2>2. m_queue[j].cracked = (m_crack_pos = p)
    BY <1>1, <2>1, Zenon DEF NewestFresh
  <2>. QED  BY <2>1, <2>2, Zenon DEF Undisturbed
<1>3. ASSUME p \notin Queued', ThreadHas(p)'
      PROVE  Shows(making, p)'
  <2>1. Shows(making, p) /\ making' = making
    BY <1>1, <1>3, Zenon DEF NewestFresh
  <2>. QED  BY <2>1, Zenon DEF Shows, Undisturbed, Faces, Around
<1>4. ASSUME p \notin Queued', ~ThreadHas(p)', NEW i \in DOMAIN m_queue_out',
             LastOut(i, p)'
      PROVE  Shows(m_queue_out[i], p)'
  <2>1. PICK j \in DOMAIN m_queue_out :
          LastOut(j, p) /\ m_queue_out'[i] = m_queue_out[j]
    BY <1>4
  <2>2. Shows(m_queue_out[j], p)
    BY <1>1, <1>4, <2>1, Zenon DEF NewestFresh
  <2>3. Shows(m_queue_out[i], p)' <=>
          /\ m_queue_out'[i].seen[p] = map'[p]
          /\ \A b \in Faces(p) \cap Present' : m_queue_out'[i].seen[b] = map'[b]
          /\ m_queue_out'[i].cracked = (m_crack_pos' = p)
    BY Zenon DEF Shows, Faces, Around
  <2>. QED  BY <2>1, <2>2, <2>3, Zenon DEF Shows, Undisturbed
<1>5. ASSUME ~Pending(p)'
      PROVE  mesh'[p] # None /\ Shows(mesh[p], p)'
  <2>1. mesh[p] # None /\ Shows(mesh[p], p)
    BY <1>1, <1>5, Zenon DEF NewestFresh
  <2>. QED  BY <2>1, Zenon DEF Shows, Undisturbed, Faces, Around
<1>. QED  BY <1>2, <1>3, <1>4, <1>5, Zenon DEF NewestFresh

(* A step of the main thread that leaves what is on its way alone.         *)
LEMMA FreshFrame ==
  ASSUME FreshInv, UNCHANGED <<queueVars, m_queue_out, making>>,
         \A p \in Present' : ~Due(p)' => Undisturbed(p)
  PROVE  NewestIsFresh'
<1>. SUFFICES ASSUME NEW p \in Positions, p \in Present', ~Due(p)'
              PROVE  NewestFresh(p)'
  BY Zenon DEF NewestIsFresh, Present
<1>1. Undisturbed(p) /\ NewestIsFresh /\ ~Due(p)
  BY DEF FreshInv, Undisturbed
<1>2. Queued' = Queued /\ m_queue' = m_queue /\ m_queue_out' = m_queue_out
      /\ making' = making
  BY DEF queueVars, Queued
<1>3. ThreadHas(p)' <=> ThreadHas(p)
  BY <1>2 DEF ThreadHas
<1>4. \A i : LastOut(i, p)' <=> LastOut(i, p)
  BY <1>2 DEF LastOut
<1>5. Pending(p) => Pending(p)'
  BY <1>1, <1>2, <1>3, PendingIs, Zenon DEF Pending, ThreadHas
<1>. QED  BY <1>1, <1>2, <1>3, <1>4, <1>5, FreshKept
-----------------------------------------------------------------------------
(* The steps of the main thread *)

LEMMA NothingDue ==
  ASSUME Idle
  PROVE  modified = {} /\ tasks = <<>> /\ \A p : ~Due(p)
BY DEF Idle, Busy, Due

LEMMA CopiesCurrentWhenIdle ==
  ASSUME FreshInv, Idle, NEW b \in Present \cap DOMAIN m_cache
  PROVE  m_cache[b].data = map[b]
BY NothingDue DEF FreshInv, CopiesAreRenewed

(* A changed block has the blocks at its faces made due.                   *)
LEMMA ReceiveBlockFresh ==
  ASSUME FreshInv, NEW p \in Positions, ReceiveBlock(p)
  PROVE  CopiesAreRenewed' /\ NewestIsFresh'
<1>1. /\ Idle /\ tasks' = WithEdge(p, TRUE, FALSE) /\ UNCHANGED modified
      /\ UNCHANGED <<mesh, m_crack_pos, queueVars, m_queue_out, making>>
      /\ map' = [q \in Positions |-> IF q \in {p} THEN changes' ELSE map[q]]
  BY DEF ReceiveBlock, Change, threadVars
<1>2. /\ tasks' # <<>> /\ tasks'[1].p = p
      /\ \A x \in {p} \cup Faces(p) : \E i \in DOMAIN tasks' : tasks'[i].p = x
  <2>. DEFINE w == WithEdge(p, TRUE, FALSE)
  <2>1. /\ w # <<>> /\ w[1].p = p
        /\ \A x \in {p} \cup Faces(p) : \E i \in DOMAIN w : w[i].p = x
    BY WithEdgeHas
  <2>2. tasks' = w
    BY <1>1
  <2>. HIDE DEF w
  <2>. QED  BY <2>1, <2>2
<1>3. \A q \in Positions : q # p => map'[q] = map[q] /\ (q \in Present' <=> q \in Present)
  BY <1>1 DEF Present
<1>4. CopiesAreRenewed'
  <2>1. m_cache' = m_cache
    BY <1>1 DEF queueVars
  <2>2. ASSUME NEW b \in Present' \cap DOMAIN m_cache, b # p
        PROVE  m_cache[b].data = map'[b]
    <3>1. b \in Positions /\ b \in Present /\ map'[b] = map[b]
      BY <1>3, <2>2 DEF Present
    <3>. QED  BY <1>1, <3>1, CopiesCurrentWhenIdle
  <2>. QED  BY <1>2, <2>1, <2>2 DEF CopiesAreRenewed, Faces, Around
<1>5. ASSUME NEW q \in Present', ~Due(q)'
      PROVE  Undisturbed(q)
  <2>1. q \in Positions /\ q \notin {p} \cup Faces(p)
    BY <1>2, <1>5, Zenon DEF Due, Present
  <2>2. q # p /\ p \notin Faces(q)
    BY <2>1, FacesAreMutual
  <2>3. \A b \in Faces(q) : b \in Positions /\ b # p
    BY <2>1, <2>2, FacesAreMutual
  <2>. QED  BY <1>1, <1>3, <2>1, <2>2, <2>3, NothingDue DEF Undisturbed
<1>. QED  BY <1>1, <1>4, <1>5, FreshFrame

LEMMA ChangeNodeFresh ==
  ASSUME FreshInv, NEW S \in SUBSET Positions, ChangeNode(S)
  PROVE  CopiesAreRenewed' /\ NewestIsFresh'
<1>1. /\ Idle /\ modified' = S /\ UNCHANGED tasks
      /\ UNCHANGED <<mesh, m_crack_pos, queueVars, m_queue_out, making>>
      /\ map' = [q \in Positions |-> IF q \in S THEN changes' ELSE map[q]]
      /\ S \subseteq Present
  BY DEF ChangeNode, Change, threadVars
<1>3. \A q \in Positions : q \notin S => map'[q] = map[q] /\ (q \in Present' <=> q \in Present)
  BY <1>1 DEF Present
<1>4. CopiesAreRenewed'
  <2>1. m_cache' = m_cache
    BY <1>1 DEF queueVars
  <2>2. ASSUME NEW b \in Present' \cap DOMAIN m_cache, b \notin S
        PROVE  m_cache[b].data = map'[b]
    <3>1. b \in Positions /\ b \in Present /\ map'[b] = map[b]
      BY <1>3, <2>2 DEF Present
    <3>. QED  BY <1>1, <3>1, CopiesCurrentWhenIdle
  <2>. QED  BY <1>1, <2>1, <2>2 DEF CopiesAreRenewed
<1>5. ASSUME NEW q \in Present', ~Due(q)'
      PROVE  Undisturbed(q)
  <2>1. q \in Positions /\ \A x \in S : q # x /\ q \notin Faces(x)
    BY <1>1, <1>5, Zenon DEF Due, Present, Faces, Around
  <2>2. q \notin S /\ \A b \in Faces(q) : b \in Positions /\ b \notin S
    BY <2>1, FacesAreMutual
  <2>. QED  BY <1>1, <1>3, <2>1, <2>2, NothingDue DEF Undisturbed
<1>. QED  BY <1>1, <1>4, <1>5, FreshFrame

(* From the modified blocks to the tasks.                                  *)
LEMMA NextModifiedFresh ==
  ASSUME FreshInv, NEW p \in Positions, NextModified(p)
  PROVE  CopiesAreRenewed' /\ NewestIsFresh'
<1>1. /\ tasks = <<>> /\ p \in modified /\ modified' = modified \ {p}
      /\ tasks' = WithEdge(p, FALSE, TRUE)
      /\ UNCHANGED <<map, mesh, m_crack_pos, queueVars, m_queue_out, making>>
  BY DEF NextModified, Busy, threadVars
<1>2. /\ tasks' # <<>> /\ tasks'[1].p = p
      /\ \A x \in {p} \cup Faces(p) : \E i \in DOMAIN tasks' : tasks'[i].p = x
  <2>. DEFINE w == WithEdge(p, FALSE, TRUE)
  <2>1. /\ w # <<>> /\ w[1].p = p
        /\ \A x \in {p} \cup Faces(p) : \E i \in DOMAIN w : w[i].p = x
    BY WithEdgeHas
  <2>2. tasks' = w
    BY <1>1
  <2>. HIDE DEF w
  <2>. QED  BY <2>1, <2>2
<1>3. Present' = Present
  BY <1>1 DEF Present
<1>4. CopiesAreRenewed'
  <2>1. m_cache' = m_cache /\ map' = map
    BY <1>1 DEF queueVars
  <2>2. \A b \in Present \cap DOMAIN m_cache :
          m_cache[b].data = map[b] \/ b \in modified
    BY <1>1 DEF FreshInv, CopiesAreRenewed
  <2>3. ASSUME NEW b \in Present \cap DOMAIN m_cache
        PROVE  \/ m_cache[b].data = map[b]
               \/ b \in modified'
               \/ /\ tasks' # <<>> /\ tasks'[1].p = b
                  /\ \A x \in Faces(b) : \E i \in DOMAIN tasks' : tasks'[i].p = x
    BY <1>1, <1>2, <2>2
  <2>. QED  BY <1>3, <2>1, <2>3, Zenon DEF CopiesAreRenewed, Faces, Around
<1>5. ASSUME NEW q \in Present', ~Due(q)'
      PROVE  Undisturbed(q)
  <2>1. q \notin {p} \cup Faces(p)
    BY <1>2, <1>5, Zenon DEF Due
  <2>2. \A x \in modified' : q \notin {x} \cup Faces(x)
    BY <1>5, Zenon DEF Due, Faces, Around
  <2>3. ~Due(q)
    BY <1>1, <2>1, <2>2 DEF Due
  <2>. QED  BY <1>1, <1>3, <2>3 DEF Undisturbed
<1>. QED  BY <1>1, <1>4, <1>5, FreshFrame

(* A crack changes the meshes of two blocks, and there are tasks for both. *)
LEMMA SetCrackFresh ==
  ASSUME FreshInv, NEW p \in Positions \cup {None}, NEW edge \in SUBSET Positions,
         SetCrack(p, edge)
  PROVE  CopiesAreRenewed' /\ NewestIsFresh'
<1>1. /\ Idle /\ m_crack_pos' = p /\ UNCHANGED modified
      /\ tasks' = ForNode(m_crack_pos, edge) \o ForNode(p, edge)
      /\ UNCHANGED <<map, mesh, queueVars, m_queue_out, making>>
  BY DEF SetCrack, threadVars
<1>2. m_crack_pos \in Positions \cup {None}
  BY DEF FreshInv, MeshInv, TypeOK
<1>3. Present' = Present
  BY <1>1 DEF Present
<1>4. CopiesAreRenewed'
  <2>1. m_cache' = m_cache /\ map' = map
    BY <1>1 DEF queueVars
  <2>. QED  BY <1>1, <1>3, <2>1, CopiesCurrentWhenIdle DEF CopiesAreRenewed
<1>5. ASSUME NEW q \in Positions, q = m_crack_pos \/ q = p
      PROVE  \E i \in DOMAIN tasks' : tasks'[i].p = q
  <2>. DEFINE a == ForNode(m_crack_pos, edge)
              c == ForNode(p, edge)
  <2>1. a \in Seq(Tasks) /\ c \in Seq(Tasks)
    BY <1>2, ForNodeType
  <2>2. CASE q = m_crack_pos
    <3>1. \E i \in DOMAIN a : a[i].p = q
      BY <2>2, ForNodeHas
    <3>2. /\ DOMAIN a = 1..Len(a) /\ Len(a) \in Nat
      BY <2>1
    <3>. HIDE DEF a, c
    <3>3. /\ DOMAIN (a \o c) = 1..Len(a) + Len(c) /\ Len(c) \in Nat
          /\ \A i \in 1..Len(a) : (a \o c)[i] = a[i]
      BY <2>1, ConcatFacts
    <3>4. \E i \in DOMAIN (a \o c) : (a \o c)[i].p = q
      BY <3>1, <3>2, <3>3
    <3>. QED  BY <1>1, <3>4 DEF a, c
  <2>3. CASE q = p
    <3>1. \E i \in DOMAIN c : c[i].p = q
      BY <2>3, ForNodeHas
    <3>2. /\ DOMAIN c = 1..Len(c)
      BY <2>1
    <3>. HIDE DEF a, c
    <3>3. /\ DOMAIN (a \o c) = 1..Len(a) + Len(c) /\ Len(a) \in Nat /\ Len(c) \in Nat
          /\ \A i \in 1..Len(c) : (a \o c)[Len(a) + i] = c[i]
      BY <2>1, ConcatFacts
    <3>4. PICK i \in 1..Len(c) : c[i].p = q
      BY <3>1, <3>2
    <3>5. Len(a) + i \in DOMAIN (a \o c) /\ (a \o c)[Len(a) + i].p = q
      BY <3>3, <3>4
    <3>6. \E k \in DOMAIN (a \o c) : (a \o c)[k].p = q
      BY <3>5
    <3>. QED  BY <1>1, <3>6 DEF a, c
  <2>. QED  BY <1>5, <2>2, <2>3
<1>6. ASSUME NEW q \in Present', ~Due(q)'
      PROVE  Undisturbed(q)
  <2>1. q \in Positions /\ q # m_crack_pos /\ q # p
    BY <1>5, <1>6, Zenon DEF Due, Present
  <2>2. (m_crack_pos' = q) = (m_crack_pos = q)
    BY <1>1, <2>1
  <2>. QED  BY <1>1, <1>3, <2>1, <2>2, NothingDue DEF Undisturbed
<1>. QED  BY <1>1, <1>4, <1>6, FreshFrame

LEMMA UnloadBlockFresh ==
  ASSUME FreshInv, NEW p \in Positions, UnloadBlock(p)
  PROVE  CopiesAreRenewed' /\ NewestIsFresh'
<1>1. /\ Idle /\ UNCHANGED <<modified, tasks>>
      /\ UNCHANGED <<m_crack_pos, queueVars, m_queue_out, making>>
      /\ map' = [map EXCEPT ![p] = None] /\ mesh' = [mesh EXCEPT ![p] = None]
      /\ map \in [Positions -> Data] /\ mesh \in [Positions -> Meshes \cup {None}]
  BY DEF UnloadBlock, threadVars, FreshInv, MeshInv, TypeOK
<1>2. \A q \in Present' : q \in Present /\ map'[q] = map[q] /\ mesh'[q] = mesh[q]
  BY <1>1 DEF Present
<1>3. CopiesAreRenewed'
  <2>1. m_cache' = m_cache
    BY <1>1 DEF queueVars
  <2>. QED  BY <1>1, <1>2, <2>1, CopiesCurrentWhenIdle DEF CopiesAreRenewed
<1>4. ASSUME NEW q \in Present', ~Due(q)'
      PROVE  Undisturbed(q)
  BY <1>1, <1>2, NothingDue DEF Undisturbed
<1>. QED  BY <1>1, <1>3, <1>4, FreshFrame

(* A step that changes neither the map nor what is due, nor what is on     *)
(* its way.                                                                *)
LEMMA StillFresh ==
  ASSUME FreshInv,
         UNCHANGED <<map, mesh, m_crack_pos, modified, tasks, queueVars, m_queue_out, making>>
  PROVE  CopiesAreRenewed' /\ NewestIsFresh'
<1>1. Present' = Present /\ m_cache' = m_cache
  BY DEF Present, queueVars
<1>2. CopiesAreRenewed'
  BY <1>1 DEF FreshInv, CopiesAreRenewed, Faces, Around
<1>3. ASSUME NEW q \in Present', ~Due(q)'
      PROVE  Undisturbed(q)
  <2>1. ~Due(q)
    BY <1>3 DEF Due, Faces, Around
  <2>. QED  BY <1>1, <2>1 DEF Undisturbed
<1>. QED  BY <1>2, <1>3, FreshFrame
-----------------------------------------------------------------------------
(* addBlock: the entry and the copies it leaves *)

LEMMA TailHas ==
  ASSUME NEW q \in Seq(Tasks), q # <<>>
  PROVE  /\ Head(q) = q[1]
         /\ \A x : x # Head(q).p =>
              ((\E i \in DOMAIN q : q[i].p = x) <=> \E i \in DOMAIN Tail(q) : Tail(q)[i].p = x)
<1>1. /\ Len(q) \in Nat /\ Len(q) >= 1 /\ DOMAIN q = 1..Len(q) /\ Head(q) = q[1]
      /\ DOMAIN Tail(q) = 1..Len(q) - 1
      /\ \A i \in 1..Len(q) - 1 : Tail(q)[i] = q[i + 1]
  OBVIOUS
<1>2. ASSUME NEW x, x # Head(q).p, NEW i \in DOMAIN q, q[i].p = x
      PROVE  \E j \in DOMAIN Tail(q) : Tail(q)[j].p = x
  <2>1. i # 1
    BY <1>1, <1>2
  <2>2. i - 1 \in 1..Len(q) - 1 /\ (i - 1) + 1 = i
    BY <1>1, <2>1
  <2>3. Tail(q)[i - 1] = q[i]
    BY <1>1, <2>2
  <2>. QED  BY <1>1, <1>2, <2>2, <2>3
<1>3. ASSUME NEW x, NEW j \in DOMAIN Tail(q), Tail(q)[j].p = x
      PROVE  \E i \in DOMAIN q : q[i].p = x
  <2>1. j + 1 \in 1..Len(q) /\ Tail(q)[j] = q[j + 1]
    BY <1>1
  <2>. QED  BY <1>1, <1>3, <2>1
<1>. QED  BY <1>1, <1>2, <1>3

LEMMA EntryFacts ==
  ASSUME NEW t \in Tasks
  PROVE  /\ Entry(t).p = t.p /\ Entry(t).cracked = (m_crack_pos = t.p)
         /\ \A e \in Entries :
              Merged(e, t).p = t.p /\ Merged(e, t).cracked = (m_crack_pos = t.p)
BY DEF Entry, Merged

(* The entry of the block knows of the crack; the others stay.             *)
LEMMA AddBlockEntries ==
  ASSUME MeshInv, NEW t \in Tasks, NEW expired \in SUBSET Unneeded,
         addBlock(t, expired)
  PROVE  /\ Queued' = Queued \cup {t.p}
         /\ \A i \in DOMAIN m_queue' :
              \/ m_queue'[i].p = t.p /\ m_queue'[i].cracked = (m_crack_pos = t.p)
              \/ m_queue'[i].p # t.p /\ \E j \in DOMAIN m_queue : m_queue[j] = m_queue'[i]
<1>1. m_queue \in Seq(Entries)
  BY DEF MeshInv, TypeOK, Entries
<1>2. \A i \in DOMAIN m_queue : m_queue[i] \in Entries
  BY <1>1
<1>3. CASE t.p \in Queued
  <2>1. m_queue' = [i \in DOMAIN m_queue |->
                      IF m_queue[i].p = t.p THEN Merged(m_queue[i], t) ELSE m_queue[i]]
    BY <1>3 DEF addBlock
  <2>2. DOMAIN m_queue' = DOMAIN m_queue
    BY <2>1
  <2>3. ASSUME NEW i \in DOMAIN m_queue
        PROVE  m_queue'[i] = IF m_queue[i].p = t.p THEN Merged(m_queue[i], t) ELSE m_queue[i]
    BY <2>1
  <2>4. ASSUME NEW i \in DOMAIN m_queue
        PROVE  m_queue'[i].p = m_queue[i].p
    BY <1>2, <2>3, EntryFacts
  <2>5. Queued' = Queued
    BY <2>2, <2>4 DEF Queued
  <2>6. ASSUME NEW i \in DOMAIN m_queue
        PROVE \/ m_queue'[i].p = t.p /\ m_queue'[i].cracked = (m_crack_pos = t.p)
              \/ m_queue'[i].p # t.p /\ \E j \in DOMAIN m_queue : m_queue[j] = m_queue'[i]
    <3>1. CASE m_queue[i].p = t.p
      <4>1. m_queue'[i] = Merged(m_queue[i], t)
        BY <2>3, <3>1
      <4>. QED  BY <1>2, <4>1, EntryFacts, Zenon
    <3>2. CASE m_queue[i].p # t.p
      BY <2>3, <3>2
    <3>. QED  BY <3>1, <3>2
  <2>. QED  BY <1>3, <2>2, <2>5, <2>6
<1>4. CASE t.p \notin Queued
  <2>1. m_queue' = Append(m_queue, Entry(t))
    BY <1>4 DEF addBlock
  <2>5. Entry(t) \in Entries
    BY DEF Entry, Entries, Tasks
  <2>2. /\ DOMAIN m_queue' = DOMAIN m_queue \cup {Len(m_queue) + 1}
        /\ \A i \in DOMAIN m_queue : m_queue'[i] = m_queue[i]
        /\ m_queue'[Len(m_queue) + 1] = Entry(t)
    BY <1>1, <2>1, <2>5, AppendFacts
  <2>3. Queued' = Queued \cup {t.p}
    BY <2>2, EntryFacts DEF Queued
  <2>4. \A i \in DOMAIN m_queue : m_queue[i].p # t.p
    BY <1>4 DEF Queued
  <2>6. m_queue'[Len(m_queue) + 1].p = t.p
        /\ m_queue'[Len(m_queue) + 1].cracked = (m_crack_pos = t.p)
    BY <2>2, EntryFacts, Zenon
  <2>7. ASSUME NEW i \in DOMAIN m_queue
        PROVE  m_queue'[i].p # t.p /\ \E j \in DOMAIN m_queue : m_queue[j] = m_queue'[i]
    BY <2>2, <2>4
  <2>. QED  BY <2>2, <2>3, <2>6, <2>7, Zenon
<1>. QED  BY <1>3, <1>4

LEMMA CountedData ==
  ASSUME NEW c, NEW S, NEW n, NEW b \in DOMAIN c, c[b] \in [data : Data, refs : Nat]
  PROVE  Counted(c, S, n)[b].data = c[b].data
BY DEF Counted

(* A copy is as it was, or it is what the map has; that of the block is.   *)
LEMMA AddBlockCopies ==
  ASSUME MeshInv, NEW t \in Tasks, NEW expired \in SUBSET Unneeded,
         addBlock(t, expired)
  PROVE  \A b \in DOMAIN m_cache' :
           \/ m_cache'[b].data = map[b]
           \/ b # t.p /\ b \in DOMAIN m_cache /\ m_cache'[b].data = m_cache[b].data
<1>. DEFINE C == Cached(expired, t.p)
<1>1. t.p \in Positions
  BY DEF Tasks
<1>2. /\ DOMAIN C = (DOMAIN m_cache \ expired) \cup Around(t.p)
      /\ \A b \in DOMAIN C : C[b] \in [data : Data, refs : Nat]
  BY <1>1, CopiedCounts, Zenon
<1>3. ASSUME NEW b \in DOMAIN C
      PROVE  \/ C[b].data = map[b]
             \/ b # t.p /\ b \in DOMAIN m_cache /\ C[b].data = m_cache[b].data
  <2>1. CASE b \in DOMAIN Kept(expired)
    <3>1. b \in DOMAIN m_cache /\ Kept(expired)[b] = m_cache[b]
          /\ m_cache[b] \in [data : Data, refs : Nat]
      BY <2>1 DEF MeshInv, TypeOK, Kept
    <3>2. C[b] = IF b = t.p THEN [m_cache[b] EXCEPT !.data = map[b]] ELSE m_cache[b]
      BY <1>2, <2>1, <3>1 DEF Copied, Cached
    <3>. QED  BY <3>1, <3>2
  <2>2. CASE b \notin DOMAIN Kept(expired)
    BY <1>2, <2>2 DEF Copied, Cached
  <2>. QED  BY <2>1, <2>2
<1>4. m_cache' = Referenced(C, t)
  BY DEF addBlock, Cached, Kept
<1>. HIDE DEF C
<1>5. DOMAIN m_cache' = DOMAIN C
  BY <1>4 DEF Referenced, Counted
<1>6. ASSUME NEW b \in DOMAIN C
      PROVE  m_cache'[b].data = C[b].data
  BY <1>2, <1>4, CountedData DEF Referenced
<1>. QED  BY <1>3, <1>5, <1>6

LEMMA AddTaskFresh ==
  ASSUME FreshInv, AddTask
  PROVE  CopiesAreRenewed' /\ NewestIsFresh'
<1>. DEFINE t == Head(tasks)
            x == t.p
<1>1. /\ tasks # <<>> /\ tasks' = Tail(tasks)
      /\ UNCHANGED <<map, mesh, m_crack_pos, modified, m_queue_out, making>>
      /\ tasks \in Seq(Tasks) /\ t \in Tasks /\ tasks[1] = t
  <2>1. tasks # <<>> /\ tasks \in Seq(Tasks)
    BY DEF AddTask, FreshInv, MeshInv, TypeOK, Tasks
  <2>. QED  BY <2>1, TailHas, TailFacts DEF AddTask, threadVars
<1>2. \A q : q # x => ((\E i \in DOMAIN tasks : tasks[i].p = q)
                        <=> \E i \in DOMAIN tasks' : tasks'[i].p = q)
  BY <1>1, TailHas, Zenon
<1>3. \A q : q # x => (Due(q) <=> Due(q)')
  BY <1>1, <1>2, Zenon DEF Due, Faces, Around
<1>4. Present' = Present
  BY <1>1 DEF Present
<1>5. \A b \in Present \cap DOMAIN m_cache :
        b # x => m_cache[b].data = map[b] \/ b \in modified
  BY <1>1 DEF FreshInv, CopiesAreRenewed
<1>6. CASE x \in Present
  <2>1. PICK expired \in SUBSET Unneeded : addBlock(t, expired)
    BY <1>6, Zenon DEF AddTask
  <2>2. MeshInv /\ NewestIsFresh
    BY DEF FreshInv
  <2>. HIDE DEF t
  <2>3. CopiesAreRenewed'
    <3>1. \A b \in DOMAIN m_cache' :
            \/ m_cache'[b].data = map[b]
            \/ b # x /\ b \in DOMAIN m_cache /\ m_cache'[b].data = m_cache[b].data
      BY <1>1, <2>1, <2>2, AddBlockCopies
    <3>. QED  BY <1>1, <1>4, <1>5, <3>1 DEF CopiesAreRenewed
  <2>4. /\ Queued' = Queued \cup {x}
        /\ \A i \in DOMAIN m_queue' :
             \/ m_queue'[i].p = x /\ m_queue'[i].cracked = (m_crack_pos = x)
             \/ m_queue'[i].p # x /\ \E j \in DOMAIN m_queue : m_queue[j] = m_queue'[i]
    BY <1>1, <2>1, <2>2, AddBlockEntries
  <2>5. ASSUME NEW q \in Positions, q = x
        PROVE  NewestFresh(q)'
    <3>1. q \in Queued'
      BY <2>4, <2>5
    <3>2. Pending(q)'
      BY <3>1, Zenon DEF Pending
    <3>3. \A i \in DOMAIN m_queue' :
            m_queue'[i].p = q => m_queue'[i].cracked = (m_crack_pos' = q)
      BY <1>1, <2>4, <2>5, Zenon
    <3>. QED  BY <3>1, <3>2, <3>3, Zenon DEF NewestFresh
  <2>6. ASSUME NEW q \in Positions, q \in Present', ~Due(q)', q # x
        PROVE  NewestFresh(q)'
    <3>1. Undisturbed(q)
      BY <1>1, <1>3, <1>4, <2>6 DEF Undisturbed
    <3>2. q \in Queued' <=> q \in Queued
      BY <2>4, <2>6
    <3>3. ThreadHas(q)' <=> ThreadHas(q)
      BY <1>1 DEF ThreadHas
    <3>4. \A i : LastOut(i, q)' <=> LastOut(i, q)
      BY <1>1 DEF LastOut
    <3>5. Pending(q) => Pending(q)'
      BY <1>1, <3>1, <3>2, <3>3, PendingIs, Zenon DEF Pending, ThreadHas, Undisturbed
    <3>6. \A i \in DOMAIN m_queue' : m_queue'[i].p = q =>
            \E j \in DOMAIN m_queue :
              m_queue[j].p = q /\ m_queue'[i].cracked = m_queue[j].cracked
      BY <2>4, <2>6
    <3>. QED  BY <1>1, <2>2, <3>1, <3>2, <3>3, <3>4, <3>5, <3>6, FreshKept
  <2>7. NewestIsFresh'
    <3>1. \A q \in Present' : q \in Positions
      BY DEF Present
    <3>. QED  BY <2>5, <2>6, <3>1, Zenon DEF NewestIsFresh
  <2>. QED  BY <2>3, <2>7
<1>7. CASE x \notin Present
  <2>1. UNCHANGED queueVars
    BY <1>7 DEF AddTask
  <2>2. CopiesAreRenewed'
    <3>1. m_cache' = m_cache
      BY <2>1 DEF queueVars
    <3>. QED  BY <1>1, <1>4, <1>5, <1>7, <3>1 DEF CopiesAreRenewed
  <2>3. ASSUME NEW q \in Present', ~Due(q)'
        PROVE  Undisturbed(q)
    BY <1>1, <1>3, <1>4, <1>7, <2>3 DEF Undisturbed
  <2>. QED  BY <1>1, <2>1, <2>2, <2>3, FreshFrame
<1>. QED  BY <1>6, <1>7
-----------------------------------------------------------------------------
(* The way of a mesh *)

(* Steps that leave the map and what is due alone disturb only the block   *)
(* they are about.                                                         *)
LEMMA NotAboutIt ==
  ASSUME NEW q, q \in Present', ~Due(q)', mesh'[q] = mesh[q],
         UNCHANGED <<map, m_crack_pos, modified, tasks>>
  PROVE  Undisturbed(q)
<1>1. Present' = Present
  BY DEF Present
<1>2. ~Due(q)
  BY DEF Due, Faces, Around
<1>. QED  BY <1>1, <1>2 DEF Undisturbed

(* The copies an entry is made of are those the map has, unless it is due. *)
LEMMA EntryCopiesCurrent ==
  ASSUME FreshInv, NEW p \in Positions, p \in Present, p \in Queued, ~Due(p)
  PROVE  /\ m_cache[p].data = map[p]
         /\ \A b \in Faces(p) \cap Present : b \in Around(p) /\ m_cache[b].data = map[b]
<1>1. Around(p) \subseteq DOMAIN m_cache /\ p \in Around(p)
  BY AroundType DEF FreshInv, MeshInv, QueueIsCoherent, CountsMatch
<1>2. ASSUME NEW b \in Present, b = p \/ b \in Faces(p)
      PROVE  b \in Around(p) /\ m_cache[b].data = map[b]
  <2>1. b \in Positions /\ b \in Around(p) /\ (b = p \/ p \in Faces(b))
    BY <1>1, <1>2, FacesAreMutual
  <2>2. b \notin modified
    BY <2>1 DEF Due
  <2>3. ~(/\ tasks # <<>> /\ tasks[1].p = b
          /\ \A x \in Faces(b) : \E i \in DOMAIN tasks : tasks[i].p = x)
    <3>1. CASE b = p
      <4>1. tasks # <<>> => 1 \in DOMAIN tasks
        BY DEF FreshInv, MeshInv, TypeOK
      <4>. QED  BY <3>1, <4>1 DEF Due
    <3>2. CASE p \in Faces(b)
      BY <3>2 DEF Due
    <3>. QED  BY <2>1, <3>1, <3>2
  <2>. QED  BY <1>1, <2>1, <2>2, <2>3, Zenon DEF FreshInv, CopiesAreRenewed
<1>. QED  BY <1>2

LEMMA PopFresh ==
  ASSUME FreshInv, Pop
  PROVE  CopiesAreRenewed' /\ NewestIsFresh'
<1>0. MeshInv /\ NewestIsFresh /\ CopiesAreRenewed
  BY DEF FreshInv
<1>1. PICK i \in NextEntries :
        /\ m_queue' = RemovedAt(m_queue, i)
        /\ m_cache' = Counted(m_cache, Around(m_queue[i].p), -1)
        /\ making' = [p |-> m_queue[i].p, ack |-> m_queue[i].ack,
                      cracked |-> m_queue[i].cracked,
                      seen |-> [b \in Around(m_queue[i].p) |->
                        IF b \in DOMAIN m_cache THEN m_cache[b].data ELSE None]]
  BY Zenon DEF Pop
<1>2. /\ making = None
      /\ UNCHANGED <<map, mesh, m_crack_pos, modified, tasks, m_queue_out>>
  BY DEF Pop, ThreadLeaves, mainVars
<1>3. PICK x \in Positions : x = m_queue[i].p
  <2>1. i \in DOMAIN m_queue /\ m_queue \in Seq(Entries)
    BY <1>0, Zenon DEF NextEntries, MeshInv, TypeOK, Entries
  <2>2. m_queue[i] \in Entries
    BY <2>1
  <2>. QED  BY <2>2 DEF Entries
<1>4. /\ Queued' = Queued \ {x} /\ x \in Queued /\ i \in DOMAIN m_queue
      /\ \A j \in DOMAIN m_queue' : \E k \in DOMAIN m_queue : m_queue'[j] = m_queue[k]
  <2>1. i \in DOMAIN m_queue
    BY DEF NextEntries
  <2>2. x \in Queued
    BY <1>3, <2>1, Zenon DEF Queued
  <2>. QED  BY <1>0, <1>1, <1>3, <2>1, <2>2, RemovedEntry
<1>5. /\ making'.p = x /\ making'.cracked = m_queue[i].cracked
      /\ \A b \in Around(x) : making'.seen[b] = m_cache[b].data
      /\ making' \in Results
  <2>1. making'.p = x /\ making'.cracked = m_queue[i].cracked
    BY <1>1, <1>3
  <2>2. making'.seen = [b \in Around(x) |->
                          IF b \in DOMAIN m_cache THEN m_cache[b].data ELSE None]
    BY <1>1, <1>3
  <2>3. Around(x) \subseteq DOMAIN m_cache
    BY <1>0, <1>4 DEF MeshInv, QueueIsCoherent, CountsMatch
  <2>4. making' \in Results
    BY <1>0, PopMakes
  <2>. QED  BY <2>1, <2>2, <2>3, <2>4
<1>6. ThreadHas(x)'
  <2>1. making' # None
    BY <1>5, PositionsAssumption
  <2>. QED  BY <1>5, <2>1, Zenon DEF ThreadHas
<1>7. CopiesAreRenewed'
  <2>1. Present' = Present /\ DOMAIN m_cache' = DOMAIN m_cache
    BY <1>1, <1>2 DEF Present, Counted
  <2>2. \A b \in DOMAIN m_cache : m_cache'[b].data = m_cache[b].data
    BY <1>0, <1>1, CountedData DEF MeshInv, TypeOK
  <2>. QED  BY <1>0, <1>2, <2>1, <2>2 DEF CopiesAreRenewed, Faces, Around
<1>8. ASSUME NEW q \in Positions, q \in Present', ~Due(q)', q = x
      PROVE  NewestFresh(q)'
  <2>1. q \in Present /\ ~Due(q)
    BY <1>2, <1>8, NotAboutIt DEF Undisturbed
  <2>2. making'.seen[q] = map'[q]
    BY <1>0, <1>2, <1>4, <1>5, <1>8, <2>1, EntryCopiesCurrent, AroundType
  <2>3. \A b \in Faces(q) \cap Present' : making'.seen[b] = map'[b]
    <3>1. Present' = Present
      BY <1>2 DEF Present
    <3>. QED  BY <1>2, <1>4, <1>5, <1>8, <2>1, <3>1, EntryCopiesCurrent
  <2>4. making'.cracked = (m_crack_pos' = q)
    <3>1. m_queue[i].cracked = (m_crack_pos = q)
      BY <1>0, <1>3, <1>4, <1>8, <2>1, Zenon DEF NewestIsFresh, NewestFresh
    <3>2. making'.cracked = m_queue[i].cracked /\ m_crack_pos' = m_crack_pos
      BY <1>2, <1>5
    <3>. QED  BY <3>1, <3>2, Zenon
  <2>5. Shows(making, q)'
    BY <2>2, <2>3, <2>4, Zenon DEF Shows, Faces, Around
  <2>6. ThreadHas(q)' /\ q \notin Queued'
    BY <1>4, <1>6, <1>8
  <2>7. Pending(q)'
    BY <2>6, Zenon DEF Pending, ThreadHas
  <2>8. \A j \in DOMAIN m_queue' : m_queue'[j].p # q
    BY <2>6, Zenon DEF Queued
  <2>. QED  BY <2>5, <2>6, <2>7, <2>8, Zenon DEF NewestFresh
<1>9. ASSUME NEW q \in Positions, q \in Present', ~Due(q)', q # x
      PROVE  NewestFresh(q)'
  <2>1. Undisturbed(q)
    BY <1>2, <1>9, NotAboutIt
  <2>2. q \in Queued' <=> q \in Queued
    BY <1>4, <1>9
  <2>3. ~ThreadHas(q) /\ ~ThreadHas(q)'
    BY <1>2, <1>5, <1>9 DEF ThreadHas
  <2>4. \A j : LastOut(j, q)' <=> LastOut(j, q)
    BY <1>2 DEF LastOut
  <2>5. Pending(q) => Pending(q)'
    BY <1>2, <2>1, <2>2, <2>3, PendingIs, Zenon DEF Pending, Undisturbed
  <2>. QED  BY <1>0, <1>2, <1>4, <2>1, <2>2, <2>3, <2>4, <2>5, FreshKept
<1>10. \A q \in Present' : q \in Positions
  BY DEF Present
<1>11. NewestIsFresh'
  BY <1>8, <1>9, <1>10, Zenon DEF NewestIsFresh
<1>. QED  BY <1>7, <1>11

LEMMA MakeMeshFresh ==
  ASSUME FreshInv, MakeMesh
  PROVE  CopiesAreRenewed' /\ NewestIsFresh'
<1>0. MeshInv /\ NewestIsFresh /\ CopiesAreRenewed
  BY DEF FreshInv
<1>1. /\ making # None /\ making' = None /\ m_queue_out' = Append(m_queue_out, making)
      /\ UNCHANGED <<map, mesh, m_crack_pos, modified, tasks, queueVars>>
      /\ making \in Results /\ m_queue_out \in Seq(Results)
  BY <1>0 DEF MakeMesh, ThreadLeaves, mainVars, MeshInv, TypeOK
<1>2. /\ DOMAIN m_queue_out' = DOMAIN m_queue_out \cup {Len(m_queue_out) + 1}
      /\ \A i \in DOMAIN m_queue_out : m_queue_out'[i] = m_queue_out[i]
      /\ m_queue_out'[Len(m_queue_out) + 1] = making
      /\ \A i \in DOMAIN m_queue_out : i \in Nat /\ i < Len(m_queue_out) + 1
  BY <1>1, AppendFacts
<1>3. m_queue' = m_queue /\ m_cache' = m_cache /\ Queued' = Queued /\ Present' = Present
  BY <1>1 DEF queueVars, Queued, Present
<1>4. CopiesAreRenewed'
  BY <1>0, <1>1, <1>3 DEF CopiesAreRenewed, Faces, Around
<1>5. ASSUME NEW q
      PROVE  ~ThreadHas(q)'
  BY <1>1 DEF ThreadHas
<1>6. ASSUME NEW q \in Positions, q \in Present', ~Due(q)', q = making.p
      PROVE  NewestFresh(q)'
  <2>1. Undisturbed(q)
    BY <1>1, <1>6, NotAboutIt
  <2>2. NewestFresh(q) /\ ThreadHas(q)
    BY <1>0, <1>1, <1>6, <2>1 DEF NewestIsFresh, Undisturbed, ThreadHas
  <2>3. Pending(q)'
    BY <1>2, <1>6 DEF Pending
  <2>4. \A j \in DOMAIN m_queue' :
          m_queue'[j].p = q => m_queue'[j].cracked = (m_crack_pos' = q)
    BY <1>1, <1>3, <2>2, Zenon DEF NewestFresh
  <2>5. ASSUME q \notin Queued', NEW j \in DOMAIN m_queue_out', LastOut(j, q)'
        PROVE  Shows(m_queue_out[j], q)'
    <3>1. j = Len(m_queue_out) + 1
      <4>1. Len(m_queue_out) + 1 \in DOMAIN m_queue_out'
            /\ m_queue_out'[Len(m_queue_out) + 1].p = q
        BY <1>2, <1>6
      <4>2. ~(Len(m_queue_out) + 1 > j)
        BY <2>5, <4>1 DEF LastOut
      <4>. QED  BY <1>1, <1>2, <2>5, <4>2
    <3>2. m_queue_out'[j] = making
      BY <1>2, <3>1
    <3>3. Shows(making, q)
      BY <1>3, <2>2, <2>5, Zenon DEF NewestFresh
    <3>4. Shows(m_queue_out[j], q)' <=>
            /\ m_queue_out'[j].seen[q] = map'[q]
            /\ \A b \in Faces(q) \cap Present' : m_queue_out'[j].seen[b] = map'[b]
            /\ m_queue_out'[j].cracked = (m_crack_pos' = q)
      BY Zenon DEF Shows, Faces, Around
    <3>. QED  BY <1>1, <1>3, <3>2, <3>3, <3>4, Zenon DEF Shows
  <2>. QED  BY <1>5, <2>3, <2>4, <2>5, Zenon DEF NewestFresh
<1>7. ASSUME NEW q \in Positions, q \in Present', ~Due(q)', q # making.p
      PROVE  NewestFresh(q)'
  <2>1. Undisturbed(q)
    BY <1>1, <1>7, NotAboutIt
  <2>2. ~ThreadHas(q) /\ ~ThreadHas(q)'
    BY <1>5, <1>7 DEF ThreadHas
  <2>3. ASSUME NEW j \in DOMAIN m_queue_out', LastOut(j, q)'
        PROVE  /\ j \in DOMAIN m_queue_out /\ LastOut(j, q)
               /\ m_queue_out'[j] = m_queue_out[j]
    BY <1>2, <1>7, <2>3 DEF LastOut
  <2>4. Pending(q) => Pending(q)'
    BY <1>2, <1>3, <2>1, <2>2, PendingIs, Zenon DEF Pending, Undisturbed
  <2>. QED  BY <1>0, <1>3, <2>1, <2>2, <2>3, <2>4, FreshKept
<1>8. \A q \in Present' : q \in Positions
  BY DEF Present
<1>9. NewestIsFresh'
  BY <1>6, <1>7, <1>8, Zenon DEF NewestIsFresh
<1>. QED  BY <1>4, <1>9

LEMMA ReplaceMeshFresh ==
  ASSUME FreshInv, ReplaceMesh
  PROVE  CopiesAreRenewed' /\ NewestIsFresh'
<1>0. MeshInv /\ NewestIsFresh /\ CopiesAreRenewed
  BY DEF FreshInv
<1>1. PICK r \in Results : r = Head(m_queue_out)
  <2>1. m_queue_out \in Seq(Results) /\ m_queue_out # <<>>
    BY <1>0 DEF ReplaceMesh, MeshInv, TypeOK
  <2>. QED  BY <2>1, TailFacts
<1>2. /\ m_queue_out # <<>> /\ m_queue_out' = Tail(m_queue_out)
      /\ mesh' = IF r.p \in Present
                 THEN [mesh EXCEPT ![r.p] = [seen |-> r.seen, cracked |-> r.cracked]]
                 ELSE mesh
      /\ UNCHANGED <<map, m_crack_pos, modified, tasks, queueVars, making>>
      /\ mesh \in [Positions -> Meshes \cup {None}] /\ m_queue_out \in Seq(Results)
  BY <1>0, <1>1 DEF ReplaceMesh, MeshInv, TypeOK
<1>3. /\ Len(m_queue_out) \in Nat /\ 1 \in DOMAIN m_queue_out /\ m_queue_out[1] = r
      /\ DOMAIN m_queue_out = 1..Len(m_queue_out)
      /\ DOMAIN m_queue_out' = 1..Len(m_queue_out) - 1
      /\ \A j \in 1..Len(m_queue_out) - 1 : m_queue_out'[j] = m_queue_out[j + 1]
  BY <1>1, <1>2
<1>4. m_queue' = m_queue /\ m_cache' = m_cache /\ Queued' = Queued /\ Present' = Present
  BY <1>2 DEF queueVars, Queued, Present
<1>5. CopiesAreRenewed'
  BY <1>0, <1>2, <1>4 DEF CopiesAreRenewed, Faces, Around
<1>6. ASSUME NEW q
      PROVE  ThreadHas(q)' <=> ThreadHas(q)
  BY <1>2 DEF ThreadHas
<1>7. ASSUME NEW q, NEW j \in DOMAIN m_queue_out', LastOut(j, q)'
      PROVE  \E k \in DOMAIN m_queue_out : LastOut(k, q) /\ m_queue_out'[j] = m_queue_out[k]
  <2>1. j + 1 \in DOMAIN m_queue_out /\ m_queue_out'[j] = m_queue_out[j + 1]
    BY <1>3
  <2>2. ASSUME NEW k \in DOMAIN m_queue_out, k > j + 1
        PROVE  m_queue_out[k].p # q
    <3>1. k - 1 \in 1..Len(m_queue_out) - 1 /\ k - 1 > j /\ (k - 1) + 1 = k
      BY <1>3, <2>2
    <3>2. m_queue_out'[k - 1] = m_queue_out[k] /\ m_queue_out'[k - 1].p # q
      BY <1>3, <1>7, <3>1 DEF LastOut
    <3>. QED  BY <3>2
  <2>3. LastOut(j + 1, q)
    BY <1>7, <2>1, <2>2 DEF LastOut
  <2>. QED  BY <2>1, <2>3
<1>8. ASSUME NEW q, q # r.p
      PROVE  (\E k \in DOMAIN m_queue_out : m_queue_out[k].p = q)
               => \E j \in DOMAIN m_queue_out' : m_queue_out'[j].p = q
  <2>. SUFFICES ASSUME NEW k \in DOMAIN m_queue_out, m_queue_out[k].p = q
                PROVE  \E j \in DOMAIN m_queue_out' : m_queue_out'[j].p = q
    OBVIOUS
  <2>1. k # 1
    BY <1>3, <1>8
  <2>2. k - 1 \in 1..Len(m_queue_out) - 1 /\ (k - 1) + 1 = k
    BY <1>3, <2>1
  <2>3. m_queue_out'[k - 1] = m_queue_out[k]
    BY <1>3, <2>2
  <2>. QED  BY <1>3, <2>2, <2>3
<1>9. ASSUME NEW q \in Positions, q \in Present', ~Due(q)', q # r.p
      PROVE  NewestFresh(q)'
  <2>0. mesh'[q] = mesh[q]
    BY <1>2, <1>9
  <2>1. Undisturbed(q)
    BY <1>2, <1>9, <2>0, NotAboutIt
  <2>2. Pending(q) => Pending(q)'
    BY <1>4, <1>6, <1>8, <1>9, <2>1, PendingIs, Zenon DEF Pending, ThreadHas, Undisturbed
  <2>3. ThreadHas(q) => making' = making
    BY <1>2
  <2>. QED  BY <1>0, <1>4, <1>6, <1>7, <2>1, <2>2, <2>3, FreshKept
<1>10. ASSUME NEW q \in Positions, q \in Present', ~Due(q)', q = r.p
       PROVE  NewestFresh(q)'
  <2>1. q \in Present /\ ~Due(q)
    BY <1>2, <1>4, <1>10, Zenon DEF Due, Faces, Around
  <2>2. NewestFresh(q)
    BY <1>0, <2>1 DEF NewestIsFresh
  <2>3. mesh'[q] = [seen |-> r.seen, cracked |-> r.cracked]
    BY <1>2, <1>10, <2>1
  <2>4. mesh'[q] # None /\ mesh'[q].seen = r.seen /\ mesh'[q].cracked = r.cracked
    <3>1. mesh'[q] \in Meshes
      BY <2>3 DEF Results, Meshes
    <3>. QED  BY <2>3, <3>1, PositionsAssumption
  <2>5. ASSUME NEW m, Shows(m, q)
        PROVE  /\ m.seen[q] = map'[q]
               /\ \A b \in Faces(q) \cap Present' : m.seen[b] = map'[b]
               /\ m.cracked = (m_crack_pos' = q)
    BY <1>2, <1>4, <2>5, Zenon DEF Shows
  <2>6. \A j \in DOMAIN m_queue' :
          m_queue'[j].p = q => m_queue'[j].cracked = (m_crack_pos' = q)
    BY <1>2, <1>4, <2>2, Zenon DEF NewestFresh
  <2>7. ASSUME q \notin Queued', ThreadHas(q)'
        PROVE  Shows(making, q)'
    <3>1. Shows(making, q) /\ making' = making
      BY <1>2, <1>4, <1>6, <2>2, <2>7, Zenon DEF NewestFresh
    <3>. QED  BY <1>2, <1>4, <3>1, Zenon DEF Shows, Faces, Around
  <2>8. ASSUME q \notin Queued', ~ThreadHas(q)', NEW j \in DOMAIN m_queue_out',
               LastOut(j, q)'
        PROVE  Shows(m_queue_out[j], q)'
    <3>1. PICK k \in DOMAIN m_queue_out : LastOut(k, q) /\ m_queue_out'[j] = m_queue_out[k]
      BY <1>7, <2>8
    <3>2. Shows(m_queue_out[k], q)
      BY <1>4, <1>6, <2>2, <2>8, <3>1, Zenon DEF NewestFresh
    <3>3. Shows(m_queue_out[j], q)' <=>
            /\ m_queue_out'[j].seen[q] = map'[q]
            /\ \A b \in Faces(q) \cap Present' : m_queue_out'[j].seen[b] = map'[b]
            /\ m_queue_out'[j].cracked = (m_crack_pos' = q)
      BY Zenon DEF Shows, Faces, Around
    <3>. QED  BY <1>2, <1>4, <3>1, <3>2, <3>3, Zenon DEF Shows
  <2>9. ASSUME ~Pending(q)'
        PROVE  Shows(mesh[q], q)'
    <3>1. q \notin Queued /\ ~ThreadHas(q)
      BY <1>4, <1>6, <2>9, Zenon DEF Pending, ThreadHas
    <3>2. LastOut(1, q)
      <4>1. \A j \in DOMAIN m_queue_out' : m_queue_out'[j].p # q
        BY <2>9, Zenon DEF Pending
      <4>2. ASSUME NEW j \in DOMAIN m_queue_out, j > 1
            PROVE  m_queue_out[j].p # q
        <5>1. j - 1 \in 1..Len(m_queue_out) - 1 /\ (j - 1) + 1 = j
          BY <1>3, <4>2
        <5>2. m_queue_out'[j - 1] = m_queue_out[j]
          BY <1>3, <5>1
        <5>. QED  BY <1>3, <4>1, <5>1, <5>2
      <4>. QED  BY <1>3, <1>10, <4>2 DEF LastOut
    <3>3. Shows(m_queue_out[1], q) /\ m_queue_out[1] = r
      BY <1>3, <2>2, <3>1, <3>2, Zenon DEF NewestFresh
    <3>4. /\ r.seen[q] = map[q]
          /\ \A b \in Faces(q) \cap Present : r.seen[b] = map[b]
          /\ r.cracked = (m_crack_pos = q)
      BY <3>3, Zenon DEF Shows
    <3>5. Shows(mesh[q], q)' <=>
            /\ mesh'[q].seen[q] = map'[q]
            /\ \A b \in Faces(q) \cap Present' : mesh'[q].seen[b] = map'[b]
            /\ mesh'[q].cracked = (m_crack_pos' = q)
      BY Zenon DEF Shows, Faces, Around
    <3>. QED  BY <1>2, <1>4, <2>4, <3>4, <3>5, Zenon
  <2>. QED  BY <2>4, <2>6, <2>7, <2>8, <2>9, Zenon DEF NewestFresh
<1>11. \A q \in Present' : q \in Positions
  BY DEF Present
<1>12. NewestIsFresh'
  BY <1>9, <1>10, <1>11, Zenon DEF NewestIsFresh
<1>. QED  BY <1>5, <1>12

-----------------------------------------------------------------------------
LEMMA FreshInit == Init => FreshInv
<1>. SUFFICES ASSUME Init PROVE FreshInv
  OBVIOUS
<1>1. Present = {}
  BY DEF Init, Present
<1>. QED  BY <1>1, InitInv DEF FreshInv, CopiesAreRenewed, NewestIsFresh

LEMMA FreshStep == FreshInv /\ [Next]_vars => FreshInv'
<1>. SUFFICES ASSUME FreshInv, [Next]_vars PROVE FreshInv'
  OBVIOUS
<1>0. MeshInv'
  BY MeshStep DEF FreshInv
<1>1. CASE Post \/ Stop \/ UNCHANGED vars
  BY <1>0, <1>1, StillFresh DEF Post, Stop, vars, mainVars, threadVars, FreshInv
<1>2. CASE CheckStop \/ Wake \/ BeginUpdate \/ EndUpdate
  BY <1>0, <1>2, StillFresh
     DEF CheckStop, Wake, BeginUpdate, EndUpdate, ThreadLeaves, mainVars, FreshInv
<1>3. CASE AddTask \/ Pop \/ MakeMesh \/ ReplaceMesh
  BY <1>0, <1>3, AddTaskFresh, PopFresh, MakeMeshFresh, ReplaceMeshFresh DEF FreshInv
<1>4. ASSUME NEW p \in Positions, ReceiveBlock(p) \/ UnloadBlock(p) \/ NextModified(p)
      PROVE  FreshInv'
  BY <1>0, <1>4, ReceiveBlockFresh, UnloadBlockFresh, NextModifiedFresh DEF FreshInv
<1>5. ASSUME NEW S \in SUBSET Positions, ChangeNode(S)
      PROVE  FreshInv'
  BY <1>0, <1>5, ChangeNodeFresh DEF FreshInv
<1>6. ASSUME NEW p \in Positions \cup {None}, NEW edge \in SUBSET Positions,
             SetCrack(p, edge)
      PROVE  FreshInv'
  BY <1>0, <1>6, SetCrackFresh DEF FreshInv
<1>. QED
  BY <1>1, <1>2, <1>3, <1>4, <1>5, <1>6 DEF Next, HandlerStep, ThreadStep

(* A mesh that nothing is on its way for shows what the map has, for any   *)
(* number of blocks: no copy that was cached before a change, and no mesh  *)
(* that was made before it, stays.                                         *)
THEOREM SettledAlwaysFresh == Spec => []SettledIsFresh
<1>1. FreshInv => SettledIsFresh
  <2>. SUFFICES ASSUME FreshInv, NEW p \in Present, ~Pending(p)
                PROVE  /\ mesh[p] # None
                       /\ mesh[p].seen[p] = map[p]
                       /\ \A b \in Faces(p) \cap Present : mesh[p].seen[b] = map[b]
                       /\ mesh[p].cracked = (m_crack_pos = p)
    BY Zenon DEF SettledIsFresh
  <2>1. ~Due(p)
    BY PendingIs, Zenon
  <2>2. mesh[p] # None /\ Shows(mesh[p], p)
    BY <2>1, Zenon DEF FreshInv, NewestIsFresh, NewestFresh
  <2>. QED  BY <2>2, Zenon DEF Shows
<1>. QED  BY <1>1, FreshInit, FreshStep, PTL DEF Spec
=============================================================================
