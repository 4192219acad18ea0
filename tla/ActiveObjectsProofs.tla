------------------------- MODULE ActiveObjectsProofs -------------------------
(***************************************************************************)
(* Theorems about ServerMap and ActiveObjects, for any blocks, objects and *)
(* edits: a block that is not marked is on disk with all that is in it, no *)
(* edit is lost, and, with one emerge thread, what is marked as generated  *)
(* has its terrain.                                                        *)
(***************************************************************************)
EXTENDS ActiveObjects, FiniteSetTheorems, WellFoundedInduction, TLAPS

-----------------------------------------------------------------------------
(* Folds: a step that leads from the values allowed after some elements to *)
(* those allowed after one more has such values in the end.                *)

LEMMA LeastNumber ==
  ASSUME NEW T \in SUBSET Nat, T # {}
  PROVE  \E x \in T : \A y \in T : x =< y
<1>1. IsWellFoundedOn(OpToRel(<, Nat), Nat)
  BY NatLessThanWellFounded
<1>2. PICK x \in T : \A y \in T : ~ (<<y, x>> \in OpToRel(<, Nat))
  BY <1>1, WFMin
<1>3. \A y \in T : ~ (y < x)
  BY <1>2 DEF OpToRel
<1>. QED  BY <1>3

(* The subsets of S with at most k elements. *)
UpTo(S, k) == {s \in SUBSET S : Cardinality(s) =< k}

(* A subset without its chosen element is smaller. *)
LEMMA SmallerSubset ==
  ASSUME NEW S, IsFiniteSet(S), NEW k \in Nat, NEW s \in UpTo(S, k), s # {},
         NEW x \in s
  PROVE  /\ k # 0
         /\ s \ {x} \in UpTo(S, k - 1)
         /\ Cardinality(s \ {x}) + 1 = Cardinality(s)
         /\ Cardinality(s) \in Nat
<1>1. IsFiniteSet(s) /\ Cardinality(s) \in Nat
  BY FS_Subset, FS_CardinalityType DEF UpTo
<1>2. Cardinality(s) # 0
  BY <1>1, FS_EmptySet
<1>3. Cardinality(s \ {x}) = Cardinality(s) - 1
  BY <1>1, FS_RemoveElement
<1>. QED  BY <1>1, <1>2, <1>3 DEF UpTo

(* G[s] takes the values of V before the element pick[s] of s to those     *)
(* after it.                                                               *)
FoldSteps(S, pick, V, G) ==
  \A s \in SUBSET S : s # {} =>
     /\ pick[s] \in s
     /\ \A v \in V[s \ {pick[s]}] : G[s][v] \in V[s]

IsFold(f, S, pick, G, base) ==
  f = [s \in SUBSET S |-> IF s = {} THEN base ELSE G[s][f[s \ {pick[s]}]]]

LEMMA FoldExists ==
  ASSUME NEW S, IsFiniteSet(S), NEW pick, NEW V, NEW G, NEW base, base \in V[{}],
         FoldSteps(S, pick, V, G)
  PROVE  \E f : IsFold(f, S, pick, G, base) /\ \A s \in SUBSET S : f[s] \in V[s]
<1>. USE DEF FoldSteps
<1>. DEFINE Good(f, k) ==
              /\ f = [s \in UpTo(S, k) |->
                        IF s = {} THEN base ELSE G[s][f[s \ {pick[s]}]]]
              /\ \A s \in UpTo(S, k) : f[s] \in V[s]
            Bad == {k \in Nat : ~ \E f : Good(f, k)}
<1>. HIDE DEF Good
<1>1. \E f : Good(f, 0)
  <2>. DEFINE f == [s \in UpTo(S, 0) |-> base]
  <2>1. \A s \in UpTo(S, 0) : s = {}
    <3>1. SUFFICES ASSUME NEW s \in UpTo(S, 0), s # {} PROVE FALSE
      OBVIOUS
    <3>2. PICK x \in s : TRUE
      BY <3>1
    <3>3. 0 \in Nat
      OBVIOUS
    <3>. QED  BY <3>1, <3>2, <3>3, SmallerSubset
  <2>2. Good(f, 0)
    BY <2>1 DEF Good
  <2>. QED  BY <2>2
<1>2. ASSUME NEW k \in Nat, k # 0, NEW f, Good(f, k - 1)
      PROVE  \E g : Good(g, k)
  <2>. DEFINE g == [s \in UpTo(S, k) |->
                      IF s = {} THEN base ELSE G[s][f[s \ {pick[s]}]]]
  <2>1. \A s \in UpTo(S, k) : s # {} => s \ {pick[s]} \in UpTo(S, k - 1)
    BY SmallerSubset DEF UpTo
  <2>2. \A s \in UpTo(S, k - 1) : s \in UpTo(S, k)
    <3>1. \A s \in SUBSET S : Cardinality(s) \in Nat
      BY FS_Subset, FS_CardinalityType
    <3>. QED  BY <3>1 DEF UpTo
  <2>3. /\ f = [s \in UpTo(S, k - 1) |->
                  IF s = {} THEN base ELSE G[s][f[s \ {pick[s]}]]]
        /\ \A s \in UpTo(S, k - 1) : f[s] \in V[s]
    BY <1>2 DEF Good
  <2>4. \A s \in UpTo(S, k - 1) : g[s] = f[s]
    <3>. SUFFICES ASSUME NEW s \in UpTo(S, k - 1) PROVE g[s] = f[s]
      OBVIOUS
    <3>1. f[s] = IF s = {} THEN base ELSE G[s][f[s \ {pick[s]}]]
      BY <2>3
    <3>. QED  BY <2>2, <3>1
  <2>5. \A s \in UpTo(S, k) :
          g[s] = IF s = {} THEN base ELSE G[s][g[s \ {pick[s]}]]
    BY <2>1, <2>4
  <2>6. g = [s \in UpTo(S, k) |->
               IF s = {} THEN base ELSE G[s][g[s \ {pick[s]}]]]
    BY <2>5
  <2>7. \A s \in UpTo(S, k) : g[s] \in V[s]
    BY <2>1, <2>3 DEF UpTo
  <2>. QED  BY <2>6, <2>7 DEF Good
<1>3. Bad = {}
  <2>1. SUFFICES ASSUME Bad # {} PROVE FALSE
    OBVIOUS
  <2>2. PICK k \in Bad : \A j \in Bad : k =< j
    BY <2>1, LeastNumber
  <2>3. k \in Nat /\ k # 0
    BY <1>1
  <2>4. k - 1 \in Nat /\ k - 1 \notin Bad
    BY <2>2, <2>3
  <2>5. PICK f : Good(f, k - 1)
    BY <2>4
  <2>. QED  BY <1>2, <2>3, <2>5
<1>4. Cardinality(S) \in Nat /\ UpTo(S, Cardinality(S)) = SUBSET S
  BY FS_CardinalityType, FS_Subset DEF UpTo
<1>5. PICK f : Good(f, Cardinality(S))
  BY <1>3, <1>4
<1>. QED  BY <1>4, <1>5 DEF Good, IsFold

(* it does what the fold does as long as its values are those of V.        *)
Follows(it, S, pick, V, G, base) ==
  /\ it[{}] = base
  /\ \A s \in SUBSET S : s # {} /\ it[s \ {pick[s]}] \in V[s \ {pick[s]}]
                          => it[s] = G[s][it[s \ {pick[s]}]]

LEMMA FoldReaches ==
  ASSUME NEW S, IsFiniteSet(S), NEW pick, NEW V, NEW G, NEW base, base \in V[{}],
         FoldSteps(S, pick, V, G), NEW it, Follows(it, S, pick, V, G, base)
  PROVE  it[S] \in V[S]
<1>. USE DEF FoldSteps, Follows
<1>. DEFINE Bad == {k \in Nat : \E s \in UpTo(S, k) : it[s] \notin V[s]}
<1>1. Bad = {}
  <2>1. SUFFICES ASSUME Bad # {} PROVE FALSE
    OBVIOUS
  <2>2. PICK k \in Bad : \A j \in Bad : k =< j
    BY <2>1, LeastNumber
  <2>3. PICK s \in UpTo(S, k) : it[s] \notin V[s]
    OBVIOUS
  <2>4. s # {} /\ s \in SUBSET S /\ pick[s] \in s
    BY <2>3 DEF UpTo
  <2>5. k # 0 /\ s \ {pick[s]} \in UpTo(S, k - 1)
    BY <2>4, SmallerSubset
  <2>6. k - 1 \in Nat /\ k - 1 \notin Bad
    BY <2>2, <2>5
  <2>7. it[s \ {pick[s]}] \in V[s \ {pick[s]}]
    BY <2>5, <2>6
  <2>. QED  BY <2>3, <2>4, <2>7
<1>2. Cardinality(S) \in Nat /\ S \in UpTo(S, Cardinality(S))
  BY FS_CardinalityType DEF UpTo
<1>. QED  BY <1>1, <1>2

LEMMA IndexSets ==
  ASSUME NEW n \in Nat
  PROVE  /\ IsFiniteSet(1..n)
         /\ \A s \in SUBSET (1..n) : s # {} => Max(s) \in s /\ Max(s) \in 1..n
<1>1. IsFiniteSet(1..n)
  BY FS_Interval
<1>2. ASSUME NEW s \in SUBSET (1..n), s # {} PROVE Max(s) \in s
  <2>. DEFINE T == {n - x : x \in s}
  <2>1. T \in SUBSET Nat /\ T # {}
    <3>1. \A x \in s : x \in 1..n /\ n - x \in Nat
      OBVIOUS
    <3>. QED  BY <1>2, <3>1, Zenon
  <2>2. PICK t \in T : \A y \in T : t =< y
    BY <2>1, LeastNumber
  <2>3. PICK x \in s : t = n - x
    OBVIOUS
  <2>4. \A y \in s : x >= y
    <3>. SUFFICES ASSUME NEW y \in s PROVE x >= y
      OBVIOUS
    <3>1. n - x =< n - y
      BY <2>2, <2>3
    <3>. QED  BY <3>1
  <2>. QED  BY <2>4 DEF Max
<1>. QED  BY <1>1, <1>2

-----------------------------------------------------------------------------
(* Finite partial functions, as the maps of the code are. *)

Partial(D, R) == UNION {[S -> R] : S \in {T \in SUBSET D : IsFiniteSet(T)}}

LEMMA PartialMember ==
  ASSUME NEW D, NEW R, NEW f
  PROVE  f \in Partial(D, R) <=>
           /\ f = [x \in DOMAIN f |-> f[x]]
           /\ DOMAIN f \subseteq D
           /\ IsFiniteSet(DOMAIN f)
           /\ \A x \in DOMAIN f : f[x] \in R
<1>1. ASSUME f \in Partial(D, R)
      PROVE  /\ f = [x \in DOMAIN f |-> f[x]]
             /\ DOMAIN f \subseteq D
             /\ IsFiniteSet(DOMAIN f)
             /\ \A x \in DOMAIN f : f[x] \in R
  <2>1. PICK S \in SUBSET D : IsFiniteSet(S) /\ f \in [S -> R]
    BY <1>1 DEF Partial
  <2>. QED  BY <2>1
<1>2. ASSUME f = [x \in DOMAIN f |-> f[x]], DOMAIN f \subseteq D,
             IsFiniteSet(DOMAIN f), \A x \in DOMAIN f : f[x] \in R
      PROVE  f \in Partial(D, R)
  <2>1. f \in [DOMAIN f -> R]
    BY <1>2
  <2>. QED  BY <1>2, <2>1 DEF Partial
<1>. QED  BY <1>1, <1>2

LEMMA PutPartial ==
  ASSUME NEW D, NEW R, NEW f \in Partial(D, R), NEW x \in D, NEW v \in R
  PROVE  Put(f, x, v) \in Partial(D, R)
<1>1. IsFiniteSet(DOMAIN f) /\ DOMAIN f \subseteq D /\ \A y \in DOMAIN f : f[y] \in R
  BY PartialMember
<1>2. Put(f, x, v) = [y \in DOMAIN Put(f, x, v) |-> Put(f, x, v)[y]]
  BY DEF Put
<1>3. IsFiniteSet(DOMAIN f \cup {x})
  BY <1>1, FS_AddElement
<1>4. \A y \in DOMAIN Put(f, x, v) : Put(f, x, v)[y] \in R
  BY <1>1 DEF Put
<1>5. DOMAIN Put(f, x, v) = DOMAIN f \cup {x}
  BY DEF Put
<1>6. PICK g : g = Put(f, x, v)
  OBVIOUS
<1>7. g \in Partial(D, R)
  <2>1. DOMAIN g \subseteq D /\ IsFiniteSet(DOMAIN g)
    BY <1>1, <1>3, <1>5, <1>6
  <2>2. g = [y \in DOMAIN g |-> g[y]] /\ \A y \in DOMAIN g : g[y] \in R
    BY <1>2, <1>4, <1>6
  <2>. QED  BY <2>1, <2>2, PartialMember
<1>. QED  BY <1>6, <1>7

LEMMA WithoutPartial ==
  ASSUME NEW D, NEW R, NEW f \in Partial(D, R), NEW S
  PROVE  /\ Without(f, S) \in Partial(D, R)
         /\ DOMAIN Without(f, S) = DOMAIN f \ S
         /\ \A x \in DOMAIN f \ S : Without(f, S)[x] = f[x]
<1>1. IsFiniteSet(DOMAIN f) /\ DOMAIN f \subseteq D /\ \A y \in DOMAIN f : f[y] \in R
  BY PartialMember
<1>2. IsFiniteSet(DOMAIN f \ S)
  BY <1>1, FS_Difference
<1>3. /\ DOMAIN Without(f, S) = DOMAIN f \ S
      /\ \A x \in DOMAIN f \ S : Without(f, S)[x] = f[x]
      /\ Without(f, S) = [x \in DOMAIN Without(f, S) |-> Without(f, S)[x]]
  BY DEF Without
<1>. QED  BY <1>1, <1>2, <1>3, PartialMember

(* A map over the same points, or over some of them. *)
LEMMA MapPartial ==
  ASSUME NEW D, NEW R, NEW f, NEW S, IsFiniteSet(S), S \subseteq D,
         DOMAIN f = S, f = [x \in S |-> f[x]], \A x \in S : f[x] \in R
  PROVE  f \in Partial(D, R)
BY PartialMember

LEMMA NothingPartial ==
  ASSUME NEW D, NEW R
  PROVE  Nothing \in Partial(D, R) /\ DOMAIN Nothing = {}
<1>1. DOMAIN Nothing = {} /\ Nothing = [x \in DOMAIN Nothing |-> Nothing[x]]
  BY DEF Nothing
<1>2. PICK g : g = Nothing
  OBVIOUS
<1>3. g \in Partial(D, R)
  <2>1. g = [x \in DOMAIN g |-> g[x]] /\ DOMAIN g = {}
    BY <1>1, <1>2
  <2>2. IsFiniteSet(DOMAIN g)
    BY <2>1, FS_EmptySet
  <2>. QED  BY <2>1, <2>2, PartialMember
<1>. QED  BY <1>1, <1>2, <1>3

-----------------------------------------------------------------------------
(* Types *)

Nodesets == SUBSET (Edits \cup {Terrain})
Stamps == {Undefined, Outdated, Valid}
Ids == Nat \ {0}
Stores == [Objects -> Nat]

MapBlock == [nodes : Nodesets, generated : BOOLEAN, stamp : Stamps, stored : Stores,
             active : Partial(Ids, Objects),
             modified : {Clean, WriteAtUnload, WriteNeeded}, old : BOOLEAN]
BlockCopy == [nodes : Nodesets, generated : BOOLEAN, stamp : Stamps, objects : Stores]
ActiveObject == [obj : Objects, pos : Positions, known : BOOLEAN,
                 gone : {"no", "removal", "deactivation"},
                 static_exists : BOOLEAN, static_block : Positions]

Fates == {"none", "alive", "removed", "cleared", "over the limit", "unstamped",
          "outdated", "overlooked", "orphaned", "returned", "crashed", "unwritten"}

Memory == Partial(Positions, MapBlock)
Worlds == [blocks : Memory, objects : Partial(Ids, ActiveObject),
           fate : [Objects -> Fates]]

TypeOK ==
  /\ World \in Worlds
  /\ disk \in Partial(Positions, BlockCopy)
  /\ making \in Partial(Positions, [Positions -> Nodesets])
  /\ kept \in Partial(Edits, SUBSET Positions)
  /\ m_active_blocks \subseteq Positions

DiskOK == disk \in Partial(Positions, BlockCopy)

LEMMA StoreTypes ==
  /\ EmptyStore \in Stores
  /\ \A active \in Partial(Ids, Objects) : \A o : ActiveOf(active, o) \in Nat
<1>1. ASSUME NEW active \in Partial(Ids, Objects), NEW o
      PROVE  ActiveOf(active, o) \in Nat
  <2>1. IsFiniteSet(DOMAIN active)
    BY PartialMember
  <2>2. {id \in DOMAIN active : active[id] = o} \in SUBSET (DOMAIN active)
    OBVIOUS
  <2>3. IsFiniteSet({id \in DOMAIN active : active[id] = o})
    BY <2>1, <2>2, FS_Subset
  <2>. QED  BY <2>3, FS_CardinalityType DEF ActiveOf
<1>. QED  BY <1>1 DEF EmptyStore, Stores

(* The size of a store, a fold. *)
LEMMA SizeType ==
  ASSUME NEW stored \in Stores
  PROVE  Size(stored) \in Nat
<1>. DEFINE Pick(s) == CHOOSE x \in s : TRUE
            Body(it) == [s \in SUBSET Objects |->
                           IF s = {} THEN 0
                           ELSE stored[Pick(s)] + it[s \ {Pick(s)}]]
            it == CHOOSE it : it = Body(it)
            pick == [s \in SUBSET Objects |-> Pick(s)]
            V == [s \in SUBSET Objects |-> Nat]
            G == [s \in SUBSET Objects |-> [v \in Nat |-> stored[Pick(s)] + v]]
<1>1. IsFiniteSet(Objects)
  BY MapAssumption
<1>2. \A s \in SUBSET Objects : s # {} => Pick(s) \in s
  OBVIOUS
<1>3. FoldSteps(Objects, pick, V, G) /\ 0 \in V[{}]
  <2>. HIDE DEF Pick
  <2>. QED  BY <1>2 DEF FoldSteps, Stores
<1>4. it = Body(it)
  <2>1. PICK f : IsFold(f, Objects, pick, G, 0) /\ \A s \in SUBSET Objects : f[s] \in V[s]
    <3>. HIDE DEF pick, V, G
    <3>. QED  BY <1>1, <1>3, FoldExists, Zenon
  <2>. HIDE DEF Pick
  <2>2. \A s \in SUBSET Objects : f[s] \in Nat /\ s \ {Pick(s)} \in SUBSET Objects
    BY <2>1
  <2>3. f = Body(f)
    BY <2>1, <2>2 DEF IsFold
  <2>. QED  BY <2>3
<1>5. it[Objects] \in Nat
  <2>. HIDE DEF it
  <2>1. Follows(it, Objects, pick, V, G, 0)
    <3>. HIDE DEF Pick
    <3>. QED  BY <1>4 DEF Follows
  <2>2. V[Objects] = Nat
    OBVIOUS
  <2>. HIDE DEF pick, V, G
  <2>3. it[Objects] \in V[Objects]
    BY <1>1, <1>3, <2>1, FoldReaches, Zenon
  <2>. QED  BY <2>2, <2>3
<1>. QED  BY <1>5 DEF Size, FoldSet, MapThenFoldSet

-----------------------------------------------------------------------------
(* Orders and free ids *)

LEMMA SetToSeqOrders ==
  ASSUME NEW S, IsFiniteSet(S)
  PROVE  /\ SetToSeq(S) \in [1..Cardinality(S) -> S]
         /\ \A i, j \in 1..Cardinality(S) : SetToSeq(S)[i] = SetToSeq(S)[j] => i = j
         /\ Cardinality(S) \in Nat
<1>1. Cardinality(S) \in Nat /\ ExistsBijection(1..Cardinality(S), S)
  BY FS_CardinalityType
<1>2. \E f \in [1..Cardinality(S) -> S] : IsInjective(f)
  BY <1>1 DEF ExistsBijection, Bijection, Injection
<1>3. SetToSeq(S) \in [1..Cardinality(S) -> S] /\ IsInjective(SetToSeq(S))
  BY <1>2 DEF SetToSeq
<1>. QED  BY <1>1, <1>3 DEF IsInjective

LEMMA FreeIdIsFree ==
  ASSUME NEW objects \in Partial(Ids, ActiveObject)
  PROVE  FreeId(objects) \in Ids /\ FreeId(objects) \notin DOMAIN objects
<1>. DEFINE c == Cardinality(DOMAIN objects)
            T == {id \in 1..c + 1 : id \notin DOMAIN objects}
<1>1. IsFiniteSet(DOMAIN objects) /\ c \in Nat
  BY PartialMember, FS_CardinalityType
<1>2. T # {}
  <2>1. SUFFICES ASSUME T = {} PROVE FALSE
    OBVIOUS
  <2>2. 1..c + 1 \in SUBSET (DOMAIN objects)
    BY <2>1
  <2>3. Cardinality(1..c + 1) =< c
    BY <1>1, <2>2, FS_Subset
  <2>4. Cardinality(1..c + 1) = c + 1
    BY <1>1, FS_Interval
  <2>. QED  BY <1>1, <2>3, <2>4
<1>3. PICK x \in T : \A y \in T : x =< y
  BY <1>1, <1>2, LeastNumber, T \in SUBSET Nat
<1>4. \A i \in 1..x - 1 : i \in DOMAIN objects
  BY <1>1, <1>3
<1>5. FreeId(objects) \in 1..c + 1 /\ FreeId(objects) \notin DOMAIN objects
  BY <1>3, <1>4 DEF FreeId
<1>. QED  BY <1>1, <1>5 DEF Ids

-----------------------------------------------------------------------------
(* What a step may do to the blocks in memory: nodes stay, a mark stays,   *)
(* and a block that is still unmarked has no more objects than before.     *)

Count(b, o) == b.stored[o] + ActiveOf(b.active, o)

Derived(b0, b) ==
  /\ b.nodes = b0.nodes /\ b.generated = b0.generated
  /\ b0.modified = WriteNeeded => b.modified = WriteNeeded
  /\ b.modified # WriteNeeded => \A o \in Objects : Count(b, o) =< Count(b0, o)

(* The block as emergeBlock gives it. *)
Fetched(mem, p) ==
  IF p \in DOMAIN mem THEN mem[p]
  ELSE IF p \in DOMAIN disk THEN Deserialized(disk[p]) ELSE BlankBlock

Keeps(m0, m) ==
  /\ DOMAIN m0 \subseteq DOMAIN m
  /\ \A p \in DOMAIN m : Derived(Fetched(m0, p), m[p])

(* Only the object id may get into a list m_active. *)
Touches(b0, b, id) ==
  \A i \in DOMAIN b.active \ {id} : i \in DOMAIN b0.active /\ b.active[i] = b0.active[i]

OnlyTouches(m0, m, id) ==
  \A p \in DOMAIN m : Touches(Fetched(m0, p), m[p], id)

LEMMA CountType ==
  ASSUME NEW b \in MapBlock, NEW o \in Objects
  PROVE  Count(b, o) \in Nat
<1>1. b.stored[o] \in Nat /\ b.active \in Partial(Ids, Objects)
  BY DEF MapBlock, Stores
<1>2. ActiveOf(b.active, o) \in Nat
  BY <1>1, StoreTypes
<1>. QED  BY <1>1, <1>2 DEF Count

LEMMA FetchedType ==
  ASSUME DiskOK, NEW mem \in Memory, NEW p \in Positions
  PROVE  Fetched(mem, p) \in MapBlock
<1>1. p \in DOMAIN mem => mem[p] \in MapBlock
  BY PartialMember DEF Memory
<1>2. p \in DOMAIN disk => disk[p] \in BlockCopy
  BY PartialMember DEF DiskOK
<1>3. Nothing \in Partial(Ids, Objects)
  BY NothingPartial
<1>4. p \in DOMAIN disk => Deserialized(disk[p]) \in MapBlock
  BY <1>2, <1>3 DEF Deserialized, BlockCopy, MapBlock
<1>5. BlankBlock \in MapBlock
  BY <1>3, StoreTypes DEF BlankBlock, MapBlock, Nodesets, Stamps
<1>. QED  BY <1>1, <1>4, <1>5 DEF Fetched

LEMMA DerivedReflexive ==
  ASSUME NEW b \in MapBlock
  PROVE  Derived(b, b)
BY CountType DEF Derived

LEMMA DerivedTransitive ==
  ASSUME NEW a \in MapBlock, NEW b \in MapBlock, NEW c \in MapBlock,
         Derived(a, b), Derived(b, c)
  PROVE  Derived(a, c)
<1>1. ASSUME c.modified # WriteNeeded, NEW o \in Objects
      PROVE  Count(c, o) =< Count(a, o)
  <2>1. Count(c, o) =< Count(b, o) /\ Count(b, o) =< Count(a, o)
    BY <1>1 DEF Derived
  <2>2. Count(a, o) \in Nat /\ Count(b, o) \in Nat /\ Count(c, o) \in Nat
    BY CountType
  <2>. QED  BY <2>1, <2>2
<1>. QED  BY <1>1 DEF Derived

LEMMA KeepsReflexive ==
  ASSUME NEW m \in Memory, NEW id
  PROVE  Keeps(m, m) /\ OnlyTouches(m, m, id)
<1>1. \A p \in DOMAIN m : m[p] \in MapBlock /\ Fetched(m, p) = m[p]
  BY PartialMember DEF Memory, Fetched
<1>. QED  BY <1>1, DerivedReflexive DEF Keeps, OnlyTouches, Touches

LEMMA KeepsTransitive ==
  ASSUME DiskOK, NEW m \in Memory, NEW n \in Memory, NEW k \in Memory,
         Keeps(m, n), Keeps(n, k)
  PROVE  Keeps(m, k)
<1>1. DOMAIN m \subseteq DOMAIN k
  BY DEF Keeps
<1>2. ASSUME NEW p \in DOMAIN k PROVE Derived(Fetched(m, p), k[p])
  <2>1. p \in Positions /\ k[p] \in MapBlock
    BY PartialMember DEF Memory
  <2>2. Fetched(m, p) \in MapBlock /\ Fetched(n, p) \in MapBlock
    BY <2>1, FetchedType
  <2>3. Derived(Fetched(n, p), k[p])
    BY DEF Keeps
  <2>4. CASE p \in DOMAIN n
    <3>1. Fetched(n, p) = n[p]
      BY <2>4 DEF Fetched
    <3>2. Derived(Fetched(m, p), Fetched(n, p))
      BY <2>4, <3>1 DEF Keeps
    <3>. QED  BY <2>1, <2>2, <2>3, <3>2, DerivedTransitive
  <2>5. CASE p \notin DOMAIN n
    <3>1. Fetched(n, p) = Fetched(m, p)
      BY <2>5 DEF Fetched, Keeps
    <3>. QED  BY <2>3, <3>1
  <2>. QED  BY <2>4, <2>5
<1>. QED  BY <1>1, <1>2 DEF Keeps

LEMMA TouchesTransitive ==
  ASSUME NEW m, NEW n, NEW k, NEW id,
         DOMAIN m \subseteq DOMAIN n, OnlyTouches(m, n, id), OnlyTouches(n, k, id)
  PROVE  OnlyTouches(m, k, id)
<1>. SUFFICES ASSUME NEW p \in DOMAIN k
              PROVE  Touches(Fetched(m, p), k[p], id)
  BY DEF OnlyTouches
<1>1. Touches(Fetched(n, p), k[p], id)
  BY DEF OnlyTouches
<1>2. CASE p \in DOMAIN n
  <2>1. Touches(Fetched(m, p), n[p], id) /\ Fetched(n, p) = n[p]
    BY <1>2 DEF OnlyTouches, Fetched
  <2>. QED  BY <1>1, <2>1 DEF Touches
<1>3. CASE p \notin DOMAIN n
  <2>1. Fetched(n, p) = Fetched(m, p)
    BY <1>3 DEF Fetched
  <2>. QED  BY <1>1, <2>1
<1>. QED  BY <1>2, <1>3

(* One block is fetched and changed. *)
LEMMA PutKeeps ==
  ASSUME DiskOK, NEW m \in Memory, NEW p \in Positions, NEW b \in MapBlock,
         Derived(Fetched(m, p), b)
  PROVE  /\ Put(m, p, b) \in Memory
         /\ Keeps(m, Put(m, p, b))
         /\ \A id : Touches(Fetched(m, p), b, id) => OnlyTouches(m, Put(m, p, b), id)
<1>1. Put(m, p, b) \in Memory
  BY PutPartial DEF Memory
<1>2. /\ DOMAIN Put(m, p, b) = DOMAIN m \cup {p}
      /\ Put(m, p, b)[p] = b
      /\ \A y \in DOMAIN m : y # p => Put(m, p, b)[y] = m[y]
  BY DEF Put
<1>3. \A y \in DOMAIN m : m[y] \in MapBlock /\ Fetched(m, y) = m[y]
  BY PartialMember DEF Memory, Fetched
<1>4. Keeps(m, Put(m, p, b))
  <2>1. \A y \in DOMAIN Put(m, p, b) : Derived(Fetched(m, y), Put(m, p, b)[y])
    BY <1>2, <1>3, DerivedReflexive
  <2>. QED  BY <1>2, <2>1 DEF Keeps
<1>5. ASSUME NEW id, Touches(Fetched(m, p), b, id)
      PROVE  OnlyTouches(m, Put(m, p, b), id)
  <2>1. \A y \in DOMAIN m : Touches(m[y], m[y], id)
    BY DEF Touches
  <2>. QED  BY <1>2, <1>3, <1>5, <2>1 DEF OnlyTouches
<1>. QED  BY <1>1, <1>4, <1>5

(* emergeBlock. *)
LEMMA EmergeKeeps ==
  ASSUME DiskOK, NEW m \in Memory, NEW p \in Positions, NEW create \in BOOLEAN
  PROVE  /\ EmergeBlock(m, p, create) \in Memory
         /\ Keeps(m, EmergeBlock(m, p, create))
         /\ \A id : OnlyTouches(m, EmergeBlock(m, p, create), id)
         /\ p \in DOMAIN EmergeBlock(m, p, create) =>
              EmergeBlock(m, p, create)[p] = Fetched(m, p)
         /\ create => p \in DOMAIN EmergeBlock(m, p, create)
         /\ p \notin DOMAIN EmergeBlock(m, p, create) =>
              EmergeBlock(m, p, create) = m
         /\ DOMAIN EmergeBlock(m, p, create) \subseteq DOMAIN m \cup {p}
<1>1. Fetched(m, p) \in MapBlock
  BY FetchedType
<1>2. Derived(Fetched(m, p), Fetched(m, p)) /\ \A id : Touches(Fetched(m, p), Fetched(m, p), id)
  BY <1>1, DerivedReflexive DEF Touches
<1>3. ASSUME NEW e, e = m, p \in DOMAIN m \/ ~ create
      PROVE  /\ e \in Memory /\ Keeps(m, e) /\ \A id : OnlyTouches(m, e, id)
             /\ p \in DOMAIN e => e[p] = Fetched(m, p)
             /\ create => p \in DOMAIN e
             /\ p \notin DOMAIN e => e = m
             /\ DOMAIN e \subseteq DOMAIN m \cup {p}
  BY <1>3, KeepsReflexive DEF Fetched
<1>4. ASSUME NEW e, e = Put(m, p, Fetched(m, p)), p \notin DOMAIN m
      PROVE  /\ e \in Memory /\ Keeps(m, e) /\ \A id : OnlyTouches(m, e, id)
             /\ p \in DOMAIN e /\ e[p] = Fetched(m, p)
             /\ DOMAIN e \subseteq DOMAIN m \cup {p}
  <2>1. e \in Memory /\ Keeps(m, e) /\ \A id : OnlyTouches(m, e, id)
    BY <1>1, <1>2, <1>4, PutKeeps
  <2>2. DOMAIN e = DOMAIN m \cup {p} /\ e[p] = Fetched(m, p)
    BY <1>4 DEF Put
  <2>. QED  BY <2>1, <2>2
<1>5. PICK e : e = EmergeBlock(m, p, create)
  OBVIOUS
<1>6. \/ e = m /\ (p \in DOMAIN m \/ ~ create)
      \/ p \notin DOMAIN m /\ e = Put(m, p, Fetched(m, p))
  BY <1>5 DEF EmergeBlock, Fetched
<1>. QED  BY <1>3, <1>4, <1>5, <1>6

(* A block is put where emergeBlock has fetched it. *)
LEMMA PutFetched ==
  ASSUME NEW m, NEW p, NEW create \in BOOLEAN, NEW b
  PROVE  Put(EmergeBlock(m, p, create), p, b) = Put(m, p, b)
BY DEF EmergeBlock, Put

-----------------------------------------------------------------------------
(* Steps of the environment that are about one object. *)

(* An object that claims to be in the list of a block is there under its   *)
(* own id.                                                                 *)
Own(w, id) ==
  /\ w.objects[id].static_exists
  /\ w.objects[id].static_block \in DOMAIN w.blocks
  /\ id \in DOMAIN w.blocks[w.objects[id].static_block].active
  => w.blocks[w.objects[id].static_block].active[id] = w.objects[id].obj

Agree(w) == \A id \in DOMAIN w.objects : Own(w, id)

Step(w, v, id) ==
  /\ v \in Worlds
  /\ Keeps(w.blocks, v.blocks)
  /\ OnlyTouches(w.blocks, v.blocks, id)
  /\ DOMAIN v.objects \subseteq DOMAIN w.objects \cup {id}
  /\ \A i \in DOMAIN w.objects \ {id} :
        i \in DOMAIN v.objects /\ v.objects[i] = w.objects[i]
  /\ id \in DOMAIN v.objects => Own(v, id)

LEMMA WorldParts ==
  ASSUME NEW w \in Worlds
  PROVE  /\ w.blocks \in Memory /\ w.objects \in Partial(Ids, ActiveObject)
         /\ w.fate \in [Objects -> Fates]
         /\ \A id \in DOMAIN w.objects : id \in Ids /\ w.objects[id] \in ActiveObject
         /\ \A p \in DOMAIN w.blocks : p \in Positions /\ w.blocks[p] \in MapBlock
<1>1. /\ w.blocks \in Memory /\ w.objects \in Partial(Ids, ActiveObject)
      /\ w.fate \in [Objects -> Fates]
  BY DEF Worlds
<1>. QED  BY <1>1, PartialMember DEF Memory

LEMMA StepReflexive ==
  ASSUME NEW w \in Worlds, NEW id, id \in DOMAIN w.objects => Own(w, id)
  PROVE  Step(w, w, id)
BY WorldParts, KeepsReflexive DEF Step

LEMMA StepTransitive ==
  ASSUME DiskOK, NEW w \in Worlds, NEW v, NEW u, NEW id, Step(w, v, id), Step(v, u, id)
  PROVE  Step(w, u, id)
<1>1. v \in Worlds /\ u \in Worlds
  BY DEF Step
<1>2. w.blocks \in Memory /\ v.blocks \in Memory /\ u.blocks \in Memory
  BY <1>1, WorldParts
<1>3. Keeps(w.blocks, u.blocks)
  BY <1>2, KeepsTransitive DEF Step
<1>4. OnlyTouches(w.blocks, u.blocks, id)
  BY TouchesTransitive DEF Step, Keeps
<1>. QED  BY <1>1, <1>3, <1>4 DEF Step

LEMMA FetchedActive ==
  ASSUME NEW mem, NEW p, p \notin DOMAIN mem
  PROVE  DOMAIN Fetched(mem, p).active = {}
BY DEF Fetched, Deserialized, BlankBlock, Nothing

LEMMA StepAgrees ==
  ASSUME NEW w \in Worlds, Agree(w), NEW v, NEW id, Step(w, v, id)
  PROVE  Agree(v)
<1>. SUFFICES ASSUME NEW i \in DOMAIN v.objects, i # id,
                     v.objects[i].static_exists,
                     v.objects[i].static_block \in DOMAIN v.blocks,
                     i \in DOMAIN v.blocks[v.objects[i].static_block].active
              PROVE  v.blocks[v.objects[i].static_block].active[i] = v.objects[i].obj
  BY DEF Agree, Own, Step
<1>. DEFINE p == v.objects[i].static_block
<1>1. i \in DOMAIN w.objects /\ v.objects[i] = w.objects[i]
  BY DEF Step
<1>2. Touches(Fetched(w.blocks, p), v.blocks[p], id)
  BY DEF Step, OnlyTouches
<1>3. /\ i \in DOMAIN Fetched(w.blocks, p).active
      /\ v.blocks[p].active[i] = Fetched(w.blocks, p).active[i]
  BY <1>2 DEF Touches
<1>4. p \in DOMAIN w.blocks
  BY <1>3, FetchedActive
<1>5. Fetched(w.blocks, p) = w.blocks[p]
  BY <1>4 DEF Fetched
<1>6. Own(w, i)
  BY <1>1 DEF Agree
<1>. QED  BY <1>1, <1>3, <1>4, <1>5, <1>6 DEF Own

(* The end of a step: the object goes, its record changes, or a fate does. *)
LEMMA StepUnregisters ==
  ASSUME NEW w, NEW v, NEW id, Step(w, v, id)
  PROVE  Step(w, Unregister(v, id), id)
<1>1. v \in Worlds
  BY DEF Step
<1>2. /\ Without(v.objects, {id}) \in Partial(Ids, ActiveObject)
      /\ DOMAIN Without(v.objects, {id}) = DOMAIN v.objects \ {id}
      /\ \A i \in DOMAIN v.objects \ {id} : Without(v.objects, {id})[i] = v.objects[i]
  <2>1. v.objects \in Partial(Ids, ActiveObject)
    BY <1>1, WorldParts
  <2>2. Without(v.objects, {id}) \in Partial(Ids, ActiveObject)
    BY <2>1, WithoutPartial
  <2>. QED  BY <2>2 DEF Without
<1>3. /\ Unregister(v, id) \in Worlds
      /\ Unregister(v, id).blocks = v.blocks
      /\ Unregister(v, id).objects = Without(v.objects, {id})
  BY <1>1, <1>2 DEF Unregister, Worlds
<1>. QED  BY <1>2, <1>3 DEF Step

LEMMA StepFated ==
  ASSUME NEW w, NEW v, NEW id, Step(w, v, id), NEW S, NEW new \in Fates,
         NEW u, u = [v EXCEPT !.fate = Fated(@, S, new)]
  PROVE  Step(w, u, id)
<1>1. v \in Worlds /\ v.fate \in [Objects -> Fates]
  BY WorldParts DEF Step
<1>2. Fated(v.fate, S, new) \in [Objects -> Fates]
  BY <1>1 DEF Fated
<1>3. u \in Worlds /\ u.blocks = v.blocks /\ u.objects = v.objects
  BY <1>1, <1>2 DEF Worlds
<1>. QED  BY <1>3 DEF Step, Own

LEMMA StepRewrites ==
  ASSUME NEW w, NEW v, NEW id \in Ids, Step(w, v, id), NEW ao \in ActiveObject,
         id \in DOMAIN v.objects,
         ao.obj = v.objects[id].obj,
         ao.static_exists = v.objects[id].static_exists,
         ao.static_block = v.objects[id].static_block
  PROVE  Step(w, [v EXCEPT !.objects = Put(@, id, ao)], id)
<1>1. v \in Worlds
  BY DEF Step
<1>2. /\ Put(v.objects, id, ao) \in Partial(Ids, ActiveObject)
      /\ DOMAIN Put(v.objects, id, ao) = DOMAIN v.objects
      /\ Put(v.objects, id, ao)[id] = ao
      /\ \A i \in DOMAIN v.objects : i # id => Put(v.objects, id, ao)[i] = v.objects[i]
  BY <1>1, WorldParts, PutPartial DEF Put
<1>3. PICK u : u = [v EXCEPT !.objects = Put(@, id, ao)]
  OBVIOUS
<1>4. u \in Worlds /\ u.blocks = v.blocks /\ u.objects = Put(v.objects, id, ao)
  BY <1>1, <1>2, <1>3 DEF Worlds
<1>5. Step(w, u, id)
  BY <1>2, <1>4 DEF Step, Own
<1>. QED  BY <1>3, <1>5

-----------------------------------------------------------------------------
(* Lists m_active, counted *)

LEMMA ActiveOfWithout ==
  ASSUME NEW a \in Partial(Ids, Objects), NEW id, NEW o
  PROVE  /\ Without(a, {id}) \in Partial(Ids, Objects)
         /\ ActiveOf(Without(a, {id}), o) =< ActiveOf(a, o)
         /\ id \in DOMAIN a /\ a[id] = o =>
              ActiveOf(Without(a, {id}), o) + 1 = ActiveOf(a, o)
<1>. DEFINE S == {i \in DOMAIN a : a[i] = o}
<1>1. Without(a, {id}) \in Partial(Ids, Objects) /\ IsFiniteSet(DOMAIN a)
  BY WithoutPartial, PartialMember
<1>2. IsFiniteSet(S) /\ Cardinality(S) \in Nat
  BY <1>1, FS_Subset, FS_CardinalityType, S \in SUBSET (DOMAIN a)
<1>3. {i \in DOMAIN Without(a, {id}) : Without(a, {id})[i] = o} = S \ {id}
  BY DEF Without
<1>4. Cardinality(S \ {id}) = IF id \in S THEN Cardinality(S) - 1 ELSE Cardinality(S)
  BY <1>2, FS_RemoveElement
<1>5. ActiveOf(a, o) = Cardinality(S) /\ ActiveOf(Without(a, {id}), o) = Cardinality(S \ {id})
  BY <1>3 DEF ActiveOf
<1>. QED  BY <1>1, <1>2, <1>4, <1>5

LEMMA ActiveOfPut ==
  ASSUME NEW a \in Partial(Ids, Objects), NEW id \in Ids, NEW x \in Objects, NEW o
  PROVE  /\ Put(a, id, x) \in Partial(Ids, Objects)
         /\ ActiveOf(Put(a, id, x), o) =< ActiveOf(a, o) + (IF o = x THEN 1 ELSE 0)
<1>. DEFINE S == {i \in DOMAIN a : a[i] = o}
            T == {i \in DOMAIN Put(a, id, x) : Put(a, id, x)[i] = o}
<1>1. Put(a, id, x) \in Partial(Ids, Objects) /\ IsFiniteSet(DOMAIN a)
  BY PutPartial, PartialMember
<1>2. IsFiniteSet(S) /\ Cardinality(S) \in Nat
  BY <1>1, FS_Subset, FS_CardinalityType, S \in SUBSET (DOMAIN a)
<1>3. IF o = x THEN T \in SUBSET (S \cup {id}) ELSE T \in SUBSET S
  BY DEF Put
<1>4. IsFiniteSet(S \cup {id}) /\ Cardinality(S \cup {id}) =< Cardinality(S) + 1
  <2>. HIDE DEF S
  <2>1. /\ IsFiniteSet(S \cup {id})
        /\ Cardinality(S \cup {id}) =
             IF id \in S THEN Cardinality(S) ELSE Cardinality(S) + 1
    BY <1>2, FS_AddElement
  <2>. QED  BY <1>2, <2>1
<1>5. Cardinality(T) \in Nat /\ Cardinality(T) =< Cardinality(S) + (IF o = x THEN 1 ELSE 0)
  <2>1. CASE o = x
    <3>1. T \in SUBSET (S \cup {id})
      BY <1>3, <2>1
    <3>2. IsFiniteSet(T) /\ Cardinality(T) =< Cardinality(S \cup {id})
      BY <1>4, <3>1, FS_Subset
    <3>3. Cardinality(T) \in Nat /\ Cardinality(S \cup {id}) \in Nat
      BY <1>4, <3>2, FS_CardinalityType
    <3>. QED  BY <1>2, <1>4, <2>1, <3>2, <3>3
  <2>2. CASE o # x
    <3>1. T \in SUBSET S
      BY <1>3, <2>2
    <3>2. IsFiniteSet(T) /\ Cardinality(T) =< Cardinality(S)
      BY <1>2, <3>1, FS_Subset
    <3>3. Cardinality(T) \in Nat
      BY <3>2, FS_CardinalityType
    <3>. QED  BY <1>2, <2>2, <3>2, <3>3
  <2>. QED  BY <2>1, <2>2
<1>. QED  BY <1>1, <1>5 DEF ActiveOf

LEMMA Marks ==
  ASSUME NEW b \in MapBlock, NEW flagged
  PROVE  /\ Mark(b, flagged) \in MapBlock
         /\ Mark(b, flagged) = [b EXCEPT !.modified = Mark(b, flagged).modified]
         /\ flagged => Mark(b, flagged).modified = WriteNeeded
         /\ ~flagged => Mark(b, flagged) = b
<1>1. b.modified \in {0, 2, 4}
  BY DEF MapBlock, Clean, WriteAtUnload, WriteNeeded
<1>2. Raised(b, WriteNeeded) = [b EXCEPT !.modified = WriteNeeded]
  BY <1>1 DEF Raised, WriteNeeded, MapBlock
<1>. QED  BY <1>2 DEF Mark, MapBlock

-----------------------------------------------------------------------------
(* The operators of the environment, one object at a time *)

(* One block and one object are changed. *)
LEMMA PutStep ==
  ASSUME DiskOK, NEW w \in Worlds, NEW id, NEW p \in Positions, NEW b \in MapBlock,
         Derived(Fetched(w.blocks, p), b), Touches(Fetched(w.blocks, p), b, id),
         NEW os \in Partial(Ids, ActiveObject),
         DOMAIN os \subseteq DOMAIN w.objects \cup {id},
         \A i \in DOMAIN w.objects \ {id} : i \in DOMAIN os /\ os[i] = w.objects[i],
         id \in DOMAIN os /\ os[id].static_exists =>
            /\ os[id].static_block = p
            /\ id \in DOMAIN b.active => b.active[id] = os[id].obj,
         NEW v \in Worlds, v.blocks = Put(w.blocks, p, b), v.objects = os
  PROVE  Step(w, v, id)
<1>1. w.blocks \in Memory
  BY WorldParts
<1>2. /\ Keeps(w.blocks, Put(w.blocks, p, b))
      /\ OnlyTouches(w.blocks, Put(w.blocks, p, b), id)
  BY <1>1, PutKeeps
<1>3. Put(w.blocks, p, b)[p] = b
  BY DEF Put
<1>4. id \in DOMAIN v.objects => Own(v, id)
  BY <1>3 DEF Own
<1>. QED  BY <1>2, <1>4 DEF Step

(* deleteStaticFromBlock: the entry goes, unless its block is not there.    *)
Bare(b0, b, id, flagged) ==
  /\ b \in MapBlock
  /\ b.nodes = b0.nodes /\ b.generated = b0.generated
  /\ b.stamp = b0.stamp /\ b.old = b0.old
  /\ b.modified = Mark(b0, flagged).modified
  /\ b.stored = b0.stored
  /\ b.active = Without(b0.active, {id})

HasDeleted(w, v, id, flagged) ==
  LET ao == w.objects[id]
      gone == [ao EXCEPT !.static_exists = FALSE]
      p == ao.static_block
  IN  \/ v = w /\ (ao.static_exists => p \notin DOMAIN w.blocks)
      \/ /\ v \in Worlds /\ v.fate = w.fate
         /\ v.objects = Put(w.objects, id, gone)
         /\ ao.static_exists
         /\ gone \in ActiveObject /\ gone.static_exists = FALSE
         /\ \E b : /\ v.blocks = Put(w.blocks, p, b)
                  /\ Bare(Fetched(w.blocks, p), b, id, flagged)

LEMMA DeleteHolds ==
  ASSUME DiskOK, NEW w \in Worlds, NEW id \in DOMAIN w.objects, NEW flagged \in BOOLEAN
  PROVE  HasDeleted(w, deleteStaticFromBlock(w, id, flagged), id, flagged)
<1>. DEFINE ao == w.objects[id]
            p == ao.static_block
            mem == EmergeBlock(w.blocks, p, FALSE)
            block == [Mark(mem[p], flagged) EXCEPT !.active = Without(@, {id})]
            v == deleteStaticFromBlock(w, id, flagged)
            gone == [ao EXCEPT !.static_exists = FALSE]
<1>1. id \in Ids /\ ao \in ActiveObject /\ p \in Positions /\ w.blocks \in Memory
  BY WorldParts DEF ActiveObject
<1>2. CASE ~ao.static_exists \/ p \notin DOMAIN mem
  <2>1. v = w
    BY <1>2 DEF deleteStaticFromBlock
  <2>2. p \in DOMAIN w.blocks => p \in DOMAIN mem
    BY DEF EmergeBlock
  <2>. HIDE DEF v
  <2>. QED  BY <1>2, <2>1, <2>2 DEF HasDeleted, v
<1>3. CASE ao.static_exists /\ p \in DOMAIN mem
  <2>. DEFINE b0 == Fetched(w.blocks, p)
              marked == Mark(b0, flagged)
              b == [marked EXCEPT !.active = Without(@, {id})]
  <2>1. mem[p] = b0 /\ b0 \in MapBlock
    BY <1>1, <1>3, EmergeKeeps, FetchedType
  <2>2. /\ v = [w EXCEPT !.blocks = Put(mem, p, block), !.objects = Put(@, id, gone)]
        /\ block = b
    BY <1>3, <2>1 DEF deleteStaticFromBlock
  <2>3. Put(mem, p, block) = Put(w.blocks, p, b)
    <3>1. Put(mem, p, b) = Put(w.blocks, p, b)
      <4>. HIDE DEF b
      <4>. QED  BY PutFetched
    <3>. QED  BY <2>2, <3>1
  <2>4. /\ marked \in MapBlock
        /\ marked = [b0 EXCEPT !.modified = marked.modified]
    BY <2>1, Marks
  <2>5. Without(b0.active, {id}) \in Partial(Ids, Objects)
    BY <2>1, ActiveOfWithout DEF MapBlock
  <2>6. Bare(b0, b, id, flagged)
    <3>1. /\ b \in MapBlock
          /\ b.active = Without(b0.active, {id}) /\ b.stored = b0.stored
          /\ b.nodes = b0.nodes /\ b.generated = b0.generated
          /\ b.stamp = b0.stamp /\ b.old = b0.old
          /\ b.modified = marked.modified
      <4>. HIDE DEF marked
      <4>. QED  BY <2>1, <2>4, <2>5 DEF MapBlock
    <3>. HIDE DEF b, b0
    <3>. QED  BY <3>1 DEF Bare
  <2>9. Put(w.blocks, p, b) \in Memory
    <3>1. b \in MapBlock
      BY <2>6 DEF Bare
    <3>. HIDE DEF b
    <3>. QED  BY <1>1, <3>1, PutPartial DEF Memory
  <2>10. gone \in ActiveObject /\ gone.static_exists = FALSE
    BY <1>1 DEF ActiveObject
  <2>11. Put(w.objects, id, gone) \in Partial(Ids, ActiveObject)
    <3>. HIDE DEF gone
    <3>1. w.objects \in Partial(Ids, ActiveObject)
      BY WorldParts
    <3>. QED  BY <1>1, <2>10, <3>1, PutPartial
  <2>12. /\ v.blocks = Put(w.blocks, p, b) /\ v.objects = Put(w.objects, id, gone)
         /\ v.fate = w.fate /\ v \in Worlds
    <3>1. PICK bs : bs = Put(w.blocks, p, b)
      OBVIOUS
    <3>2. PICK os : os = Put(w.objects, id, gone)
      OBVIOUS
    <3>3. v = [w EXCEPT !.blocks = bs, !.objects = os]
      BY <2>2, <2>3, <3>1, <3>2
    <3>4. bs \in Memory /\ os \in Partial(Ids, ActiveObject)
      BY <2>9, <2>11, <3>1, <3>2
    <3>5. v.blocks = bs /\ v.objects = os /\ v.fate = w.fate /\ v \in Worlds
      BY <3>3, <3>4 DEF Worlds
    <3>. QED  BY <3>1, <3>2, <3>5
  <2>13. \E c : v.blocks = Put(w.blocks, p, c) /\ Bare(b0, c, id, flagged)
    <3>. HIDE DEF v, b, b0
    <3>. QED  BY <2>6, <2>12
  <2>. HIDE DEF v
  <2>. QED  BY <1>3, <2>10, <2>12, <2>13 DEF HasDeleted, v
<1>4. ao.static_exists \in BOOLEAN
  BY <1>1 DEF ActiveObject
<1>. QED  BY <1>2, <1>3, <1>4

LEMMA DeleteStaticSteps ==
  ASSUME DiskOK, NEW w \in Worlds, Agree(w), NEW id \in DOMAIN w.objects,
         NEW flagged \in BOOLEAN
  PROVE  LET v == deleteStaticFromBlock(w, id, flagged)
         IN  /\ Step(w, v, id)
             /\ id \in DOMAIN v.objects
             /\ v.objects[id] \in ActiveObject
             /\ v.objects[id] = [w.objects[id] EXCEPT
                                   !.static_exists = v.objects[id].static_exists]
             /\ v.fate = w.fate
<1>. DEFINE v == deleteStaticFromBlock(w, id, flagged)
            ao == w.objects[id]
            p == ao.static_block
            gone == [ao EXCEPT !.static_exists = FALSE]
            b0 == Fetched(w.blocks, p)
<1>1. id \in Ids /\ ao \in ActiveObject /\ p \in Positions /\ w.blocks \in Memory
      /\ w.objects \in Partial(Ids, ActiveObject) /\ ao.static_exists \in BOOLEAN
      /\ b0 \in MapBlock
  BY WorldParts, FetchedType DEF ActiveObject
<1>2. HasDeleted(w, v, id, flagged)
  BY DeleteHolds
<1>. HIDE DEF v
<1>3. CASE v = w
  <2>1. Own(w, id)
    BY DEF Agree
  <2>2. ao = [ao EXCEPT !.static_exists = ao.static_exists]
    BY <1>1 DEF ActiveObject
  <2>. QED  BY <1>1, <1>3, <2>1, <2>2, StepReflexive DEF v
<1>4. CASE /\ v \in Worlds /\ v.fate = w.fate
           /\ v.objects = Put(w.objects, id, gone)
           /\ gone \in ActiveObject /\ gone.static_exists = FALSE
           /\ \E b : v.blocks = Put(w.blocks, p, b) /\ Bare(b0, b, id, flagged)
  <2>. HIDE DEF b0, gone
  <2>1. PICK b : v.blocks = Put(w.blocks, p, b) /\ Bare(b0, b, id, flagged)
    BY <1>4
  <2>2. b \in MapBlock
    BY <2>1 DEF Bare
  <2>3. Derived(b0, b)
    <3>1. ASSUME NEW o \in Objects PROVE Count(b, o) =< Count(b0, o)
      <4>1. /\ ActiveOf(b.active, o) =< ActiveOf(b0.active, o)
            /\ ActiveOf(b.active, o) \in Nat /\ ActiveOf(b0.active, o) \in Nat
            /\ b0.stored[o] \in Nat /\ b.stored = b0.stored
        BY <1>1, <2>1, <2>2, ActiveOfWithout, StoreTypes DEF MapBlock, Stores, Bare
      <4>. QED  BY <4>1 DEF Count
    <3>2. b0.modified = WriteNeeded => b.modified = WriteNeeded
      BY <1>1, <2>1, Marks DEF Bare
    <3>. QED  BY <2>1, <3>1, <3>2 DEF Derived, Bare
  <2>4. Touches(b0, b, id)
    BY <2>1 DEF Touches, Without, Bare
  <2>5. /\ DOMAIN v.objects = DOMAIN w.objects
        /\ v.objects[id] = gone
        /\ \A i \in DOMAIN w.objects : i # id => v.objects[i] = w.objects[i]
    BY <1>4 DEF Put
  <2>6. v.objects \in Partial(Ids, ActiveObject)
    BY <1>4, WorldParts
  <2>7. Step(w, v, id)
    BY <1>1, <1>4, <2>1, <2>2, <2>3, <2>4, <2>5, <2>6, PutStep DEF b0
  <2>8. v.objects[id] = [ao EXCEPT !.static_exists = v.objects[id].static_exists]
    BY <1>4, <2>5 DEF gone
  <2>. QED  BY <1>4, <2>5, <2>7, <2>8 DEF v
<1>5. \/ v = w
      \/ /\ v \in Worlds /\ v.fate = w.fate
         /\ v.objects = Put(w.objects, id, gone)
         /\ gone \in ActiveObject /\ gone.static_exists = FALSE
         /\ \E b : v.blocks = Put(w.blocks, p, b) /\ Bare(b0, b, id, flagged)
  BY <1>2 DEF HasDeleted
<1>. QED  BY <1>3, <1>4, <1>5

(* A block that is only loaded. *)
LEMMA EmergeSteps ==
  ASSUME DiskOK, NEW w \in Worlds, Agree(w), NEW id, NEW p \in Positions,
         NEW create \in BOOLEAN
  PROVE  LET v == [w EXCEPT !.blocks = EmergeBlock(@, p, create)]
         IN  /\ Step(w, v, id)
             /\ v.blocks = EmergeBlock(w.blocks, p, create)
             /\ v.objects = w.objects /\ v.fate = w.fate
<1>. DEFINE e == EmergeBlock(w.blocks, p, create)
            v == [w EXCEPT !.blocks = EmergeBlock(@, p, create)]
<1>1. w.blocks \in Memory
  BY WorldParts
<1>2. /\ e \in Memory /\ Keeps(w.blocks, e) /\ OnlyTouches(w.blocks, e, id)
      /\ p \in DOMAIN e => e[p] = Fetched(w.blocks, p)
      /\ DOMAIN e \subseteq DOMAIN w.blocks \cup {p}
  BY <1>1, EmergeKeeps
<1>3. \A q \in DOMAIN w.blocks : q \in DOMAIN e /\ e[q] = w.blocks[q]
  BY DEF EmergeBlock, Put
<1>4. /\ v.blocks = e /\ v.objects = w.objects /\ v.fate = w.fate
      /\ v \in Worlds
  <2>. HIDE DEF e
  <2>1. v = [w EXCEPT !.blocks = e]
    BY DEF e
  <2>. HIDE DEF v
  <2>. QED  BY <1>2, <2>1 DEF Worlds
<1>5. ASSUME id \in DOMAIN v.objects PROVE Own(v, id)
  <2>. HIDE DEF v, e
  <2>1. Own(w, id)
    BY <1>4, <1>5 DEF Agree
  <2>. DEFINE q == w.objects[id].static_block
  <2>2. SUFFICES ASSUME w.objects[id].static_exists, q \in DOMAIN e,
                        id \in DOMAIN e[q].active
                 PROVE  e[q].active[id] = w.objects[id].obj
    BY <1>4 DEF Own
  <2>3. CASE q \in DOMAIN w.blocks
    BY <1>3, <2>1, <2>2, <2>3 DEF Own
  <2>4. CASE q \notin DOMAIN w.blocks
    <3>1. q = p /\ e[q] = Fetched(w.blocks, q)
      BY <1>2, <2>2, <2>4
    <3>. QED  BY <2>2, <2>4, <3>1, FetchedActive
  <2>. QED  BY <2>3, <2>4
<1>. HIDE DEF e, v
<1>6. Step(w, v, id)
  BY <1>2, <1>4, <1>5 DEF Step
<1>. QED  BY <1>4, <1>6 DEF v, e

(* saveStaticToBlock, where there is room. *)
Placed(ao, p) == [ao EXCEPT !.static_exists = TRUE, !.static_block = p]

Holds(b0, b, id, ao, stays, flagged) ==
  /\ b \in MapBlock
  /\ b.nodes = b0.nodes /\ b.generated = b0.generated
  /\ b.stamp = b0.stamp /\ b.old = b0.old
  /\ b.modified = Mark(b0, flagged).modified
  /\ b.stored = IF stays THEN b0.stored ELSE [b0.stored EXCEPT ![ao.obj] = @ + 1]
  /\ b.active = IF stays THEN Put(b0.active, id, ao.obj) ELSE b0.active
  /\ Touches(b0, b, id)
  /\ stays => id \in DOMAIN b.active /\ b.active[id] = ao.obj
  /\ \A o \in Objects : Count(b, o) =< Count(b0, o) + (IF o = ao.obj THEN 1 ELSE 0)

HasSaved(w, v, p, id, stays, flagged) ==
  LET ao == Placed(w.objects[id], p)
  IN  /\ v \in Worlds /\ v.fate = w.fate
      /\ v.objects = Put(w.objects, id, ao)
      /\ ao \in ActiveObject /\ ao.obj = w.objects[id].obj
      /\ ao.static_exists /\ ao.static_block = p
      /\ \E b : /\ v.blocks = Put(w.blocks, p, b)
               /\ Holds(Fetched(w.blocks, p), b, id, ao, stays, flagged)

LEMMA SaveStaticHolds ==
  ASSUME DiskOK, NEW w \in Worlds, NEW id \in DOMAIN w.objects, NEW p \in Positions,
         NEW stays \in BOOLEAN, NEW flagged \in BOOLEAN,
         HasRoom(EmergeBlock(w.blocks, p, TRUE), p)
  PROVE  HasSaved(w, saveStaticToBlock(w, p, id, stays, flagged), p, id, stays, flagged)
<1>. DEFINE ao == Placed(w.objects[id], p)
            b0 == Fetched(w.blocks, p)
            v == saveStaticToBlock(w, p, id, stays, flagged)
            x == w.objects[id]
            mem == EmergeBlock(w.blocks, p, TRUE)
            marked == Mark(b0, flagged)
            b == IF stays THEN [marked EXCEPT !.active = Put(@, id, x.obj)]
                 ELSE [marked EXCEPT !.stored[x.obj] = @ + 1]
<1>1. /\ w.blocks \in Memory /\ w.objects \in Partial(Ids, ActiveObject)
      /\ id \in Ids /\ x \in ActiveObject /\ x.obj \in Objects
  BY WorldParts DEF ActiveObject
<1>2. mem[p] = b0 /\ b0 \in MapBlock
  BY <1>1, EmergeKeeps, FetchedType
<1>3. v = [w EXCEPT !.blocks = Put(mem, p, b), !.objects = Put(@, id, ao)]
  BY <1>2 DEF saveStaticToBlock, Placed
<1>4. Put(mem, p, b) = Put(w.blocks, p, b)
  <2>. HIDE DEF b
  <2>. QED  BY PutFetched
<1>5. /\ marked \in MapBlock
      /\ marked = [b0 EXCEPT !.modified = marked.modified]
  BY <1>2, Marks
<1>6. ao \in ActiveObject /\ ao.obj = x.obj /\ ao.static_exists /\ ao.static_block = p
  BY <1>1 DEF ActiveObject, Placed
<1>7. /\ b \in MapBlock
      /\ b.nodes = b0.nodes /\ b.generated = b0.generated
      /\ b.stamp = b0.stamp /\ b.old = b0.old
      /\ b.modified = marked.modified
      /\ b.stored = IF stays THEN b0.stored ELSE [b0.stored EXCEPT ![x.obj] = @ + 1]
      /\ b.active = IF stays THEN Put(b0.active, id, x.obj) ELSE b0.active
      /\ Touches(b0, b, id)
      /\ stays => id \in DOMAIN b.active /\ b.active[id] = x.obj
      /\ \A o \in Objects :
           Count(b, o) =< Count(b0, o) + (IF o = x.obj THEN 1 ELSE 0)
  <2>. DEFINE a == Put(b0.active, id, x.obj)
  <2>1. /\ a \in Partial(Ids, Objects)
        /\ \A o : ActiveOf(a, o) =< ActiveOf(b0.active, o) + (IF o = x.obj THEN 1 ELSE 0)
        /\ \A o : ActiveOf(a, o) \in Nat /\ ActiveOf(b0.active, o) \in Nat
    BY <1>1, <1>2, ActiveOfPut, StoreTypes DEF MapBlock
  <2>2. id \in DOMAIN a /\ a[id] = x.obj
        /\ \A i \in DOMAIN a \ {id} : i \in DOMAIN b0.active /\ a[i] = b0.active[i]
    BY DEF Put
  <2>3. marked.active = b0.active /\ marked.stored = b0.stored
        /\ marked.nodes = b0.nodes /\ marked.generated = b0.generated
        /\ marked.stamp = b0.stamp /\ marked.old = b0.old
        /\ b0.stored \in [Objects -> Nat]
    <3>. HIDE DEF marked, b0
    <3>. QED  BY <1>2, <1>5 DEF MapBlock, Stores
  <2>. HIDE DEF marked, a, x, b0
  <2>4. CASE stays
    <3>1. b = [marked EXCEPT !.active = a]
      BY <2>3, <2>4 DEF a
    <3>2. /\ b \in MapBlock /\ b.active = a /\ b.stored = b0.stored
          /\ b.nodes = b0.nodes /\ b.generated = b0.generated
          /\ b.stamp = b0.stamp /\ b.old = b0.old
          /\ b.modified = marked.modified
      BY <1>5, <2>1, <2>3, <3>1 DEF MapBlock
    <3>3. Touches(b0, b, id)
      BY <2>2, <3>2 DEF Touches
    <3>4. ASSUME NEW o \in Objects
          PROVE  Count(b, o) =< Count(b0, o) + (IF o = x.obj THEN 1 ELSE 0)
      <4>1. b0.stored[o] \in Nat
        BY <2>3
      <4>2. /\ ActiveOf(a, o) =< ActiveOf(b0.active, o) + (IF o = x.obj THEN 1 ELSE 0)
            /\ ActiveOf(a, o) \in Nat /\ ActiveOf(b0.active, o) \in Nat
        BY <2>1
      <4>3. /\ Count(b, o) = b0.stored[o] + ActiveOf(a, o)
            /\ Count(b0, o) = b0.stored[o] + ActiveOf(b0.active, o)
        BY <3>2 DEF Count
      <4>. QED  BY <4>1, <4>2, <4>3
    <3>. QED  BY <2>2, <2>4, <3>2, <3>3, <3>4 DEF a
  <2>5. CASE ~stays
    <3>. DEFINE s == [b0.stored EXCEPT ![x.obj] = @ + 1]
    <3>1. b = [marked EXCEPT !.stored = s]
      BY <2>3, <2>5
    <3>2. s \in [Objects -> Nat] /\ \A o \in Objects : s[o] = IF o = x.obj THEN b0.stored[o] + 1 ELSE b0.stored[o]
      BY <1>1, <2>3
    <3>. HIDE DEF s
    <3>3. /\ b \in MapBlock /\ b.active = b0.active /\ b.stored = s
          /\ b.nodes = b0.nodes /\ b.generated = b0.generated
          /\ b.stamp = b0.stamp /\ b.old = b0.old
          /\ b.modified = marked.modified
      BY <1>5, <2>3, <3>1, <3>2 DEF MapBlock, Stores
    <3>4. Touches(b0, b, id)
      BY <3>3 DEF Touches
    <3>5. ASSUME NEW o \in Objects
          PROVE  Count(b, o) =< Count(b0, o) + (IF o = x.obj THEN 1 ELSE 0)
      <4>1. b0.stored[o] \in Nat /\ ActiveOf(b0.active, o) \in Nat
        BY <2>1, <2>3
      <4>. QED  BY <3>2, <3>3, <4>1 DEF Count
    <3>. QED  BY <2>5, <3>3, <3>4, <3>5 DEF s
  <2>. QED  BY <2>4, <2>5
<1>. HIDE DEF b, ao
<1>8. Put(w.blocks, p, b) \in Memory /\ Put(w.objects, id, ao) \in Partial(Ids, ActiveObject)
  BY <1>1, <1>6, <1>7, PutPartial DEF Memory
<1>9. /\ v \in Worlds /\ v.fate = w.fate
      /\ v.blocks = Put(w.blocks, p, b) /\ v.objects = Put(w.objects, id, ao)
  <2>1. PICK bs : bs = Put(w.blocks, p, b)
    OBVIOUS
  <2>2. PICK os : os = Put(w.objects, id, ao)
    OBVIOUS
  <2>3. v = [w EXCEPT !.blocks = bs, !.objects = os]
    BY <1>3, <1>4, <2>1, <2>2
  <2>4. bs \in Memory /\ os \in Partial(Ids, ActiveObject)
    BY <1>8, <2>1, <2>2
  <2>. HIDE DEF v
  <2>5. v \in Worlds /\ v.blocks = bs /\ v.objects = os /\ v.fate = w.fate
    BY <2>3, <2>4 DEF Worlds
  <2>. QED  BY <2>1, <2>2, <2>5
<1>10. Holds(b0, b, id, ao, stays, flagged)
  <2>. HIDE DEF b0, x
  <2>. QED  BY <1>6, <1>7 DEF Holds
<1>. HIDE DEF v
<1>. QED  BY <1>6, <1>9, <1>10 DEF ao, v, HasSaved

-----------------------------------------------------------------------------
LEMMA SaveStaticSteps ==
  ASSUME DiskOK, NEW w \in Worlds, Agree(w), NEW id \in DOMAIN w.objects,
         NEW p \in Positions, NEW stays \in BOOLEAN, NEW flagged \in BOOLEAN,
         flagged = TRUE \/ ~HasRoom(EmergeBlock(w.blocks, p, TRUE), p)
  PROVE  LET v == saveStaticToBlock(w, p, id, stays, flagged)
         IN  /\ v \in Worlds /\ v.fate = w.fate
             /\ id \in DOMAIN v.objects /\ v.objects[id] \in ActiveObject
             /\ stays = TRUE \/ ~HasRoom(EmergeBlock(w.blocks, p, TRUE), p) => Step(w, v, id)
             /\ Step(w, Unregister(v, id), id)
<1>. DEFINE v == saveStaticToBlock(w, p, id, stays, flagged)
<1>1. CASE ~HasRoom(EmergeBlock(w.blocks, p, TRUE), p)
  <2>1. v = [w EXCEPT !.blocks = EmergeBlock(@, p, TRUE)]
    BY <1>1 DEF saveStaticToBlock
  <2>2. Step(w, v, id) /\ v.objects = w.objects /\ v.fate = w.fate
    <3>. HIDE DEF v
    <3>1. PICK u : u = [w EXCEPT !.blocks = EmergeBlock(@, p, TRUE)]
      OBVIOUS
    <3>2. Step(w, u, id) /\ u.objects = w.objects /\ u.fate = w.fate
      BY <3>1, EmergeSteps
    <3>. QED  BY <2>1, <3>1, <3>2
  <2>3. v \in Worlds /\ v.objects[id] \in ActiveObject
    BY <2>2, WorldParts DEF Step
  <2>. HIDE DEF v
  <2>4. Step(w, Unregister(v, id), id)
    BY <2>2, StepUnregisters
  <2>. QED  BY <2>2, <2>3, <2>4 DEF v
<1>2. CASE HasRoom(EmergeBlock(w.blocks, p, TRUE), p)
  <2>. DEFINE b0 == Fetched(w.blocks, p)
              ao == Placed(w.objects[id], p)
  <2>1. /\ v \in Worlds /\ v.fate = w.fate
        /\ v.objects = Put(w.objects, id, ao)
        /\ ao \in ActiveObject /\ ao.static_block = p
        /\ \E b : v.blocks = Put(w.blocks, p, b) /\ Holds(b0, b, id, ao, stays, flagged)
    <3>1. HasSaved(w, v, p, id, stays, flagged)
      BY <1>2, SaveStaticHolds
    <3>. HIDE DEF v
    <3>. QED  BY <3>1 DEF HasSaved
  <2>2. id \in Ids /\ b0 \in MapBlock /\ w.objects \in Partial(Ids, ActiveObject)
    BY WorldParts, FetchedType
  <2>. HIDE DEF v, b0, ao
  <2>3. PICK b : v.blocks = Put(w.blocks, p, b) /\ Holds(b0, b, id, ao, stays, flagged)
    BY <2>1
  <2>3a. b \in MapBlock
    BY <2>3 DEF Holds
  <2>4. Derived(b0, b)
    BY <1>2, <2>2, <2>3, Marks DEF Derived, Holds
  <2>5. /\ DOMAIN v.objects = DOMAIN w.objects /\ v.objects[id] = ao
        /\ \A i \in DOMAIN w.objects : i # id => v.objects[i] = w.objects[i]
    BY <2>1 DEF Put
  <2>6. v.objects \in Partial(Ids, ActiveObject)
    BY <2>1, WorldParts
  <2>7. ASSUME stays = TRUE PROVE Step(w, v, id)
    BY <2>1, <2>2, <2>3, <2>3a, <2>4, <2>5, <2>6, <2>7, PutStep DEF b0, Holds
  <2>8. Step(w, Unregister(v, id), id)
    <3>. DEFINE u == Unregister(v, id)
                os == Without(v.objects, {id})
    <3>1. /\ os \in Partial(Ids, ActiveObject)
          /\ DOMAIN os = DOMAIN v.objects \ {id}
          /\ \A i \in DOMAIN v.objects \ {id} : os[i] = v.objects[i]
      <4>1. os \in Partial(Ids, ActiveObject)
        BY <2>6, WithoutPartial
      <4>2. PICK vs : vs = v.objects
        OBVIOUS
      <4>3. PICK rest : rest = Without(vs, {id})
        OBVIOUS
      <4>4. DOMAIN rest = DOMAIN vs \ {id} /\ \A i \in DOMAIN vs \ {id} : rest[i] = vs[i]
        BY <4>3 DEF Without
      <4>5. os = rest
        BY <4>2, <4>3
      <4>. HIDE DEF os
      <4>. QED  BY <4>1, <4>2, <4>4, <4>5
    <3>2. u \in Worlds /\ u.blocks = v.blocks /\ u.objects = os
      BY <2>1, <3>1 DEF Unregister, Worlds
    <3>. HIDE DEF u, os
    <3>2a. /\ DOMAIN os \subseteq DOMAIN w.objects \cup {id} /\ id \notin DOMAIN os
           /\ \A i \in DOMAIN w.objects \ {id} : i \in DOMAIN os /\ os[i] = w.objects[i]
      BY <2>5, <3>1
    <3>2b. Touches(b0, b, id) /\ u.blocks = Put(w.blocks, p, b)
      BY <2>3, <3>2 DEF Holds
    <3>3. Step(w, u, id)
      BY <2>3a, <2>4, <3>1, <3>2, <3>2a, <3>2b, PutStep DEF b0
    <3>. QED  BY <3>3 DEF u
  <2>. QED  BY <1>2, <2>1, <2>5, <2>7, <2>8 DEF v
<1>. QED  BY <1>1, <1>2

HasAdded(w, v, o, p, flagged) ==
  LET id == FreeId(w.objects)
      b0 == Fetched(w.blocks, p)
  IN  /\ v \in Worlds /\ v.fate = w.fate
      /\ \E ao \in ActiveObject :
           /\ v.objects = Put(w.objects, id, ao)
           /\ ao.obj = o /\ ao.gone = "no"
           /\ ao.static_exists = TRUE /\ ao.static_block = p
      /\ \E b \in MapBlock :
           /\ v.blocks = Put(w.blocks, p, b)
           /\ b.nodes = b0.nodes /\ b.generated = b0.generated
           /\ b.stamp = b0.stamp /\ b.old = b0.old
           /\ b.modified = Mark(b0, flagged).modified
           /\ b.stored = b0.stored /\ b.active = Put(b0.active, id, o)

LEMMA AddHolds ==
  ASSUME DiskOK, NEW w \in Worlds, NEW o \in Objects, NEW p \in Positions,
         NEW flagged \in BOOLEAN
  PROVE  HasAdded(w, addActiveObjectRaw(w, o, p, flagged), o, p, flagged)
<1>. DEFINE b0 == Fetched(w.blocks, p)
            id == FreeId(w.objects)
            ao == [Obj(o, p) EXCEPT !.static_exists = TRUE]
            mem == EmergeBlock(w.blocks, p, TRUE)
            marked == Mark(b0, flagged)
            a == Put(b0.active, id, o)
            b == [marked EXCEPT !.active = Put(@, id, o)]
            v == addActiveObjectRaw(w, o, p, flagged)
<1>1. /\ w.blocks \in Memory /\ w.objects \in Partial(Ids, ActiveObject)
      /\ id \in Ids
  BY WorldParts, FreeIdIsFree
<1>2. mem[p] = b0 /\ b0 \in MapBlock
  BY <1>1, EmergeKeeps, FetchedType
<1>3. v = [w EXCEPT !.objects = Put(@, id, ao), !.blocks = Put(mem, p, b)]
  BY <1>2 DEF addActiveObjectRaw
<1>4. Put(mem, p, b) = Put(w.blocks, p, b)
  <2>. HIDE DEF b
  <2>. QED  BY PutFetched
<1>5. /\ marked \in MapBlock
      /\ marked = [b0 EXCEPT !.modified = marked.modified]
  BY <1>2, Marks
<1>6. ao \in ActiveObject /\ ao.obj = o /\ ao.static_block = p /\ ao.gone = "no"
      /\ ao.static_exists = TRUE
  BY DEF Obj, ActiveObject
<1>7. /\ b \in MapBlock
      /\ b.nodes = b0.nodes /\ b.generated = b0.generated
      /\ b.stamp = b0.stamp /\ b.old = b0.old
      /\ b.modified = marked.modified
      /\ b.stored = b0.stored /\ b.active = a
  <2>1. a \in Partial(Ids, Objects)
    BY <1>1, <1>2, ActiveOfPut DEF MapBlock
  <2>2. marked.active = b0.active /\ marked.stored = b0.stored
        /\ marked.nodes = b0.nodes /\ marked.generated = b0.generated
        /\ marked.stamp = b0.stamp /\ marked.old = b0.old
    <3>. HIDE DEF marked, b0
    <3>. QED  BY <1>2, <1>5 DEF MapBlock
  <2>. HIDE DEF marked, b0
  <2>3. b = [marked EXCEPT !.active = a]
    BY <2>2
  <2>. HIDE DEF a
  <2>. QED  BY <1>5, <2>1, <2>2, <2>3 DEF MapBlock
<1>. HIDE DEF b, ao, a
<1>8. Put(w.blocks, p, b) \in Memory /\ Put(w.objects, id, ao) \in Partial(Ids, ActiveObject)
  BY <1>1, <1>6, <1>7, PutPartial DEF Memory
<1>9. /\ v \in Worlds /\ v.fate = w.fate
      /\ v.blocks = Put(w.blocks, p, b) /\ v.objects = Put(w.objects, id, ao)
  <2>1. PICK bs : bs = Put(w.blocks, p, b)
    OBVIOUS
  <2>2. PICK os : os = Put(w.objects, id, ao)
    OBVIOUS
  <2>3. v = [w EXCEPT !.blocks = bs, !.objects = os]
    BY <1>3, <1>4, <2>1, <2>2
  <2>4. bs \in Memory /\ os \in Partial(Ids, ActiveObject)
    BY <1>8, <2>1, <2>2
  <2>. HIDE DEF v
  <2>5. v \in Worlds /\ v.blocks = bs /\ v.objects = os /\ v.fate = w.fate
    BY <2>3, <2>4 DEF Worlds
  <2>. QED  BY <2>1, <2>2, <2>5
<1>. HIDE DEF v
<1>. QED  BY <1>6, <1>7, <1>9 DEF v, a, HasAdded

LEMMA AddSteps ==
  ASSUME DiskOK, NEW w \in Worlds, NEW o \in Objects, NEW p \in Positions
  PROVE  Step(w, addActiveObjectRaw(w, o, p, TRUE), FreeId(w.objects))
<1>. DEFINE v == addActiveObjectRaw(w, o, p, TRUE)
            id == FreeId(w.objects)
            b0 == Fetched(w.blocks, p)
<1>1. /\ v \in Worlds
      /\ \E ao \in ActiveObject :
           v.objects = Put(w.objects, id, ao) /\ ao.obj = o /\ ao.static_block = p
      /\ \E b \in MapBlock :
           /\ v.blocks = Put(w.blocks, p, b)
           /\ b.nodes = b0.nodes /\ b.generated = b0.generated
           /\ b.modified = Mark(b0, TRUE).modified
           /\ b.active = Put(b0.active, id, o)
  <2>1. HasAdded(w, v, o, p, TRUE)
    BY AddHolds
  <2>. HIDE DEF v
  <2>. QED  BY <2>1 DEF HasAdded
<1>2. id \in Ids /\ id \notin DOMAIN w.objects /\ b0 \in MapBlock
  BY WorldParts, FreeIdIsFree, FetchedType
<1>. HIDE DEF v, id, b0
<1>3. PICK ao \in ActiveObject :
        v.objects = Put(w.objects, id, ao) /\ ao.obj = o /\ ao.static_block = p
  BY <1>1
<1>4. PICK b \in MapBlock :
           /\ v.blocks = Put(w.blocks, p, b)
           /\ b.nodes = b0.nodes /\ b.generated = b0.generated
           /\ b.modified = Mark(b0, TRUE).modified
           /\ b.active = Put(b0.active, id, o)
  BY <1>1
<1>5. Derived(b0, b)
  BY <1>2, <1>4, Marks DEF Derived
<1>6. Touches(b0, b, id) /\ b.active[id] = o
  BY <1>4 DEF Touches, Put
<1>7. /\ DOMAIN v.objects = DOMAIN w.objects \cup {id} /\ v.objects[id] = ao
      /\ \A i \in DOMAIN w.objects : i # id => v.objects[i] = w.objects[i]
  BY <1>3 DEF Put
<1>8. v.objects \in Partial(Ids, ActiveObject)
  BY <1>1, WorldParts
<1>9. Step(w, v, id)
  BY <1>1, <1>3, <1>4, <1>5, <1>6, <1>7, <1>8, PutStep DEF b0
<1>. QED  BY <1>9 DEF v, id

LEMMA ResaveSteps ==
  ASSUME DiskOK, NEW w \in Worlds, Agree(w), NEW id \in DOMAIN w.objects
  PROVE  Step(w, Resave(w, id), id)
<1>. DEFINE p == w.objects[id].pos
            u == deleteStaticFromBlock(w, id, TRUE)
            v == saveStaticToBlock(u, p, id, TRUE, TRUE)
<1>1. Step(w, u, id) /\ id \in DOMAIN u.objects
  BY DeleteStaticSteps
<1>2. u \in Worlds /\ Agree(u) /\ p \in Positions
  BY <1>1, StepAgrees, WorldParts DEF Step, ActiveObject
<1>. HIDE DEF u, p
<1>3. Step(u, v, id)
  BY <1>1, <1>2, SaveStaticSteps
<1>4. Step(w, v, id)
  BY <1>1, <1>3, StepTransitive
<1>. QED  BY <1>4 DEF Resave, u, p

-----------------------------------------------------------------------------
(* Deactivate, when the object is stored where it was and has not changed: *)
(* the block has as much of it as before.                                  *)
LEMMA StoredBackSteps ==
  ASSUME DiskOK, NEW w \in Worlds, Agree(w), NEW id \in DOMAIN w.objects,
         NEW p, p = w.objects[id].static_block, w.objects[id].static_exists,
         p \in DOMAIN w.blocks, id \in DOMAIN w.blocks[p].active,
         NEW u, u = deleteStaticFromBlock(w, id, FALSE),
         HasRoom(EmergeBlock(u.blocks, p, TRUE), p),
         NEW stays \in BOOLEAN, NEW v, v = saveStaticToBlock(u, p, id, stays, FALSE)
  PROVE  /\ v \in Worlds /\ id \in DOMAIN v.objects /\ v.objects[id] \in ActiveObject
         /\ stays = TRUE => Step(w, v, id)
         /\ Step(w, Unregister(v, id), id)
<1>. DEFINE b0 == w.blocks[p]
            b1 == [b0 EXCEPT !.active = Without(@, {id})]
            x == w.objects[id]
            ao == Placed(u.objects[id], p)
<1>1. /\ id \in Ids /\ x \in ActiveObject /\ p \in Positions /\ x.obj \in Objects
      /\ w.blocks \in Memory /\ w.objects \in Partial(Ids, ActiveObject)
      /\ b0 \in MapBlock /\ b0.active \in Partial(Ids, Objects)
  BY WorldParts DEF ActiveObject, MapBlock
<1>2. b0 = Fetched(w.blocks, p) /\ b0.active[id] = x.obj
  BY DEF Fetched, Agree, Own
<1>3. /\ Step(w, u, id) /\ id \in DOMAIN u.objects /\ u \in Worlds
      /\ u.objects[id].obj = x.obj
  <2>1. /\ Step(w, u, id) /\ id \in DOMAIN u.objects
        /\ u.objects[id] = [x EXCEPT !.static_exists = u.objects[id].static_exists]
    BY DeleteStaticSteps
  <2>2. u.objects[id].obj = x.obj
    BY <1>1, <2>1 DEF ActiveObject
  <2>. QED  BY <2>1, <2>2 DEF Step
<1>4. u.blocks = Put(w.blocks, p, b1)
  <2>1. EmergeBlock(w.blocks, p, FALSE) = w.blocks
    BY DEF EmergeBlock
  <2>2. Mark(b0, FALSE) = b0
    BY DEF Mark
  <2>. DEFINE c == [Mark(w.blocks[p], FALSE) EXCEPT !.active = Without(@, {id})]
              os == Put(w.objects, id, [x EXCEPT !.static_exists = FALSE])
  <2>3. u = [w EXCEPT !.blocks = Put(w.blocks, p, c), !.objects = Put(@, id, [x EXCEPT !.static_exists = FALSE])]
    BY <2>1 DEF deleteStaticFromBlock
  <2>4. c = b1
    BY <2>2
  <2>. HIDE DEF c, b1
  <2>5. u.blocks = Put(w.blocks, p, c)
    <3>1. PICK bs : bs = Put(w.blocks, p, c)
      OBVIOUS
    <3>2. u = [w EXCEPT !.blocks = bs, !.objects = Put(@, id, [x EXCEPT !.static_exists = FALSE])]
      BY <2>3, <3>1
    <3>. HIDE DEF x
    <3>3. u.blocks = bs
      BY <3>2 DEF Worlds
    <3>. QED  BY <3>1, <3>3
  <2>. QED  BY <2>4, <2>5
<1>5. /\ b1 \in MapBlock /\ b1.active = Without(b0.active, {id})
      /\ b1.nodes = b0.nodes /\ b1.generated = b0.generated
      /\ b1.modified = b0.modified /\ b1.stored = b0.stored
  <2>1. Without(b0.active, {id}) \in Partial(Ids, Objects)
    BY <1>1, ActiveOfWithout
  <2>2. PICK a : a = Without(b0.active, {id})
    OBVIOUS
  <2>3. b1 = [b0 EXCEPT !.active = a]
    BY <2>2
  <2>4. a \in Partial(Ids, Objects)
    BY <2>1, <2>2
  <2>. HIDE DEF b0, b1
  <2>. QED  BY <1>1, <2>2, <2>3, <2>4 DEF MapBlock
<1>. HIDE DEF b1, b0
<1>6. Fetched(u.blocks, p) = b1
  BY <1>4 DEF Fetched, Put
<1>7. HasSaved(u, v, p, id, stays, FALSE)
  BY <1>1, <1>3, SaveStaticHolds
<1>8. /\ v \in Worlds /\ v.objects = Put(u.objects, id, ao)
      /\ ao \in ActiveObject /\ ao.obj = x.obj /\ ao.static_block = p
      /\ \E b : v.blocks = Put(u.blocks, p, b) /\ Holds(b1, b, id, ao, stays, FALSE)
  BY <1>3, <1>6, <1>7 DEF HasSaved
<1>. HIDE DEF ao, x
<1>9. PICK b : v.blocks = Put(u.blocks, p, b) /\ Holds(b1, b, id, ao, stays, FALSE)
  BY <1>8
<1>10. /\ b \in MapBlock /\ b.nodes = b0.nodes /\ b.generated = b0.generated
       /\ b.modified = b0.modified
       /\ stays = TRUE => b.active[id] = ao.obj
       /\ Touches(b1, b, id)
       /\ \A o \in Objects : Count(b, o) =< Count(b1, o) + (IF o = x.obj THEN 1 ELSE 0)
  BY <1>5, <1>8, <1>9 DEF Holds, Mark
<1>11. Touches(b0, b, id)
  BY <1>5, <1>10 DEF Touches, Without
<1>12. Derived(b0, b)
  <2>. SUFFICES ASSUME NEW o \in Objects PROVE Count(b, o) =< Count(b0, o)
    BY <1>10 DEF Derived
  <2>1. /\ ActiveOf(b1.active, o) =< ActiveOf(b0.active, o)
        /\ o = x.obj => ActiveOf(b1.active, o) + 1 = ActiveOf(b0.active, o)
        /\ ActiveOf(b1.active, o) \in Nat /\ ActiveOf(b0.active, o) \in Nat
    <3>1. id \in DOMAIN b0.active
      BY DEF b0
    <3>2. b1.active \in Partial(Ids, Objects)
      BY <1>5 DEF MapBlock
    <3>. QED  BY <1>1, <1>2, <1>5, <3>1, <3>2, ActiveOfWithout, StoreTypes
  <2>2. /\ Count(b1, o) = b0.stored[o] + ActiveOf(b1.active, o)
        /\ Count(b0, o) = b0.stored[o] + ActiveOf(b0.active, o)
        /\ b0.stored[o] \in Nat /\ Count(b, o) \in Nat
    BY <1>1, <1>5, <1>10, CountType DEF Count, MapBlock, Stores
  <2>3. Count(b, o) =< Count(b1, o) + (IF o = x.obj THEN 1 ELSE 0)
    BY <1>10
  <2>4. Count(b1, o) + (IF o = x.obj THEN 1 ELSE 0) =< Count(b0, o)
    BY <2>1, <2>2
  <2>5. Count(b1, o) \in Nat /\ Count(b0, o) \in Nat
    BY <2>1, <2>2
  <2>. QED  BY <2>2, <2>3, <2>4, <2>5
<1>13. v.blocks = Put(w.blocks, p, b)
  <2>1. Put(Put(w.blocks, p, b1), p, b) = Put(w.blocks, p, b)
    BY DEF Put
  <2>. QED  BY <1>4, <1>9, <2>1
<1>14. /\ id \in DOMAIN v.objects /\ v.objects[id] = ao
       /\ DOMAIN v.objects = DOMAIN u.objects
       /\ \A i \in DOMAIN u.objects : i # id => v.objects[i] = u.objects[i]
  <2>1. v.objects = Put(u.objects, id, ao) /\ id \in DOMAIN u.objects
    BY <1>3, <1>8
  <2>2. PICK os : os = u.objects
    OBVIOUS
  <2>3. PICK vs : vs = Put(os, id, ao)
    OBVIOUS
  <2>4. /\ DOMAIN vs = DOMAIN os \cup {id} /\ vs[id] = ao
        /\ \A i \in DOMAIN os : i # id => vs[i] = os[i]
    <3>. HIDE DEF ao
    <3>. QED  BY <2>3 DEF Put
  <2>5. v.objects = vs
    BY <2>1, <2>2, <2>3
  <2>. HIDE DEF ao
  <2>. QED  BY <2>1, <2>2, <2>4, <2>5
<1>15. /\ DOMAIN v.objects \subseteq DOMAIN w.objects \cup {id}
       /\ \A i \in DOMAIN w.objects \ {id} : i \in DOMAIN v.objects /\ v.objects[i] = w.objects[i]
       /\ v.objects \in Partial(Ids, ActiveObject)
  BY <1>3, <1>8, <1>14, WorldParts DEF Step
<1>16. ASSUME stays = TRUE PROVE Step(w, v, id)
  <2>1. Derived(Fetched(w.blocks, p), b) /\ Touches(Fetched(w.blocks, p), b, id)
    BY <1>2, <1>11, <1>12
  <2>2. /\ v.objects[id].static_block = p
        /\ b.active[id] = v.objects[id].obj
    BY <1>8, <1>10, <1>14, <1>16
  <2>3. b \in MapBlock /\ p \in Positions /\ v \in Worlds
    BY <1>1, <1>8, <1>10
  <2>. QED  BY <1>13, <1>15, <2>1, <2>2, <2>3, ZenonT(40), PutStep
<1>17. Step(w, Unregister(v, id), id)
  <2>. DEFINE y == Unregister(v, id)
              os == Without(v.objects, {id})
  <2>1. os \in Partial(Ids, ActiveObject)
    BY <1>15, WithoutPartial
  <2>2. /\ DOMAIN os = DOMAIN v.objects \ {id}
        /\ \A i \in DOMAIN v.objects \ {id} : os[i] = v.objects[i]
    BY DEF Without
  <2>3. y \in Worlds /\ y.blocks = v.blocks /\ y.objects = os
    BY <1>8, <2>1 DEF Unregister, Worlds
  <2>. HIDE DEF y, os
  <2>4. Step(w, y, id)
    <3>1. Derived(Fetched(w.blocks, p), b) /\ Touches(Fetched(w.blocks, p), b, id)
      BY <1>2, <1>11, <1>12
    <3>2. b \in MapBlock /\ p \in Positions /\ y.blocks = Put(w.blocks, p, b)
      BY <1>1, <1>10, <1>13, <2>3
    <3>3. /\ id \notin DOMAIN os /\ DOMAIN os \subseteq DOMAIN w.objects \cup {id}
          /\ \A i \in DOMAIN w.objects \ {id} : i \in DOMAIN os /\ os[i] = w.objects[i]
      BY <1>15, <2>2
    <3>. QED  BY <2>1, <2>3, <3>1, <3>2, <3>3, PutStep
  <2>. QED  BY <2>4 DEF y
<1>. QED  BY <1>8, <1>14, <1>16, <1>17

-----------------------------------------------------------------------------
LEMMA DeactivateSteps ==
  ASSUME DiskOK, NEW w0 \in Worlds, Agree(w0), NEW id \in DOMAIN w0.objects,
         NEW force \in BOOLEAN, NEW data_changed \in BOOLEAN
  PROVE  Step(w0, Deactivate(w0, id, force, data_changed), id)
<1>. DEFINE ao == w0.objects[id]
            pending == ao.known /\ ~force
            w == [w0 EXCEPT !.blocks =
                    IF ao.static_exists THEN EmergeBlock(@, ao.static_block, FALSE) ELSE @]
            found == /\ ao.static_exists /\ ao.static_block \in DOMAIN w.blocks
                     /\ id \in DOMAIN w.blocks[ao.static_block].active
            same == found /\ ao.static_block = ao.pos /\ ~data_changed
            u == deleteStaticFromBlock(w, id, ~same)
            fits == HasRoom(EmergeBlock(u.blocks, ao.pos, TRUE), ao.pos)
            v == saveStaticToBlock(u, ao.pos, id, pending, ~same)
            lost == [v EXCEPT !.fate = Fated(@, {ao.obj}, "over the limit")]
            marked == [v.objects[id] EXCEPT !.gone = "deactivation"]
<1>1. ao \in ActiveObject /\ id \in Ids /\ ao.pos \in Positions
      /\ ao.static_block \in Positions
  BY WorldParts DEF ActiveObject
<1>2. Step(w0, w, id) /\ w.objects = w0.objects
  <2>1. CASE ao.static_exists
    <3>1. w = [w0 EXCEPT !.blocks = EmergeBlock(@, ao.static_block, FALSE)]
      BY <2>1
    <3>2. PICK y : y = [w0 EXCEPT !.blocks = EmergeBlock(@, ao.static_block, FALSE)]
      OBVIOUS
    <3>3. Step(w0, y, id) /\ y.objects = w0.objects
      BY <1>1, <3>2, EmergeSteps
    <3>. HIDE DEF w
    <3>. QED  BY <3>1, <3>2, <3>3
  <2>2. CASE ~ao.static_exists
    <3>1. w = w0
      BY <2>2 DEF Worlds
    <3>2. Step(w0, w0, id)
      BY StepReflexive DEF Agree
    <3>. HIDE DEF w
    <3>. QED  BY <3>1, <3>2
  <2>. QED  BY <2>1, <2>2
<1>3. w \in Worlds /\ Agree(w) /\ id \in DOMAIN w.objects /\ w.objects[id] = ao
  <2>. HIDE DEF w
  <2>. QED  BY <1>2, StepAgrees DEF Step
<1>4. /\ v \in Worlds /\ id \in DOMAIN v.objects /\ v.objects[id] \in ActiveObject
      /\ ~fits \/ pending => Step(w, v, id)
      /\ Step(w, Unregister(v, id), id)
  <2>. DEFINE p == ao.pos
              f == IF same THEN FALSE ELSE TRUE
              s == IF pending THEN TRUE ELSE FALSE
  <2>1. u = deleteStaticFromBlock(w, id, f)
    <3>1. (~same) = f
      BY Zenon
    <3>. HIDE DEF f, same, w
    <3>. QED  BY <3>1
  <2>2. v = saveStaticToBlock(u, p, id, s, f)
    <3>1. (~same) = f /\ pending = s
      BY Zenon
    <3>. HIDE DEF f, s, same, pending, w, u
    <3>. QED  BY <3>1
  <2>3. f \in BOOLEAN /\ s \in BOOLEAN /\ (pending => s = TRUE)
    OBVIOUS
  <2>4. f = TRUE \/ /\ f = FALSE /\ p = w.objects[id].static_block
                    /\ w.objects[id].static_exists /\ p \in DOMAIN w.blocks
                    /\ id \in DOMAIN w.blocks[p].active
    <3>. HIDE DEF w
    <3>. QED  BY <1>3
  <2>. DEFINE hasroom == HasRoom(EmergeBlock(u.blocks, p, TRUE), p)
  <2>5. fits = hasroom
    OBVIOUS
  <2>6. Step(w, u, id) /\ id \in DOMAIN u.objects /\ u \in Worlds /\ Agree(u)
    <3>. HIDE DEF u, w, f
    <3>1. Step(w, u, id) /\ id \in DOMAIN u.objects
      BY <1>3, <2>1, <2>3, DeleteStaticSteps
    <3>. QED  BY <1>3, <3>1, StepAgrees DEF Step
  <2>. HIDE DEF u, v, w, f, s, same, pending, fits, p
  <2>7. CASE f = TRUE \/ ~hasroom
    <3>1. /\ v \in Worlds /\ id \in DOMAIN v.objects /\ v.objects[id] \in ActiveObject
          /\ (s = TRUE \/ ~hasroom) => Step(u, v, id)
          /\ Step(u, Unregister(v, id), id)
      BY <1>1, <2>2, <2>3, <2>6, <2>7, SaveStaticSteps DEF p
    <3>. QED  BY <1>3, <2>3, <2>5, <2>6, <3>1, StepTransitive
  <2>8. CASE f = FALSE /\ hasroom
    BY <1>3, <2>1, <2>2, <2>3, <2>4, <2>5, <2>8, StoredBackSteps
  <2>. QED  BY <2>3, <2>7, <2>8
<1>5. Step(w, Deactivate(w0, id, force, data_changed), id)
  <2>1. Deactivate(w0, id, force, data_changed)
          = IF ~fits THEN Unregister(lost, id)
            ELSE IF pending THEN [v EXCEPT !.objects = Put(@, id, marked)]
            ELSE Unregister(v, id)
    BY Zenon DEF Deactivate
  <2>2. lost = [v EXCEPT !.fate = Fated(@, {ao.obj}, "over the limit")]
    OBVIOUS
  <2>3. /\ marked \in ActiveObject /\ marked.obj = v.objects[id].obj
        /\ marked.static_exists = v.objects[id].static_exists
        /\ marked.static_block = v.objects[id].static_block
    <3>. HIDE DEF v
    <3>. QED  BY <1>4 DEF ActiveObject
  <2>. HIDE DEF v, w, fits, pending, ao, marked, lost
  <2>4. CASE ~fits
    <3>1. Step(w, lost, id)
      <4>1. PICK S : S = {ao.obj}
        OBVIOUS
      <4>2. lost = [v EXCEPT !.fate = Fated(@, S, "over the limit")]
        BY <2>2, <4>1
      <4>3. Step(w, v, id)
        BY <1>4, <2>4
      <4>4. "over the limit" \in Fates
        BY DEF Fates
      <4>. QED  BY <4>2, <4>3, <4>4, StepFated
    <3>2. Step(w, Unregister(lost, id), id)
      BY <3>1, StepUnregisters
    <3>. QED  BY <2>1, <2>4, <3>2
  <2>5. CASE fits /\ pending
    <3>1. Step(w, v, id)
      BY <1>4, <2>5
    <3>2. Step(w, [v EXCEPT !.objects = Put(@, id, marked)], id)
      BY <1>1, <1>4, <2>3, <3>1, StepRewrites
    <3>. QED  BY <2>1, <2>5, <3>2
  <2>6. CASE fits /\ ~pending
    BY <1>4, <2>1, <2>6
  <2>. QED  BY <2>4, <2>5, <2>6
<1>. HIDE DEF w
<1>. QED  BY <1>2, <1>5, StepTransitive

LEMMA FarObjectSteps ==
  ASSUME DiskOK, NEW w \in Worlds, Agree(w), NEW id \in DOMAIN w.objects,
         NEW active, NEW data_changed \in BOOLEAN
  PROVE  Step(w, deactivateFarObject(w, id, active, data_changed), id)
<1>1. Step(w, w, id)
  BY StepReflexive DEF Agree
<1>2. Step(w, Resave(w, id), id)
  BY ResaveSteps
<1>3. Step(w, Deactivate(w, id, FALSE, data_changed), id)
  BY DeactivateSteps
<1>. QED  BY <1>1, <1>2, <1>3 DEF deactivateFarObject

(* StoreDeactivated: the entry goes to m_stored, or the block is loaded.    *)
Shelved(b0, b, id) ==
  /\ b \in MapBlock
  /\ b.nodes = b0.nodes /\ b.generated = b0.generated
  /\ b.stamp = b0.stamp /\ b.old = b0.old
  /\ b.modified = WriteNeeded
  /\ id \in DOMAIN b0.active
  /\ b.stored = [b0.stored EXCEPT ![b0.active[id]] = @ + 1]
  /\ b.active = Without(b0.active, {id})

HasShelved(w, v, id) ==
  LET p == w.objects[id].static_block
  IN  /\ v \in Worlds /\ v.fate = w.fate /\ v.objects = w.objects
      /\ \E b : /\ v.blocks = Put(w.blocks, p, b)
               /\ Shelved(Fetched(w.blocks, p), b, id)

LEMMA StoreHolds ==
  ASSUME DiskOK, NEW w \in Worlds, NEW id \in DOMAIN w.objects,
         NEW v, v = StoreDeactivated(w, id)
  PROVE  LET p == w.objects[id].static_block
         IN  \/ /\ v = [w EXCEPT !.blocks = EmergeBlock(w.blocks, p, FALSE)]
                /\ id \notin DOMAIN Fetched(w.blocks, p).active
             \/ p \in DOMAIN w.blocks /\ HasShelved(w, v, id)
<1>. DEFINE p == w.objects[id].static_block
            mem == EmergeBlock(w.blocks, p, FALSE)
            b0 == Fetched(w.blocks, p)
<1>1. id \in Ids /\ p \in Positions /\ w.blocks \in Memory
      /\ w.objects \in Partial(Ids, ActiveObject) /\ b0 \in MapBlock
  <2>1. id \in Ids /\ p \in Positions /\ w.blocks \in Memory
        /\ w.objects \in Partial(Ids, ActiveObject)
    BY WorldParts DEF ActiveObject
  <2>. QED  BY <2>1, FetchedType
<1>2. p \in DOMAIN mem => mem[p] = b0
  BY <1>1, EmergeKeeps
<1>3. p \notin DOMAIN mem => p \notin DOMAIN w.blocks
  BY DEF EmergeBlock
<1>4. CASE ~(p \in DOMAIN mem /\ id \in DOMAIN mem[p].active)
  <2>1. v = [w EXCEPT !.blocks = EmergeBlock(w.blocks, p, FALSE)]
    BY <1>4 DEF StoreDeactivated
  <2>2. id \notin DOMAIN b0.active
    <3>. HIDE DEF mem, b0
    <3>1. p \notin DOMAIN mem => DOMAIN b0.active = {}
      BY <1>3, FetchedActive DEF b0
    <3>. QED  BY <1>2, <1>4, <3>1
  <2>. QED  BY <2>1, <2>2
<1>5. CASE p \in DOMAIN mem /\ id \in DOMAIN mem[p].active
  <2>1. mem[p] = b0 /\ id \in DOMAIN b0.active
    BY <1>2, <1>5
  <2>. DEFINE m == Raised(b0, WriteNeeded)
              a == Without(b0.active, {id})
              s == [b0.stored EXCEPT ![b0.active[id]] = @ + 1]
              b == [m EXCEPT !.stored[b0.active[id]] = @ + 1, !.active = Without(@, {id})]
  <2>2. v = [w EXCEPT !.blocks = Put(mem, p, b)]
    BY <1>5, <2>1 DEF StoreDeactivated
  <2>3. Put(mem, p, b) = Put(w.blocks, p, b)
    <3>. HIDE DEF b
    <3>. QED  BY PutFetched
  <2>4. /\ m \in MapBlock /\ m = [b0 EXCEPT !.modified = m.modified]
        /\ m.modified = WriteNeeded
    <3>1. m = Mark(b0, TRUE)
      BY DEF Mark
    <3>. HIDE DEF m, b0
    <3>. QED  BY <1>1, <3>1, Marks
  <2>5. m.stored = b0.stored /\ m.active = b0.active /\ m.nodes = b0.nodes
        /\ m.generated = b0.generated /\ m.stamp = b0.stamp /\ m.old = b0.old
    <3>. HIDE DEF m, b0
    <3>. QED  BY <1>1, <2>4 DEF MapBlock
  <2>6. b = [m EXCEPT !.stored = s, !.active = a]
    <3>. HIDE DEF m, b0
    <3>. QED  BY <2>4, <2>5 DEF MapBlock
  <2>7. a \in Partial(Ids, Objects) /\ s \in Stores
    <3>1. b0.active \in Partial(Ids, Objects) /\ b0.stored \in [Objects -> Nat]
      BY <1>1 DEF MapBlock, Stores
    <3>. HIDE DEF b0, mem
    <3>3. b0.active[id] \in Objects
      BY <2>1, <3>1, PartialMember
    <3>4. s \in [Objects -> Nat]
      BY <3>1, <3>3
    <3>5. a \in Partial(Ids, Objects)
      BY <3>1, ActiveOfWithout
    <3>. QED  BY <3>4, <3>5 DEF Stores
  <2>8. Shelved(b0, b, id)
    <3>1. /\ b \in MapBlock /\ b.active = a /\ b.stored = s /\ b.nodes = b0.nodes
          /\ b.generated = b0.generated /\ b.modified = WriteNeeded
          /\ b.stamp = b0.stamp /\ b.old = b0.old
      <4>. HIDE DEF m, b, a, s, b0
      <4>. QED  BY <2>4, <2>5, <2>6, <2>7 DEF MapBlock
    <3>. HIDE DEF b, b0
    <3>. QED  BY <2>1, <3>1 DEF Shelved
  <2>9. v \in Worlds /\ v.blocks = Put(w.blocks, p, b) /\ v.objects = w.objects
        /\ v.fate = w.fate
    <3>1. PICK bs : bs = Put(w.blocks, p, b)
      OBVIOUS
    <3>2. v = [w EXCEPT !.blocks = bs]
      BY <2>2, <2>3, <3>1
    <3>3. b \in MapBlock
      BY <2>8 DEF Shelved
    <3>. HIDE DEF b, p
    <3>4. bs \in Memory
      BY <1>1, <3>1, <3>3, PutPartial DEF Memory
    <3>. QED  BY <3>1, <3>2, <3>4 DEF Worlds
  <2>10. p \in DOMAIN w.blocks
    <3>. HIDE DEF p
    <3>. QED  BY <2>1, FetchedActive
  <2>11. HasShelved(w, v, id)
    <3>. HIDE DEF b
    <3>. QED  BY <2>8, <2>9 DEF HasShelved
  <2>. QED  BY <2>10, <2>11
<1>. QED  BY <1>4, <1>5

LEMMA StoreDeactivatedSteps ==
  ASSUME DiskOK, NEW w \in Worlds, Agree(w), NEW id \in DOMAIN w.objects
  PROVE  Step(w, StoreDeactivated(w, id), id)
<1>. DEFINE p == w.objects[id].static_block
            b0 == Fetched(w.blocks, p)
<1>1. PICK v : v = StoreDeactivated(w, id)
  OBVIOUS
<1>2. id \in Ids /\ p \in Positions /\ w.objects \in Partial(Ids, ActiveObject)
  BY WorldParts DEF ActiveObject
<1>3. CASE v = [w EXCEPT !.blocks = EmergeBlock(w.blocks, p, FALSE)]
  <2>1. FALSE \in BOOLEAN
    OBVIOUS
  <2>2. Step(w, v, id)
    BY <1>2, <1>3, <2>1, EmergeSteps
  <2>. QED  BY <1>1, <2>2
<1>4. CASE HasShelved(w, v, id)
  <2>1. /\ v \in Worlds /\ v.objects = w.objects
        /\ \E b : v.blocks = Put(w.blocks, p, b) /\ Shelved(b0, b, id)
    BY <1>4 DEF HasShelved
  <2>2. PICK b : v.blocks = Put(w.blocks, p, b) /\ Shelved(b0, b, id)
    BY <2>1
  <2>3. /\ b \in MapBlock /\ Derived(b0, b) /\ Touches(b0, b, id)
        /\ id \notin DOMAIN b.active
    BY <2>2 DEF Shelved, Derived, Touches, Without
  <2>4. Step(w, v, id)
    <3>1. v.objects[id].static_block = p
      BY <2>1
    <3>. HIDE DEF p
    <3>. QED  BY <1>2, <2>1, <2>2, <2>3, <3>1, PutStep DEF b0
  <2>. QED  BY <1>1, <2>4
<1>. QED  BY <1>1, <1>3, <1>4, StoreHolds

-----------------------------------------------------------------------------
LEMMA RemoveRemovedSteps ==
  ASSUME DiskOK, NEW w \in Worlds, Agree(w), NEW id \in DOMAIN w.objects,
         w.objects[id].gone # "no"
  PROVE  Step(w, removeRemovedObject(w, id), id)
<1>. DEFINE ao == w.objects[id]
            bare == deleteStaticFromBlock(w, id, TRUE)
            stored == StoreDeactivated(w, id)
<1>1. ao.gone \in {"removal", "deactivation"} /\ ao.known \in BOOLEAN
  BY WorldParts DEF ActiveObject
<1>2. Step(w, bare, id) /\ Step(w, stored, id) /\ Step(w, w, id)
  BY DeleteStaticSteps, StoreDeactivatedSteps, StepReflexive DEF Agree
<1>3. /\ Step(w, Unregister(bare, id), id) /\ Step(w, Unregister(stored, id), id)
      /\ Step(w, Unregister(w, id), id)
  <2>. HIDE DEF bare, stored
  <2>. QED  BY <1>2, StepUnregisters
<1>. DEFINE v == removeRemovedObject(w, id)
<1>4. \/ v = bare \/ v = w \/ v = Unregister(bare, id)
      \/ v = Unregister(stored, id) \/ v = Unregister(w, id)
  BY <1>1 DEF removeRemovedObject
<1>. HIDE DEF v, bare, stored
<1>5. Step(w, v, id)
  BY <1>2, <1>3, <1>4
<1>. QED  BY <1>5 DEF v

LEMMA ClearObjectSteps ==
  ASSUME DiskOK, NEW w \in Worlds, Agree(w), NEW id \in DOMAIN w.objects
  PROVE  /\ Step(w, ClearObject(w, id), id)
         /\ DOMAIN ClearObject(w, id).blocks \subseteq DOMAIN w.blocks
<1>. DEFINE p == w.objects[id].static_block
            u == deleteStaticFromBlock(w, id, TRUE)
            bare == IF p \in DOMAIN w.blocks THEN u ELSE w
            v == ClearObject(w, id)
<1>1. /\ Step(w, bare, id) /\ id \in DOMAIN bare.objects
      /\ bare.objects[id] \in ActiveObject
      /\ DOMAIN bare.blocks \subseteq DOMAIN w.blocks
  <2>1. CASE p \in DOMAIN w.blocks
    <3>1. Step(w, u, id) /\ id \in DOMAIN u.objects /\ u.objects[id] \in ActiveObject
      BY DeleteStaticSteps
    <3>2. DOMAIN u.blocks = DOMAIN w.blocks
      <4>. DEFINE c == [Mark(w.blocks[p], TRUE) EXCEPT !.active = Without(@, {id})]
      <4>1. EmergeBlock(w.blocks, p, FALSE) = w.blocks
        BY <2>1 DEF EmergeBlock
      <4>2. \/ u = w
            \/ u = [w EXCEPT !.blocks = Put(w.blocks, p, c),
                       !.objects = Put(@, id, [w.objects[id] EXCEPT !.static_exists = FALSE])]
        BY <4>1 DEF deleteStaticFromBlock
      <4>3. PICK bs : bs = Put(w.blocks, p, c)
        OBVIOUS
      <4>4. DOMAIN bs = DOMAIN w.blocks
        <5>. HIDE DEF c
        <5>. QED  BY <2>1, <4>3 DEF Put
      <4>5. u = w \/ u.blocks = bs
        <5>1. PICK os : os = Put(w.objects, id, [w.objects[id] EXCEPT !.static_exists = FALSE])
          OBVIOUS
        <5>2. u = w \/ u = [w EXCEPT !.blocks = bs, !.objects = os]
          BY <4>2, <4>3, <5>1
        <5>. HIDE DEF u
        <5>. QED  BY <5>2 DEF Worlds
      <4>. HIDE DEF u
      <4>. QED  BY <4>4, <4>5
    <3>. HIDE DEF u
    <3>. QED  BY <2>1, <3>1, <3>2
  <2>2. CASE p \notin DOMAIN w.blocks
    <3>1. Step(w, w, id) /\ w.objects[id] \in ActiveObject
      BY StepReflexive, WorldParts DEF Agree
    <3>. QED  BY <2>2, <3>1
  <2>. QED  BY <2>1, <2>2
<1>2. bare \in Worlds /\ bare.objects \in Partial(Ids, ActiveObject) /\ id \in Ids
  <2>1. bare \in Worlds
    BY <1>1 DEF Step
  <2>. HIDE DEF bare
  <2>. QED  BY <2>1, WorldParts
<1>. DEFINE ao == [bare.objects[id] EXCEPT !.gone = "removal"]
            x == [bare EXCEPT !.objects = Put(@, id, ao)]
<1>3. v = x \/ v = Unregister(bare, id)
  <2>1. v = IF bare.objects[id].known
            THEN [bare EXCEPT !.objects[id].gone = "removal"]
            ELSE Unregister(bare, id)
    BY Zenon DEF ClearObject
  <2>. HIDE DEF bare, v
  <2>2. bare.objects = [i \in DOMAIN bare.objects |-> bare.objects[i]]
    BY <1>2, PartialMember
  <2>3. [bare.objects EXCEPT ![id].gone = "removal"] = Put(bare.objects, id, ao)
    BY <1>1, <2>2 DEF Put
  <2>4. [bare EXCEPT !.objects[id].gone = "removal"]
          = [bare EXCEPT !.objects = [bare.objects EXCEPT ![id].gone = "removal"]]
    OBVIOUS
  <2>. QED  BY <2>1, <2>3, <2>4
<1>4. /\ ao \in ActiveObject /\ ao.obj = bare.objects[id].obj
      /\ ao.static_exists = bare.objects[id].static_exists
      /\ ao.static_block = bare.objects[id].static_block
  <2>. HIDE DEF bare
  <2>. QED  BY <1>1 DEF ActiveObject
<1>5. Step(w, x, id) /\ Step(w, Unregister(bare, id), id)
  <2>. HIDE DEF bare, ao
  <2>. QED  BY <1>1, <1>2, <1>4, StepRewrites, StepUnregisters
<1>6. x.blocks = bare.blocks /\ Unregister(bare, id).blocks = bare.blocks
  <2>. HIDE DEF bare, ao
  <2>. QED  BY <1>2 DEF Worlds, Unregister
<1>. HIDE DEF bare, v, x
<1>7. Step(w, v, id) /\ DOMAIN v.blocks \subseteq DOMAIN w.blocks
  BY <1>1, <1>3, <1>5, <1>6
<1>. QED  BY <1>7 DEF v

-----------------------------------------------------------------------------
(* A walk over the objects: what the loops may have done to the world      *)
(* after the objects of s; the others are as they were.                    *)
Walked(w, v, D) ==
  /\ v \in Worlds /\ Agree(v)
  /\ Keeps(w.blocks, v.blocks) /\ DOMAIN v.blocks \subseteq D

Walk(w, seq, n, D) ==
  [s \in SUBSET (1..n) |->
     {v \in Worlds : /\ Walked(w, v, D)
                     /\ \A j \in (1..n) \ s : /\ seq[j] \in DOMAIN v.objects
                                             /\ v.objects[seq[j]] = w.objects[seq[j]]}]

Order(seq, n, S) ==
  /\ n \in Nat /\ seq \in [1..n -> S]
  /\ \A i, j \in 1..n : seq[i] = seq[j] => i = j

(* At the start, at the end, and one object further.                       *)
LEMMA WalkEnds ==
  ASSUME NEW w \in Worlds, Agree(w), NEW n, NEW D, DOMAIN w.blocks \subseteq D,
         NEW seq, Order(seq, n, DOMAIN w.objects),
         NEW V, V = Walk(w, seq, n, D)
  PROVE  /\ w \in V[{}]
         /\ \A v \in V[1..n] : Walked(w, v, D)
         /\ \A s \in SUBSET (1..n) : V[s] \subseteq Worlds
<1>1. Walked(w, w, D)
  BY WorldParts, KeepsReflexive DEF Walked
<1>2. \A i \in 1..n : seq[i] \in DOMAIN w.objects
  BY DEF Order
<1>. QED  BY <1>1, <1>2 DEF Walk, Walked

LEMMA WalkStep ==
  ASSUME DiskOK, NEW w \in Worlds, Agree(w), NEW n, NEW D,
         NEW seq, Order(seq, n, DOMAIN w.objects),
         NEW V, V = Walk(w, seq, n, D),
         NEW s \in SUBSET (1..n), NEW k \in s, NEW v \in V[s \ {k}],
         NEW u, Step(v, u, seq[k]), DOMAIN u.blocks \subseteq D
  PROVE  u \in V[s]
<1>1. \A i, j \in 1..n : seq[i] = seq[j] => i = j
  BY DEF Order
<1>2. /\ Walked(w, v, D)
      /\ \A j \in (1..n) \ (s \ {k}) :
           seq[j] \in DOMAIN v.objects /\ v.objects[seq[j]] = w.objects[seq[j]]
  BY DEF Walk, Walked
<1>3. v \in Worlds /\ u \in Worlds /\ Agree(v) /\ Keeps(w.blocks, v.blocks)
      /\ Keeps(v.blocks, u.blocks)
  BY <1>2 DEF Walked, Step
<1>4. Agree(u)
  BY <1>3, StepAgrees
<1>5. Keeps(w.blocks, u.blocks)
  <2>1. w.blocks \in Memory /\ v.blocks \in Memory /\ u.blocks \in Memory
    BY <1>3, WorldParts
  <2>. QED  BY <1>3, <2>1, KeepsTransitive
<1>6. ASSUME NEW j \in (1..n) \ s
      PROVE  seq[j] \in DOMAIN u.objects /\ u.objects[seq[j]] = w.objects[seq[j]]
  <2>1. seq[j] # seq[k]
    BY <1>1
  <2>2. seq[j] \in DOMAIN v.objects /\ v.objects[seq[j]] = w.objects[seq[j]]
    BY <1>2
  <2>. QED  BY <2>1, <2>2 DEF Step
<1>7. Walked(w, u, D)
  BY <1>3, <1>4, <1>5 DEF Walked
<1>. QED  BY <1>3, <1>6, <1>7 DEF Walk

-----------------------------------------------------------------------------
(* The loops over objects. *)
LEMMA OrdersAreOrders ==
  ASSUME NEW objects \in Partial(Ids, ActiveObject),
         NEW seq \in SetToSeqs(DOMAIN objects)
  PROVE  Order(seq, Cardinality(DOMAIN objects), DOMAIN objects)
<1>1. Cardinality(DOMAIN objects) \in Nat
  BY PartialMember, FS_CardinalityType
<1>. QED  BY <1>1 DEF SetToSeqs, Order

FarDone(w, near, changed, seq) ==
  FoldLeft(LAMBDA v, id : deactivateFarObject(v, id, near, id \in changed), w, seq)

LEMMA FarInduction ==
  ASSUME NEW w, NEW seq, NEW n \in Nat, DOMAIN seq = 1..n,
         NEW near, NEW changed,
         NEW V, \A s \in SUBSET (1..n) : V[s] \subseteq Worlds, w \in V[{}],
         \A s \in SUBSET (1..n) : s # {} => \A v \in V[s \ {Max(s)}] :
            deactivateFarObject(v, seq[Max(s)], near, seq[Max(s)] \in changed) \in V[s]
  PROVE  FarDone(w, near, changed, seq) \in V[1..n]
<1>. DEFINE Op(v, id) == deactivateFarObject(v, id, near, id \in changed)
            Body(it) == [s \in SUBSET (1..n) |->
                           IF s = {} THEN w ELSE Op(it[s \ {Max(s)}], seq[Max(s)])]
            it == CHOOSE it : it = Body(it)
            pick == [s \in SUBSET (1..n) |-> Max(s)]
            G == [s \in SUBSET (1..n) |-> [v \in Worlds |-> Op(v, seq[Max(s)])]]
<1>1. /\ IsFiniteSet(1..n)
      /\ \A s \in SUBSET (1..n) : s # {} => Max(s) \in s
  BY IndexSets
<1>2. ASSUME NEW s \in SUBSET (1..n), s # {}, NEW v \in V[s \ {Max(s)}]
      PROVE  v \in Worlds /\ G[s][v] = Op(v, seq[Max(s)]) /\ G[s][v] \in V[s]
  <2>1. v \in Worlds
    BY <1>2, s \ {Max(s)} \in SUBSET (1..n)
  <2>2. Op(v, seq[Max(s)]) \in V[s]
    BY <1>2
  <2>. HIDE DEF Op
  <2>. QED  BY <2>1, <2>2
<1>3. FoldSteps(1..n, pick, V, G)
  <2>. HIDE DEF G
  <2>. QED  BY <1>1, <1>2 DEF FoldSteps
<1>4. it = Body(it)
  <2>1. PICK f : IsFold(f, 1..n, pick, G, w) /\ \A s \in SUBSET (1..n) : f[s] \in V[s]
    <3>. HIDE DEF pick, G
    <3>. QED  BY <1>1, <1>3, FoldExists, Zenon
  <2>2. \A s \in SUBSET (1..n) : f[s] \in Worlds /\ s \ {Max(s)} \in SUBSET (1..n)
    BY <2>1
  <2>. HIDE DEF Op
  <2>3. f = Body(f)
    BY <2>1, <2>2 DEF IsFold
  <2>. QED  BY <2>3
<1>5. it[1..n] \in V[1..n]
  <2>. HIDE DEF it
  <2>1. Follows(it, 1..n, pick, V, G, w)
    <3>1. \A s \in SUBSET (1..n) : s \ {Max(s)} \in SUBSET (1..n)
      OBVIOUS
    <3>2. /\ it[{}] = w
          /\ \A s \in SUBSET (1..n) : s # {} => it[s] = Op(it[s \ {Max(s)}], seq[Max(s)])
      <4>. HIDE DEF Op
      <4>. QED  BY <1>4
    <3>. HIDE DEF Op, G
    <3>. QED  BY <1>2, <3>1, <3>2 DEF Follows
  <2>. HIDE DEF pick, G
  <2>. QED  BY <1>1, <1>3, <2>1, FoldReaches, Zenon
<1>. QED  BY <1>1, <1>5 DEF FarDone, FoldLeft, MapThenFoldSet

LEMMA FarLoop ==
  ASSUME DiskOK, NEW w \in Worlds, Agree(w), NEW seq, NEW n,
         Order(seq, n, DOMAIN w.objects), NEW near, NEW changed
  PROVE  Walked(w, FarDone(w, near, changed, seq), Positions)
<1>. DEFINE Op(v, id) == deactivateFarObject(v, id, near, id \in changed)
            V == Walk(w, seq, n, Positions)
<1>1. /\ n \in Nat /\ DOMAIN seq = 1..n
      /\ \A s \in SUBSET (1..n) : s # {} => Max(s) \in s
      /\ \A i \in 1..n : seq[i] \in DOMAIN w.objects
  BY IndexSets DEF Order
<1>2. DOMAIN w.blocks \subseteq Positions
  BY WorldParts
<1>3. /\ w \in V[{}] /\ \A v \in V[1..n] : Walked(w, v, Positions)
      /\ \A s \in SUBSET (1..n) : V[s] \subseteq Worlds
  BY <1>2, WalkEnds
<1>4. ASSUME NEW s \in SUBSET (1..n), s # {}, NEW v \in V[s \ {Max(s)}]
      PROVE  Op(v, seq[Max(s)]) \in V[s]
  <2>. DEFINE id == seq[Max(s)]
  <2>1. Max(s) \in s /\ s \ {Max(s)} \in SUBSET (1..n) /\ Max(s) \in 1..n
    BY <1>1, <1>4
  <2>2. /\ v \in Worlds /\ Agree(v) /\ id \in DOMAIN v.objects
    BY <1>1, <2>1 DEF Walk, Walked
  <2>. HIDE DEF id, V
  <2>3. Step(v, Op(v, id), id)
    BY <2>2, FarObjectSteps, (id \in changed) \in BOOLEAN
  <2>. HIDE DEF Op
  <2>4. DOMAIN Op(v, id).blocks \subseteq Positions
    BY <2>3, WorldParts DEF Step
  <2>. QED  BY <2>1, <2>3, <2>4, WalkStep DEF id, V
<1>5. FarDone(w, near, changed, seq) \in V[1..n]
  <2>. HIDE DEF V
  <2>. QED  BY <1>1, <1>3, <1>4, FarInduction
<1>. QED  BY <1>3, <1>5

-----------------------------------------------------------------------------
LEMMA GoneInduction ==
  ASSUME NEW w, NEW seq, NEW n \in Nat, DOMAIN seq = 1..n,
         NEW V, \A s \in SUBSET (1..n) : V[s] \subseteq Worlds, w \in V[{}],
         \A s \in SUBSET (1..n) : s # {} => \A v \in V[s \ {Max(s)}] :
            removeRemovedObject(v, seq[Max(s)]) \in V[s]
  PROVE  FoldLeft(removeRemovedObject, w, seq) \in V[1..n]
<1>. DEFINE Op(v, id) == removeRemovedObject(v, id)
            Body(it) == [s \in SUBSET (1..n) |->
                           IF s = {} THEN w ELSE Op(it[s \ {Max(s)}], seq[Max(s)])]
            it == CHOOSE it : it = Body(it)
            pick == [s \in SUBSET (1..n) |-> Max(s)]
            G == [s \in SUBSET (1..n) |-> [v \in Worlds |-> Op(v, seq[Max(s)])]]
<1>1. /\ IsFiniteSet(1..n)
      /\ \A s \in SUBSET (1..n) : s # {} => Max(s) \in s
  BY IndexSets
<1>2. ASSUME NEW s \in SUBSET (1..n), s # {}, NEW v \in V[s \ {Max(s)}]
      PROVE  v \in Worlds /\ G[s][v] = Op(v, seq[Max(s)]) /\ G[s][v] \in V[s]
  <2>1. v \in Worlds
    BY <1>2, s \ {Max(s)} \in SUBSET (1..n)
  <2>2. Op(v, seq[Max(s)]) \in V[s]
    BY <1>2
  <2>. HIDE DEF Op
  <2>. QED  BY <2>1, <2>2
<1>3. FoldSteps(1..n, pick, V, G)
  <2>. HIDE DEF G
  <2>. QED  BY <1>1, <1>2 DEF FoldSteps
<1>4. it = Body(it)
  <2>1. PICK f : IsFold(f, 1..n, pick, G, w) /\ \A s \in SUBSET (1..n) : f[s] \in V[s]
    <3>. HIDE DEF pick, G
    <3>. QED  BY <1>1, <1>3, FoldExists, Zenon
  <2>2. \A s \in SUBSET (1..n) : f[s] \in Worlds /\ s \ {Max(s)} \in SUBSET (1..n)
    BY <2>1
  <2>. HIDE DEF Op
  <2>3. f = Body(f)
    BY <2>1, <2>2 DEF IsFold
  <2>. QED  BY <2>3
<1>5. it[1..n] \in V[1..n]
  <2>. HIDE DEF it
  <2>1. Follows(it, 1..n, pick, V, G, w)
    <3>1. \A s \in SUBSET (1..n) : s \ {Max(s)} \in SUBSET (1..n)
      OBVIOUS
    <3>2. /\ it[{}] = w
          /\ \A s \in SUBSET (1..n) : s # {} => it[s] = Op(it[s \ {Max(s)}], seq[Max(s)])
      <4>. HIDE DEF Op
      <4>. QED  BY <1>4
    <3>. HIDE DEF Op, G
    <3>. QED  BY <1>2, <3>1, <3>2 DEF Follows
  <2>. HIDE DEF pick, G
  <2>. QED  BY <1>1, <1>3, <2>1, FoldReaches, Zenon
<1>. QED  BY <1>1, <1>5 DEF FoldLeft, MapThenFoldSet

LEMMA GoneLoop ==
  ASSUME DiskOK, NEW w \in Worlds, Agree(w), NEW seq, NEW n,
         Order(seq, n, DOMAIN w.objects),
         \A i \in 1..n : w.objects[seq[i]].gone # "no"
  PROVE  Walked(w, FoldLeft(removeRemovedObject, w, seq), Positions)
<1>. DEFINE Op(v, id) == removeRemovedObject(v, id)
            V == Walk(w, seq, n, Positions)
<1>1. /\ n \in Nat /\ DOMAIN seq = 1..n
      /\ \A s \in SUBSET (1..n) : s # {} => Max(s) \in s
      /\ \A i \in 1..n : seq[i] \in DOMAIN w.objects
  BY IndexSets DEF Order
<1>2. DOMAIN w.blocks \subseteq Positions
  BY WorldParts
<1>3. /\ w \in V[{}] /\ \A v \in V[1..n] : Walked(w, v, Positions)
      /\ \A s \in SUBSET (1..n) : V[s] \subseteq Worlds
  BY <1>2, WalkEnds
<1>4. ASSUME NEW s \in SUBSET (1..n), s # {}, NEW v \in V[s \ {Max(s)}]
      PROVE  Op(v, seq[Max(s)]) \in V[s]
  <2>. DEFINE id == seq[Max(s)]
  <2>1. Max(s) \in s /\ s \ {Max(s)} \in SUBSET (1..n) /\ Max(s) \in 1..n
    BY <1>1, <1>4
  <2>2. /\ v \in Worlds /\ Agree(v) /\ id \in DOMAIN v.objects
        /\ v.objects[id].gone # "no"
    BY <1>1, <2>1 DEF Walk, Walked
  <2>. HIDE DEF id, V
  <2>3. Step(v, Op(v, id), id)
    BY <2>2, RemoveRemovedSteps
  <2>. HIDE DEF Op
  <2>4. DOMAIN Op(v, id).blocks \subseteq Positions
    BY <2>3, WorldParts DEF Step
  <2>. QED  BY <2>1, <2>3, <2>4, WalkStep DEF id, V
<1>5. FoldLeft(removeRemovedObject, w, seq) \in V[1..n]
  <2>. HIDE DEF V
  <2>. QED  BY <1>1, <1>3, <1>4, GoneInduction
<1>. QED  BY <1>3, <1>5

LEMMA ClearInduction ==
  ASSUME NEW w, NEW seq, NEW n \in Nat, DOMAIN seq = 1..n,
         NEW V, \A s \in SUBSET (1..n) : V[s] \subseteq Worlds, w \in V[{}],
         \A s \in SUBSET (1..n) : s # {} => \A v \in V[s \ {Max(s)}] :
            ClearObject(v, seq[Max(s)]) \in V[s]
  PROVE  FoldLeft(ClearObject, w, seq) \in V[1..n]
<1>. DEFINE Op(v, id) == ClearObject(v, id)
            Body(it) == [s \in SUBSET (1..n) |->
                           IF s = {} THEN w ELSE Op(it[s \ {Max(s)}], seq[Max(s)])]
            it == CHOOSE it : it = Body(it)
            pick == [s \in SUBSET (1..n) |-> Max(s)]
            G == [s \in SUBSET (1..n) |-> [v \in Worlds |-> Op(v, seq[Max(s)])]]
<1>1. /\ IsFiniteSet(1..n)
      /\ \A s \in SUBSET (1..n) : s # {} => Max(s) \in s
  BY IndexSets
<1>2. ASSUME NEW s \in SUBSET (1..n), s # {}, NEW v \in V[s \ {Max(s)}]
      PROVE  v \in Worlds /\ G[s][v] = Op(v, seq[Max(s)]) /\ G[s][v] \in V[s]
  <2>1. v \in Worlds
    BY <1>2, s \ {Max(s)} \in SUBSET (1..n)
  <2>2. Op(v, seq[Max(s)]) \in V[s]
    BY <1>2
  <2>. HIDE DEF Op
  <2>. QED  BY <2>1, <2>2
<1>3. FoldSteps(1..n, pick, V, G)
  <2>. HIDE DEF G
  <2>. QED  BY <1>1, <1>2 DEF FoldSteps
<1>4. it = Body(it)
  <2>1. PICK f : IsFold(f, 1..n, pick, G, w) /\ \A s \in SUBSET (1..n) : f[s] \in V[s]
    <3>. HIDE DEF pick, G
    <3>. QED  BY <1>1, <1>3, FoldExists, Zenon
  <2>2. \A s \in SUBSET (1..n) : f[s] \in Worlds /\ s \ {Max(s)} \in SUBSET (1..n)
    BY <2>1
  <2>. HIDE DEF Op
  <2>3. f = Body(f)
    BY <2>1, <2>2 DEF IsFold
  <2>. QED  BY <2>3
<1>5. it[1..n] \in V[1..n]
  <2>. HIDE DEF it
  <2>1. Follows(it, 1..n, pick, V, G, w)
    <3>1. \A s \in SUBSET (1..n) : s \ {Max(s)} \in SUBSET (1..n)
      OBVIOUS
    <3>2. /\ it[{}] = w
          /\ \A s \in SUBSET (1..n) : s # {} => it[s] = Op(it[s \ {Max(s)}], seq[Max(s)])
      <4>. HIDE DEF Op
      <4>. QED  BY <1>4
    <3>. HIDE DEF Op, G
    <3>. QED  BY <1>2, <3>1, <3>2 DEF Follows
  <2>. HIDE DEF pick, G
  <2>. QED  BY <1>1, <1>3, <2>1, FoldReaches, Zenon
<1>. QED  BY <1>1, <1>5 DEF FoldLeft, MapThenFoldSet

LEMMA ClearLoop ==
  ASSUME DiskOK, NEW w \in Worlds, Agree(w), NEW seq, NEW n,
         Order(seq, n, DOMAIN w.objects)
  PROVE  Walked(w, FoldLeft(ClearObject, w, seq), DOMAIN w.blocks)
<1>. DEFINE Op(v, id) == ClearObject(v, id)
            V == Walk(w, seq, n, DOMAIN w.blocks)
<1>1. /\ n \in Nat /\ DOMAIN seq = 1..n
      /\ \A s \in SUBSET (1..n) : s # {} => Max(s) \in s
      /\ \A i \in 1..n : seq[i] \in DOMAIN w.objects
  BY IndexSets DEF Order
<1>2. DOMAIN w.blocks \subseteq DOMAIN w.blocks
  BY WorldParts
<1>3. /\ w \in V[{}] /\ \A v \in V[1..n] : Walked(w, v, DOMAIN w.blocks)
      /\ \A s \in SUBSET (1..n) : V[s] \subseteq Worlds
  BY <1>2, WalkEnds
<1>4. ASSUME NEW s \in SUBSET (1..n), s # {}, NEW v \in V[s \ {Max(s)}]
      PROVE  Op(v, seq[Max(s)]) \in V[s]
  <2>. DEFINE id == seq[Max(s)]
  <2>1. Max(s) \in s /\ s \ {Max(s)} \in SUBSET (1..n) /\ Max(s) \in 1..n
    BY <1>1, <1>4
  <2>2. /\ v \in Worlds /\ Agree(v) /\ id \in DOMAIN v.objects
        /\ DOMAIN v.blocks \subseteq DOMAIN w.blocks
    BY <1>1, <2>1 DEF Walk, Walked
  <2>. HIDE DEF id, V
  <2>3. Step(v, Op(v, id), id) /\ DOMAIN Op(v, id).blocks \subseteq DOMAIN v.blocks
    BY <2>2, ClearObjectSteps
  <2>. HIDE DEF Op
  <2>4. DOMAIN Op(v, id).blocks \subseteq DOMAIN w.blocks
    BY <2>2, <2>3
  <2>. QED  BY <2>1, <2>3, <2>4, WalkStep DEF id, V
<1>5. FoldLeft(ClearObject, w, seq) \in V[1..n]
  <2>. HIDE DEF V
  <2>. QED  BY <1>1, <1>3, <1>4, ClearInduction
<1>. QED  BY <1>3, <1>5

ShutdownDone(w, seq, changed) ==
  FoldLeft(LAMBDA v, id : Deactivate(v, id, TRUE, id \in changed), w, seq)

LEMMA ShutdownInduction ==
  ASSUME NEW w, NEW seq, NEW changed, NEW n \in Nat, DOMAIN seq = 1..n,
         NEW V, \A s \in SUBSET (1..n) : V[s] \subseteq Worlds, w \in V[{}],
         \A s \in SUBSET (1..n) : s # {} => \A v \in V[s \ {Max(s)}] :
            Deactivate(v, seq[Max(s)], TRUE, seq[Max(s)] \in changed) \in V[s]
  PROVE  ShutdownDone(w, seq, changed) \in V[1..n]
<1>. DEFINE Op(v, id) == Deactivate(v, id, TRUE, id \in changed)
            Body(it) == [s \in SUBSET (1..n) |->
                           IF s = {} THEN w ELSE Op(it[s \ {Max(s)}], seq[Max(s)])]
            it == CHOOSE it : it = Body(it)
            pick == [s \in SUBSET (1..n) |-> Max(s)]
            G == [s \in SUBSET (1..n) |-> [v \in Worlds |-> Op(v, seq[Max(s)])]]
<1>1. /\ IsFiniteSet(1..n)
      /\ \A s \in SUBSET (1..n) : s # {} => Max(s) \in s
  BY IndexSets
<1>2. ASSUME NEW s \in SUBSET (1..n), s # {}, NEW v \in V[s \ {Max(s)}]
      PROVE  v \in Worlds /\ G[s][v] = Op(v, seq[Max(s)]) /\ G[s][v] \in V[s]
  <2>1. v \in Worlds
    BY <1>2, s \ {Max(s)} \in SUBSET (1..n)
  <2>2. Op(v, seq[Max(s)]) \in V[s]
    BY <1>2
  <2>. HIDE DEF Op
  <2>. QED  BY <2>1, <2>2
<1>3. FoldSteps(1..n, pick, V, G)
  <2>. HIDE DEF G
  <2>. QED  BY <1>1, <1>2 DEF FoldSteps
<1>4. it = Body(it)
  <2>1. PICK f : IsFold(f, 1..n, pick, G, w) /\ \A s \in SUBSET (1..n) : f[s] \in V[s]
    <3>. HIDE DEF pick, G
    <3>. QED  BY <1>1, <1>3, FoldExists, Zenon
  <2>2. \A s \in SUBSET (1..n) : f[s] \in Worlds /\ s \ {Max(s)} \in SUBSET (1..n)
    BY <2>1
  <2>. HIDE DEF Op
  <2>3. f = Body(f)
    BY <2>1, <2>2 DEF IsFold
  <2>. QED  BY <2>3
<1>5. it[1..n] \in V[1..n]
  <2>. HIDE DEF it
  <2>1. Follows(it, 1..n, pick, V, G, w)
    <3>1. \A s \in SUBSET (1..n) : s \ {Max(s)} \in SUBSET (1..n)
      OBVIOUS
    <3>2. /\ it[{}] = w
          /\ \A s \in SUBSET (1..n) : s # {} => it[s] = Op(it[s \ {Max(s)}], seq[Max(s)])
      <4>. HIDE DEF Op
      <4>. QED  BY <1>4
    <3>. HIDE DEF Op, G
    <3>. QED  BY <1>2, <3>1, <3>2 DEF Follows
  <2>. HIDE DEF pick, G
  <2>. QED  BY <1>1, <1>3, <2>1, FoldReaches, Zenon
<1>. QED  BY <1>1, <1>5 DEF ShutdownDone, FoldLeft, MapThenFoldSet

LEMMA ShutdownLoop ==
  ASSUME DiskOK, NEW w \in Worlds, Agree(w), NEW seq, NEW changed, NEW n,
         Order(seq, n, DOMAIN w.objects)
  PROVE  Walked(w, ShutdownDone(w, seq, changed), Positions)
<1>. DEFINE Op(v, id) == Deactivate(v, id, TRUE, id \in changed)
            V == Walk(w, seq, n, Positions)
<1>1. /\ n \in Nat /\ DOMAIN seq = 1..n
      /\ \A s \in SUBSET (1..n) : s # {} => Max(s) \in s
      /\ \A i \in 1..n : seq[i] \in DOMAIN w.objects
  BY IndexSets DEF Order
<1>2. DOMAIN w.blocks \subseteq Positions
  BY WorldParts
<1>3. /\ w \in V[{}] /\ \A v \in V[1..n] : Walked(w, v, Positions)
      /\ \A s \in SUBSET (1..n) : V[s] \subseteq Worlds
  BY <1>2, WalkEnds
<1>4. ASSUME NEW s \in SUBSET (1..n), s # {}, NEW v \in V[s \ {Max(s)}]
      PROVE  Op(v, seq[Max(s)]) \in V[s]
  <2>. DEFINE id == seq[Max(s)]
  <2>1. Max(s) \in s /\ s \ {Max(s)} \in SUBSET (1..n) /\ Max(s) \in 1..n
    BY <1>1, <1>4
  <2>2. /\ v \in Worlds /\ Agree(v) /\ id \in DOMAIN v.objects
    BY <1>1, <2>1 DEF Walk, Walked
  <2>. HIDE DEF id, V
  <2>3. Step(v, Op(v, id), id)
    <3>1. (id \in changed) \in BOOLEAN /\ TRUE \in BOOLEAN
      OBVIOUS
    <3>. QED  BY <2>2, <3>1, DeactivateSteps, Zenon
  <2>. HIDE DEF Op
  <2>4. DOMAIN Op(v, id).blocks \subseteq Positions
    BY <2>3, WorldParts DEF Step
  <2>. QED  BY <2>1, <2>3, <2>4, WalkStep DEF id, V
<1>5. ShutdownDone(w, seq, changed) \in V[1..n]
  <2>. HIDE DEF V
  <2>. QED  BY <1>1, <1>3, <1>4, ShutdownInduction
<1>. QED  BY <1>3, <1>5

-----------------------------------------------------------------------------
(* activateObjects: the copies of the objects that are stored in a block.  *)
Copies(stored) == {c \in Objects \X (1..Size(stored)) : c[2] <= stored[c[1]]}
Of(seq, s, o) == {j \in s : seq[j][1] = o}

LEMMA CopiesInOrder ==
  ASSUME NEW stored \in Stores, NEW seq, seq = SetToSeq(Copies(stored)),
         NEW n, n = Cardinality(Copies(stored))
  PROVE  /\ Order(seq, n, Copies(stored))
         /\ \A o \in Objects : Cardinality(Of(seq, 1..n, o)) =< stored[o]
<1>1. IsFiniteSet(Copies(stored))
  <2>1. IsFiniteSet(Objects \X (1..Size(stored)))
    <3>1. Size(stored) \in Nat
      BY SizeType
    <3>2. IsFiniteSet(1..Size(stored))
      BY <3>1, FS_Interval
    <3>. QED  BY <3>2, MapAssumption, FS_Product
  <2>2. Copies(stored) \in SUBSET (Objects \X (1..Size(stored)))
    BY DEF Copies
  <2>. QED  BY <2>1, <2>2, FS_Subset
<1>2. Order(seq, n, Copies(stored))
  BY <1>1, SetToSeqOrders DEF Order
<1>3. ASSUME NEW o \in Objects PROVE Cardinality(Of(seq, 1..n, o)) =< stored[o]
  <2>. DEFINE S == Of(seq, 1..n, o)
              f == [j \in S |-> seq[j][2]]
  <2>1. stored[o] \in Nat
    BY DEF Stores
  <2>2. \A j \in S : /\ j \in 1..n /\ seq[j][1] = o
                     /\ seq[j] \in Copies(stored)
    BY <1>2 DEF Of, Order
  <2>3. \A c \in Copies(stored) :
          c[1] \in Objects /\ c[2] \in 1..stored[c[1]] /\ c = <<c[1], c[2]>>
    BY DEF Copies, Stores
  <2>4. f \in [S -> 1..stored[o]]
    BY <2>2, <2>3
  <2>5. ASSUME NEW i \in S, NEW j \in S, f[i] = f[j] PROVE i = j
    <3>1. seq[i] = seq[j]
      BY <2>2, <2>3, <2>5
    <3>. QED  BY <1>2, <2>2, <3>1 DEF Order
  <2>6. f \in Injection(S, 1..stored[o])
    <3>. HIDE DEF f, S
    <3>. QED  BY <2>4, <2>5 DEF Injection, IsInjective
  <2>7. IsFiniteSet(1..stored[o]) /\ Cardinality(1..stored[o]) = stored[o]
    <3>1. PICK m \in Nat : m = stored[o]
      BY <2>1
    <3>2. IsFiniteSet(1..m) /\ Cardinality(1..m) = m
      BY FS_Interval
    <3>. QED  BY <3>1, <3>2
  <2>. HIDE DEF f, S
  <2>8. Cardinality(S) =< stored[o]
    BY <2>6, <2>7, FS_Injection
  <2>. QED  BY <2>8 DEF S
<1>. QED  BY <1>2, <1>3

(* What may have become active in block p of the copies in s. *)
Waking(w, v, p, seq, s) ==
  /\ v \in Worlds /\ Agree(v)
  /\ DOMAIN v.blocks = DOMAIN w.blocks
  /\ \A q \in DOMAIN w.blocks \ {p} : v.blocks[q] = w.blocks[q]
  /\ v.blocks[p].nodes = w.blocks[p].nodes
  /\ v.blocks[p].generated = w.blocks[p].generated
  /\ v.blocks[p].modified = w.blocks[p].modified
  /\ v.blocks[p].stored = EmptyStore
  /\ \A o \in Objects : ActiveOf(v.blocks[p].active, o)
        =< ActiveOf(w.blocks[p].active, o) + Cardinality(Of(seq, s, o))

LEMMA WakingSteps ==
  ASSUME DiskOK, NEW w \in Worlds, NEW p \in DOMAIN w.blocks, NEW seq, NEW n,
         Order(seq, n, Copies(w.blocks[p].stored)),
         NEW s \in SUBSET (1..n), NEW k \in s,
         NEW v, Waking(w, v, p, seq, s \ {k})
  PROVE  Waking(w, addActiveObjectRaw(v, seq[k][1], p, FALSE), p, seq, s)
<1>. DEFINE o == seq[k][1]
            id == FreeId(v.objects)
            b0 == v.blocks[p]
            u == addActiveObjectRaw(v, o, p, FALSE)
<1>1. /\ v \in Worlds /\ Agree(v)
      /\ DOMAIN v.blocks = DOMAIN w.blocks
      /\ \A q \in DOMAIN w.blocks \ {p} : v.blocks[q] = w.blocks[q]
      /\ b0.nodes = w.blocks[p].nodes
      /\ b0.generated = w.blocks[p].generated
      /\ b0.modified = w.blocks[p].modified
      /\ b0.stored = EmptyStore
      /\ \A x \in Objects : ActiveOf(b0.active, x)
            =< ActiveOf(w.blocks[p].active, x) + Cardinality(Of(seq, s \ {k}, x))
  BY DEF Waking
<1>2. o \in Objects
  BY DEF Order, Copies
<1>3. /\ p \in Positions /\ b0 \in MapBlock /\ w.blocks[p] \in MapBlock
      /\ b0.active \in Partial(Ids, Objects)
      /\ w.blocks[p].active \in Partial(Ids, Objects)
  <2>1. p \in Positions /\ b0 \in MapBlock /\ w.blocks[p] \in MapBlock
    BY <1>1, WorldParts
  <2>. QED  BY <2>1 DEF MapBlock
<1>4. id \in Ids /\ id \notin DOMAIN v.objects
  BY <1>1, WorldParts, FreeIdIsFree
<1>5. Fetched(v.blocks, p) = b0
  BY <1>1 DEF Fetched
<1>6. /\ u \in Worlds
      /\ \E ao \in ActiveObject :
           v.objects \in Partial(Ids, ActiveObject) /\ u.objects = Put(v.objects, id, ao)
           /\ ao.obj = o /\ ao.static_block = p
      /\ \E b \in MapBlock :
           /\ u.blocks = Put(v.blocks, p, b)
           /\ b.nodes = b0.nodes /\ b.generated = b0.generated
           /\ b.modified = Mark(b0, FALSE).modified
           /\ b.stored = b0.stored /\ b.active = Put(b0.active, id, o)
  <2>1. v.objects \in Partial(Ids, ActiveObject)
    BY <1>1, WorldParts
  <2>2. HasAdded(v, u, o, p, FALSE)
    <3>. HIDE DEF o
    <3>. QED  BY <1>1, <1>2, <1>3, AddHolds
  <2>. HIDE DEF u, o, b0
  <2>. QED  BY <1>5, <2>1, <2>2 DEF HasAdded, id
<1>. HIDE DEF u, b0, id, o
<1>7. PICK ao \in ActiveObject :
        u.objects = Put(v.objects, id, ao) /\ ao.obj = o /\ ao.static_block = p
  BY <1>6
<1>8. PICK b \in MapBlock :
           /\ u.blocks = Put(v.blocks, p, b)
           /\ b.nodes = b0.nodes /\ b.generated = b0.generated
           /\ b.modified = Mark(b0, FALSE).modified
           /\ b.stored = b0.stored /\ b.active = Put(b0.active, id, o)
  BY <1>6
<1>9. /\ DOMAIN u.blocks = DOMAIN w.blocks /\ u.blocks[p] = b
      /\ \A q \in DOMAIN w.blocks \ {p} : u.blocks[q] = w.blocks[q] /\ u.blocks[q] = v.blocks[q]
  BY <1>1, <1>8 DEF Put
<1>10. b.modified = w.blocks[p].modified
  BY <1>1, <1>8 DEF Mark
<1>11. ASSUME NEW x \in Objects
       PROVE  ActiveOf(b.active, x)
                =< ActiveOf(w.blocks[p].active, x) + Cardinality(Of(seq, s, x))
  <2>1. ActiveOf(b.active, x) =< ActiveOf(b0.active, x) + (IF x = o THEN 1 ELSE 0)
    BY <1>2, <1>3, <1>4, <1>8, ActiveOfPut
  <2>2. ActiveOf(b0.active, x)
          =< ActiveOf(w.blocks[p].active, x) + Cardinality(Of(seq, s \ {k}, x))
    BY <1>1
  <2>3. IsFiniteSet(Of(seq, s, x))
    <3>1. IsFiniteSet(1..n) /\ Of(seq, s, x) \in SUBSET (1..n)
      BY IndexSets DEF Order, Of
    <3>. QED  BY <3>1, FS_Subset
  <2>4. Of(seq, s \ {k}, x) = Of(seq, s, x) \ {k}
        /\ (k \in Of(seq, s, x) <=> x = o)
    BY DEF Of, o
  <2>5. /\ Cardinality(Of(seq, s \ {k}, x)) + (IF x = o THEN 1 ELSE 0)
             = Cardinality(Of(seq, s, x))
        /\ Cardinality(Of(seq, s, x)) \in Nat
        /\ Cardinality(Of(seq, s \ {k}, x)) \in Nat
    <3>1. Cardinality(Of(seq, s, x)) \in Nat
      BY <2>3, FS_CardinalityType
    <3>2. /\ IsFiniteSet(Of(seq, s, x) \ {k})
          /\ Cardinality(Of(seq, s, x) \ {k})
              = IF k \in Of(seq, s, x) THEN Cardinality(Of(seq, s, x)) - 1
                ELSE Cardinality(Of(seq, s, x))
      BY <2>3, FS_RemoveElement
    <3>3. Cardinality(Of(seq, s, x) \ {k}) \in Nat
      BY <3>2, FS_CardinalityType
    <3>4. CASE x = o
      <4>1. k \in Of(seq, s, x)
        BY <2>4, <3>4
      <4>2. Cardinality(Of(seq, s \ {k}, x)) = Cardinality(Of(seq, s, x)) - 1
        BY <2>4, <3>2, <4>1
      <4>3. Cardinality(Of(seq, s \ {k}, x)) \in Nat
        BY <2>4, <3>3
      <4>. QED  BY <3>1, <3>4, <4>2, <4>3
    <3>5. CASE x # o
      <4>1. k \notin Of(seq, s, x)
        BY <2>4, <3>5
      <4>2. Cardinality(Of(seq, s \ {k}, x)) = Cardinality(Of(seq, s, x))
        BY <2>4, <3>2, <4>1
      <4>. QED  BY <3>1, <3>5, <4>2
    <3>. QED  BY <3>4, <3>5
  <2>6. /\ ActiveOf(b.active, x) \in Nat /\ ActiveOf(b0.active, x) \in Nat
        /\ ActiveOf(w.blocks[p].active, x) \in Nat
    BY <1>3, StoreTypes DEF MapBlock
  <2>. QED  BY <2>1, <2>2, <2>5, <2>6
<1>12. Agree(u)
  <2>. SUFFICES ASSUME NEW i \in DOMAIN u.objects PROVE Own(u, i)
    BY DEF Agree
  <2>1. /\ i = id => u.objects[i] = ao
        /\ i # id => i \in DOMAIN v.objects /\ u.objects[i] = v.objects[i]
    BY <1>7 DEF Put
  <2>2. /\ DOMAIN b.active = DOMAIN b0.active \cup {id} /\ b.active[id] = o
        /\ \A j \in DOMAIN b0.active : j # id => b.active[j] = b0.active[j]
    BY <1>8 DEF Put
  <2>3. CASE i = id
    BY <1>7, <1>9, <2>1, <2>2, <2>3 DEF Own
  <2>4. CASE i # id
    <3>1. Own(v, i)
      BY <1>1, <2>1, <2>4 DEF Agree
    <3>2. CASE v.objects[i].static_block = p
      BY <1>1, <1>9, <2>1, <2>2, <2>4, <3>1, <3>2 DEF Own, b0
    <3>3. CASE v.objects[i].static_block # p
      BY <1>1, <1>9, <2>1, <2>4, <3>1, <3>3 DEF Own
    <3>. QED  BY <3>2, <3>3
  <2>. QED  BY <2>3, <2>4
<1>13. Waking(w, u, p, seq, s)
  BY <1>1, <1>6, <1>8, <1>9, <1>10, <1>11, <1>12 DEF Waking
<1>. QED  BY <1>13 DEF u, o

-----------------------------------------------------------------------------
(* Lists m_active may only lose entries without their objects.             *)
SameData(x, y) ==
  x.obj = y.obj /\ x.static_exists = y.static_exists /\ x.static_block = y.static_block

LEMMA AgreeKept ==
  ASSUME NEW w, Agree(w), NEW v,
         DOMAIN v.objects \subseteq DOMAIN w.objects,
         \A i \in DOMAIN v.objects : SameData(w.objects[i], v.objects[i]),
         OnlyTouches(w.blocks, v.blocks, 0),
         0 \notin DOMAIN w.objects
  PROVE  Agree(v)
<1>. SUFFICES ASSUME NEW i \in DOMAIN v.objects, v.objects[i].static_exists,
                     v.objects[i].static_block \in DOMAIN v.blocks,
                     i \in DOMAIN v.blocks[v.objects[i].static_block].active
              PROVE  v.blocks[v.objects[i].static_block].active[i] = v.objects[i].obj
  BY DEF Agree, Own
<1>. DEFINE p == v.objects[i].static_block
<1>1. Touches(Fetched(w.blocks, p), v.blocks[p], 0) /\ i # 0
  BY DEF OnlyTouches
<1>2. /\ i \in DOMAIN Fetched(w.blocks, p).active
      /\ v.blocks[p].active[i] = Fetched(w.blocks, p).active[i]
  BY <1>1 DEF Touches
<1>3. p \in DOMAIN w.blocks
  BY <1>2, FetchedActive
<1>4. Fetched(w.blocks, p) = w.blocks[p]
  BY <1>3 DEF Fetched
<1>5. Own(w, i) /\ SameData(w.objects[i], v.objects[i])
  BY DEF Agree
<1>. QED  BY <1>2, <1>3, <1>4, <1>5 DEF Own, SameData

WakeDone(p, e, seq) ==
  FoldLeft(LAMBDA v, c : addActiveObjectRaw(v, c[1], p, FALSE), e, seq)

LEMMA WakeInduction ==
  ASSUME NEW e, NEW seq, NEW n \in Nat, DOMAIN seq = 1..n,
         NEW p,
         NEW V, \A s \in SUBSET (1..n) : V[s] \subseteq Worlds, e \in V[{}],
         \A s \in SUBSET (1..n) : s # {} => \A v \in V[s \ {Max(s)}] :
            addActiveObjectRaw(v, seq[Max(s)][1], p, FALSE) \in V[s]
  PROVE  WakeDone(p, e, seq) \in V[1..n]
<1>. DEFINE Op(v, id) == addActiveObjectRaw(v, id[1], p, FALSE)
            Body(it) == [s \in SUBSET (1..n) |->
                           IF s = {} THEN e ELSE Op(it[s \ {Max(s)}], seq[Max(s)])]
            it == CHOOSE it : it = Body(it)
            pick == [s \in SUBSET (1..n) |-> Max(s)]
            G == [s \in SUBSET (1..n) |-> [v \in Worlds |-> Op(v, seq[Max(s)])]]
<1>1. /\ IsFiniteSet(1..n)
      /\ \A s \in SUBSET (1..n) : s # {} => Max(s) \in s
  BY IndexSets
<1>2. ASSUME NEW s \in SUBSET (1..n), s # {}, NEW v \in V[s \ {Max(s)}]
      PROVE  v \in Worlds /\ G[s][v] = Op(v, seq[Max(s)]) /\ G[s][v] \in V[s]
  <2>1. v \in Worlds
    BY <1>2, s \ {Max(s)} \in SUBSET (1..n)
  <2>2. Op(v, seq[Max(s)]) \in V[s]
    BY <1>2
  <2>. HIDE DEF Op
  <2>. QED  BY <2>1, <2>2
<1>3. FoldSteps(1..n, pick, V, G)
  <2>. HIDE DEF G
  <2>. QED  BY <1>1, <1>2 DEF FoldSteps
<1>4. it = Body(it)
  <2>1. PICK f : IsFold(f, 1..n, pick, G, e) /\ \A s \in SUBSET (1..n) : f[s] \in V[s]
    <3>. HIDE DEF pick, G
    <3>. QED  BY <1>1, <1>3, FoldExists, Zenon
  <2>2. \A s \in SUBSET (1..n) : f[s] \in Worlds /\ s \ {Max(s)} \in SUBSET (1..n)
    BY <2>1
  <2>. HIDE DEF Op
  <2>3. f = Body(f)
    BY <2>1, <2>2 DEF IsFold
  <2>. QED  BY <2>3
<1>5. it[1..n] \in V[1..n]
  <2>. HIDE DEF it
  <2>1. Follows(it, 1..n, pick, V, G, e)
    <3>1. \A s \in SUBSET (1..n) : s \ {Max(s)} \in SUBSET (1..n)
      OBVIOUS
    <3>2. /\ it[{}] = e
          /\ \A s \in SUBSET (1..n) : s # {} => it[s] = Op(it[s \ {Max(s)}], seq[Max(s)])
      <4>. HIDE DEF Op
      <4>. QED  BY <1>4
    <3>. HIDE DEF Op, G
    <3>. QED  BY <1>2, <3>1, <3>2 DEF Follows
  <2>. HIDE DEF pick, G
  <2>. QED  BY <1>1, <1>3, <2>1, FoldReaches, Zenon
<1>. QED  BY <1>1, <1>5 DEF WakeDone, FoldLeft, MapThenFoldSet

LEMMA WakeLoop ==
  ASSUME DiskOK, NEW w \in Worlds, NEW p \in DOMAIN w.blocks, NEW seq, NEW n,
         Order(seq, n, Copies(w.blocks[p].stored)),
         NEW e, Waking(w, e, p, seq, {})
  PROVE  Waking(w, WakeDone(p, e, seq), p, seq, 1..n)
<1>. DEFINE Op(v, c) == addActiveObjectRaw(v, c[1], p, FALSE)
            V == [s \in SUBSET (1..n) |-> {v \in Worlds : Waking(w, v, p, seq, s)}]
<1>1. /\ n \in Nat /\ DOMAIN seq = 1..n
      /\ \A s \in SUBSET (1..n) : s # {} => Max(s) \in s
  BY IndexSets DEF Order
<1>2. e \in V[{}] /\ \A s \in SUBSET (1..n) : V[s] \subseteq Worlds
  BY DEF Waking
<1>3. ASSUME NEW s \in SUBSET (1..n), s # {}, NEW v \in V[s \ {Max(s)}]
      PROVE  Op(v, seq[Max(s)]) \in V[s]
  <2>1. Max(s) \in s /\ s \ {Max(s)} \in SUBSET (1..n)
    BY <1>1, <1>3
  <2>2. v \in Worlds /\ Waking(w, v, p, seq, s \ {Max(s)})
    BY <2>1
  <2>3. Waking(w, Op(v, seq[Max(s)]), p, seq, s)
    BY <2>1, <2>2, WakingSteps
  <2>. HIDE DEF Op
  <2>. QED  BY <2>3 DEF Waking
<1>4. WakeDone(p, e, seq) \in V[1..n]
  <2>1. \A s \in SUBSET (1..n) : s # {} => \A v \in V[s \ {Max(s)}] :
          addActiveObjectRaw(v, seq[Max(s)][1], p, FALSE) \in V[s]
    BY <1>3
  <2>. HIDE DEF V, Op
  <2>. QED  BY <1>1, <1>2, <2>1, WakeInduction
<1>. QED  BY <1>1, <1>4

LEMMA AllAwake ==
  ASSUME DiskOK, NEW w \in Worlds, NEW p \in DOMAIN w.blocks, NEW seq, NEW n,
         seq = SetToSeq(Copies(w.blocks[p].stored)),
         n = Cardinality(Copies(w.blocks[p].stored)),
         NEW v, Waking(w, v, p, seq, 1..n)
  PROVE  Walked(w, v, DOMAIN w.blocks)
<1>. DEFINE b0 == w.blocks[p]
            b == v.blocks[p]
<1>1. v \in Worlds /\ Agree(v) /\ DOMAIN v.blocks = DOMAIN w.blocks
  BY DEF Waking
<1>2. /\ b0 \in MapBlock /\ b \in MapBlock /\ b0.stored \in Stores
      /\ \A q \in DOMAIN w.blocks : w.blocks[q] \in MapBlock
  BY <1>1, WorldParts DEF MapBlock
<1>3. Derived(b0, b)
  <2>1. ASSUME NEW o \in Objects PROVE Count(b, o) =< Count(b0, o)
    <3>1. /\ ActiveOf(b.active, o) =< ActiveOf(b0.active, o) + Cardinality(Of(seq, 1..n, o))
          /\ b.stored[o] = 0
      BY DEF Waking, EmptyStore
    <3>2. Cardinality(Of(seq, 1..n, o)) =< b0.stored[o] /\ IsFiniteSet(Of(seq, 1..n, o))
      <4>1. Order(seq, n, Copies(b0.stored))
            /\ Cardinality(Of(seq, 1..n, o)) =< b0.stored[o]
        BY <1>2, CopiesInOrder
      <4>2. IsFiniteSet(1..n) /\ Of(seq, 1..n, o) \in SUBSET (1..n)
        BY <4>1, IndexSets DEF Order, Of
      <4>. QED  BY <4>1, <4>2, FS_Subset
    <3>3. Cardinality(Of(seq, 1..n, o)) \in Nat
      BY <3>2, FS_CardinalityType
    <3>4. /\ ActiveOf(b.active, o) \in Nat /\ ActiveOf(b0.active, o) \in Nat
          /\ b0.stored[o] \in Nat
      BY <1>2, StoreTypes DEF MapBlock, Stores
    <3>. HIDE DEF b, b0
    <3>. QED  BY <3>1, <3>2, <3>3, <3>4 DEF Count
  <2>2. b.nodes = b0.nodes /\ b.generated = b0.generated /\ b.modified = b0.modified
    BY DEF Waking
  <2>. HIDE DEF b, b0
  <2>. QED  BY <2>1, <2>2 DEF Derived
<1>4. Keeps(w.blocks, v.blocks)
  <2>. SUFFICES ASSUME NEW q \in DOMAIN v.blocks
                PROVE  Derived(Fetched(w.blocks, q), v.blocks[q])
    BY <1>1 DEF Keeps
  <2>1. q \in DOMAIN w.blocks /\ Fetched(w.blocks, q) = w.blocks[q]
    BY <1>1 DEF Fetched
  <2>2. q # p => v.blocks[q] = w.blocks[q]
    BY <2>1 DEF Waking
  <2>. QED  BY <1>2, <1>3, <2>1, <2>2, DerivedReflexive
<1>. QED  BY <1>1, <1>4 DEF Walked

-----------------------------------------------------------------------------
LEMMA NoZeroId ==
  ASSUME NEW w \in Worlds
  PROVE  0 \notin DOMAIN w.objects
BY WorldParts DEF Ids

(* One block that is in memory changes. *)
LEMMA OneBlockWalks ==
  ASSUME DiskOK, NEW w \in Worlds, Agree(w), NEW p \in DOMAIN w.blocks,
         NEW b \in MapBlock, b.active = w.blocks[p].active, Derived(w.blocks[p], b),
         NEW v \in Worlds, v.blocks = Put(w.blocks, p, b), v.objects = w.objects
  PROVE  Walked(w, v, DOMAIN w.blocks)
<1>1. w.blocks \in Memory /\ p \in Positions
  BY WorldParts
<1>2. Fetched(w.blocks, p) = w.blocks[p]
  BY DEF Fetched
<1>3. Keeps(w.blocks, v.blocks) /\ OnlyTouches(w.blocks, v.blocks, 0)
  <2>1. Touches(w.blocks[p], b, 0)
    BY DEF Touches
  <2>. QED  BY <1>1, <1>2, <2>1, PutKeeps
<1>4. DOMAIN v.blocks = DOMAIN w.blocks
  BY DEF Put
<1>5. \A i \in DOMAIN v.objects : SameData(w.objects[i], v.objects[i])
  BY DEF SameData
<1>6. Agree(v)
  BY <1>3, <1>5, NoZeroId, AgreeKept
<1>. QED  BY <1>3, <1>4, <1>6 DEF Walked

LEMMA WalkedTransitive ==
  ASSUME DiskOK, NEW w \in Worlds, NEW v, NEW u, NEW D, NEW E,
         Walked(w, v, D), Walked(v, u, E), E \subseteq D
  PROVE  Walked(w, u, D)
<1>1. v \in Worlds /\ u \in Worlds
  BY DEF Walked
<1>2. w.blocks \in Memory /\ v.blocks \in Memory /\ u.blocks \in Memory
  BY <1>1, WorldParts
<1>. QED  BY <1>1, <1>2, KeepsTransitive DEF Walked

LEMMA ActivateObjectsWalks ==
  ASSUME DiskOK, NEW w \in Worlds, Agree(w), NEW p \in DOMAIN w.blocks
  PROVE  Walked(w, activateObjects(w, p), DOMAIN w.blocks)
<1>. DEFINE b0 == w.blocks[p]
            v == activateObjects(w, p)
<1>1. /\ b0 \in MapBlock /\ b0.stored \in Stores /\ EmptyStore \in Stores
      /\ p \in Positions /\ w.blocks \in Memory
      /\ w.objects \in Partial(Ids, ActiveObject) /\ w.fate \in [Objects -> Fates]
  BY WorldParts, StoreTypes DEF MapBlock
<1>2. CASE Size(b0.stored) > MaxObjectsPerBlock
  <2>. DEFINE m == Raised(b0, WriteNeeded)
              b == [m EXCEPT !.stored = EmptyStore]
  <2>1. v = [w EXCEPT !.blocks = Put(@, p, b),
                      !.fate = Fated(@, StoredIn(b0.stored), "over the limit")]
    BY <1>2 DEF activateObjects
  <2>2. /\ m \in MapBlock /\ m.modified = WriteNeeded /\ m.active = b0.active
        /\ m.nodes = b0.nodes /\ m.generated = b0.generated
    <3>1. m = Mark(b0, TRUE)
      BY DEF Mark
    <3>. HIDE DEF m, b0
    <3>2. m \in MapBlock /\ m.modified = WriteNeeded
          /\ m = [b0 EXCEPT !.modified = m.modified]
      BY <1>1, <3>1, Marks
    <3>. QED  BY <1>1, <3>2 DEF MapBlock
  <2>3. /\ b \in MapBlock /\ b.modified = WriteNeeded /\ b.active = b0.active
        /\ b.nodes = b0.nodes /\ b.generated = b0.generated
    <3>. HIDE DEF m, b0
    <3>. QED  BY <1>1, <2>2 DEF MapBlock
  <2>4. Derived(b0, b)
    <3>. HIDE DEF b, b0
    <3>. QED  BY <2>3 DEF Derived
  <2>5. v \in Worlds /\ v.blocks = Put(w.blocks, p, b) /\ v.objects = w.objects
    <3>1. PICK bs : bs = Put(w.blocks, p, b)
      OBVIOUS
    <3>2. PICK f : f = Fated(w.fate, StoredIn(b0.stored), "over the limit")
      OBVIOUS
    <3>3. v = [w EXCEPT !.blocks = bs, !.fate = f]
      BY <2>1, <3>1, <3>2
    <3>4. f \in [Objects -> Fates]
      BY <1>1, <3>2 DEF Fated, Fates
    <3>. HIDE DEF v, b
    <3>5. bs \in Memory
      BY <1>1, <2>3, <3>1, PutPartial DEF Memory
    <3>. QED  BY <3>1, <3>3, <3>4, <3>5 DEF Worlds
  <2>. HIDE DEF v, b
  <2>6. Walked(w, v, DOMAIN w.blocks)
    BY <2>3, <2>4, <2>5, OneBlockWalks
  <2>. QED  BY <2>6 DEF v
<1>3. CASE ~(Size(b0.stored) > MaxObjectsPerBlock)
  <2>. DEFINE seq == SetToSeq(Copies(b0.stored))
              n == Cardinality(Copies(b0.stored))
              b == [b0 EXCEPT !.stored = EmptyStore]
              e == [w EXCEPT !.blocks = Put(@, p, b)]
              u == FoldLeft(LAMBDA x, c : addActiveObjectRaw(x, c[1], p, FALSE), e, seq)
  <2>1. v = u
    BY <1>3 DEF activateObjects, Copies
  <2>2. Order(seq, n, Copies(b0.stored))
    <3>. HIDE DEF b0
    <3>. QED  BY <1>1, CopiesInOrder
  <2>3. /\ b \in MapBlock /\ b.modified = b0.modified /\ b.active = b0.active
        /\ b.nodes = b0.nodes /\ b.generated = b0.generated /\ b.stored = EmptyStore
    <3>. HIDE DEF b0
    <3>. QED  BY <1>1 DEF MapBlock
  <2>4. Derived(b0, b)
    <3>1. ASSUME NEW o \in Objects PROVE Count(b, o) =< Count(b0, o)
      <4>1. b.stored[o] = 0 /\ b0.stored[o] \in Nat
        BY <1>1, <2>3 DEF EmptyStore, Stores
      <4>2. ActiveOf(b0.active, o) \in Nat
        BY <1>1, StoreTypes DEF MapBlock
      <4>. HIDE DEF b, b0
      <4>. QED  BY <2>3, <4>1, <4>2 DEF Count
    <3>. HIDE DEF b, b0
    <3>. QED  BY <2>3, <3>1 DEF Derived
  <2>5. e \in Worlds /\ e.blocks = Put(w.blocks, p, b) /\ e.objects = w.objects
    <3>1. PICK bs : bs = Put(w.blocks, p, b)
      OBVIOUS
    <3>2. e = [w EXCEPT !.blocks = bs]
      BY <3>1
    <3>. HIDE DEF e, b
    <3>3. bs \in Memory
      BY <1>1, <2>3, <3>1, PutPartial DEF Memory
    <3>. QED  BY <3>1, <3>2, <3>3 DEF Worlds
  <2>6. Waking(w, e, p, seq, {})
    <3>. HIDE DEF e, b, b0, seq
    <3>1. Agree(e)
      BY <2>3, <2>4, <2>5, OneBlockWalks DEF Walked, b0
    <3>2. /\ DOMAIN e.blocks = DOMAIN w.blocks /\ e.blocks[p] = b
          /\ \A q \in DOMAIN w.blocks \ {p} : e.blocks[q] = w.blocks[q]
      BY <2>5 DEF Put
    <3>3. ASSUME NEW o \in Objects
          PROVE  ActiveOf(b.active, o) =< ActiveOf(b0.active, o) + Cardinality(Of(seq, {}, o))
      <4>1. Of(seq, {}, o) = {}
        BY DEF Of
      <4>2. Cardinality(Of(seq, {}, o)) = 0
        BY <4>1, FS_EmptySet
      <4>3. ActiveOf(b0.active, o) \in Nat
        BY <1>1, StoreTypes DEF MapBlock
      <4>. QED  BY <2>3, <4>2, <4>3
    <3>. QED  BY <2>3, <2>5, <3>1, <3>2, <3>3 DEF Waking, b0
  <2>7. Waking(w, u, p, seq, 1..n)
    <3>. HIDE DEF e, b, seq, n
    <3>. QED  BY <2>2, <2>6, WakeLoop DEF WakeDone
  <2>8. Walked(w, u, DOMAIN w.blocks)
    <3>1. seq = SetToSeq(Copies(b0.stored)) /\ n = Cardinality(Copies(b0.stored))
      OBVIOUS
    <3>. HIDE DEF u, seq, n
    <3>. QED  BY <2>7, <3>1, AllAwake
  <2>. QED  BY <2>1, <2>8
<1>. QED  BY <1>2, <1>3

LEMMA ActivateBlockWalks ==
  ASSUME DiskOK, NEW w \in Worlds, Agree(w), NEW p \in DOMAIN w.blocks
  PROVE  Walked(w, activateBlock(w, p), DOMAIN w.blocks)
<1>. DEFINE b0 == w.blocks[p]
            kept_ones == IF b0.stamp = Valid THEN b0.stored ELSE EmptyStore
            b == [b0 EXCEPT !.old = FALSE, !.stamp = Valid, !.stored = kept_ones]
            lost == IF b0.stamp = Undefined THEN "unstamped" ELSE "outdated"
            forgotten == StoredIn(b0.stored) \ StoredIn(kept_ones)
            u == [w EXCEPT !.blocks = Put(@, p, b), !.fate = Fated(@, forgotten, lost)]
<1>1. /\ b0 \in MapBlock /\ b0.stored \in Stores /\ EmptyStore \in Stores
      /\ p \in Positions /\ w.blocks \in Memory
      /\ w.objects \in Partial(Ids, ActiveObject) /\ w.fate \in [Objects -> Fates]
  BY WorldParts, StoreTypes DEF MapBlock
<1>2. kept_ones \in Stores /\ \A o \in Objects : kept_ones[o] =< b0.stored[o]
  <2>. HIDE DEF b0
  <2>. QED  BY <1>1 DEF Stores, EmptyStore
<1>3. /\ b \in MapBlock /\ b.modified = b0.modified /\ b.active = b0.active
      /\ b.nodes = b0.nodes /\ b.generated = b0.generated /\ b.stored = kept_ones
  <2>. HIDE DEF b0, kept_ones
  <2>. QED  BY <1>1, <1>2 DEF MapBlock, Stamps
<1>4. Derived(b0, b)
  <2>1. ASSUME NEW o \in Objects PROVE Count(b, o) =< Count(b0, o)
    <3>1. b.stored[o] =< b0.stored[o] /\ b0.stored[o] \in Nat /\ b.stored[o] \in Nat
      <4>. HIDE DEF b, b0, kept_ones
      <4>. QED  BY <1>1, <1>2, <1>3 DEF Stores
    <3>2. ActiveOf(b0.active, o) \in Nat
      BY <1>1, StoreTypes DEF MapBlock
    <3>. HIDE DEF b, b0
    <3>. QED  BY <1>3, <3>1, <3>2 DEF Count
  <2>. HIDE DEF b, b0
  <2>. QED  BY <1>3, <2>1 DEF Derived
<1>5. u \in Worlds /\ u.blocks = Put(w.blocks, p, b) /\ u.objects = w.objects
  <2>1. PICK bs : bs = Put(w.blocks, p, b)
    OBVIOUS
  <2>2. PICK f : f = Fated(w.fate, forgotten, lost)
    OBVIOUS
  <2>3. u = [w EXCEPT !.blocks = bs, !.fate = f]
    BY <2>1, <2>2
  <2>4. lost \in Fates
    BY DEF Fates
  <2>5. f \in [Objects -> Fates]
    <3>. HIDE DEF lost, forgotten
    <3>. QED  BY <1>1, <2>2, <2>4 DEF Fated
  <2>. HIDE DEF u, b
  <2>6. bs \in Memory
    BY <1>1, <1>3, <2>1, PutPartial DEF Memory
  <2>. QED  BY <2>1, <2>3, <2>5, <2>6 DEF Worlds
<1>6. activateBlock(w, p) = activateObjects(u, p)
  BY DEF activateBlock
<1>. HIDE DEF u, b
<1>7. Walked(w, u, DOMAIN w.blocks)
  BY <1>3, <1>4, <1>5, OneBlockWalks
<1>8. u \in Worlds /\ Agree(u) /\ p \in DOMAIN u.blocks /\ DOMAIN u.blocks \subseteq DOMAIN w.blocks
  BY <1>7 DEF Walked, Keeps
<1>9. Walked(u, activateObjects(u, p), DOMAIN u.blocks)
  BY <1>8, ActivateObjectsWalks
<1>. QED  BY <1>6, <1>7, <1>8, <1>9, WalkedTransitive

-----------------------------------------------------------------------------
LEMMA ActivateInduction ==
  ASSUME NEW e, NEW seq, NEW n \in Nat, DOMAIN seq = 1..n,
         NEW V, \A s \in SUBSET (1..n) : V[s] \subseteq Worlds, e \in V[{}],
         \A s \in SUBSET (1..n) : s # {} => \A v \in V[s \ {Max(s)}] :
            activateBlock(v, seq[Max(s)]) \in V[s]
  PROVE  FoldLeft(activateBlock, e, seq) \in V[1..n]
<1>. DEFINE Op(v, id) == activateBlock(v, id)
            Body(it) == [s \in SUBSET (1..n) |->
                           IF s = {} THEN e ELSE Op(it[s \ {Max(s)}], seq[Max(s)])]
            it == CHOOSE it : it = Body(it)
            pick == [s \in SUBSET (1..n) |-> Max(s)]
            G == [s \in SUBSET (1..n) |-> [v \in Worlds |-> Op(v, seq[Max(s)])]]
<1>1. /\ IsFiniteSet(1..n)
      /\ \A s \in SUBSET (1..n) : s # {} => Max(s) \in s
  BY IndexSets
<1>2. ASSUME NEW s \in SUBSET (1..n), s # {}, NEW v \in V[s \ {Max(s)}]
      PROVE  v \in Worlds /\ G[s][v] = Op(v, seq[Max(s)]) /\ G[s][v] \in V[s]
  <2>1. v \in Worlds
    BY <1>2, s \ {Max(s)} \in SUBSET (1..n)
  <2>2. Op(v, seq[Max(s)]) \in V[s]
    BY <1>2
  <2>. HIDE DEF Op
  <2>. QED  BY <2>1, <2>2
<1>3. FoldSteps(1..n, pick, V, G)
  <2>. HIDE DEF G
  <2>. QED  BY <1>1, <1>2 DEF FoldSteps
<1>4. it = Body(it)
  <2>1. PICK f : IsFold(f, 1..n, pick, G, e) /\ \A s \in SUBSET (1..n) : f[s] \in V[s]
    <3>. HIDE DEF pick, G
    <3>. QED  BY <1>1, <1>3, FoldExists, Zenon
  <2>2. \A s \in SUBSET (1..n) : f[s] \in Worlds /\ s \ {Max(s)} \in SUBSET (1..n)
    BY <2>1
  <2>. HIDE DEF Op
  <2>3. f = Body(f)
    BY <2>1, <2>2 DEF IsFold
  <2>. QED  BY <2>3
<1>5. it[1..n] \in V[1..n]
  <2>. HIDE DEF it
  <2>1. Follows(it, 1..n, pick, V, G, e)
    <3>1. \A s \in SUBSET (1..n) : s \ {Max(s)} \in SUBSET (1..n)
      OBVIOUS
    <3>2. /\ it[{}] = e
          /\ \A s \in SUBSET (1..n) : s # {} => it[s] = Op(it[s \ {Max(s)}], seq[Max(s)])
      <4>. HIDE DEF Op
      <4>. QED  BY <1>4
    <3>. HIDE DEF Op, G
    <3>. QED  BY <1>2, <3>1, <3>2 DEF Follows
  <2>. HIDE DEF pick, G
  <2>. QED  BY <1>1, <1>3, <2>1, FoldReaches, Zenon
<1>. QED  BY <1>1, <1>5 DEF FoldLeft, MapThenFoldSet

LEMMA ActivateLoop ==
  ASSUME DiskOK, NEW w \in Worlds, NEW e, Walked(w, e, DOMAIN w.blocks),
         NEW S \in SUBSET (DOMAIN w.blocks)
  PROVE  Walked(w, FoldLeft(activateBlock, e, SetToSeq(S)), DOMAIN w.blocks)
<1>. DEFINE Op(v, p) == activateBlock(v, p)
            seq == SetToSeq(S)
            n == Cardinality(S)
            V == [s \in SUBSET (1..n) |-> {v \in Worlds : Walked(w, v, DOMAIN w.blocks)}]
<1>0. Order(seq, n, S)
  <2>1. IsFiniteSet(S)
    BY WorldParts, PartialMember, FS_Subset DEF Memory
  <2>. QED  BY <2>1, SetToSeqOrders DEF Order
<1>1. /\ n \in Nat /\ DOMAIN seq = 1..n
      /\ \A s \in SUBSET (1..n) : s # {} => Max(s) \in s
      /\ \A j \in 1..n : seq[j] \in DOMAIN w.blocks
  <2>. HIDE DEF seq, n
  <2>. QED  BY <1>0, IndexSets DEF Order
<1>. HIDE DEF seq, n
<1>2. e \in V[{}] /\ \A s \in SUBSET (1..n) : V[s] \subseteq Worlds
  BY DEF Walked
<1>3. ASSUME NEW s \in SUBSET (1..n), s # {}, NEW v \in V[s \ {Max(s)}]
      PROVE  Op(v, seq[Max(s)]) \in V[s]
  <2>1. Max(s) \in s /\ s \ {Max(s)} \in SUBSET (1..n)
    BY <1>1, <1>3
  <2>2. v \in Worlds /\ Walked(w, v, DOMAIN w.blocks)
    BY <2>1
  <2>3. Walked(w, Op(v, seq[Max(s)]), DOMAIN w.blocks)
    <3>1. /\ Agree(v) /\ DOMAIN v.blocks \subseteq DOMAIN w.blocks
          /\ seq[Max(s)] \in DOMAIN v.blocks
      BY <1>1, <2>1, <2>2 DEF Walked, Keeps
    <3>2. Walked(v, Op(v, seq[Max(s)]), DOMAIN v.blocks)
      BY <2>2, <3>1, ActivateBlockWalks
    <3>. HIDE DEF Op
    <3>. QED  BY <2>2, <3>1, <3>2, WalkedTransitive
  <2>. HIDE DEF Op
  <2>. QED  BY <2>3 DEF Walked
<1>4. FoldLeft(activateBlock, e, seq) \in V[1..n]
  <2>. HIDE DEF V
  <2>. QED  BY <1>1, <1>2, <1>3, ActivateInduction
<1>. QED  BY <1>1, <1>4 DEF seq

-----------------------------------------------------------------------------
(* The invariant: what the blocks m in memory, d on disk, the chunks c in  *)
(* progress and the edits k promise of each other.                         *)

SavedIn(m, d) ==
  \A p \in DOMAIN m : m[p].modified # WriteNeeded =>
     /\ p \in DOMAIN d
     /\ m[p].nodes = d[p].nodes /\ m[p].generated = d[p].generated
     /\ \A o \in Objects : Count(m[p], o) =< d[p].objects[o]

NodesIn(m, d, p) ==
  IF p \in DOMAIN m THEN m[p].nodes ELSE IF p \in DOMAIN d THEN d[p].nodes ELSE {}

GeneratedIn(m, d, p) ==
  \/ p \in DOMAIN m /\ m[p].generated
  \/ p \notin DOMAIN m /\ p \in DOMAIN d /\ d[p].generated

EditsIn(m, d, k) == \A e \in DOMAIN k : \A p \in k[e] : e \in NodesIn(m, d, p)

(* The copies in which chunks are made have the edits that must be kept.   *)
EditsCopied(c, k) ==
  \A p \in DOMAIN c : \A e \in DOMAIN k : \A q \in k[e] : e \in c[p][q]

TerrainIn(m, d) ==
  /\ \A p \in DOMAIN m : m[p].generated => Terrain \in m[p].nodes
  /\ \A p \in DOMAIN d : d[p].generated => Terrain \in d[p].nodes
  /\ \A p \in DOMAIN m : p \in DOMAIN d /\ d[p].generated => m[p].generated

(* The copy in which a chunk is made has the terrain of the other blocks.  *)
TerrainCopied(m, d, c) ==
  \A p \in DOMAIN c : \A q \in Positions \ {p} :
     GeneratedIn(m, d, q) => Terrain \in c[p][q]

OneAtATime(c) == \A p, q \in DOMAIN c : p = q

Inv ==
  /\ TypeOK /\ Agree(World)
  /\ SavedIn(blocks, disk)
  /\ EditsIn(blocks, disk, kept) /\ EditsCopied(making, kept)

TerrainInv ==
  TerrainIn(blocks, disk) /\ TerrainCopied(blocks, disk, making) /\ OneAtATime(making)

LEMMA FetchedContent ==
  ASSUME NEW m, NEW p
  PROVE  /\ Fetched(m, p).nodes = NodesIn(m, disk, p)
         /\ Fetched(m, p).generated <=> GeneratedIn(m, disk, p)
<1>1. CASE p \in DOMAIN m
  BY <1>1 DEF Fetched, NodesIn, GeneratedIn
<1>2. CASE p \notin DOMAIN m /\ p \in DOMAIN disk
  BY <1>2 DEF Fetched, NodesIn, GeneratedIn, Deserialized
<1>3. CASE p \notin DOMAIN m /\ p \notin DOMAIN disk
  BY <1>3 DEF Fetched, NodesIn, GeneratedIn, BlankBlock
<1>. QED  BY <1>1, <1>2, <1>3

LEMMA FetchedSaved ==
  ASSUME DiskOK, NEW m \in Memory, SavedIn(m, disk), NEW p \in Positions,
         Fetched(m, p).modified # WriteNeeded
  PROVE  /\ p \in DOMAIN disk
         /\ Fetched(m, p).nodes = disk[p].nodes
         /\ Fetched(m, p).generated = disk[p].generated
         /\ \A o \in Objects : Count(Fetched(m, p), o) =< disk[p].objects[o]
<1>1. CASE p \in DOMAIN m
  BY <1>1 DEF SavedIn, Fetched
<1>2. CASE p \notin DOMAIN m /\ p \in DOMAIN disk
  <2>1. Fetched(m, p) = Deserialized(disk[p])
    BY <1>2 DEF Fetched
  <2>2. disk[p] \in BlockCopy
    BY <1>2, PartialMember DEF DiskOK
  <2>3. ASSUME NEW o \in Objects PROVE Count(Deserialized(disk[p]), o) =< disk[p].objects[o]
    <3>1. {id \in DOMAIN Nothing : Nothing[id] = o} = {}
      BY DEF Nothing
    <3>2. ActiveOf(Nothing, o) = 0
      BY <3>1, FS_EmptySet DEF ActiveOf
    <3>3. Deserialized(disk[p]).stored = disk[p].objects /\ Deserialized(disk[p]).active = Nothing
      BY DEF Deserialized
    <3>4. disk[p].objects[o] \in Nat
      BY <2>2 DEF BlockCopy, Stores
    <3>. QED  BY <3>2, <3>3, <3>4 DEF Count
  <2>4. /\ Deserialized(disk[p]).nodes = disk[p].nodes
        /\ Deserialized(disk[p]).generated = disk[p].generated
    BY DEF Deserialized
  <2>. QED  BY <1>2, <2>1, <2>3, <2>4
<1>3. CASE p \notin DOMAIN m /\ p \notin DOMAIN disk
  BY <1>3 DEF Fetched, BlankBlock
<1>. QED  BY <1>1, <1>2, <1>3

(* What Keeps keeps. *)
LEMMA KeepsContent ==
  ASSUME DiskOK, NEW m0 \in Memory, NEW m \in Memory, Keeps(m0, m)
  PROVE  /\ SavedIn(m0, disk) => SavedIn(m, disk)
         /\ \A p : NodesIn(m, disk, p) = NodesIn(m0, disk, p)
         /\ \A p : GeneratedIn(m, disk, p) <=> GeneratedIn(m0, disk, p)
         /\ TerrainIn(m0, disk) => TerrainIn(m, disk)
<1>1. ASSUME SavedIn(m0, disk) PROVE SavedIn(m, disk)
  <2>. SUFFICES ASSUME NEW p \in DOMAIN m, m[p].modified # WriteNeeded
                PROVE  /\ p \in DOMAIN disk
                       /\ m[p].nodes = disk[p].nodes /\ m[p].generated = disk[p].generated
                       /\ \A o \in Objects : Count(m[p], o) =< disk[p].objects[o]
    BY DEF SavedIn
  <2>1. Derived(Fetched(m0, p), m[p]) /\ p \in Positions /\ m[p] \in MapBlock
    BY PartialMember DEF Keeps, Memory
  <2>2. Fetched(m0, p) \in MapBlock /\ Fetched(m0, p).modified # WriteNeeded
    BY <2>1, FetchedType DEF Derived
  <2>3. /\ p \in DOMAIN disk
        /\ Fetched(m0, p).nodes = disk[p].nodes
        /\ Fetched(m0, p).generated = disk[p].generated
        /\ \A o \in Objects : Count(Fetched(m0, p), o) =< disk[p].objects[o]
    BY <1>1, <2>1, <2>2, FetchedSaved
  <2>4. ASSUME NEW o \in Objects PROVE Count(m[p], o) =< disk[p].objects[o]
    <3>1. Count(m[p], o) =< Count(Fetched(m0, p), o)
      BY <2>1 DEF Derived
    <3>2. Count(m[p], o) \in Nat /\ Count(Fetched(m0, p), o) \in Nat
      BY <2>1, <2>2, CountType
    <3>3. disk[p] \in BlockCopy
      BY <2>3, PartialMember DEF DiskOK
    <3>4. disk[p].objects[o] \in Nat
      BY <3>3 DEF BlockCopy, Stores
    <3>5. Count(Fetched(m0, p), o) =< disk[p].objects[o]
      BY <2>3
    <3>. QED  BY <3>1, <3>2, <3>4, <3>5
  <2>. QED  BY <2>1, <2>3, <2>4 DEF Derived
<1>2. ASSUME NEW p
      PROVE  /\ NodesIn(m, disk, p) = NodesIn(m0, disk, p)
             /\ GeneratedIn(m, disk, p) <=> GeneratedIn(m0, disk, p)
  <2>1. CASE p \in DOMAIN m
    <3>1. Derived(Fetched(m0, p), m[p]) /\ Fetched(m, p) = m[p]
      BY <2>1 DEF Keeps, Fetched
    <3>2. /\ Fetched(m, p).nodes = Fetched(m0, p).nodes
          /\ Fetched(m, p).generated = Fetched(m0, p).generated
      BY <3>1 DEF Derived
    <3>. QED  BY <3>2, FetchedContent
  <2>2. CASE p \notin DOMAIN m
    BY <2>2 DEF Keeps, NodesIn, GeneratedIn
  <2>. QED  BY <2>1, <2>2
<1>3. ASSUME TerrainIn(m0, disk) PROVE TerrainIn(m, disk)
  <2>1. ASSUME NEW p \in DOMAIN m, m[p].generated PROVE Terrain \in m[p].nodes
    <3>1. GeneratedIn(m, disk, p) /\ NodesIn(m, disk, p) = m[p].nodes
      BY <2>1 DEF GeneratedIn, NodesIn
    <3>2. GeneratedIn(m0, disk, p) /\ NodesIn(m0, disk, p) = m[p].nodes
      BY <1>2, <3>1
    <3>. QED  BY <1>3, <3>2 DEF GeneratedIn, NodesIn, TerrainIn
  <2>2. ASSUME NEW p \in DOMAIN m, p \in DOMAIN disk, disk[p].generated
        PROVE  m[p].generated
    <3>1. GeneratedIn(m0, disk, p)
      BY <1>3, <2>2 DEF GeneratedIn, TerrainIn
    <3>2. GeneratedIn(m, disk, p)
      BY <1>2, <3>1
    <3>. QED  BY <2>2, <3>2 DEF GeneratedIn
  <2>. QED  BY <1>3, <2>1, <2>2 DEF TerrainIn
<1>. QED  BY <1>1, <1>2, <1>3

(* A step that changes neither the disk nor the chunks nor the edits.      *)
LEMMA WalkKeepsInv ==
  ASSUME Inv, NEW v, Walked(World, v, Positions), Become(v),
         UNCHANGED <<disk, making, kept>>, m_active_blocks' \subseteq Positions
  PROVE  Inv' /\ (TerrainInv => TerrainInv')
<1>1. DiskOK /\ World \in Worlds /\ World.blocks = blocks
  BY DEF Inv, TypeOK, DiskOK, World
<1>2. /\ v \in Worlds /\ Agree(v) /\ Keeps(blocks, v.blocks)
  BY <1>1 DEF Walked
<1>3. blocks \in Memory /\ v.blocks \in Memory
  BY <1>1, <1>2, WorldParts
<1>4. /\ SavedIn(v.blocks, disk)
      /\ \A p : NodesIn(v.blocks, disk, p) = NodesIn(blocks, disk, p)
      /\ \A p : GeneratedIn(v.blocks, disk, p) <=> GeneratedIn(blocks, disk, p)
      /\ TerrainIn(blocks, disk) => TerrainIn(v.blocks, disk)
  BY <1>1, <1>2, <1>3, KeepsContent DEF Inv
<1>5. v = World'
  BY <1>2 DEF Become, World, Worlds
<1>6. TypeOK' /\ Agree(World)'
  <2>1. World' \in Worlds /\ Worlds' = Worlds
    BY <1>2, <1>5
  <2>. QED  BY <1>2, <1>5, <2>1 DEF Inv, TypeOK, Agree, Own, World
<1>7. SavedIn(blocks, disk)'
  BY <1>4 DEF Become, SavedIn, Count, ActiveOf
<1>8. EditsIn(blocks, disk, kept)' /\ EditsCopied(making, kept)'
  <2>1. \A p : NodesIn(blocks, disk, p)' = NodesIn(blocks, disk, p)
    BY <1>4 DEF Become, NodesIn
  <2>. QED  BY <2>1 DEF EditsIn, EditsCopied, Inv
<1>9. ASSUME TerrainInv PROVE TerrainInv'
  <2>1. \A p : GeneratedIn(blocks, disk, p)' <=> GeneratedIn(blocks, disk, p)
    BY <1>4 DEF Become, GeneratedIn
  <2>2. TerrainIn(blocks, disk)'
    BY <1>4, <1>9 DEF Become, TerrainIn, TerrainInv
  <2>3. TerrainCopied(blocks, disk, making)' /\ OneAtATime(making)'
    BY <1>9, <2>1 DEF TerrainCopied, OneAtATime, TerrainInv
  <2>. QED  BY <2>2, <2>3 DEF TerrainInv
<1>. QED  BY <1>6, <1>7, <1>8, <1>9 DEF Inv

-----------------------------------------------------------------------------
(* Blocks that are used, stamped or marked. *)
LEMMA SameContent ==
  ASSUME NEW b0 \in MapBlock, NEW b \in MapBlock,
         b.nodes = b0.nodes, b.generated = b0.generated,
         b.stored = b0.stored, b.active = b0.active,
         b0.modified = WriteNeeded => b.modified = WriteNeeded
  PROVE  Derived(b0, b) /\ Touches(b0, b, 0)
<1>1. ASSUME NEW o \in Objects PROVE Count(b, o) =< Count(b0, o)
  <2>1. Count(b, o) = Count(b0, o) /\ Count(b0, o) \in Nat
    BY CountType DEF Count
  <2>. QED  BY <2>1
<1>. QED  BY <1>1 DEF Derived, Touches

LEMMA RaisedBlock ==
  ASSUME NEW b \in MapBlock, NEW state \in {WriteAtUnload, WriteNeeded}
  PROVE  /\ Raised(b, state) \in MapBlock
         /\ Raised(b, state) = [b EXCEPT !.modified = Raised(b, state).modified]
         /\ b.modified = WriteNeeded => Raised(b, state).modified = WriteNeeded
         /\ Raised(b, WriteNeeded).modified = WriteNeeded
<1>1. b.modified \in {0, 2, 4} /\ state \in {2, 4}
  BY DEF MapBlock, Clean, WriteAtUnload, WriteNeeded
<1>. QED  BY <1>1 DEF Raised, MapBlock, Clean, WriteAtUnload, WriteNeeded

LEMMA MapWalks ==
  ASSUME DiskOK, NEW w \in Worlds, Agree(w),
         NEW bs, DOMAIN bs = DOMAIN w.blocks, bs = [p \in DOMAIN bs |-> bs[p]],
         \A p \in DOMAIN bs : /\ bs[p] \in MapBlock
                              /\ Derived(w.blocks[p], bs[p])
                              /\ Touches(w.blocks[p], bs[p], 0),
         NEW v \in [blocks : {bs}, objects : {w.objects}, fate : [Objects -> Fates]]
  PROVE  Walked(w, v, DOMAIN w.blocks)
<1>1. w.blocks \in Memory /\ w.objects \in Partial(Ids, ActiveObject)
  BY WorldParts
<1>2. /\ IsFiniteSet(DOMAIN w.blocks) /\ DOMAIN w.blocks \subseteq Positions
  BY <1>1, PartialMember DEF Memory
<1>3. bs \in Memory
  BY <1>2, PartialMember DEF Memory
<1>4. v.blocks = bs /\ v.objects = w.objects /\ v \in Worlds
  BY <1>1, <1>3 DEF Worlds
<1>5. \A p \in DOMAIN bs : Fetched(w.blocks, p) = w.blocks[p]
  BY DEF Fetched
<1>6. Keeps(w.blocks, v.blocks) /\ OnlyTouches(w.blocks, v.blocks, 0)
  BY <1>4, <1>5 DEF Keeps, OnlyTouches
<1>7. \A i \in DOMAIN v.objects : SameData(w.objects[i], v.objects[i])
  BY <1>4 DEF SameData
<1>8. DOMAIN v.objects \subseteq DOMAIN w.objects
  BY <1>4
<1>9. Agree(v)
  BY <1>6, <1>7, <1>8, NoZeroId, AgreeKept
<1>. QED  BY <1>4, <1>6, <1>9 DEF Walked

LEMMA StepWalks ==
  ASSUME NEW w \in Worlds, Agree(w), NEW v, NEW id, Step(w, v, id)
  PROVE  Walked(w, v, Positions)
<1>1. v \in Worlds /\ Agree(v)
  BY StepAgrees DEF Step
<1>2. DOMAIN v.blocks \subseteq Positions
  BY <1>1, WorldParts
<1>. QED  BY <1>1, <1>2 DEF Step, Walked

LEMMA InvParts ==
  ASSUME Inv
  PROVE  /\ DiskOK /\ World \in Worlds /\ Agree(World)
         /\ World.blocks = blocks /\ World.objects = m_active_objects /\ World.fate = fate
         /\ m_active_blocks \subseteq Positions
         /\ blocks \in Memory /\ m_active_objects \in Partial(Ids, ActiveObject)
         /\ fate \in [Objects -> Fates]
<1>1. /\ DiskOK /\ World \in Worlds /\ Agree(World)
      /\ World.blocks = blocks /\ World.objects = m_active_objects /\ World.fate = fate
      /\ m_active_blocks \subseteq Positions
  BY DEF Inv, TypeOK, DiskOK, World
<1>2. World.blocks \in Memory /\ World.objects \in Partial(Ids, ActiveObject)
      /\ World.fate \in [Objects -> Fates]
  BY <1>1, WorldParts
<1>. QED  BY <1>1, <1>2

-----------------------------------------------------------------------------
(* The actions of the environment *)

(* With one emerge thread, what is marked as generated has its terrain. *)
Kept == Inv' /\ (EmergeThreads =< 1 /\ TerrainInv => TerrainInv')

LEMMA AddObjectKeeps ==
  ASSUME Inv, NEW o \in Objects, NEW p \in Positions, AddObject(o, p)
  PROVE  Kept
<1>. DEFINE w == [World EXCEPT !.fate[o] = "alive"]
            v == addActiveObjectRaw(w, o, p, TRUE)
<1>1. /\ DiskOK /\ World \in Worlds /\ Agree(World) /\ m_active_blocks \subseteq Positions
      /\ fate \in [Objects -> Fates]
  BY InvParts
<1>2. w \in Worlds /\ w.blocks = World.blocks /\ w.objects = World.objects
  <2>1. PICK f : f = [fate EXCEPT ![o] = "alive"]
    OBVIOUS
  <2>2. f \in [Objects -> Fates]
    BY <1>1, <2>1 DEF Fates
  <2>3. w = [World EXCEPT !.fate = f]
    BY <2>1 DEF World
  <2>. HIDE DEF w
  <2>. QED  BY <1>1, <2>2, <2>3 DEF Worlds
<1>3. Agree(w)
  <2>. HIDE DEF w
  <2>. QED  BY <1>1, <1>2 DEF Agree, Own
<1>4. Become(v) /\ UNCHANGED <<disk, making, kept, m_active_blocks>>
  BY DEF AddObject
<1>. HIDE DEF w
<1>5. Step(w, v, FreeId(w.objects))
  BY <1>1, <1>2, AddSteps
<1>6. Walked(w, v, Positions)
  <2>. HIDE DEF v
  <2>. QED  BY <1>2, <1>3, <1>5, StepWalks
<1>. HIDE DEF v
<1>7. Walked(World, v, Positions)
  BY <1>2, <1>6 DEF Walked
<1>. QED  BY <1>1, <1>4, <1>7, WalkKeepsInv DEF Kept

LEMMA RemovedKeeps ==
  ASSUME Inv, removeRemovedObjects
  PROVE  Kept
<1>. DEFINE S == Gone(m_active_objects)
            n == Cardinality(S)
            v == FoldLeft(removeRemovedObject, World, SetToSeq(S))
<1>1. /\ DiskOK /\ World \in Worlds /\ Agree(World) /\ m_active_blocks \subseteq Positions
      /\ World.objects = m_active_objects /\ m_active_objects \in Partial(Ids, ActiveObject)
  BY InvParts
<1>2. S \in SUBSET (DOMAIN World.objects) /\ IsFiniteSet(S)
  <2>1. IsFiniteSet(DOMAIN m_active_objects)
    BY <1>1, PartialMember
  <2>2. S \in SUBSET (DOMAIN m_active_objects)
    BY DEF Gone
  <2>. QED  BY <1>1, <2>1, <2>2, FS_Subset
<1>3. Order(SetToSeq(S), n, DOMAIN World.objects)
  <2>. HIDE DEF S
  <2>. QED  BY <1>2, SetToSeqOrders DEF Order
<1>4. \A i \in 1..n : World.objects[SetToSeq(S)[i]].gone # "no"
  <2>1. SetToSeq(S) \in [1..n -> S]
    <3>. HIDE DEF S
    <3>. QED  BY <1>2, SetToSeqOrders
  <2>2. \A id \in S : World.objects[id].gone # "no"
    BY <1>1 DEF Gone
  <2>. HIDE DEF S, n
  <2>. QED  BY <2>1, <2>2
<1>5. Walked(World, v, Positions)
  <2>. HIDE DEF S, n
  <2>. QED  BY <1>1, <1>3, <1>4, GoneLoop
<1>6. Become(v) /\ UNCHANGED <<disk, making, kept, m_active_blocks>>
  BY DEF removeRemovedObjects
<1>. HIDE DEF v
<1>. QED  BY <1>1, <1>5, <1>6, WalkKeepsInv DEF Kept

-----------------------------------------------------------------------------
(* Of one object, not its static data. *)
LEMMA ObjectKeeps ==
  ASSUME Inv, NEW id \in DOMAIN m_active_objects, NEW ao \in ActiveObject,
         SameData(m_active_objects[id], ao),
         m_active_objects' = [m_active_objects EXCEPT ![id] = ao],
         fate' \in [Objects -> Fates], UNCHANGED <<mapVars, m_active_blocks>>
  PROVE  Kept
<1>1. /\ DiskOK /\ World \in Worlds /\ Agree(World) /\ m_active_blocks \subseteq Positions
      /\ World.blocks = blocks /\ World.objects = m_active_objects
      /\ blocks \in Memory /\ m_active_objects \in Partial(Ids, ActiveObject)
  BY InvParts
<1>2. PICK v : v = [blocks |-> blocks, objects |-> m_active_objects', fate |-> fate']
  OBVIOUS
<1>3. v.blocks = blocks /\ v.objects = m_active_objects' /\ v.fate = fate'
  BY <1>2
<1>4. /\ DOMAIN m_active_objects' = DOMAIN m_active_objects
      /\ \A i \in DOMAIN m_active_objects :
            m_active_objects'[i] = IF i = id THEN ao ELSE m_active_objects[i]
      /\ m_active_objects' = [i \in DOMAIN m_active_objects |-> m_active_objects'[i]]
  BY <1>1, PartialMember
<1>5. m_active_objects' \in Partial(Ids, ActiveObject)
  <2>1. /\ IsFiniteSet(DOMAIN m_active_objects) /\ DOMAIN m_active_objects \subseteq Ids
        /\ \A i \in DOMAIN m_active_objects : m_active_objects[i] \in ActiveObject
    BY <1>1, PartialMember
  <2>. QED  BY <1>4, <2>1, MapPartial
<1>6. v \in Worlds
  BY <1>1, <1>2, <1>5 DEF Worlds
<1>7. Keeps(World.blocks, v.blocks) /\ OnlyTouches(World.blocks, v.blocks, 0)
  BY <1>1, <1>3, KeepsReflexive
<1>8. /\ DOMAIN v.objects \subseteq DOMAIN World.objects
      /\ \A i \in DOMAIN v.objects : SameData(World.objects[i], v.objects[i])
  <2>1. \A i \in DOMAIN m_active_objects' : SameData(m_active_objects[i], m_active_objects'[i])
    BY <1>4 DEF SameData
  <2>. QED  BY <1>1, <1>3, <1>4, <2>1
<1>9. Agree(v)
  BY <1>1, <1>7, <1>8, NoZeroId, AgreeKept
<1>10. Walked(World, v, Positions)
  <2>1. DOMAIN v.blocks \subseteq Positions
    BY <1>6, WorldParts
  <2>. QED  BY <1>6, <1>7, <1>9, <2>1 DEF Walked
<1>11. Become(v) /\ UNCHANGED <<disk, making, kept>>
  BY <1>3 DEF Become, mapVars
<1>. QED  BY <1>1, <1>10, <1>11, WalkKeepsInv DEF Kept

LEMMA OneObjectKeeps ==
  ASSUME Inv, NEW id \in DOMAIN m_active_objects, NEW p \in Positions,
         RemoveObject(id) \/ KnownChanges(id) \/ MoveObject(id, p)
  PROVE  Kept
<1>1. m_active_objects[id] \in ActiveObject /\ fate \in [Objects -> Fates]
  BY InvParts, PartialMember
<1>2. CASE RemoveObject(id)
  <2>1. PICK ao : ao = [m_active_objects[id] EXCEPT !.gone = "removal"]
    OBVIOUS
  <2>2. ao \in ActiveObject /\ SameData(m_active_objects[id], ao)
    BY <1>1, <2>1 DEF ActiveObject, SameData
  <2>3. m_active_objects' = [m_active_objects EXCEPT ![id] = ao]
    BY <1>2, <2>1 DEF RemoveObject
  <2>4. fate' \in [Objects -> Fates]
    <3>1. fate' = [o \in Objects |-> fate'[o]]
      BY <1>1, <1>2 DEF RemoveObject, Fated
    <3>2. \A o \in Objects : fate'[o] \in {fate[o], "removed"}
      BY <1>1, <1>2 DEF RemoveObject, Fated
    <3>. QED  BY <1>1, <3>1, <3>2 DEF Fates
  <2>. QED  BY <1>2, <2>2, <2>3, <2>4, ObjectKeeps DEF RemoveObject
<1>3. CASE KnownChanges(id)
  <2>1. PICK ao : ao = [m_active_objects[id] EXCEPT !.known = ~@]
    OBVIOUS
  <2>2. ao \in ActiveObject /\ SameData(m_active_objects[id], ao)
    BY <1>1, <2>1 DEF ActiveObject, SameData
  <2>3. m_active_objects' = [m_active_objects EXCEPT ![id] = ao]
    BY <1>3, <2>1 DEF KnownChanges
  <2>4. fate' \in [Objects -> Fates] /\ UNCHANGED <<mapVars, m_active_blocks>>
    BY <1>1, <1>3 DEF KnownChanges
  <2>. QED  BY <2>2, <2>3, <2>4, ObjectKeeps
<1>4. CASE MoveObject(id, p)
  <2>1. PICK ao : ao = [m_active_objects[id] EXCEPT !.pos = p]
    OBVIOUS
  <2>2. ao \in ActiveObject /\ SameData(m_active_objects[id], ao)
    BY <1>1, <2>1 DEF ActiveObject, SameData
  <2>3. m_active_objects' = [m_active_objects EXCEPT ![id] = ao]
    BY <1>4, <2>1 DEF MoveObject
  <2>4. fate' \in [Objects -> Fates] /\ UNCHANGED <<mapVars, m_active_blocks>>
    BY <1>1, <1>4 DEF MoveObject
  <2>. QED  BY <2>2, <2>3, <2>4, ObjectKeeps
<1>. QED  BY <1>2, <1>3, <1>4

(* The node timers' interval: blocks are used, stamped and marked. *)
LEMMA UsedBlock ==
  ASSUME NEW b \in MapBlock, NEW b1, b1 = [b EXCEPT !.old = FALSE, !.stamp = Valid],
         NEW b2, b2 = b1 \/ b2 = Raised(b1, WriteAtUnload)
  PROVE  b2 \in MapBlock /\ Derived(b, b2) /\ Touches(b, b2, 0)
<1>1. /\ b1 \in MapBlock
      /\ b1.nodes = b.nodes /\ b1.generated = b.generated /\ b1.stored = b.stored
      /\ b1.active = b.active /\ b1.modified = b.modified
  BY DEF MapBlock, Stamps
<1>2. PICK c : c = Raised(b1, WriteAtUnload)
  OBVIOUS
<1>3. /\ c \in MapBlock /\ c = [b1 EXCEPT !.modified = c.modified]
      /\ b1.modified = WriteNeeded => c.modified = WriteNeeded
  BY <1>1, <1>2, RaisedBlock
<1>4. /\ c.nodes = b1.nodes /\ c.generated = b1.generated /\ c.stored = b1.stored
      /\ c.active = b1.active
  BY <1>1, <1>3 DEF MapBlock
<1>5. /\ b2 \in MapBlock /\ b2.nodes = b.nodes /\ b2.generated = b.generated
      /\ b2.stored = b.stored /\ b2.active = b.active
      /\ b.modified = WriteNeeded => b2.modified = WriteNeeded
  BY <1>1, <1>2, <1>3, <1>4
<1>. QED  BY <1>5, SameContent

LEMMA TimersKeep ==
  ASSUME Inv, NEW expired, RunNodeTimers(expired)
  PROVE  Kept
<1>1. /\ DiskOK /\ World \in Worlds /\ Agree(World) /\ m_active_blocks \subseteq Positions
      /\ World.blocks = blocks /\ World.objects = m_active_objects /\ World.fate = fate
      /\ blocks \in Memory /\ fate \in [Objects -> Fates]
  BY InvParts
<1>2. PICK bs : bs = blocks'
  OBVIOUS
<1>3. PICK v : v = [blocks |-> bs, objects |-> m_active_objects, fate |-> fate]
  OBVIOUS
<1>4. /\ v \in [blocks : {bs}, objects : {m_active_objects}, fate : [Objects -> Fates]]
      /\ v.blocks = bs /\ v.objects = m_active_objects /\ v.fate = fate
  BY <1>1, <1>3
<1>5. DOMAIN bs = DOMAIN blocks /\ bs = [p \in DOMAIN bs |-> bs[p]]
  BY <1>2 DEF RunNodeTimers
<1>6. ASSUME NEW p \in DOMAIN bs
      PROVE  bs[p] \in MapBlock /\ Derived(blocks[p], bs[p]) /\ Touches(blocks[p], bs[p], 0)
  <2>1. PICK b \in MapBlock : b = blocks[p]
    BY <1>1, <1>5, PartialMember DEF Memory
  <2>2. PICK b1 : b1 = [b EXCEPT !.old = FALSE, !.stamp = Valid]
    OBVIOUS
  <2>3. CASE p \notin m_active_blocks
    <3>1. bs[p] = b
      BY <1>2, <1>5, <2>1, <2>3 DEF RunNodeTimers
    <3>. QED  BY <2>1, <3>1, SameContent
  <2>4. CASE p \in m_active_blocks
    <3>1. bs[p] = b1 \/ bs[p] = Raised(b1, WriteAtUnload)
      BY <1>2, <1>5, <2>1, <2>2, <2>4 DEF RunNodeTimers
    <3>2. PICK b2 : b2 = bs[p]
      OBVIOUS
    <3>3. b2 \in MapBlock /\ Derived(b, b2) /\ Touches(b, b2, 0)
      BY <2>2, <3>1, <3>2, UsedBlock
    <3>. QED  BY <2>1, <3>2, <3>3
  <2>. QED  BY <2>3, <2>4
<1>7. Walked(World, v, DOMAIN blocks)
  BY <1>1, <1>4, <1>5, <1>6, MapWalks
<1>8. Walked(World, v, Positions)
  BY <1>1, <1>7, PartialMember DEF Walked, Memory
<1>9. Become(v) /\ UNCHANGED <<disk, making, kept>> /\ m_active_blocks' \subseteq Positions
  BY <1>1, <1>2, <1>4 DEF Become, RunNodeTimers, envVars
<1>. QED  BY <1>8, <1>9, WalkKeepsInv DEF Kept

-----------------------------------------------------------------------------
LEMMA WalkedReflexive ==
  ASSUME NEW w \in Worlds, Agree(w)
  PROVE  Walked(w, w, DOMAIN w.blocks)
BY WorldParts, KeepsReflexive DEF Walked

(* Blocks get old or are used again. *)
AgedIn(w, near) ==
  [w EXCEPT !.blocks = [p \in DOMAIN @ |-> [@[p] EXCEPT !.old = p \notin near]]]

LEMMA AgingWalks ==
  ASSUME DiskOK, NEW w \in Worlds, Agree(w), NEW near, NEW v, v = AgedIn(w, near)
  PROVE  Walked(w, v, DOMAIN w.blocks) /\ v.objects = w.objects /\ v \in Worlds
<1>1. /\ w.blocks \in Memory /\ w.objects \in Partial(Ids, ActiveObject)
      /\ w.fate \in [Objects -> Fates]
      /\ \A p \in DOMAIN w.blocks : w.blocks[p] \in MapBlock
  BY WorldParts
<1>2. PICK bs : bs = [p \in DOMAIN w.blocks |-> [w.blocks[p] EXCEPT !.old = p \notin near]]
  OBVIOUS
<1>3. v = [w EXCEPT !.blocks = bs]
  BY <1>2 DEF AgedIn
<1>4. /\ v \in [blocks : {bs}, objects : {w.objects}, fate : [Objects -> Fates]]
      /\ v.objects = w.objects
  BY <1>1, <1>3 DEF Worlds
<1>5. DOMAIN bs = DOMAIN w.blocks /\ bs = [p \in DOMAIN bs |-> bs[p]]
  BY <1>2
<1>6. ASSUME NEW p \in DOMAIN bs
      PROVE  /\ bs[p] \in MapBlock
             /\ Derived(w.blocks[p], bs[p]) /\ Touches(w.blocks[p], bs[p], 0)
  <2>1. PICK b \in MapBlock : b = w.blocks[p]
    BY <1>1, <1>5
  <2>2. PICK c : c = bs[p]
    OBVIOUS
  <2>3. c = [b EXCEPT !.old = p \notin near]
    BY <1>2, <1>5, <2>1, <2>2
  <2>4. /\ c \in MapBlock /\ c.nodes = b.nodes /\ c.generated = b.generated
        /\ c.stored = b.stored /\ c.active = b.active /\ c.modified = b.modified
    BY <2>1, <2>3 DEF MapBlock
  <2>. QED  BY <2>1, <2>2, <2>4, SameContent
<1>7. Walked(w, v, DOMAIN w.blocks)
  BY <1>4, <1>5, <1>6, MapWalks
<1>. QED  BY <1>4, <1>7 DEF Walked

(* Blocks that are not active any more are stamped. *)
LEMMA StampingWalks ==
  ASSUME DiskOK, NEW w \in Worlds, Agree(w), NEW left, NEW v,
         v = [w EXCEPT !.blocks = [p \in DOMAIN @ |->
                IF p \in left THEN [Raised(@[p], WriteAtUnload) EXCEPT !.stamp = Valid]
                ELSE @[p]]]
  PROVE  /\ Walked(w, v, DOMAIN w.blocks) /\ v \in Worlds
         /\ DOMAIN v.blocks = DOMAIN w.blocks
<1>1. /\ w.blocks \in Memory /\ w.objects \in Partial(Ids, ActiveObject)
      /\ w.fate \in [Objects -> Fates]
      /\ \A p \in DOMAIN w.blocks : w.blocks[p] \in MapBlock
  BY WorldParts
<1>2. PICK bs : bs = [p \in DOMAIN w.blocks |->
                IF p \in left THEN [Raised(w.blocks[p], WriteAtUnload) EXCEPT !.stamp = Valid]
                ELSE w.blocks[p]]
  OBVIOUS
<1>3. v = [w EXCEPT !.blocks = bs]
  BY <1>2
<1>4. /\ v \in [blocks : {bs}, objects : {w.objects}, fate : [Objects -> Fates]]
      /\ v.blocks = bs
  BY <1>1, <1>3 DEF Worlds
<1>5. DOMAIN bs = DOMAIN w.blocks /\ bs = [p \in DOMAIN bs |-> bs[p]]
  BY <1>2
<1>6. ASSUME NEW p \in DOMAIN bs
      PROVE  /\ bs[p] \in MapBlock
             /\ Derived(w.blocks[p], bs[p]) /\ Touches(w.blocks[p], bs[p], 0)
  <2>1. PICK b \in MapBlock : b = w.blocks[p]
    BY <1>1, <1>5
  <2>2. PICK c : c = bs[p]
    OBVIOUS
  <2>3. PICK r : r = Raised(b, WriteAtUnload)
    OBVIOUS
  <2>4. c = IF p \in left THEN [r EXCEPT !.stamp = Valid] ELSE b
    BY <1>2, <1>5, <2>1, <2>2, <2>3
  <2>5. /\ r \in MapBlock /\ r = [b EXCEPT !.modified = r.modified]
        /\ b.modified = WriteNeeded => r.modified = WriteNeeded
    BY <2>3, RaisedBlock
  <2>6. /\ r.nodes = b.nodes /\ r.generated = b.generated /\ r.stored = b.stored
        /\ r.active = b.active
    BY <2>5 DEF MapBlock
  <2>7. /\ c \in MapBlock /\ c.nodes = b.nodes /\ c.generated = b.generated
        /\ c.stored = b.stored /\ c.active = b.active
        /\ b.modified = WriteNeeded => c.modified = WriteNeeded
    BY <2>4, <2>5, <2>6 DEF MapBlock, Stamps
  <2>. QED  BY <2>1, <2>2, <2>7, SameContent
<1>7. Walked(w, v, DOMAIN w.blocks)
  BY <1>4, <1>5, <1>6, MapWalks
<1>. QED  BY <1>4, <1>5, <1>7 DEF Walked

LEMMA UpdateKeeps ==
  ASSUME Inv, NEW near \in SUBSET Positions, NEW changed, NEW order \in Orders,
         UpdateActiveBlocks(near, changed, order)
  PROVE  Kept
<1>. DEFINE aged == [World EXCEPT !.blocks =
                       [p \in DOMAIN @ |-> [@[p] EXCEPT !.old = p \notin near]]]
            far == FoldLeft(LAMBDA w, id : deactivateFarObject(w, id, near, id \in changed),
                            aged, order)
            left == (m_active_blocks \ near) \cap DOMAIN far.blocks
            stamped == [far EXCEPT !.blocks = [p \in DOMAIN @ |->
                IF p \in left THEN [Raised(@[p], WriteAtUnload) EXCEPT !.stamp = Valid]
                ELSE @[p]]]
            added == near \ m_active_blocks
            there == added \cap DOMAIN far.blocks
            v == FoldLeft(activateBlock, stamped, SetToSeq(there))
<1>1. /\ DiskOK /\ World \in Worlds /\ Agree(World)
      /\ World.blocks = blocks /\ World.objects = m_active_objects
      /\ blocks \in Memory /\ m_active_objects \in Partial(Ids, ActiveObject)
  BY InvParts
<1>2. /\ Become(v) /\ UNCHANGED <<disk, making, kept>>
      /\ m_active_blocks' = near \ (added \ there)
  BY DEF UpdateActiveBlocks
<1>3. Walked(World, aged, Positions) /\ aged.objects = World.objects /\ aged \in Worlds
  <2>1. PICK w \in Worlds : w = World
    BY <1>1
  <2>2. PICK a : a = AgedIn(w, near)
    OBVIOUS
  <2>3. Walked(w, a, DOMAIN w.blocks) /\ a.objects = w.objects /\ a \in Worlds
    BY <1>1, <2>1, <2>2, AgingWalks
  <2>4. a = aged
    BY <2>1, <2>2 DEF AgedIn
  <2>5. DOMAIN w.blocks \subseteq Positions
    BY WorldParts
  <2>6. Walked(w, a, Positions)
    BY <2>3, <2>5 DEF Walked
  <2>. QED  BY <2>1, <2>3, <2>4, <2>6
<1>. HIDE DEF aged
<1>4. Walked(World, far, Positions)
  <2>1. Order(order, Cardinality(DOMAIN m_active_objects), DOMAIN m_active_objects)
    BY <1>1, OrdersAreOrders DEF Orders
  <2>2. Agree(aged)
    BY <1>3 DEF Walked
  <2>3. Walked(aged, FarDone(aged, near, changed, order), Positions)
    BY <1>1, <1>3, <2>1, <2>2, FarLoop
  <2>4. far = FarDone(aged, near, changed, order)
    BY DEF FarDone
  <2>. HIDE DEF far
  <2>. QED  BY <1>1, <1>3, <2>3, <2>4, WalkedTransitive
<1>. HIDE DEF far
<1>5. /\ Walked(far, stamped, DOMAIN far.blocks) /\ stamped \in Worlds
      /\ DOMAIN stamped.blocks = DOMAIN far.blocks
  <2>1. far \in Worlds /\ Agree(far)
    BY <1>4 DEF Walked
  <2>2. PICK l : l = left
    OBVIOUS
  <2>3. PICK s : s = [far EXCEPT !.blocks = [p \in DOMAIN @ |->
                IF p \in l THEN [Raised(@[p], WriteAtUnload) EXCEPT !.stamp = Valid]
                ELSE @[p]]]
    OBVIOUS
  <2>4. /\ Walked(far, s, DOMAIN far.blocks) /\ s \in Worlds
        /\ DOMAIN s.blocks = DOMAIN far.blocks
    BY <1>1, <2>1, <2>3, StampingWalks
  <2>5. s = stamped
    BY <2>2, <2>3
  <2>. QED  BY <2>4, <2>5
<1>. HIDE DEF stamped
<1>6. Walked(stamped, v, DOMAIN stamped.blocks)
  <2>1. Agree(stamped) /\ there \in SUBSET (DOMAIN stamped.blocks)
    BY <1>5 DEF Walked
  <2>2. Walked(stamped, stamped, DOMAIN stamped.blocks)
    BY <1>5, <2>1, WalkedReflexive
  <2>. HIDE DEF there
  <2>. QED  BY <1>1, <1>5, <2>1, <2>2, ActivateLoop
<1>. HIDE DEF v
<1>7. Walked(World, v, Positions)
  <2>1. far \in Worlds /\ DOMAIN far.blocks \subseteq Positions
    BY <1>4 DEF Walked
  <2>2. Walked(far, v, Positions)
    BY <1>1, <1>5, <1>6, <2>1, WalkedTransitive DEF Walked
  <2>. QED  BY <1>1, <1>4, <2>2, WalkedTransitive
<1>8. m_active_blocks' \subseteq Positions
  BY <1>2
<1>. QED  BY <1>2, <1>7, <1>8, WalkKeepsInv DEF Kept

-----------------------------------------------------------------------------
(* The actions of the map *)

LEMMA BlocksWalk ==
  ASSUME Inv, NEW m \in Memory, Keeps(blocks, m), OnlyTouches(blocks, m, 0),
         NEW v, v = [blocks |-> m, objects |-> m_active_objects, fate |-> fate]
  PROVE  Walked(World, v, Positions)
<1>1. /\ DiskOK /\ World \in Worlds /\ Agree(World)
      /\ World.blocks = blocks /\ World.objects = m_active_objects
      /\ m_active_objects \in Partial(Ids, ActiveObject) /\ fate \in [Objects -> Fates]
  BY InvParts
<1>2. v \in Worlds /\ v.blocks = m /\ v.objects = m_active_objects
  BY <1>1 DEF Worlds
<1>3. \A i \in DOMAIN v.objects : SameData(World.objects[i], v.objects[i])
  BY <1>1, <1>2 DEF SameData
<1>4. DOMAIN v.objects \subseteq DOMAIN World.objects
  BY <1>1, <1>2
<1>5. Agree(v)
  BY <1>1, <1>2, <1>3, <1>4, NoZeroId, AgreeKept
<1>6. DOMAIN v.blocks \subseteq Positions
  BY <1>2, WorldParts
<1>. QED  BY <1>1, <1>2, <1>5, <1>6 DEF Walked

LEMMA FetchedAfter ==
  ASSUME NEW m, NEW p, NEW create \in BOOLEAN, NEW x
  PROVE  Fetched(EmergeBlock(m, p, create), x) = Fetched(m, x)
BY DEF Fetched, EmergeBlock, Put

LEMMA GetBlockKeeps ==
  ASSUME Inv, NEW p \in Positions, blocks' = EmergeBlock(blocks, p, FALSE),
         UNCHANGED <<making, disk, kept, envVars>>
  PROVE  Kept
<1>1. DiskOK /\ blocks \in Memory /\ m_active_blocks \subseteq Positions
  BY InvParts
<1>2. PICK v : v = [blocks |-> blocks', objects |-> m_active_objects, fate |-> fate]
  OBVIOUS
<1>3. blocks' \in Memory /\ Keeps(blocks, blocks') /\ OnlyTouches(blocks, blocks', 0)
  BY <1>1, EmergeKeeps
<1>4. Walked(World, v, Positions)
  BY <1>2, <1>3, BlocksWalk
<1>5. Become(v) /\ m_active_blocks' \subseteq Positions
  BY <1>1, <1>2 DEF Become, envVars
<1>. QED  BY <1>4, <1>5, WalkKeepsInv DEF Kept

LEMMA StartKeeps ==
  ASSUME Inv, NEW p \in Positions,
         InitBlockMake(EmergeBlock(blocks, p, FALSE), p), UNCHANGED <<disk, kept, envVars>>
  PROVE  Kept
<1>. DEFINE mem == EmergeBlock(blocks, p, FALSE)
            copy == [x \in Positions |-> Fetched(blocks, x).nodes]
<1>1. /\ DiskOK /\ blocks \in Memory /\ m_active_blocks \subseteq Positions
      /\ m_active_objects \in Partial(Ids, ActiveObject) /\ fate \in [Objects -> Fates]
      /\ making \in Partial(Positions, [Positions -> Nodesets])
      /\ kept \in Partial(Edits, SUBSET Positions)
  BY InvParts DEF Inv, TypeOK
<1>2. \A x \in Positions : /\ EmergeBlock(mem, x, TRUE)[x] = Fetched(blocks, x)
                           /\ Fetched(blocks, x) \in MapBlock
  <2>1. mem \in Memory
    BY <1>1, EmergeKeeps
  <2>2. \A x \in Positions : EmergeBlock(mem, x, TRUE)[x] = Fetched(mem, x)
    <3>. HIDE DEF mem
    <3>. QED  BY <1>1, <2>1, EmergeKeeps
  <2>3. \A x \in Positions : Fetched(mem, x) = Fetched(blocks, x)
    BY FetchedAfter
  <2>. HIDE DEF mem
  <2>. QED  BY <1>1, <2>2, <2>3, FetchedType
<1>3. /\ Cardinality(DOMAIN making) < EmergeThreads
      /\ blocks' = [x \in Positions |-> Fetched(blocks, x)]
      /\ making' = Put(making, p, copy)
  <2>1. /\ Cardinality(DOMAIN making) < EmergeThreads
        /\ blocks' = [x \in Positions |-> EmergeBlock(mem, x, TRUE)[x]]
        /\ making' = Put(making, p, [x \in Positions |-> EmergeBlock(mem, x, TRUE)[x].nodes])
    BY Zenon DEF InitBlockMake
  <2>. HIDE DEF mem
  <2>. QED  BY <1>2, <2>1
<1>4. blocks' \in Memory
  BY <1>2, <1>3, MapAssumption, MapPartial DEF Memory
<1>5. Keeps(blocks, blocks') /\ OnlyTouches(blocks, blocks', 0)
  <2>1. DOMAIN blocks \subseteq Positions
    BY <1>1, PartialMember DEF Memory
  <2>2. \A x \in Positions : /\ Derived(Fetched(blocks, x), Fetched(blocks, x))
                             /\ Touches(Fetched(blocks, x), Fetched(blocks, x), 0)
    BY <1>2, SameContent
  <2>. QED  BY <1>3, <2>1, <2>2 DEF Keeps, OnlyTouches
<1>6. PICK v : v = [blocks |-> blocks', objects |-> m_active_objects, fate |-> fate]
  OBVIOUS
<1>7. Walked(World, v, Positions) /\ v = World'
  BY <1>4, <1>5, <1>6, BlocksWalk DEF World, envVars
<1>8. /\ SavedIn(blocks', disk)
      /\ \A q : NodesIn(blocks', disk, q) = NodesIn(blocks, disk, q)
      /\ \A q : GeneratedIn(blocks', disk, q) <=> GeneratedIn(blocks, disk, q)
      /\ TerrainIn(blocks, disk) => TerrainIn(blocks', disk)
  BY <1>1, <1>4, <1>5, KeepsContent DEF Inv
<1>9. copy \in [Positions -> Nodesets]
  BY <1>2 DEF MapBlock
<1>10. /\ DOMAIN making' = DOMAIN making \cup {p} /\ making'[p] = copy
       /\ \A q \in DOMAIN making : q # p => making'[q] = making[q]
  <2>. HIDE DEF copy
  <2>. QED  BY <1>3 DEF Put
<1>11. TypeOK' /\ Agree(World)'
  <2>1. World' \in Worlds /\ Worlds' = Worlds
    BY <1>7 DEF Walked
  <2>2. Agree(World)'
    BY <1>7 DEF Walked, Agree, Own
  <2>3. making' \in Partial(Positions, [Positions -> Nodesets])
    <3>. HIDE DEF copy
    <3>. QED  BY <1>1, <1>3, <1>9, PutPartial
  <2>. QED  BY <1>1, <2>1, <2>2, <2>3 DEF Inv, TypeOK, DiskOK, envVars
<1>12. SavedIn(blocks, disk)' /\ EditsIn(blocks, disk, kept)'
  BY <1>8 DEF SavedIn, Count, ActiveOf, EditsIn, NodesIn, Inv
<1>13. EditsCopied(making, kept)'
  <2>. SUFFICES ASSUME NEW q \in DOMAIN making', NEW e \in DOMAIN kept, NEW x \in kept[e]
                PROVE  e \in making'[q][x]
    BY DEF EditsCopied
  <2>1. x \in Positions
    BY <1>1, PartialMember
  <2>2. CASE q = p
    BY <1>10, <2>1, <2>2, FetchedContent DEF Inv, EditsIn
  <2>3. CASE q # p
    <3>. HIDE DEF copy
    <3>. QED  BY <1>10, <2>3 DEF Inv, EditsCopied
  <2>. QED  BY <2>2, <2>3
<1>14. ASSUME EmergeThreads =< 1, TerrainInv PROVE TerrainInv'
  <2>1. TerrainIn(blocks, disk)'
    BY <1>8, <1>14 DEF TerrainIn, TerrainInv
  <2>2. DOMAIN making = {}
    <3>1. IsFiniteSet(DOMAIN making)
      BY <1>1, PartialMember
    <3>2. Cardinality(DOMAIN making) \in Nat /\ EmergeThreads \in Nat
      BY <3>1, FS_CardinalityType, MapAssumption
    <3>3. Cardinality(DOMAIN making) = 0
      BY <1>3, <1>14, <3>2
    <3>. QED  BY <3>1, <3>3, FS_EmptySet
  <2>3. DOMAIN making' = {p}
    BY <1>10, <2>2
  <2>4. TerrainCopied(blocks, disk, making)'
    <3>. SUFFICES ASSUME NEW q \in Positions, GeneratedIn(blocks', disk, q)
                  PROVE  Terrain \in copy[q]
      BY <1>10, <2>3 DEF TerrainCopied, GeneratedIn
    <3>1. GeneratedIn(blocks, disk, q)
      BY <1>8
    <3>2. Terrain \in NodesIn(blocks, disk, q)
      BY <1>14, <3>1 DEF TerrainInv, TerrainIn, GeneratedIn, NodesIn
    <3>. QED  BY <3>2, FetchedContent
  <2>5. OneAtATime(making)'
    BY <2>3 DEF OneAtATime
  <2>. QED  BY <2>1, <2>4, <2>5 DEF TerrainInv
<1>. QED  BY <1>11, <1>12, <1>13, <1>14 DEF Inv, Kept

LEMMA GetKeeps ==
  ASSUME Inv, NEW p \in Positions, NEW allow_gen \in BOOLEAN,
         MapAction(GetBlockOrStartGen(p, allow_gen))
  PROVE  Kept
<1>1. /\ UNCHANGED <<disk, kept, envVars>>
      /\ \/ InitBlockMake(EmergeBlock(blocks, p, FALSE), p)
         \/ blocks' = EmergeBlock(blocks, p, FALSE) /\ UNCHANGED making
  BY DEF MapAction, GetBlockOrStartGen
<1>2. CASE InitBlockMake(EmergeBlock(blocks, p, FALSE), p)
  BY <1>1, <1>2, StartKeeps
<1>3. CASE blocks' = EmergeBlock(blocks, p, FALSE) /\ UNCHANGED making
  BY <1>1, <1>3, GetBlockKeeps
<1>. QED  BY <1>1, <1>2, <1>3

-----------------------------------------------------------------------------
LEMMA SameObjects ==
  ASSUME Inv, blocks' \in Memory, OnlyTouches(blocks, blocks', 0),
         fate' \in [Objects -> Fates], UNCHANGED <<m_active_objects, m_active_blocks>>,
         disk' \in Partial(Positions, BlockCopy),
         making' \in Partial(Positions, [Positions -> Nodesets]),
         kept' \in Partial(Edits, SUBSET Positions)
  PROVE  TypeOK' /\ Agree(World)'
<1>1. /\ World \in Worlds /\ Agree(World) /\ World.blocks = blocks
      /\ World.objects = m_active_objects /\ m_active_blocks \subseteq Positions
      /\ m_active_objects \in Partial(Ids, ActiveObject)
  BY InvParts
<1>2. PICK v : v = [blocks |-> blocks', objects |-> m_active_objects', fate |-> fate']
  OBVIOUS
<1>3. v \in Worlds /\ v.blocks = blocks' /\ v.objects = m_active_objects /\ v = World'
  BY <1>1, <1>2 DEF Worlds, World
<1>4. \A i \in DOMAIN v.objects : SameData(World.objects[i], v.objects[i])
  BY <1>1, <1>3 DEF SameData
<1>5. DOMAIN v.objects \subseteq DOMAIN World.objects
  BY <1>1, <1>3
<1>6. Agree(v)
  BY <1>1, <1>3, <1>4, <1>5, NoZeroId, AgreeKept
<1>7. World' \in Worlds /\ Worlds' = Worlds
  BY <1>3
<1>8. Agree(World)'
  BY <1>3, <1>6 DEF Agree, Own
<1>. QED  BY <1>1, <1>7, <1>8 DEF TypeOK

LEMMA EditKeeps ==
  ASSUME Inv, NEW p \in Positions, NEW e \in Edits, MapAction(EditNode(p, e))
  PROVE  Kept
<1>1. /\ DiskOK /\ blocks \in Memory /\ m_active_blocks \subseteq Positions
      /\ making \in Partial(Positions, [Positions -> Nodesets])
      /\ kept \in Partial(Edits, SUBSET Positions) /\ fate \in [Objects -> Fates]
  BY InvParts DEF Inv, TypeOK
<1>2. PICK b0 \in MapBlock : b0 = blocks[p]
  BY <1>1, PartialMember DEF MapAction, EditNode, Memory
<1>3. PICK r : r = Raised(b0, WriteNeeded)
  OBVIOUS
<1>4. PICK b : b = [r EXCEPT !.nodes = @ \cup {e}]
  OBVIOUS
<1>5. /\ p \in DOMAIN blocks /\ e \notin DOMAIN kept
      /\ blocks' = Put(blocks, p, b)
      /\ kept' = Put(kept, e, IF making = Nothing THEN {p} ELSE {})
      /\ UNCHANGED <<disk, making, envVars>>
  BY <1>2, <1>3, <1>4 DEF MapAction, EditNode
<1>6. /\ r \in MapBlock /\ r.nodes = b0.nodes /\ r.generated = b0.generated
      /\ r.active = b0.active /\ r.stored = b0.stored /\ r.modified = WriteNeeded
  <2>1. r \in MapBlock /\ r = [b0 EXCEPT !.modified = r.modified] /\ r.modified = WriteNeeded
    BY <1>3, RaisedBlock
  <2>. QED  BY <2>1 DEF MapBlock
<1>7. /\ b \in MapBlock /\ b.nodes = b0.nodes \cup {e} /\ b.generated = b0.generated
      /\ b.active = b0.active /\ b.modified = WriteNeeded
  BY <1>4, <1>6 DEF MapBlock, Nodesets
<1>8. /\ DOMAIN blocks' = DOMAIN blocks /\ blocks'[p] = b
      /\ \A q \in DOMAIN blocks : q # p => blocks'[q] = blocks[q]
  BY <1>5 DEF Put
<1>9. /\ DOMAIN kept' = DOMAIN kept \cup {e} /\ kept'[e] \subseteq {p}
      /\ making # Nothing => kept'[e] = {}
      /\ \A f \in DOMAIN kept : kept'[f] = kept[f]
  BY <1>5 DEF Put
<1>10. blocks' \in Memory
  BY <1>1, <1>5, <1>7, PutPartial DEF Memory
<1>11. OnlyTouches(blocks, blocks', 0)
  BY <1>2, <1>7, <1>8 DEF OnlyTouches, Touches, Fetched
<1>12. kept' \in Partial(Edits, SUBSET Positions)
  <2>1. PICK S \in SUBSET Positions : S = IF making = Nothing THEN {p} ELSE {}
    OBVIOUS
  <2>. QED  BY <1>1, <1>5, <2>1, PutPartial
<1>13. TypeOK' /\ Agree(World)'
  BY <1>1, <1>5, <1>10, <1>11, <1>12, SameObjects DEF envVars, DiskOK
<1>14. SavedIn(blocks, disk)'
  BY <1>5, <1>7, <1>8 DEF SavedIn, Count, ActiveOf, Inv
<1>15. /\ \A q : NodesIn(blocks, disk, q) \subseteq NodesIn(blocks', disk, q)
       /\ \A q : GeneratedIn(blocks', disk, q) <=> GeneratedIn(blocks, disk, q)
       /\ e \in NodesIn(blocks', disk, p)
  BY <1>2, <1>5, <1>7, <1>8 DEF NodesIn, GeneratedIn
<1>16. EditsIn(blocks, disk, kept)'
  <2>. SUFFICES ASSUME NEW f \in DOMAIN kept', NEW q \in kept'[f]
                PROVE  f \in NodesIn(blocks', disk, q)
    BY <1>5 DEF EditsIn, NodesIn
  <2>1. CASE f = e
    BY <1>9, <1>15, <2>1
  <2>2. CASE f # e
    BY <1>9, <1>15, <2>2 DEF Inv, EditsIn
  <2>. QED  BY <2>1, <2>2
<1>17. EditsCopied(making, kept)'
  <2>1. CASE making = Nothing
    BY <1>5, <2>1 DEF EditsCopied, Nothing
  <2>2. CASE making # Nothing
    BY <1>5, <1>9, <2>2 DEF Inv, EditsCopied
  <2>. QED  BY <2>1, <2>2
<1>18. ASSUME TerrainInv PROVE TerrainInv'
  <2>1. TerrainIn(blocks, disk)'
    BY <1>2, <1>5, <1>7, <1>8, <1>18 DEF TerrainInv, TerrainIn
  <2>2. TerrainCopied(blocks, disk, making)'
    BY <1>5, <1>15, <1>18 DEF TerrainInv, TerrainCopied, GeneratedIn
  <2>3. OneAtATime(making)'
    BY <1>5, <1>18 DEF TerrainInv, OneAtATime
  <2>. QED  BY <2>1, <2>2, <2>3 DEF TerrainInv
<1>. QED  BY <1>13, <1>14, <1>16, <1>17, <1>18 DEF Inv, Kept

(* What is written of blocks. *)
SavedFrom(d, m, S) ==
  /\ d \in Partial(Positions, BlockCopy)
  /\ DOMAIN d = S \cup DOMAIN disk
  /\ \A p \in S : /\ d[p].nodes = m[p].nodes /\ d[p].generated = m[p].generated
                  /\ \A o \in Objects : d[p].objects[o] = Count(m[p], o)
  /\ \A p \in DOMAIN disk \ S : d[p] = disk[p]

LEMMA SavedValues ==
  ASSUME DiskOK, NEW m \in Memory, NEW S \in SUBSET (DOMAIN m), NEW d, d = Saved(m, S)
  PROVE  SavedFrom(d, m, S)
<1>1. /\ \A p \in DOMAIN m : p \in Positions /\ m[p] \in MapBlock
      /\ IsFiniteSet(DOMAIN m)
      /\ \A p \in DOMAIN disk : p \in Positions /\ disk[p] \in BlockCopy
      /\ IsFiniteSet(DOMAIN disk)
  BY PartialMember DEF Memory, DiskOK
<1>2. /\ DOMAIN d = S \cup DOMAIN disk
      /\ \A p \in S : d[p] = Serialized(m[p])
      /\ \A p \in DOMAIN disk \ S : d[p] = disk[p]
      /\ d = [p \in DOMAIN d |-> d[p]]
  BY DEF Saved
<1>3. ASSUME NEW b \in MapBlock
      PROVE  /\ Serialized(b) \in BlockCopy
             /\ Serialized(b).nodes = b.nodes /\ Serialized(b).generated = b.generated
             /\ \A o \in Objects : Serialized(b).objects[o] = Count(b, o)
  <2>1. \A o \in Objects : Count(b, o) \in Nat
    BY CountType
  <2>2. Serialized(b) = [nodes |-> b.nodes, generated |-> b.generated, stamp |-> b.stamp,
                         objects |-> [o \in Objects |-> Count(b, o)]]
    BY DEF Serialized, Count
  <2>3. [o \in Objects |-> Count(b, o)] \in Stores
    BY <2>1 DEF Stores
  <2>. QED  BY <2>2, <2>3 DEF BlockCopy, MapBlock
<1>4. \A p \in DOMAIN d : d[p] \in BlockCopy
  BY <1>1, <1>2, <1>3
<1>5. IsFiniteSet(DOMAIN d) /\ DOMAIN d \subseteq Positions
  <2>1. IsFiniteSet(S)
    BY <1>1, FS_Subset
  <2>2. IsFiniteSet(S \cup DOMAIN disk)
    BY <1>1, <2>1, FS_Union
  <2>. QED  BY <1>1, <1>2, <2>2
<1>6. d \in Partial(Positions, BlockCopy)
  BY <1>2, <1>4, <1>5, PartialMember
<1>. QED  BY <1>1, <1>2, <1>3, <1>6 DEF SavedFrom

-----------------------------------------------------------------------------
(* The content of the blocks is the same, or is gone. *)
LEMMA SameContents ==
  ASSUME Inv, TypeOK', Agree(World)', SavedIn(blocks, disk)', UNCHANGED <<making, kept>>,
         \A p \in Positions : /\ NodesIn(blocks', disk', p) = NodesIn(blocks, disk, p)
                              /\ GeneratedIn(blocks', disk', p) => GeneratedIn(blocks, disk, p),
         TerrainIn(blocks, disk) => TerrainIn(blocks', disk')
  PROVE  Kept
<1>1. EditsIn(blocks, disk, kept)'
  <2>1. \A e \in DOMAIN kept : kept[e] \subseteq Positions
    BY PartialMember DEF Inv, TypeOK
  <2>. QED  BY <2>1 DEF Inv, EditsIn, NodesIn
<1>2. EditsCopied(making, kept)'
  BY DEF Inv, EditsCopied
<1>3. ASSUME TerrainInv PROVE TerrainInv'
  <2>1. TerrainIn(blocks, disk)'
    BY <1>3 DEF TerrainInv, TerrainIn
  <2>2. TerrainCopied(blocks, disk, making)'
    BY <1>3 DEF TerrainInv, TerrainCopied, GeneratedIn
  <2>. QED  BY <1>3, <2>1, <2>2 DEF TerrainInv, OneAtATime
<1>. QED  BY <1>1, <1>2, <1>3 DEF Inv, Kept

(* What is promised of fewer edits.                                        *)
LEMMA UnkeptType ==
  ASSUME NEW S, NEW k, k = Unkept(S), kept \in Partial(Edits, SUBSET Positions)
  PROVE  /\ k \in Partial(Edits, SUBSET Positions) /\ DOMAIN k = DOMAIN kept
         /\ \A e \in DOMAIN k : k[e] = kept[e] \ S
<1>1. /\ IsFiniteSet(DOMAIN kept) /\ DOMAIN kept \subseteq Edits
      /\ \A e \in DOMAIN kept : kept[e] \in SUBSET Positions
  BY PartialMember
<1>2. /\ DOMAIN k = DOMAIN kept /\ k = [e \in DOMAIN k |-> k[e]]
      /\ \A e \in DOMAIN k : k[e] = kept[e] \ S
  BY DEF Unkept
<1>3. k \in Partial(Edits, SUBSET Positions)
  BY <1>1, <1>2, PartialMember
<1>. QED  BY <1>2, <1>3

(* The content is the same but for the blocks in S.                        *)
LEMMA OtherContents ==
  ASSUME Inv, NEW S, TypeOK', Agree(World)', SavedIn(blocks, disk)', UNCHANGED making,
         kept' = Unkept(S),
         \A p \in Positions \ S : NodesIn(blocks', disk', p) = NodesIn(blocks, disk, p),
         TerrainIn(blocks, disk) =>
           /\ TerrainIn(blocks', disk')
           /\ \A p \in Positions :
                GeneratedIn(blocks', disk', p) => GeneratedIn(blocks, disk, p)
  PROVE  Kept
<1>1. /\ DOMAIN kept' = DOMAIN kept
      /\ \A e \in DOMAIN kept : kept[e] \subseteq Positions /\ kept'[e] = kept[e] \ S
  <2>1. kept \in Partial(Edits, SUBSET Positions)
    BY DEF Inv, TypeOK
  <2>2. PICK k : k = Unkept(S)
    OBVIOUS
  <2>. QED  BY <2>1, <2>2, UnkeptType, PartialMember
<1>2. EditsIn(blocks, disk, kept)'
  BY <1>1 DEF Inv, EditsIn, NodesIn
<1>3. EditsCopied(making, kept)'
  BY <1>1 DEF Inv, EditsCopied
<1>4. ASSUME TerrainInv PROVE TerrainInv'
  <2>1. TerrainIn(blocks, disk)'
    BY <1>4 DEF TerrainInv, TerrainIn
  <2>2. TerrainCopied(blocks, disk, making)'
    BY <1>4 DEF TerrainInv, TerrainCopied, GeneratedIn
  <2>. QED  BY <1>4, <2>1, <2>2 DEF TerrainInv, OneAtATime
<1>. QED  BY <1>2, <1>3, <1>4 DEF Inv, Kept

LEMMA SaveKeeps ==
  ASSUME Inv, NEW written, MapAction(Save(written))
  PROVE  Kept
<1>1. /\ DiskOK /\ blocks \in Memory /\ m_active_blocks \subseteq Positions
      /\ making \in Partial(Positions, [Positions -> Nodesets])
      /\ kept \in Partial(Edits, SUBSET Positions) /\ fate \in [Objects -> Fates]
      /\ SavedIn(blocks, disk)
  BY InvParts DEF Inv, TypeOK
<1>2. /\ written \in SUBSET (DOMAIN blocks)
      /\ disk' = Saved(blocks, written) /\ blocks' = ResetModified(blocks, written)
      /\ UNCHANGED <<making, kept, envVars>>
  BY DEF MapAction, Save, AtLevel
<1>3. /\ disk' \in Partial(Positions, BlockCopy)
      /\ DOMAIN disk' = written \cup DOMAIN disk
      /\ \A p \in written : /\ disk'[p].nodes = blocks[p].nodes
                            /\ disk'[p].generated = blocks[p].generated
                            /\ \A o \in Objects : disk'[p].objects[o] = Count(blocks[p], o)
      /\ \A p \in DOMAIN disk \ written : disk'[p] = disk[p]
  <2>1. PICK d : d = Saved(blocks, written)
    OBVIOUS
  <2>2. d = disk'
    BY <1>2, <2>1
  <2>3. SavedFrom(d, blocks, written)
    BY <1>1, <1>2, <2>1, SavedValues
  <2>. QED  BY <2>2, <2>3 DEF SavedFrom
<1>4. /\ DOMAIN blocks' = DOMAIN blocks
      /\ \A p \in DOMAIN blocks \ written : blocks'[p] = blocks[p]
      /\ blocks' = [p \in DOMAIN blocks' |-> blocks'[p]]
  BY <1>2 DEF ResetModified
<1>5. ASSUME NEW p \in DOMAIN blocks
      PROVE  /\ blocks'[p] \in MapBlock /\ blocks[p] \in MapBlock /\ p \in Positions
             /\ blocks'[p].nodes = blocks[p].nodes
             /\ blocks'[p].generated = blocks[p].generated
             /\ blocks'[p].stored = blocks[p].stored /\ blocks'[p].active = blocks[p].active
  <2>1. p \in Positions /\ blocks[p] \in MapBlock
    BY <1>1, PartialMember DEF Memory
  <2>2. CASE p \in written
    <3>1. blocks'[p] = [blocks[p] EXCEPT !.modified = Clean]
      BY <1>2, <2>2 DEF ResetModified
    <3>. QED  BY <2>1, <3>1 DEF MapBlock
  <2>3. CASE p \notin written
    BY <1>4, <2>1, <2>3
  <2>. QED  BY <2>1, <2>2, <2>3
<1>6. blocks' \in Memory
  <2>1. IsFiniteSet(DOMAIN blocks') /\ DOMAIN blocks' \subseteq Positions
    BY <1>1, <1>4, PartialMember DEF Memory
  <2>2. PICK m : m = blocks'
    OBVIOUS
  <2>. QED  BY <1>4, <1>5, <2>1, <2>2, PartialMember DEF Memory
<1>7. OnlyTouches(blocks, blocks', 0)
  BY <1>4, <1>5 DEF OnlyTouches, Touches, Fetched
<1>8. TypeOK' /\ Agree(World)'
  BY <1>1, <1>2, <1>3, <1>6, <1>7, SameObjects DEF envVars
<1>9. SavedIn(blocks', disk')
  <2>. SUFFICES ASSUME NEW p \in DOMAIN blocks', blocks'[p].modified # WriteNeeded
                PROVE  /\ p \in DOMAIN disk'
                       /\ blocks'[p].nodes = disk'[p].nodes
                       /\ blocks'[p].generated = disk'[p].generated
                       /\ \A o \in Objects : Count(blocks'[p], o) =< disk'[p].objects[o]
    BY DEF SavedIn
  <2>1. CASE p \in written
    <3>1. \A o \in Objects : /\ Count(blocks'[p], o) = Count(blocks[p], o)
                             /\ Count(blocks[p], o) \in Nat
      BY <1>4, <1>5, CountType DEF Count
    <3>. QED  BY <1>3, <1>4, <1>5, <2>1, <3>1
  <2>2. CASE p \notin written
    BY <1>1, <1>3, <1>4, <2>2 DEF SavedIn
  <2>. QED  BY <2>1, <2>2
<1>10. SavedIn(blocks, disk)'
  BY <1>9 DEF SavedIn, Count, ActiveOf
<1>11. \A p \in Positions : /\ NodesIn(blocks', disk', p) = NodesIn(blocks, disk, p)
                            /\ GeneratedIn(blocks', disk', p) => GeneratedIn(blocks, disk, p)
  BY <1>2, <1>3, <1>4, <1>5 DEF NodesIn, GeneratedIn
<1>12. TerrainIn(blocks, disk) => TerrainIn(blocks', disk')
  BY <1>2, <1>3, <1>4, <1>5 DEF TerrainIn
<1>. QED  BY <1>2, <1>8, <1>10, <1>11, <1>12, SameContents

LEMMA UnloadKeeps ==
  ASSUME Inv, NEW p \in Positions, NEW written, UnloadBlock(p, written)
  PROVE  Kept
<1>1. /\ DiskOK /\ blocks \in Memory /\ m_active_blocks \subseteq Positions
      /\ making \in Partial(Positions, [Positions -> Nodesets])
      /\ kept \in Partial(Edits, SUBSET Positions) /\ fate \in [Objects -> Fates]
      /\ SavedIn(blocks, disk)
  BY InvParts DEF Inv, TypeOK
<1>2. PICK S : S = ({p} \cap AtLevel(blocks, WriteNeeded)) \ written
  OBVIOUS
<1>3. /\ p \in DOMAIN blocks /\ disk' = Saved(blocks, written) /\ blocks' = Without(blocks, {p})
      /\ kept' = Unkept(S) /\ written \subseteq WrittenAtUnload(p)
      /\ UNCHANGED <<making, m_active_objects, m_active_blocks>>
  BY <1>2 DEF UnloadBlock, Unload
<1>4. /\ written \in SUBSET (DOMAIN blocks) /\ written \subseteq {p} /\ S \subseteq {p}
      /\ p \in S => written = {}
      /\ p \notin S /\ p \notin written => blocks[p].modified # WriteNeeded
  BY <1>2, <1>3 DEF WrittenAtUnload, AtLevel, WriteNeeded
<1>5. /\ disk' \in Partial(Positions, BlockCopy)
      /\ DOMAIN disk' = written \cup DOMAIN disk
      /\ \A q \in written : /\ disk'[q].nodes = blocks[q].nodes
                      /\ disk'[q].generated = blocks[q].generated
      /\ \A q \in DOMAIN disk \ written : disk'[q] = disk[q]
  <2>1. PICK d : d = Saved(blocks, written)
    OBVIOUS
  <2>2. d = disk'
    BY <1>3, <2>1
  <2>3. SavedFrom(d, blocks, written)
    BY <1>1, <1>4, <2>1, SavedValues
  <2>. QED  BY <2>2, <2>3 DEF SavedFrom
<1>6. /\ p \notin S => /\ p \in DOMAIN disk'
                      /\ disk'[p].nodes = blocks[p].nodes
                      /\ disk'[p].generated = blocks[p].generated
      /\ p \in S /\ p \in DOMAIN disk' => p \in DOMAIN disk /\ disk'[p] = disk[p]
      /\ \A q \in DOMAIN disk \ {p} : q \in DOMAIN disk' /\ disk'[q] = disk[q]
      /\ DOMAIN disk' \subseteq DOMAIN disk \cup {p}
  <2>1. CASE p \in S
    BY <1>4, <1>5, <2>1
  <2>2. CASE p \notin S /\ p \in written
    BY <1>4, <1>5, <2>2
  <2>3. CASE p \notin S /\ p \notin written
    BY <1>1, <1>3, <1>4, <1>5, <2>3 DEF SavedIn
  <2>. QED  BY <2>1, <2>2, <2>3
<1>7. /\ DOMAIN blocks' = DOMAIN blocks \ {p} /\ blocks' \in Memory
      /\ \A q \in DOMAIN blocks \ {p} : blocks'[q] = blocks[q]
  <2>1. PICK S1 : S1 = {p}
    OBVIOUS
  <2>2. PICK m : m = Without(blocks, S1)
    OBVIOUS
  <2>3. blocks' = m
    BY <1>3, <2>1, <2>2
  <2>4. /\ DOMAIN m = DOMAIN blocks \ S1
        /\ \A q \in DOMAIN blocks \ S1 : m[q] = blocks[q]
    BY <2>2 DEF Without
  <2>5. m \in Memory
    BY <1>1, <2>2, WithoutPartial DEF Memory
  <2>. QED  BY <2>1, <2>3, <2>4, <2>5
<1>8. OnlyTouches(blocks, blocks', 0)
  BY <1>7 DEF OnlyTouches, Touches, Fetched
<1>9. fate' \in [Objects -> Fates]
  BY <1>1 DEF UnloadBlock, Fates
<1>10. TypeOK' /\ Agree(World)'
  <2>1. kept' \in Partial(Edits, SUBSET Positions)
    BY <1>1, <1>3, UnkeptType
  <2>. QED  BY <1>1, <1>3, <1>5, <1>7, <1>8, <1>9, <2>1, SameObjects
<1>11. SavedIn(blocks, disk)'
  BY <1>1, <1>6, <1>7 DEF SavedIn, Count, ActiveOf
<1>12. \A q \in Positions \ S : NodesIn(blocks', disk', q) = NodesIn(blocks, disk, q)
  BY <1>3, <1>6, <1>7 DEF NodesIn
<1>13. ASSUME TerrainIn(blocks, disk)
       PROVE  /\ TerrainIn(blocks', disk')
              /\ \A q \in Positions :
                   GeneratedIn(blocks', disk', q) => GeneratedIn(blocks, disk, q)
  <2>1. TerrainIn(blocks', disk')
    BY <1>3, <1>6, <1>7, <1>13 DEF TerrainIn
  <2>2. \A q \in Positions : GeneratedIn(blocks', disk', q) => GeneratedIn(blocks, disk, q)
    BY <1>3, <1>6, <1>7, <1>13 DEF TerrainIn, GeneratedIn
  <2>. QED  BY <2>1, <2>2
<1>. QED  BY <1>3, <1>10, <1>11, <1>12, <1>13, OtherContents

LEMMA DeleteKeeps ==
  ASSUME Inv, NEW p \in Positions, DeleteArea(p)
  PROVE  Kept
<1>1. /\ DiskOK /\ blocks \in Memory /\ m_active_blocks \subseteq Positions
      /\ making \in Partial(Positions, [Positions -> Nodesets])
      /\ kept \in Partial(Edits, SUBSET Positions) /\ fate \in [Objects -> Fates]
      /\ SavedIn(blocks, disk)
  BY InvParts DEF Inv, TypeOK
<1>2. /\ disk' = Without(disk, {p}) /\ blocks' = Without(blocks, {p})
      /\ kept' = Unkept({p})
      /\ UNCHANGED <<making, m_active_objects, m_active_blocks>>
  BY DEF DeleteArea, DeleteBlock
<1>3. /\ DOMAIN blocks' = DOMAIN blocks \ {p} /\ blocks' \in Memory
      /\ \A q \in DOMAIN blocks \ {p} : blocks'[q] = blocks[q]
  <2>1. PICK S1 : S1 = {p}
    OBVIOUS
  <2>2. PICK m : m = Without(blocks, S1)
    OBVIOUS
  <2>3. blocks' = m
    BY <1>2, <2>1, <2>2
  <2>4. /\ DOMAIN m = DOMAIN blocks \ S1
        /\ \A q \in DOMAIN blocks \ S1 : m[q] = blocks[q]
    BY <2>2 DEF Without
  <2>5. m \in Memory
    BY <1>1, <2>2, WithoutPartial DEF Memory
  <2>. QED  BY <2>1, <2>3, <2>4, <2>5
<1>4. /\ DOMAIN disk' = DOMAIN disk \ {p} /\ disk' \in Partial(Positions, BlockCopy)
      /\ \A q \in DOMAIN disk \ {p} : disk'[q] = disk[q]
  <2>1. PICK S1 : S1 = {p}
    OBVIOUS
  <2>2. PICK m : m = Without(disk, S1)
    OBVIOUS
  <2>3. disk' = m
    BY <1>2, <2>1, <2>2
  <2>4. /\ DOMAIN m = DOMAIN disk \ S1
        /\ \A q \in DOMAIN disk \ S1 : m[q] = disk[q]
    BY <2>2 DEF Without
  <2>5. m \in Partial(Positions, BlockCopy)
    BY <1>1, <2>2, WithoutPartial DEF DiskOK
  <2>. QED  BY <2>1, <2>3, <2>4, <2>5
<1>5. OnlyTouches(blocks, blocks', 0)
  BY <1>3 DEF OnlyTouches, Touches, Fetched
<1>6. fate' \in [Objects -> Fates]
  <2>1. PICK S : fate' = Fated(fate, S, "removed")
    BY DEF DeleteArea
  <2>. QED  BY <1>1, <2>1 DEF Fated, Fates
<1>7. kept' \in Partial(Edits, SUBSET Positions)
  <2>1. PICK S : S = {p}
    OBVIOUS
  <2>. QED  BY <1>1, <1>2, <2>1, UnkeptType
<1>8. TypeOK' /\ Agree(World)'
  BY <1>1, <1>2, <1>3, <1>4, <1>5, <1>6, <1>7, SameObjects
<1>9. SavedIn(blocks, disk)'
  BY <1>1, <1>3, <1>4 DEF SavedIn, Count, ActiveOf
<1>10. \A q \in Positions \ {p} : NodesIn(blocks', disk', q) = NodesIn(blocks, disk, q)
  BY <1>3, <1>4 DEF NodesIn
<1>11. ASSUME TerrainIn(blocks, disk)
       PROVE  /\ TerrainIn(blocks', disk')
              /\ \A q \in Positions :
                   GeneratedIn(blocks', disk', q) => GeneratedIn(blocks, disk, q)
  BY <1>3, <1>4, <1>11 DEF TerrainIn, GeneratedIn
<1>. QED  BY <1>2, <1>8, <1>9, <1>10, <1>11, OtherContents

-----------------------------------------------------------------------------
(* The end of a chunk: its copy is blitted back, and its block activated.  *)
MadeFrom(bs, p) ==
  /\ DOMAIN bs = DOMAIN blocks
  /\ \A b \in DOMAIN bs :
       /\ bs[b] \in MapBlock /\ bs[b].modified = WriteNeeded
       /\ bs[b].active = blocks[b].active
       /\ bs[b].nodes = making[p][b] \cup (IF b = p THEN {Terrain} ELSE {})
       /\ bs[b].generated <=> blocks[b].generated \/ b = p

LEMMA MadeBlocks ==
  ASSUME Inv, NEW p \in DOMAIN making, NEW bs, bs = FinishBlockMake(p)
  PROVE  MadeFrom(bs, p) /\ bs \in Memory
<1>1. /\ blocks \in Memory /\ IsFiniteSet(DOMAIN blocks) /\ DOMAIN blocks \subseteq Positions
      /\ \A b \in DOMAIN blocks : blocks[b] \in MapBlock
  BY InvParts, PartialMember DEF Memory
<1>2. making[p] \in [Positions -> Nodesets]
  BY PartialMember DEF Inv, TypeOK
<1>3. DOMAIN bs = DOMAIN blocks /\ bs = [b \in DOMAIN bs |-> bs[b]]
  BY DEF FinishBlockMake
<1>4. ASSUME NEW b \in DOMAIN bs
      PROVE  /\ bs[b] \in MapBlock /\ bs[b].modified = WriteNeeded
             /\ bs[b].active = blocks[b].active
             /\ bs[b].nodes = making[p][b] \cup (IF b = p THEN {Terrain} ELSE {})
             /\ bs[b].generated <=> blocks[b].generated \/ b = p
  <2>1. PICK b0 \in MapBlock : b0 = blocks[b]
    BY <1>1, <1>3
  <2>2. PICK r : r = Raised(b0, WriteNeeded)
    OBVIOUS
  <2>3. PICK nodes : nodes = making[p][b] \cup (IF b = p THEN {Terrain} ELSE {})
    OBVIOUS
  <2>4. nodes \in Nodesets
    BY <1>1, <1>2, <1>3, <2>3 DEF Nodesets
  <2>5. bs[b] = [r EXCEPT !.nodes = nodes, !.generated = @ \/ b = p]
    BY <1>3, <2>1, <2>2, <2>3 DEF FinishBlockMake
  <2>6. /\ r \in MapBlock /\ r.generated = b0.generated /\ r.active = b0.active
        /\ r.modified = WriteNeeded
    <3>1. r \in MapBlock /\ r = [b0 EXCEPT !.modified = r.modified] /\ r.modified = WriteNeeded
      BY <2>2, RaisedBlock
    <3>. QED  BY <3>1 DEF MapBlock
  <2>7. PICK g \in BOOLEAN : g <=> r.generated \/ b = p
    OBVIOUS
  <2>8. bs[b] = [r EXCEPT !.nodes = nodes, !.generated = g]
    BY <2>5, <2>6, <2>7 DEF MapBlock
  <2>9. /\ bs[b] \in MapBlock /\ bs[b].modified = WriteNeeded
        /\ bs[b].active = b0.active /\ bs[b].nodes = nodes /\ bs[b].generated = g
    BY <2>4, <2>6, <2>8 DEF MapBlock
  <2>. QED  BY <2>1, <2>3, <2>6, <2>7, <2>9
<1>5. bs \in Memory
  BY <1>1, <1>3, <1>4, PartialMember DEF Memory
<1>. QED  BY <1>3, <1>4, <1>5 DEF MadeFrom

LEMMA FinishKeeps ==
  ASSUME Inv, NEW p \in Positions, FinishGen(p)
  PROVE  Kept
<1>1. /\ DiskOK /\ blocks \in Memory /\ m_active_blocks \subseteq Positions
      /\ World \in Worlds /\ Agree(World) /\ World.blocks = blocks
      /\ World.objects = m_active_objects
      /\ m_active_objects \in Partial(Ids, ActiveObject) /\ fate \in [Objects -> Fates]
      /\ making \in Partial(Positions, [Positions -> Nodesets])
      /\ kept \in Partial(Edits, SUBSET Positions)
  BY InvParts DEF Inv, TypeOK
<1>2. p \in DOMAIN making /\ making' = Without(making, {p})
      /\ UNCHANGED <<disk, kept, m_active_blocks>>
  BY DEF FinishGen
<1>3. PICK bs : bs = FinishBlockMake(p)
  OBVIOUS
<1>4. MadeFrom(bs, p) /\ bs \in Memory
  BY <1>2, <1>3, MadeBlocks
<1>5. PICK made : made = [World EXCEPT !.blocks = bs]
  OBVIOUS
<1>6. /\ made \in Worlds /\ made.blocks = bs /\ made.objects = World.objects
  BY <1>1, <1>4, <1>5 DEF Worlds
<1>7. Agree(made)
  <2>1. OnlyTouches(World.blocks, made.blocks, 0)
    BY <1>1, <1>4, <1>6 DEF OnlyTouches, Touches, Fetched, MadeFrom
  <2>2. \A i \in DOMAIN made.objects : SameData(World.objects[i], made.objects[i])
    BY <1>6 DEF SameData
  <2>3. DOMAIN made.objects \subseteq DOMAIN World.objects
    BY <1>6
  <2>. QED  BY <1>1, <2>1, <2>2, <2>3, NoZeroId, AgreeKept
<1>8. PICK v : v = IF p \in DOMAIN blocks THEN activateBlock(made, p) ELSE made
  OBVIOUS
<1>9. Become(v)
  <2>1. made = [World EXCEPT !.blocks = FinishBlockMake(p)]
    BY <1>3, <1>5
  <2>. QED  BY <1>8, <2>1 DEF FinishGen
<1>10. Walked(made, v, DOMAIN made.blocks)
  <2>1. CASE p \in DOMAIN blocks
    <3>1. p \in DOMAIN made.blocks
      BY <1>4, <1>6, <2>1 DEF MadeFrom
    <3>. QED  BY <1>1, <1>6, <1>7, <1>8, <2>1, <3>1, ActivateBlockWalks
  <2>2. CASE p \notin DOMAIN blocks
    BY <1>6, <1>7, <1>8, <2>2, WalkedReflexive
  <2>. QED  BY <2>1, <2>2
<1>11. v \in Worlds /\ Agree(v) /\ v.blocks \in Memory /\ Keeps(bs, v.blocks)
  BY <1>6, <1>10, WorldParts DEF Walked
<1>12. v = World'
  BY <1>9, <1>11 DEF Become, World, Worlds
<1>13. making' \in Partial(Positions, [Positions -> Nodesets])
       /\ DOMAIN making' = DOMAIN making \ {p}
       /\ \A q \in DOMAIN making \ {p} : making'[q] = making[q]
  <2>1. PICK S : S = {p}
    OBVIOUS
  <2>2. PICK m : m = Without(making, S)
    OBVIOUS
  <2>3. making' = m
    BY <1>2, <2>1, <2>2
  <2>4. /\ DOMAIN m = DOMAIN making \ S
        /\ \A q \in DOMAIN making \ S : m[q] = making[q]
    BY <2>2 DEF Without
  <2>5. m \in Partial(Positions, [Positions -> Nodesets])
    BY <1>1, <2>2, WithoutPartial
  <2>. QED  BY <2>1, <2>3, <2>4, <2>5
<1>14. TypeOK' /\ Agree(World)'
  <2>1. World' \in Worlds /\ Worlds' = Worlds
    BY <1>11, <1>12
  <2>2. Agree(World)'
    BY <1>11, <1>12 DEF Agree, Own
  <2>. QED  BY <1>1, <1>2, <1>13, <2>1, <2>2 DEF TypeOK, DiskOK
<1>15. SavedIn(bs, disk)
  BY <1>4 DEF MadeFrom, SavedIn
<1>16. /\ SavedIn(v.blocks, disk)
       /\ \A q : NodesIn(v.blocks, disk, q) = NodesIn(bs, disk, q)
       /\ \A q : GeneratedIn(v.blocks, disk, q) <=> GeneratedIn(bs, disk, q)
       /\ TerrainIn(bs, disk) => TerrainIn(v.blocks, disk)
  BY <1>1, <1>4, <1>11, <1>15, KeepsContent
<1>17. v.blocks = blocks'
  BY <1>9 DEF Become
<1>18. SavedIn(blocks, disk)'
  BY <1>2, <1>16, <1>17 DEF SavedIn, Count, ActiveOf
<1>19. EditsIn(blocks, disk, kept)'
  <2>. SUFFICES ASSUME NEW e \in DOMAIN kept, NEW q \in kept[e]
                PROVE  e \in NodesIn(bs, disk, q)
    BY <1>2, <1>16, <1>17 DEF EditsIn, NodesIn
  <2>1. CASE q \in DOMAIN blocks
    BY <1>2, <1>4, <2>1 DEF Inv, EditsCopied, MadeFrom, NodesIn
  <2>2. CASE q \notin DOMAIN blocks
    BY <1>4, <2>2 DEF Inv, EditsIn, MadeFrom, NodesIn
  <2>. QED  BY <2>1, <2>2
<1>20. EditsCopied(making, kept)'
  BY <1>2, <1>13 DEF Inv, EditsCopied
<1>21. ASSUME TerrainInv PROVE TerrainInv'
  <2>1. TerrainIn(bs, disk)
    <3>. SUFFICES ASSUME NEW b \in DOMAIN bs, bs[b].generated
                  PROVE  Terrain \in bs[b].nodes
      BY <1>4, <1>21 DEF TerrainInv, TerrainIn, MadeFrom
    <3>1. CASE b = p
      BY <1>4, <3>1 DEF MadeFrom
    <3>2. CASE b # p
      <4>1. b \in DOMAIN blocks /\ blocks[b].generated /\ b \in Positions
        BY <1>1, <1>4, <3>2, PartialMember DEF MadeFrom, Memory
      <4>2. Terrain \in making[p][b]
        BY <1>2, <1>21, <3>2, <4>1 DEF TerrainInv, TerrainCopied, GeneratedIn
      <4>. QED  BY <1>4, <4>2 DEF MadeFrom
    <3>. QED  BY <3>1, <3>2
  <2>2. TerrainIn(blocks, disk)'
    BY <1>2, <1>16, <1>17, <2>1 DEF TerrainIn
  <2>3. DOMAIN making' = {}
    BY <1>2, <1>13, <1>21 DEF TerrainInv, OneAtATime
  <2>. QED  BY <2>2, <2>3 DEF TerrainInv, TerrainCopied, OneAtATime
<1>. QED  BY <1>14, <1>18, <1>19, <1>20, <1>21 DEF Inv, Kept

-----------------------------------------------------------------------------
(* clearObjects. *)
AfterClear(block, emptied, recently) ==
  [(IF emptied = TRUE THEN Emptied(block) ELSE block) EXCEPT !.stamp = Aged(@, recently)]

LEMMA AfterBlock ==
  ASSUME NEW b \in MapBlock, NEW emptied \in BOOLEAN, NEW recently \in BOOLEAN,
         NEW c, c = AfterClear(b, emptied, recently)
  PROVE  c \in MapBlock /\ Derived(b, c) /\ Touches(b, c, 0)
<1>1. PICK e : e = IF emptied = TRUE THEN Emptied(b) ELSE b
  OBVIOUS
<1>2. c = [e EXCEPT !.stamp = Aged(@, recently)]
  BY <1>1 DEF AfterClear
<1>3. /\ e \in MapBlock /\ e.nodes = b.nodes /\ e.generated = b.generated
      /\ b.modified = WriteNeeded => e.modified = WriteNeeded
      /\ e = b \/ (e.modified = WriteNeeded /\ e.active = Nothing)
  <2>1. PICK r : r = Raised(b, WriteNeeded)
    OBVIOUS
  <2>2. /\ r \in MapBlock /\ r = [b EXCEPT !.modified = r.modified]
        /\ r.modified = WriteNeeded
    BY <2>1, RaisedBlock
  <2>3. e = b \/ e = [r EXCEPT !.stored = EmptyStore, !.active = Nothing]
    BY <1>1, <2>1 DEF Emptied
  <2>4. CASE e = b
    BY <2>4
  <2>5. CASE e = [r EXCEPT !.stored = EmptyStore, !.active = Nothing]
    <3>1. EmptyStore \in Stores /\ Nothing \in Partial(Ids, Objects)
      BY StoreTypes, NothingPartial
    <3>2. r.nodes = b.nodes /\ r.generated = b.generated
      BY <2>2 DEF MapBlock
    <3>. QED  BY <2>2, <2>5, <3>1, <3>2 DEF MapBlock
  <2>. QED  BY <2>3, <2>4, <2>5
<1>4. PICK stamp : stamp = Aged(e.stamp, recently)
  OBVIOUS
<1>5. stamp \in Stamps
  BY <1>3, <1>4 DEF Aged, MapBlock, Stamps
<1>6. c = [e EXCEPT !.stamp = stamp]
  BY <1>2, <1>4
<1>7. /\ c \in MapBlock /\ c.nodes = b.nodes /\ c.generated = b.generated
      /\ c.modified = e.modified /\ c.active = e.active /\ c.stored = e.stored
  BY <1>3, <1>5, <1>6 DEF MapBlock
<1>8. CASE e = b
  BY <1>7, <1>8, SameContent
<1>9. CASE e.modified = WriteNeeded /\ e.active = Nothing
  <2>1. DOMAIN c.active = {}
    BY <1>7, <1>9, NothingPartial
  <2>. QED  BY <1>7, <1>9, <2>1 DEF Derived, Touches
<1>. QED  BY <1>3, <1>8, <1>9

LEMMA FatedType ==
  ASSUME NEW f \in [Objects -> Fates], NEW S, NEW new \in Fates
  PROVE  Fated(f, S, new) \in [Objects -> Fates]
BY DEF Fated

LEMMA ClearedDisk ==
  ASSUME DiskOK, NEW full, NEW fresh, NEW d, d = ClearedOnDisk(full, fresh)
  PROVE  /\ d \in Partial(Positions, BlockCopy) /\ DOMAIN d = DOMAIN disk
         /\ \A p \in DOMAIN d : d[p].nodes = disk[p].nodes /\ d[p].generated = disk[p].generated
         /\ \A p \in DOMAIN d \cap DOMAIN blocks : d[p].objects = disk[p].objects
<1>1. /\ IsFiniteSet(DOMAIN disk) /\ DOMAIN disk \subseteq Positions
      /\ \A p \in DOMAIN disk : disk[p] \in BlockCopy
  BY PartialMember DEF DiskOK
<1>2. DOMAIN d = DOMAIN disk /\ d = [p \in DOMAIN d |-> d[p]]
  BY DEF ClearedOnDisk
<1>3. ASSUME NEW p \in DOMAIN d
      PROVE  /\ d[p] \in BlockCopy
             /\ d[p].nodes = disk[p].nodes /\ d[p].generated = disk[p].generated
             /\ p \in DOMAIN blocks => d[p].objects = disk[p].objects
  <2>1. PICK c \in BlockCopy : c = disk[p]
    BY <1>1, <1>2
  <2>2. PICK objects : objects = IF full /\ p \notin DOMAIN blocks THEN EmptyStore ELSE c.objects
    OBVIOUS
  <2>3. PICK stamp : stamp = Aged(c.stamp, p \in fresh)
    OBVIOUS
  <2>4. d[p] = [c EXCEPT !.objects = objects, !.stamp = stamp]
    BY <1>2, <2>1, <2>2, <2>3 DEF ClearedOnDisk
  <2>5. objects \in Stores
    BY <2>2, StoreTypes DEF BlockCopy
  <2>6. stamp \in Stamps
    BY <2>3 DEF Aged, BlockCopy, Stamps
  <2>7. /\ d[p] \in BlockCopy /\ d[p].nodes = c.nodes /\ d[p].generated = c.generated
        /\ d[p].objects = objects
    BY <2>4, <2>5, <2>6 DEF BlockCopy
  <2>. QED  BY <2>1, <2>2, <2>7
<1>4. d \in Partial(Positions, BlockCopy)
  BY <1>1, <1>2, <1>3, PartialMember
<1>. QED  BY <1>2, <1>3, <1>4

-----------------------------------------------------------------------------
ClearDone(w, seq) == FoldLeft(ClearObject, w, seq)

LEMMA ClearKeeps ==
  ASSUME Inv, NEW full, NEW recent, NEW fresh, ClearObjects(full, recent, fresh)
  PROVE  Kept
<1>1. /\ DiskOK /\ blocks \in Memory /\ m_active_blocks \subseteq Positions
      /\ World \in Worlds /\ Agree(World) /\ World.blocks = blocks
      /\ World.objects = m_active_objects
      /\ m_active_objects \in Partial(Ids, ActiveObject)
      /\ making \in Partial(Positions, [Positions -> Nodesets])
      /\ kept \in Partial(Edits, SUBSET Positions) /\ SavedIn(blocks, disk)
  BY InvParts DEF Inv, TypeOK
<1>2. PICK seq : seq = SetToSeq(DOMAIN m_active_objects)
  OBVIOUS
<1>3. PICK bare : bare = ClearDone(World, seq)
  OBVIOUS
<1>4. Walked(World, bare, DOMAIN blocks)
  <2>1. PICK n : n = Cardinality(DOMAIN m_active_objects)
    OBVIOUS
  <2>2. Order(seq, n, DOMAIN World.objects)
    <3>1. PICK S : S = DOMAIN m_active_objects
      OBVIOUS
    <3>2. IsFiniteSet(S)
      BY <1>1, <3>1, PartialMember
    <3>. QED  BY <1>1, <1>2, <2>1, <3>1, <3>2, SetToSeqOrders DEF Order
  <2>3. Walked(World, ClearDone(World, seq), DOMAIN World.blocks)
    BY <1>1, <2>2, ClearLoop DEF ClearDone
  <2>. QED  BY <1>1, <1>3, <2>3
<1>5. /\ bare \in Worlds /\ Agree(bare) /\ DOMAIN bare.blocks = DOMAIN blocks
      /\ bare.blocks \in Memory /\ bare.objects \in Partial(Ids, ActiveObject)
      /\ bare.fate \in [Objects -> Fates]
      /\ \A p \in DOMAIN bare.blocks : p \in Positions /\ bare.blocks[p] \in MapBlock
  BY <1>1, <1>4, WorldParts DEF Walked, Keeps
<1>6. PICK checked : checked = IF full THEN DOMAIN disk ELSE DOMAIN blocks
  OBVIOUS
<1>7. PICK overlooked : overlooked =
            {o \in Objects :
               \/ \E p \in DOMAIN blocks \ checked : o \in StoredIn(blocks[p].stored)
               \/ \E p \in fresh \ (DOMAIN blocks \cup checked) :
                      o \in StoredIn(disk[p].objects)}
  OBVIOUS
<1>8. PICK bs : bs = [p \in DOMAIN bare.blocks |->
            [(IF p \in checked THEN Emptied(bare.blocks[p]) ELSE bare.blocks[p]) EXCEPT
                !.stamp = Aged(@, p \in recent)]]
  OBVIOUS
<1>9. PICK f : f = Fated(Fated(bare.fate, overlooked, "overlooked"), Objects, "cleared")
  OBVIOUS
<1>10. PICK v : v = [bare EXCEPT !.blocks = bs, !.fate = f]
  OBVIOUS
<1>11. Become(v) /\ disk' = ClearedOnDisk(full, fresh)
       /\ UNCHANGED <<making, kept, m_active_blocks>>
  BY <1>2, <1>3, <1>6, <1>7, <1>8, <1>9, <1>10, Zenon DEF ClearObjects, ClearDone
<1>12. f \in [Objects -> Fates]
  <2>1. PICK g : g = Fated(bare.fate, overlooked, "overlooked")
    OBVIOUS
  <2>2. g \in [Objects -> Fates]
    BY <1>5, <2>1, FatedType DEF Fates
  <2>. QED  BY <1>9, <2>1, <2>2, FatedType DEF Fates
<1>13. DOMAIN bs = DOMAIN bare.blocks /\ bs = [p \in DOMAIN bs |-> bs[p]]
  BY <1>8
<1>14. ASSUME NEW p \in DOMAIN bs
       PROVE  /\ bs[p] \in MapBlock
              /\ Derived(bare.blocks[p], bs[p]) /\ Touches(bare.blocks[p], bs[p], 0)
  <2>1. PICK b \in MapBlock : b = bare.blocks[p]
    BY <1>5, <1>13
  <2>2. PICK c : c = bs[p]
    OBVIOUS
  <2>3. \E emptied, recently \in BOOLEAN : c = AfterClear(b, emptied, recently)
    <3>1. CASE p \in checked
      <4>1. c = AfterClear(b, TRUE, p \in recent)
        BY <1>8, <1>13, <2>1, <2>2, <3>1 DEF AfterClear
      <4>2. (p \in recent) \in BOOLEAN /\ TRUE \in BOOLEAN /\ FALSE \in BOOLEAN
        OBVIOUS
      <4>. QED  BY <4>1, <4>2, Zenon
    <3>2. CASE p \notin checked
      <4>1. c = AfterClear(b, FALSE, p \in recent)
        BY <1>8, <1>13, <2>1, <2>2, <3>2 DEF AfterClear
      <4>2. (p \in recent) \in BOOLEAN /\ TRUE \in BOOLEAN /\ FALSE \in BOOLEAN
        OBVIOUS
      <4>. QED  BY <4>1, <4>2, Zenon
    <3>. QED  BY <3>1, <3>2
  <2>. QED  BY <2>1, <2>2, <2>3, AfterBlock
<1>15. /\ v \in [blocks : {bs}, objects : {bare.objects}, fate : [Objects -> Fates]]
       /\ v.blocks = bs
  BY <1>5, <1>10, <1>12 DEF Worlds
<1>16. Walked(bare, v, DOMAIN bare.blocks)
  BY <1>1, <1>5, <1>13, <1>14, <1>15, MapWalks
<1>17. Walked(World, v, DOMAIN blocks)
  BY <1>1, <1>4, <1>5, <1>16, WalkedTransitive
<1>18. /\ v \in Worlds /\ Agree(v) /\ v.blocks \in Memory /\ Keeps(blocks, v.blocks)
       /\ DOMAIN v.blocks = DOMAIN blocks
  BY <1>1, <1>17, WorldParts DEF Walked, Keeps
<1>19. v = World' /\ v.blocks = blocks'
  BY <1>11, <1>18 DEF Become, World, Worlds
<1>20. /\ SavedIn(v.blocks, disk)
       /\ \A q : NodesIn(v.blocks, disk, q) = NodesIn(blocks, disk, q)
       /\ \A q : GeneratedIn(v.blocks, disk, q) <=> GeneratedIn(blocks, disk, q)
       /\ TerrainIn(blocks, disk) => TerrainIn(v.blocks, disk)
  BY <1>1, <1>18, KeepsContent
<1>21. PICK d : d = ClearedOnDisk(full, fresh)
  OBVIOUS
<1>22. /\ d \in Partial(Positions, BlockCopy) /\ DOMAIN d = DOMAIN disk
       /\ \A p \in DOMAIN d : d[p].nodes = disk[p].nodes /\ d[p].generated = disk[p].generated
       /\ \A p \in DOMAIN d \cap DOMAIN blocks : d[p].objects = disk[p].objects
  BY <1>1, <1>21, ClearedDisk
<1>23. disk' = d
  BY <1>11, <1>21
<1>24. TypeOK' /\ Agree(World)'
  <2>1. World' \in Worlds /\ Worlds' = Worlds
    BY <1>18, <1>19
  <2>2. Agree(World)'
    BY <1>18, <1>19 DEF Agree, Own
  <2>. QED  BY <1>1, <1>11, <1>22, <1>23, <2>1, <2>2 DEF TypeOK
<1>25. SavedIn(blocks, disk)'
  BY <1>18, <1>19, <1>20, <1>22, <1>23 DEF SavedIn, Count, ActiveOf
<1>26. \A p \in Positions : /\ NodesIn(blocks', disk', p) = NodesIn(blocks, disk, p)
                            /\ GeneratedIn(blocks', disk', p) => GeneratedIn(blocks, disk, p)
  <2>1. \A p : /\ NodesIn(v.blocks, d, p) = NodesIn(v.blocks, disk, p)
               /\ GeneratedIn(v.blocks, d, p) <=> GeneratedIn(v.blocks, disk, p)
    BY <1>22 DEF NodesIn, GeneratedIn
  <2>. QED  BY <1>19, <1>20, <1>23, <2>1
<1>27. TerrainIn(blocks, disk) => TerrainIn(blocks', disk')
  BY <1>19, <1>20, <1>22, <1>23 DEF TerrainIn
<1>. QED  BY <1>11, <1>24, <1>25, <1>26, <1>27, SameContents

-----------------------------------------------------------------------------
(* The server ends or dies. *)
LEMMA EmptyKeeps ==
  ASSUME Inv, blocks' = Nothing, making' = Nothing, m_active_objects' = Nothing,
         m_active_blocks' = {}, fate' \in [Objects -> Fates],
         disk' \in Partial(Positions, BlockCopy),
         kept' \in Partial(Edits, SUBSET Positions),
         \A e \in DOMAIN kept' : \A p \in kept'[e] : p \in DOMAIN disk' /\ e \in disk'[p].nodes,
         TerrainIn(blocks, disk) =>
           \A p \in DOMAIN disk' : disk'[p].generated => Terrain \in disk'[p].nodes
  PROVE  Kept
<1>1. DOMAIN Nothing = {} /\ Nothing \in Memory /\ Nothing \in Partial(Ids, ActiveObject)
      /\ Nothing \in Partial(Positions, [Positions -> Nodesets])
  BY NothingPartial DEF Memory
<1>2. World' \in Worlds /\ World'.objects = Nothing
  BY <1>1 DEF World, Worlds
<1>3. TypeOK'
  BY <1>1, <1>2 DEF TypeOK
<1>4. Agree(World)'
  BY <1>1, <1>2 DEF Agree
<1>5. /\ SavedIn(blocks, disk)' /\ EditsIn(blocks, disk, kept)'
      /\ EditsCopied(making, kept)'
  BY <1>1 DEF SavedIn, EditsIn, EditsCopied, NodesIn
<1>6. ASSUME TerrainInv PROVE TerrainInv'
  BY <1>1, <1>6 DEF TerrainInv, TerrainIn, TerrainCopied, OneAtATime
<1>. QED  BY <1>3, <1>4, <1>5, <1>6 DEF Inv, Kept

LEMMA CrashKeeps ==
  ASSUME Inv, NEW meta_saved, Crash(meta_saved)
  PROVE  Kept
<1>1. /\ DiskOK /\ fate \in [Objects -> Fates] /\ SavedIn(blocks, disk)
      /\ EditsIn(blocks, disk, kept) /\ kept \in Partial(Edits, SUBSET Positions)
  BY InvParts DEF Inv, TypeOK
<1>2. PICK S : S = AtLevel(blocks, WriteNeeded)
  OBVIOUS
<1>3. /\ blocks' = Nothing /\ making' = Nothing /\ m_active_objects' = Nothing
      /\ m_active_blocks' = {} /\ kept' = Unkept(S)
  BY <1>2 DEF Crash, LoseMemory
<1>4. /\ disk' \in Partial(Positions, BlockCopy) /\ DOMAIN disk' = DOMAIN disk
      /\ \A p \in DOMAIN disk : /\ disk'[p].nodes = disk[p].nodes
                                /\ disk'[p].generated = disk[p].generated
  <2>1. PICK d : d = [p \in DOMAIN disk |-> [disk[p] EXCEPT !.stamp =
                        IF @ = Outdated /\ ~meta_saved THEN Valid ELSE @]]
    OBVIOUS
  <2>2. disk' = d
    BY <2>1 DEF Crash
  <2>3. /\ IsFiniteSet(DOMAIN disk) /\ DOMAIN disk \subseteq Positions
        /\ \A p \in DOMAIN disk : disk[p] \in BlockCopy
    BY <1>1, PartialMember DEF DiskOK
  <2>4. ASSUME NEW p \in DOMAIN disk
        PROVE  /\ d[p] \in BlockCopy /\ d[p].nodes = disk[p].nodes
               /\ d[p].generated = disk[p].generated
    <3>1. PICK c \in BlockCopy : c = disk[p]
      BY <2>3
    <3>2. PICK stamp : stamp = IF c.stamp = Outdated /\ ~meta_saved THEN Valid ELSE c.stamp
      OBVIOUS
    <3>3. d[p] = [c EXCEPT !.stamp = stamp]
      BY <2>1, <3>1, <3>2
    <3>4. stamp \in Stamps
      BY <3>2 DEF Stamps, BlockCopy
    <3>. QED  BY <3>1, <3>3, <3>4 DEF BlockCopy
  <2>5. DOMAIN d = DOMAIN disk /\ d = [p \in DOMAIN d |-> d[p]]
    BY <2>1
  <2>6. d \in Partial(Positions, BlockCopy)
    BY <2>3, <2>4, <2>5, PartialMember
  <2>. QED  BY <2>2, <2>4, <2>5, <2>6
<1>5. /\ DOMAIN kept' = DOMAIN kept /\ kept' \in Partial(Edits, SUBSET Positions)
      /\ \A e \in DOMAIN kept : kept'[e] = kept[e] \ S
  BY <1>1, <1>3, UnkeptType
<1>6. fate' \in [Objects -> Fates]
  <2>1. fate' = [o \in Objects |-> fate'[o]] /\ \A o \in Objects : fate'[o] \in {"crashed", fate[o]}
    BY DEF Crash
  <2>. QED  BY <1>1, <2>1 DEF Fates
<1>7. ASSUME NEW e \in DOMAIN kept', NEW p \in kept'[e]
      PROVE  p \in DOMAIN disk' /\ e \in disk'[p].nodes
  <2>1. e \in NodesIn(blocks, disk, p) /\ p \notin S
    BY <1>1, <1>5 DEF EditsIn
  <2>2. p \in DOMAIN blocks => blocks[p].modified # WriteNeeded
    BY <1>2, <2>1 DEF AtLevel, WriteNeeded
  <2>3. p \in DOMAIN disk /\ e \in disk[p].nodes
    BY <1>1, <2>1, <2>2 DEF SavedIn, NodesIn
  <2>. QED  BY <1>4, <2>3
<1>8. TerrainIn(blocks, disk) =>
        \A p \in DOMAIN disk' : disk'[p].generated => Terrain \in disk'[p].nodes
  BY <1>4 DEF TerrainIn
<1>. QED  BY <1>3, <1>4, <1>5, <1>6, <1>7, <1>8, EmptyKeeps

LEMMA ShutdownKeeps ==
  ASSUME Inv, NEW order \in Orders, NEW changed, Shutdown(order, changed)
  PROVE  Kept
<1>1. /\ DiskOK /\ SavedIn(blocks, disk) /\ EditsIn(blocks, disk, kept)
      /\ World \in Worlds /\ Agree(World) /\ World.blocks = blocks
      /\ World.objects = m_active_objects /\ blocks \in Memory
      /\ m_active_objects \in Partial(Ids, ActiveObject)
      /\ kept \in Partial(Edits, SUBSET Positions)
  BY InvParts DEF Inv, TypeOK
<1>2. PICK w : w = ShutdownDone(World, order, changed)
  OBVIOUS
<1>3. Walked(World, w, Positions)
  <2>1. Order(order, Cardinality(DOMAIN m_active_objects), DOMAIN m_active_objects)
    BY <1>1, OrdersAreOrders DEF Orders
  <2>. QED  BY <1>1, <1>2, <2>1, ShutdownLoop
<1>4. w \in Worlds /\ w.blocks \in Memory /\ Keeps(blocks, w.blocks) /\ w.fate \in [Objects -> Fates]
  BY <1>1, <1>3, WorldParts DEF Walked
<1>5. PICK returned : returned = {m_active_objects[id].obj : id \in Gone(m_active_objects)}
  OBVIOUS
<1>6. /\ making = Nothing /\ SaveAtEnd(w, returned)
      /\ blocks' = Nothing /\ m_active_objects' = Nothing /\ m_active_blocks' = {}
      /\ UNCHANGED making
  BY <1>2, <1>5, Zenon DEF Shutdown, ShutdownDone
<1>7. PICK S \in SUBSET AtLevel(w.blocks, WriteAtUnload) :
        /\ disk' = Saved(w.blocks, S)
        /\ kept' = Unkept(AtLevel(w.blocks, WriteNeeded) \ S)
        /\ \E unwritten : fate' = [o \in Objects |->
              IF o \in returned /\ fate[o] \in {"removed", "cleared"} THEN "returned"
              ELSE IF o \in unwritten THEN "unwritten" ELSE w.fate[o]]
  BY <1>6, Zenon DEF SaveAtEnd
<1>8. PICK lost : lost = AtLevel(w.blocks, WriteNeeded) \ S
  OBVIOUS
<1>9. S \in SUBSET (DOMAIN w.blocks)
      /\ \A p \in DOMAIN w.blocks \ (S \cup lost) : w.blocks[p].modified # WriteNeeded
  BY <1>8 DEF AtLevel, WriteNeeded
<1>10. /\ SavedIn(w.blocks, disk)
       /\ \A p : NodesIn(w.blocks, disk, p) = NodesIn(blocks, disk, p)
       /\ TerrainIn(blocks, disk) => TerrainIn(w.blocks, disk)
  BY <1>1, <1>4, KeepsContent
<1>11. /\ disk' \in Partial(Positions, BlockCopy)
       /\ DOMAIN disk' = S \cup DOMAIN disk
       /\ \A p \in S : /\ disk'[p].nodes = w.blocks[p].nodes
                       /\ disk'[p].generated = w.blocks[p].generated
       /\ \A p \in DOMAIN disk \ S : disk'[p] = disk[p]
  <2>1. PICK d : d = Saved(w.blocks, S)
    OBVIOUS
  <2>2. PICK m \in Memory : m = w.blocks
    BY <1>4
  <2>3. SavedFrom(d, m, S)
    BY <1>1, <1>9, <2>1, <2>2, SavedValues
  <2>4. disk' = d
    BY <1>7, <2>1
  <2>. QED  BY <2>2, <2>3, <2>4 DEF SavedFrom
<1>12. fate' \in [Objects -> Fates]
  <2>1. fate' = [o \in Objects |-> fate'[o]]
        /\ \A o \in Objects : fate'[o] \in {"returned", "unwritten", w.fate[o]}
    BY <1>7
  <2>. QED  BY <1>4, <2>1 DEF Fates
<1>13. /\ kept' \in Partial(Edits, SUBSET Positions) /\ DOMAIN kept' = DOMAIN kept
       /\ \A e \in DOMAIN kept : kept'[e] = kept[e] \ lost
  BY <1>1, <1>7, <1>8, UnkeptType
<1>14. ASSUME NEW e \in DOMAIN kept', NEW p \in kept'[e]
       PROVE  p \in DOMAIN disk' /\ e \in disk'[p].nodes
  <2>1. e \in NodesIn(w.blocks, disk, p) /\ p \notin lost
    BY <1>1, <1>10, <1>13 DEF EditsIn
  <2>2. CASE p \in S
    BY <1>9, <1>11, <2>1, <2>2 DEF NodesIn
  <2>3. CASE p \notin S
    <3>1. p \in DOMAIN disk /\ e \in disk[p].nodes
      BY <1>9, <1>10, <2>1, <2>3 DEF NodesIn, SavedIn
    <3>. QED  BY <1>11, <2>3, <3>1
  <2>. QED  BY <2>2, <2>3
<1>15. ASSUME TerrainIn(blocks, disk), NEW p \in DOMAIN disk', disk'[p].generated
       PROVE  Terrain \in disk'[p].nodes
  BY <1>9, <1>10, <1>11, <1>15 DEF TerrainIn
<1>16. making' = Nothing
  BY <1>6
<1>. QED  BY <1>6, <1>11, <1>12, <1>13, <1>14, <1>15, <1>16, EmptyKeeps

-----------------------------------------------------------------------------
LEMMA InitInv ==
  ASSUME InitObjects
  PROVE  Inv /\ TerrainInv
<1>1. /\ blocks = Nothing /\ disk = Nothing /\ making = Nothing /\ kept = Nothing
      /\ m_active_objects = Nothing /\ m_active_blocks = {}
      /\ fate = [o \in Objects |-> "none"]
  BY DEF InitObjects, Init
<1>2. /\ DOMAIN Nothing = {} /\ Nothing \in Memory /\ Nothing \in Partial(Ids, ActiveObject)
      /\ Nothing \in Partial(Positions, [Positions -> Nodesets])
      /\ Nothing \in Partial(Positions, BlockCopy)
      /\ Nothing \in Partial(Edits, SUBSET Positions)
  BY NothingPartial DEF Memory
<1>3. World \in Worlds /\ World.objects = Nothing
  BY <1>1, <1>2 DEF World, Worlds, Fates
<1>4. TypeOK /\ Agree(World)
  BY <1>1, <1>2, <1>3 DEF TypeOK, Agree
<1>. QED  BY <1>1, <1>2, <1>4
          DEF Inv, SavedIn, EditsIn, EditsCopied, TerrainInv, TerrainIn, TerrainCopied,
              OneAtATime

LEMMA StutterKeeps ==
  ASSUME Inv, UNCHANGED vars
  PROVE  Kept
<1>1. UNCHANGED <<blocks, disk, making, kept, m_active_objects, m_active_blocks, fate>>
  BY DEF vars, mapVars, envVars
<1>2. World' = World /\ Worlds' = Worlds
  BY <1>1 DEF World
<1>3. TypeOK' /\ Agree(World)'
  BY <1>1, <1>2 DEF Inv, TypeOK, Agree, Own
<1>4. /\ SavedIn(blocks, disk)' /\ EditsIn(blocks, disk, kept)'
      /\ EditsCopied(making, kept)'
  BY <1>1 DEF Inv, SavedIn, Count, ActiveOf, EditsIn, EditsCopied, NodesIn
<1>5. TerrainInv => TerrainInv'
  BY <1>1 DEF TerrainInv, TerrainIn, TerrainCopied, GeneratedIn, OneAtATime
<1>. QED  BY <1>3, <1>4, <1>5 DEF Inv, Kept

(* One step per action. *)
LEMMA NextKeeps ==
  ASSUME Inv, [Next]_vars
  PROVE  Kept
<1>1. ASSUME NEW p \in Positions, NEW allow_gen \in BOOLEAN,
             MapAction(GetBlockOrStartGen(p, allow_gen))
      PROVE  Kept
  BY <1>1, GetKeeps
<1>2. ASSUME NEW p \in Positions, NEW e \in Edits, MapAction(EditNode(p, e))
      PROVE  Kept
  BY <1>2, EditKeeps
<1>3. ASSUME NEW written, MapAction(Save(written))
      PROVE  Kept
  BY <1>3, SaveKeeps
<1>4. ASSUME NEW p \in Positions,
             FinishGen(p) \/ DeleteArea(p) \/ \E written \in SUBSET {p} : UnloadBlock(p, written)
      PROVE  Kept
  BY <1>4, FinishKeeps, UnloadKeeps, DeleteKeeps
<1>5. ASSUME NEW o \in Objects, NEW p \in Positions, AddObject(o, p)
      PROVE  Kept
  BY <1>5, AddObjectKeeps
<1>6. ASSUME NEW id \in DOMAIN m_active_objects,
             \/ RemoveObject(id) \/ KnownChanges(id)
             \/ \E p \in Positions : MoveObject(id, p)
      PROVE  Kept
  <2>1. m_active_objects[id].pos \in Positions
    <3>1. m_active_objects \in Partial(Ids, ActiveObject)
      BY InvParts
    <3>2. m_active_objects[id] \in ActiveObject
      BY <3>1, PartialMember
    <3>. QED  BY <3>2 DEF ActiveObject
  <2>2. \E p \in Positions : RemoveObject(id) \/ KnownChanges(id) \/ MoveObject(id, p)
    BY <1>6, <2>1
  <2>. QED  BY <2>2, OneObjectKeeps
<1>7. CASE removeRemovedObjects
  BY <1>7, RemovedKeeps
<1>8. ASSUME NEW near \in SUBSET Positions, NEW changed, NEW order \in Orders,
             UpdateActiveBlocks(near, changed, order)
      PROVE  Kept
  BY <1>8, UpdateKeeps
<1>9. ASSUME NEW expired, RunNodeTimers(expired)
      PROVE  Kept
  BY <1>9, TimersKeep
<1>10. ASSUME NEW full, NEW recent, NEW fresh, ClearObjects(full, recent, fresh)
       PROVE  Kept
  BY <1>10, ClearKeeps
<1>11. ASSUME NEW meta_saved, Crash(meta_saved)
       PROVE  Kept
  BY <1>11, CrashKeeps
<1>12. ASSUME NEW order \in Orders, NEW changed, Shutdown(order, changed)
       PROVE  Kept
  BY <1>12, ShutdownKeeps
<1>13. CASE UNCHANGED vars
  BY <1>13, StutterKeeps
<1>. QED  BY <1>1, <1>2, <1>3, <1>4, <1>5, <1>6, <1>7, <1>8, <1>9, <1>10, <1>11, <1>12,
             <1>13 DEF Next

-----------------------------------------------------------------------------
LEMMA SpecInv == Spec => []Inv
<1>1. InitObjects => Inv
  BY InitInv
<1>2. Inv /\ [Next]_vars => Inv'
  BY NextKeeps DEF Kept
<1>. QED  BY <1>1, <1>2, PTL DEF Spec

(* The types of the blocks, in memory and on disk, of the objects and of   *)
(* the chunks in progress.                                                 *)
THEOREM TypesAreKept == Spec => []TypeOK
<1>1. Inv => TypeOK
  BY DEF Inv
<1>. QED  BY <1>1, SpecInv, PTL

(* Wherever the environment moves an object without marking its block, and *)
(* however blocks are saved, unloaded, cleared and generated: a block that *)
(* is not marked is on disk with its nodes and all the objects it has.     *)
THEOREM UnmarkedBlocksAreOnDisk == Spec => []UnmarkedIsSaved
<1>1. Inv => UnmarkedIsSaved
  <2>. SUFFICES ASSUME Inv, NEW p \in DOMAIN blocks, blocks[p].modified # WriteNeeded
                PROVE  /\ p \in DOMAIN disk
                       /\ blocks[p].nodes = disk[p].nodes
                       /\ blocks[p].generated = disk[p].generated
                       /\ \A o \in Objects :
                             Serialized(blocks[p]).objects[o] =< disk[p].objects[o]
    BY DEF UnmarkedIsSaved
  <2>1. \A o \in Objects : Serialized(blocks[p]).objects[o] = Count(blocks[p], o)
    BY DEF Serialized, Count
  <2>. QED  BY <2>1 DEF Inv, SavedIn
<1>. QED  BY <1>1, SpecInv, PTL

(* An edit that was made while no chunk was being generated is lost only   *)
(* with its block: when that is deleted, or leaves memory before it could  *)
(* be written, for any number of emerge threads.                           *)
THEOREM EditsAreKept == Spec => []EditsSurvive
<1>1. Inv => EditsSurvive
  BY DEF Inv, EditsIn, NodesIn, EditsSurvive, Nodes
<1>. QED  BY <1>1, SpecInv, PTL

(* With one emerge thread, a block that is marked as generated has its     *)
(* terrain: the copy of the next chunk has that of all the earlier ones.   *)
THEOREM GeneratedBlocksHaveTerrain ==
  ASSUME EmergeThreads =< 1
  PROVE  Spec => []GeneratedHasTerrain
<1>1. InitObjects => Inv /\ TerrainInv
  BY InitInv
<1>2. Inv /\ TerrainInv /\ [Next]_vars => (Inv /\ TerrainInv)'
  BY NextKeeps DEF Kept
<1>3. TerrainInv => GeneratedHasTerrain
  BY DEF TerrainInv, TerrainIn, GeneratedHasTerrain
<1>. QED  BY <1>1, <1>2, <1>3, PTL DEF Spec

=============================================================================
