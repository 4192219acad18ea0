-------------------------- MODULE ExactlyOnceProofs --------------------------
(***************************************************************************)
(* The proof that every object of the server environment is in the world   *)
(* exactly once (ActiveObjects!ExactlyOnce), for any blocks, objects and   *)
(* limits.                                                                 *)
(*                                                                         *)
(* The property counts; the invariant says, for each object by its fate,   *)
(* where it is: active under one id or stored in one block, and what the   *)
(* database has of it where the block in memory is not marked.  An object  *)
(* that waits to be stored is where the record of its active object says   *)
(* its static data is, and every entry of a list m_active has such a       *)
(* record (Linked).  Most of the operators are steps about one object      *)
(* (Moves): the proof is about them one at a time, then about the loops,   *)
(* then about the actions.                                                 *)
(***************************************************************************)
EXTENDS ActiveObjectsProofs
(***************************************************************************)
(* The invariant.                                                          *)

(* The block p as it is in the memory m, else as it would be loaded from   *)
(* the database d.                                                         *)
At(m, d, p) ==
  IF p \in DOMAIN m THEN m[p]
  ELSE IF p \in DOMAIN d THEN Deserialized(d[p]) ELSE BlankBlock

ActiveAs(w, o) == {id \in DOMAIN w.objects : w.objects[id].obj = o}

(* The static data of an active object is where its record says.           *)
Listed(w, id) ==
  /\ w.objects[id].static_exists
  /\ w.objects[id].static_block \in DOMAIN w.blocks
  /\ id \in DOMAIN w.blocks[w.objects[id].static_block].active

(* The object will be in the world although clients, or the list of what   *)
(* is gone, still hold the active object.                                  *)
Lives(w, id) ==
  \/ w.objects[id].gone = "no"
  \/ w.objects[id].gone = "deactivation" /\ Listed(w, id)

NoneLaid(w, d, o) == \A p \in Positions : At(w.blocks, d, p).stored[o] = 0

OneActive(w, d, o) ==
  /\ NoneLaid(w, d, o)
  /\ \E id \in DOMAIN w.objects : ActiveAs(w, o) = {id} /\ Lives(w, id)

OneLaid(w, d, o) ==
  /\ ActiveAs(w, o) = {}
  /\ \E p \in Positions :
       /\ At(w.blocks, d, p).stored[o] = 1
       /\ \A q \in Positions \ {p} : At(w.blocks, d, q).stored[o] = 0

(* Where each object is, by its fate.                                      *)
InPlace(w, d, o) ==
  /\ w.fate[o] = "none" => ActiveAs(w, o) = {} /\ NoneLaid(w, d, o)
  /\ w.fate[o] = "alive" => OneActive(w, d, o) \/ OneLaid(w, d, o)
  /\ w.fate[o] = "removed" =>
       NoneLaid(w, d, o) /\ \A id \in ActiveAs(w, o) : ~Lives(w, id)
  /\ w.fate[o] = "cleared" =>
       /\ \A id \in ActiveAs(w, o) : w.objects[id].gone # "no" /\ ~Listed(w, id)
       /\ \A p \in Positions : At(w.blocks, d, p).stamp = Valid
                               => At(w.blocks, d, p).stored[o] = 0

Sure == {"none", "alive", "removed"}
Followed == Sure \cup {"cleared"}

(* What is on disk of a block in memory that is not marked.                *)
UnmarkedOnDisk(w, d, o) ==
  \A p \in DOMAIN w.blocks : w.blocks[p].modified # WriteNeeded =>
    /\ p \in DOMAIN d
    /\ w.fate[o] \in Sure => Count(w.blocks[p], o) = d[p].objects[o]
    /\ w.fate[o] = "cleared" /\ d[p].stamp = Valid => d[p].objects[o] = 0

OnDisk(w, d, o) ==
  /\ UnmarkedOnDisk(w, d, o)
  /\ w.fate[o] = "none" => \A p \in DOMAIN d : d[p].objects[o] = 0

(* Every entry of a list m_active is the static data of an active object.  *)
Linked(w) ==
  \A p \in DOMAIN w.blocks : \A id \in DOMAIN w.blocks[p].active :
    /\ id \in DOMAIN w.objects
    /\ w.objects[id].static_exists = TRUE /\ w.objects[id].static_block = p
    /\ w.objects[id].obj = w.blocks[p].active[id]

Sound(w, d, O) ==
  /\ Linked(w)
  /\ \A o \in O : InPlace(w, d, o) /\ OnDisk(w, d, o)

(* An active block is not unloaded, and holds nothing that was cleared.    *)
Unaged(w, A) == \A p \in A \cap DOMAIN w.blocks : w.blocks[p].old = FALSE

ClearedOut(w, d, A) ==
  \A p \in A : IF p \in DOMAIN w.blocks
              THEN \A o \in Objects : w.fate[o] = "cleared" => w.blocks[p].stored[o] = 0
              ELSE p \notin DOMAIN d

LEMMA AtFetched ==
  ASSUME NEW m, NEW p
  PROVE  At(m, disk, p) = Fetched(m, p)
BY DEF At, Fetched

LEMMA LinkedAgrees ==
  ASSUME NEW w, Linked(w)
  PROVE  Agree(w)
BY DEF Linked, Agree, Own

-----------------------------------------------------------------------------
(* Steps about one active object id, which stands for the object o.        *)

(* The object's entry aside, a block has the same entries.                 *)
SameEntries(b0, b, id) ==
  /\ DOMAIN b.active \ {id} = DOMAIN b0.active \ {id}
  /\ \A i \in DOMAIN b0.active \ {id} : b.active[i] = b0.active[i]

Alters(b0, b, id, o) ==
  /\ b.stamp = b0.stamp /\ b.old = b0.old
  /\ b.modified # WriteNeeded => b0.modified # WriteNeeded
  /\ \A x \in Objects \ {o} : b.stored[x] = b0.stored[x]
  /\ SameEntries(b0, b, id)

(* The entries of the object are where its record says.                    *)
OwnEntries(w, id, o) ==
  \A p \in DOMAIN w.blocks : id \in DOMAIN w.blocks[p].active =>
    /\ id \in DOMAIN w.objects
    /\ w.objects[id].static_exists = TRUE /\ w.objects[id].static_block = p
    /\ w.blocks[p].active[id] = o

Unlisted(w, id) == \A p \in DOMAIN w.blocks : id \notin DOMAIN w.blocks[p].active

Moves(w, v, id, o) ==
  /\ v \in Worlds
  /\ DOMAIN w.blocks \subseteq DOMAIN v.blocks
  /\ \A p \in DOMAIN v.blocks : Alters(Fetched(w.blocks, p), v.blocks[p], id, o)
  /\ DOMAIN v.objects \ {id} = DOMAIN w.objects \ {id}
  /\ \A i \in DOMAIN w.objects \ {id} : v.objects[i] = w.objects[i]
  /\ id \in DOMAIN w.objects => w.objects[id].obj = o
  /\ id \in DOMAIN v.objects => v.objects[id].obj = o
  /\ OwnEntries(v, id, o)
  /\ \A x \in Objects \ {o} : v.fate[x] = w.fate[x]

(* A block that is not marked has as many copies of the object as before.  *)
Counted(w, v, o) ==
  \A p \in DOMAIN v.blocks : v.blocks[p].modified # WriteNeeded =>
    Count(v.blocks[p], o) = Count(Fetched(w.blocks, p), o)

SameStored(w, v, o) ==
  \A p \in Positions : Fetched(v.blocks, p).stored[o] = Fetched(w.blocks, p).stored[o]

LEMMA MovesFetched ==
  ASSUME DiskOK, NEW w \in Worlds, NEW v, NEW id, NEW o, Moves(w, v, id, o),
         NEW p \in Positions
  PROVE  Alters(Fetched(w.blocks, p), Fetched(v.blocks, p), id, o)
<1>1. CASE p \in DOMAIN v.blocks
  BY <1>1 DEF Moves, Fetched
<1>2. CASE p \notin DOMAIN v.blocks
  <2>1. Fetched(v.blocks, p) = Fetched(w.blocks, p)
    BY <1>2 DEF Moves, Fetched
  <2>. QED  BY <2>1 DEF Alters, SameEntries
<1>. QED  BY <1>1, <1>2

LEMMA AltersTransitive ==
  ASSUME NEW a, NEW b, NEW c, NEW id, NEW o, Alters(a, b, id, o), Alters(b, c, id, o)
  PROVE  Alters(a, c, id, o)
<1>1. SameEntries(a, c, id)
  BY DEF Alters, SameEntries
<1>. QED  BY <1>1 DEF Alters

LEMMA MovesTransitive ==
  ASSUME DiskOK, NEW w \in Worlds, NEW v, NEW u, NEW id, NEW o,
         Moves(w, v, id, o), Moves(v, u, id, o)
  PROVE  Moves(w, u, id, o)
<1>1. v \in Worlds /\ u \in Worlds
  BY DEF Moves
<1>2. ASSUME NEW p \in DOMAIN u.blocks
      PROVE  Alters(Fetched(w.blocks, p), u.blocks[p], id, o)
  <2>1. p \in Positions
    BY <1>1, WorldParts
  <2>2. Alters(Fetched(w.blocks, p), Fetched(v.blocks, p), id, o)
    BY <2>1, MovesFetched
  <2>3. Alters(Fetched(v.blocks, p), u.blocks[p], id, o)
    BY DEF Moves
  <2>. QED  BY <2>2, <2>3, AltersTransitive
<1>3. DOMAIN w.blocks \subseteq DOMAIN u.blocks
  BY DEF Moves
<1>4. /\ DOMAIN u.objects \ {id} = DOMAIN w.objects \ {id}
      /\ \A i \in DOMAIN w.objects \ {id} : u.objects[i] = w.objects[i]
      /\ id \in DOMAIN w.objects => w.objects[id].obj = o
      /\ id \in DOMAIN u.objects => u.objects[id].obj = o
  BY DEF Moves
<1>5. OwnEntries(u, id, o) /\ \A x \in Objects \ {o} : u.fate[x] = w.fate[x]
  BY DEF Moves
<1>. QED  BY <1>1, <1>2, <1>3, <1>4, <1>5 DEF Moves

LEMMA CountedTransitive ==
  ASSUME DiskOK, NEW w \in Worlds, NEW v, NEW u, NEW id, NEW o,
         Moves(w, v, id, o), Moves(v, u, id, o), NEW x, Counted(w, v, x), Counted(v, u, x)
  PROVE  Counted(w, u, x)
<1>. SUFFICES ASSUME NEW p \in DOMAIN u.blocks, u.blocks[p].modified # WriteNeeded
              PROVE  Count(u.blocks[p], x) = Count(Fetched(w.blocks, p), x)
  BY DEF Counted
<1>1. Count(u.blocks[p], x) = Count(Fetched(v.blocks, p), x)
  BY DEF Counted
<1>2. Fetched(v.blocks, p).modified # WriteNeeded
  BY DEF Moves, Alters
<1>3. CASE p \in DOMAIN v.blocks
  <2>1. Fetched(v.blocks, p) = v.blocks[p]
    BY <1>3 DEF Fetched
  <2>2. Count(v.blocks[p], x) = Count(Fetched(w.blocks, p), x)
    BY <1>2, <1>3, <2>1 DEF Counted
  <2>. QED  BY <1>1, <2>1, <2>2
<1>4. CASE p \notin DOMAIN v.blocks
  <2>1. Fetched(v.blocks, p) = Fetched(w.blocks, p)
    BY <1>4 DEF Moves, Fetched
  <2>. QED  BY <1>1, <2>1
<1>. QED  BY <1>3, <1>4

LEMMA StoredTransitive ==
  ASSUME NEW w, NEW v, NEW u, NEW o, SameStored(w, v, o), SameStored(v, u, o)
  PROVE  SameStored(w, u, o)
BY DEF SameStored

(* Lists m_active, counted. *)
LEMMA NothingCounts ==
  ASSUME NEW a, DOMAIN a = {}, NEW o
  PROVE  ActiveOf(a, o) = 0
<1>1. {i \in DOMAIN a : a[i] = o} = {}
  OBVIOUS
<1>. QED  BY <1>1, FS_EmptySet DEF ActiveOf

LEMMA MovesLinked ==
  ASSUME NEW w \in Worlds, Linked(w), NEW v, NEW id, NEW o, Moves(w, v, id, o)
  PROVE  Linked(v)
<1>. SUFFICES ASSUME NEW p \in DOMAIN v.blocks, NEW i \in DOMAIN v.blocks[p].active
              PROVE  /\ i \in DOMAIN v.objects
                     /\ v.objects[i].static_exists = TRUE
                     /\ v.objects[i].static_block = p
                     /\ v.objects[i].obj = v.blocks[p].active[i]
  BY DEF Linked
<1>1. CASE i = id
  BY <1>1 DEF Moves, OwnEntries
<1>2. CASE i # id
  <2>1. /\ i \in DOMAIN Fetched(w.blocks, p).active
        /\ v.blocks[p].active[i] = Fetched(w.blocks, p).active[i]
    BY <1>2 DEF Moves, Alters, SameEntries
  <2>2. p \in DOMAIN w.blocks
    BY <2>1, FetchedActive
  <2>3. Fetched(w.blocks, p) = w.blocks[p]
    BY <2>2 DEF Fetched
  <2>4. /\ i \in DOMAIN w.objects
        /\ w.objects[i].static_exists = TRUE /\ w.objects[i].static_block = p
        /\ w.objects[i].obj = v.blocks[p].active[i]
    BY <2>1, <2>2, <2>3 DEF Linked
  <2>. QED  BY <1>2, <2>4 DEF Moves
<1>. QED  BY <1>1, <1>2

(* Which entries there are does not depend on what is loaded.              *)
LEMMA MovesLists ==
  ASSUME NEW w \in Worlds, NEW v, NEW id, NEW o, Moves(w, v, id, o),
         NEW i \in DOMAIN w.objects \ {id}
  PROVE  /\ i \in DOMAIN v.objects /\ v.objects[i] = w.objects[i]
         /\ Listed(v, i) <=> Listed(w, i)
         /\ Lives(v, i) <=> Lives(w, i)
<1>1. i \in DOMAIN v.objects /\ v.objects[i] = w.objects[i]
  BY DEF Moves
<1>. DEFINE p == w.objects[i].static_block
<1>2. ASSUME p \in DOMAIN v.blocks
      PROVE  i \in DOMAIN v.blocks[p].active <=> i \in DOMAIN Fetched(w.blocks, p).active
  BY <1>2 DEF Moves, Alters, SameEntries
<1>3. p \in DOMAIN w.blocks => p \in DOMAIN v.blocks /\ Fetched(w.blocks, p) = w.blocks[p]
  BY DEF Moves, Fetched
<1>4. p \notin DOMAIN w.blocks => DOMAIN Fetched(w.blocks, p).active = {}
  BY FetchedActive
<1>5. Listed(v, i) <=> Listed(w, i)
  BY <1>1, <1>2, <1>3, <1>4 DEF Listed
<1>. QED  BY <1>1, <1>5 DEF Lives

LEMMA MovesOthers ==
  ASSUME DiskOK, NEW w \in Worlds, NEW v, NEW id, NEW o, Moves(w, v, id, o),
         NEW x \in Objects \ {o}, InPlace(w, disk, x)
  PROVE  InPlace(v, disk, x)
<1>1. ActiveAs(v, x) = ActiveAs(w, x)
  BY DEF ActiveAs, Moves
<1>2. \A i \in ActiveAs(w, x) : i \in DOMAIN w.objects \ {id}
  BY DEF ActiveAs, Moves
<1>3. \A i \in ActiveAs(w, x) : /\ i \in DOMAIN v.objects /\ v.objects[i] = w.objects[i]
                                /\ Listed(v, i) <=> Listed(w, i)
                                /\ Lives(v, i) <=> Lives(w, i)
  BY <1>2, MovesLists
<1>4. \A p \in Positions :
        /\ At(v.blocks, disk, p).stored[x] = At(w.blocks, disk, p).stored[x]
        /\ At(v.blocks, disk, p).stamp = At(w.blocks, disk, p).stamp
  BY MovesFetched, AtFetched DEF Alters
<1>5. v.fate[x] = w.fate[x]
  BY DEF Moves
<1>6. NoneLaid(w, disk, x) <=> NoneLaid(v, disk, x)
  BY <1>4 DEF NoneLaid
<1>7. OneActive(w, disk, x) => OneActive(v, disk, x)
  <2>1. SUFFICES ASSUME OneActive(w, disk, x) PROVE OneActive(v, disk, x)
    OBVIOUS
  <2>2. PICK i \in DOMAIN w.objects : ActiveAs(w, x) = {i} /\ Lives(w, i)
    BY <2>1 DEF OneActive
  <2>3. i \in DOMAIN v.objects /\ Lives(v, i) /\ ActiveAs(v, x) = {i}
    BY <1>1, <1>3, <2>2
  <2>. QED  BY <1>6, <2>1, <2>3 DEF OneActive
<1>8. OneLaid(w, disk, x) => OneLaid(v, disk, x)
  BY <1>1, <1>4 DEF OneLaid
<1>. QED  BY <1>1, <1>3, <1>4, <1>5, <1>6, <1>7, <1>8 DEF InPlace

(* What is fetched unmarked is on disk. *)
Holding(w, d, p, x, n) ==
  /\ p \in DOMAIN d
  /\ w.fate[x] \in Sure => n = d[p].objects[x]
  /\ w.fate[x] = "cleared" /\ d[p].stamp = Valid => d[p].objects[x] = 0

LEMMA FetchedOnDisk ==
  ASSUME DiskOK, NEW w \in Worlds, NEW x \in Objects, InPlace(w, disk, x), OnDisk(w, disk, x),
         NEW p \in Positions, Fetched(w.blocks, p).modified # WriteNeeded
  PROVE  Holding(w, disk, p, x, Count(Fetched(w.blocks, p), x))
<1>. DEFINE b0 == Fetched(w.blocks, p)
<1>1. CASE p \in DOMAIN w.blocks
  <2>1. b0 = w.blocks[p]
    BY <1>1 DEF Fetched
  <2>. QED  BY <1>1, <2>1 DEF OnDisk, UnmarkedOnDisk, Holding
<1>2. CASE p \notin DOMAIN w.blocks
  <2>1. p \in DOMAIN disk /\ b0 = Deserialized(disk[p])
    BY <1>2 DEF Fetched, BlankBlock, WriteNeeded
  <2>2. /\ b0.stored = disk[p].objects /\ b0.active = Nothing
        /\ b0.stamp = disk[p].stamp
    BY <2>1 DEF Deserialized
  <2>3. disk[p] \in BlockCopy
    BY <2>1, PartialMember DEF DiskOK
  <2>4. Count(b0, x) = disk[p].objects[x]
    <3>1. ActiveOf(Nothing, x) = 0
      BY NothingCounts DEF Nothing
    <3>2. disk[p].objects[x] \in Nat
      BY <2>3 DEF BlockCopy, Stores
    <3>. QED  BY <2>2, <3>1, <3>2 DEF Count
  <2>5. w.fate[x] = "cleared" /\ disk[p].stamp = Valid => disk[p].objects[x] = 0
    <3>1. At(w.blocks, disk, p) = b0
      BY AtFetched
    <3>. QED  BY <2>2, <3>1 DEF InPlace
  <2>. QED  BY <2>1, <2>4, <2>5 DEF Holding
<1>. QED  BY <1>1, <1>2

(* An object that is followed is counted where its block is not marked.    *)
Tracks(w, v, x) ==
  /\ v.fate[x] \in Sure => Counted(w, v, x)
  /\ v.fate[x] = "none" => w.fate[x] = "none"
  /\ v.fate[x] \in Followed =>
       v.fate[x] = w.fate[x] \/ (v.fate[x] \in Sure /\ w.fate[x] \in Sure)

(* What is not marked stays on disk as it is in memory: also of the object *)
(* itself, unless it is lost.                                              *)
LEMMA MovesOnDisk ==
  ASSUME DiskOK, NEW w \in Worlds, NEW v, NEW id, NEW o, Moves(w, v, id, o),
         NEW x \in Objects, Tracks(w, v, x), InPlace(w, disk, x), OnDisk(w, disk, x)
  PROVE  OnDisk(v, disk, x)
<1>. SUFFICES ASSUME NEW p \in DOMAIN v.blocks, v.blocks[p].modified # WriteNeeded
              PROVE  Holding(v, disk, p, x, Count(v.blocks[p], x))
  BY DEF OnDisk, UnmarkedOnDisk, Tracks, Holding
<1>. DEFINE b0 == Fetched(w.blocks, p)
<1>1. b0.modified # WriteNeeded /\ p \in Positions
  BY WorldParts DEF Moves, Alters
<1>2. v.fate[x] \in Sure => Count(v.blocks[p], x) = Count(b0, x)
  BY DEF Counted, Tracks
<1>3. v.fate[x] \in Sure => w.fate[x] \in Sure
  BY DEF Sure, Followed, Tracks
<1>4. v.fate[x] = "cleared" => w.fate[x] = "cleared"
  BY DEF Sure, Followed, Tracks
<1>5. Holding(w, disk, p, x, Count(b0, x))
  BY <1>1, FetchedOnDisk
<1>. QED  BY <1>2, <1>3, <1>4, <1>5 DEF Holding

-----------------------------------------------------------------------------
(* How a block, an object and what is loaded move things.                  *)

LEMMA PutValues ==
  ASSUME NEW w \in Worlds, NEW p \in Positions, NEW b, NEW v, v.blocks = Put(w.blocks, p, b)
  PROVE  /\ DOMAIN v.blocks = DOMAIN w.blocks \cup {p}
         /\ v.blocks[p] = b /\ Fetched(v.blocks, p) = b
         /\ \A q \in DOMAIN w.blocks \ {p} : v.blocks[q] = w.blocks[q]
         /\ \A q \in Positions \ {p} : Fetched(v.blocks, q) = Fetched(w.blocks, q)
BY DEF Put, Fetched

LEMMA PutMoves ==
  ASSUME DiskOK, NEW w \in Worlds, NEW id, NEW o, NEW p \in Positions, NEW b \in MapBlock,
         Alters(Fetched(w.blocks, p), b, id, o),
         NEW v \in Worlds, v.blocks = Put(w.blocks, p, b),
         DOMAIN v.objects \ {id} = DOMAIN w.objects \ {id},
         \A i \in DOMAIN w.objects \ {id} : v.objects[i] = w.objects[i],
         id \in DOMAIN w.objects => w.objects[id].obj = o,
         id \in DOMAIN v.objects => v.objects[id].obj = o,
         id \in DOMAIN b.active =>
            /\ id \in DOMAIN v.objects
            /\ v.objects[id].static_exists = TRUE /\ v.objects[id].static_block = p
            /\ b.active[id] = o,
         \A q \in DOMAIN w.blocks \ {p} : id \notin DOMAIN w.blocks[q].active,
         \A x \in Objects \ {o} : v.fate[x] = w.fate[x]
  PROVE  /\ Moves(w, v, id, o)
         /\ \/ b.modified = WriteNeeded
            \/ Count(b, o) = Count(Fetched(w.blocks, p), o)
            => Counted(w, v, o)
         /\ b.stored[o] = Fetched(w.blocks, p).stored[o] => SameStored(w, v, o)
<1>1. /\ DOMAIN v.blocks = DOMAIN w.blocks \cup {p}
      /\ v.blocks[p] = b /\ Fetched(v.blocks, p) = b
      /\ \A q \in DOMAIN w.blocks \ {p} : v.blocks[q] = w.blocks[q]
      /\ \A q \in Positions \ {p} : Fetched(v.blocks, q) = Fetched(w.blocks, q)
  BY DEF Put, Fetched
<1>2. \A q \in DOMAIN v.blocks \ {p} : v.blocks[q] = Fetched(w.blocks, q)
  BY <1>1 DEF Fetched
<1>3. \A q \in DOMAIN v.blocks : Alters(Fetched(w.blocks, q), v.blocks[q], id, o)
  <2>1. SUFFICES ASSUME NEW q \in DOMAIN v.blocks, q # p
                 PROVE  Alters(Fetched(w.blocks, q), v.blocks[q], id, o)
    BY <1>1
  <2>2. v.blocks[q] = Fetched(w.blocks, q)
    BY <1>2, <2>1
  <2>. QED  BY <2>2 DEF Alters, SameEntries
<1>4. OwnEntries(v, id, o)
  BY <1>1 DEF OwnEntries
<1>5. Moves(w, v, id, o)
  BY <1>1, <1>3, <1>4 DEF Moves
<1>6. ASSUME \/ b.modified = WriteNeeded
             \/ Count(b, o) = Count(Fetched(w.blocks, p), o)
      PROVE  Counted(w, v, o)
  BY <1>1, <1>2, <1>6 DEF Counted
<1>. QED  BY <1>1, <1>5, <1>6 DEF SameStored

(* Blocks are loaded. *)
Loads(w, v) ==
  /\ v \in Worlds /\ v.objects = w.objects /\ v.fate = w.fate
  /\ DOMAIN w.blocks \subseteq DOMAIN v.blocks
  /\ \A p \in DOMAIN v.blocks : v.blocks[p] = Fetched(w.blocks, p)

LEMMA EmergeLoads ==
  ASSUME DiskOK, NEW w \in Worlds, NEW p \in Positions, NEW create \in BOOLEAN,
         NEW v, v = [w EXCEPT !.blocks = EmergeBlock(w.blocks, p, create)]
  PROVE  Loads(w, v) /\ v.blocks = EmergeBlock(w.blocks, p, create)
<1>. DEFINE m == EmergeBlock(w.blocks, p, create)
<1>1. m \in Memory
  BY WorldParts, EmergeKeeps
<1>2. /\ DOMAIN w.blocks \subseteq DOMAIN m
      /\ \A q \in DOMAIN m : m[q] = Fetched(w.blocks, q)
  <2>1. \A q : Fetched(m, q) = Fetched(w.blocks, q)
    BY FetchedAfter
  <2>2. DOMAIN w.blocks \subseteq DOMAIN m
    BY DEF EmergeBlock, Put
  <2>. HIDE DEF m
  <2>. QED  BY <2>1, <2>2 DEF Fetched
<1>. HIDE DEF m
<1>3. v.blocks = m /\ v.objects = w.objects /\ v.fate = w.fate /\ v \in Worlds
  BY <1>1 DEF Worlds, m
<1>. QED  BY <1>2, <1>3 DEF Loads, m

LEMMA LoadMoves ==
  ASSUME DiskOK, NEW w \in Worlds, NEW v, Loads(w, v), NEW id, NEW o,
         OwnEntries(w, id, o), id \in DOMAIN w.objects => w.objects[id].obj = o
  PROVE  /\ Moves(w, v, id, o) /\ Counted(w, v, o) /\ SameStored(w, v, o)
         /\ Unlisted(w, id) => Unlisted(v, id)
<1>1. ASSUME NEW p \in DOMAIN v.blocks
      PROVE  Alters(Fetched(w.blocks, p), v.blocks[p], id, o)
  <2>1. v.blocks[p] = Fetched(w.blocks, p)
    BY DEF Loads
  <2>. QED  BY <2>1 DEF Alters, SameEntries
<1>2. ASSUME NEW p \in DOMAIN v.blocks, id \in DOMAIN v.blocks[p].active
      PROVE  p \in DOMAIN w.blocks /\ v.blocks[p] = w.blocks[p]
  <2>1. v.blocks[p] = Fetched(w.blocks, p)
    BY DEF Loads
  <2>2. p \in DOMAIN w.blocks
    BY <1>2, <2>1, FetchedActive
  <2>. QED  BY <2>1, <2>2 DEF Fetched
<1>3. OwnEntries(v, id, o)
  BY <1>2 DEF OwnEntries, Loads
<1>4. Moves(w, v, id, o)
  BY <1>1, <1>3 DEF Moves, Loads
<1>5. Counted(w, v, o)
  BY DEF Counted, Loads
<1>6. SameStored(w, v, o)
  BY DEF SameStored, Loads, Fetched
<1>. QED  BY <1>2, <1>4, <1>5, <1>6 DEF Unlisted

LEMMA LinkedOwn ==
  ASSUME NEW w, Linked(w), NEW id, NEW o,
         id \in DOMAIN w.objects => w.objects[id].obj = o
  PROVE  OwnEntries(w, id, o)
BY DEF Linked, OwnEntries

(* The object goes, its fate changes or its record does.                   *)
Ends(w, v, u, id, o) ==
  /\ Moves(w, u, id, o)
  /\ u.blocks = v.blocks /\ u.fate = v.fate
  /\ DOMAIN u.objects = DOMAIN v.objects \ {id}

LEMMA UnregisterMoves ==
  ASSUME NEW w, NEW v, NEW id, NEW o, Moves(w, v, id, o), Unlisted(v, id),
         NEW u, u = Unregister(v, id)
  PROVE  Ends(w, v, u, id, o)
<1>1. v \in Worlds
  BY DEF Moves
<1>2. PICK os : os = Without(v.objects, {id})
  OBVIOUS
<1>3. os \in Partial(Ids, ActiveObject) /\ DOMAIN os = DOMAIN v.objects \ {id}
      /\ \A i \in DOMAIN os : os[i] = v.objects[i]
  <2>1. v.objects \in Partial(Ids, ActiveObject)
    BY <1>1, WorldParts
  <2>2. os \in Partial(Ids, ActiveObject)
    BY <1>2, <2>1, WithoutPartial
  <2>. QED  BY <1>2, <2>2 DEF Without
<1>4. u = [v EXCEPT !.objects = os]
  BY <1>2 DEF Unregister
<1>5. u \in Worlds /\ u.objects = os /\ u.blocks = v.blocks /\ u.fate = v.fate
  BY <1>1, <1>3, <1>4 DEF Worlds
<1>6. OwnEntries(u, id, o)
  BY <1>5 DEF OwnEntries, Unlisted
<1>. QED  BY <1>3, <1>5, <1>6 DEF Moves, Ends

Meets(w, v, u, id, o, new) ==
  /\ Moves(w, u, id, o)
  /\ u.blocks = v.blocks /\ u.objects = v.objects
  /\ u.fate[o] = IF v.fate[o] = "alive" THEN new ELSE v.fate[o]

LEMMA FatedMoves ==
  ASSUME NEW w, NEW v, NEW id, NEW o \in Objects, Moves(w, v, id, o), NEW new \in Fates,
         NEW u, u = [v EXCEPT !.fate = Fated(@, {o}, new)]
  PROVE  Meets(w, v, u, id, o, new)
<1>1. v \in Worlds /\ v.fate \in [Objects -> Fates]
  BY WorldParts DEF Moves
<1>2. PICK f : f = Fated(v.fate, {o}, new)
  OBVIOUS
<1>3. /\ f \in [Objects -> Fates]
      /\ \A x \in Objects : f[x] = IF x \in {o} /\ v.fate[x] = "alive" THEN new ELSE v.fate[x]
  BY <1>1, <1>2 DEF Fated
<1>4. u = [v EXCEPT !.fate = f]
  BY <1>2
<1>5. u \in Worlds /\ u.objects = v.objects /\ u.blocks = v.blocks /\ u.fate = f
  BY <1>1, <1>3, <1>4 DEF Worlds
<1>6. OwnEntries(u, id, o)
  BY <1>5 DEF OwnEntries, Moves
<1>. QED  BY <1>3, <1>5, <1>6 DEF Moves, Meets

Rewrites(w, v, u, id, o, ao) ==
  /\ Moves(w, u, id, o)
  /\ u.blocks = v.blocks /\ u.fate = v.fate
  /\ DOMAIN u.objects = DOMAIN v.objects /\ u.objects[id] = ao
  /\ Listed(u, id) <=> Listed(v, id)

LEMMA RewriteMoves ==
  ASSUME NEW w, NEW v, NEW id \in Ids, NEW o, Moves(w, v, id, o), NEW ao \in ActiveObject,
         id \in DOMAIN v.objects, SameData(v.objects[id], ao),
         NEW u, u = [v EXCEPT !.objects = Put(@, id, ao)]
  PROVE  Rewrites(w, v, u, id, o, ao)
<1>1. v \in Worlds
  BY DEF Moves
<1>2. PICK os : os = Put(v.objects, id, ao)
  OBVIOUS
<1>3. /\ os \in Partial(Ids, ActiveObject) /\ DOMAIN os = DOMAIN v.objects
      /\ os[id] = ao /\ \A i \in DOMAIN os \ {id} : os[i] = v.objects[i]
  <2>1. os \in Partial(Ids, ActiveObject)
    BY <1>1, <1>2, WorldParts, PutPartial
  <2>. QED  BY <1>2, <2>1 DEF Put
<1>4. u = [v EXCEPT !.objects = os]
  BY <1>2
<1>5. u \in Worlds /\ u.objects = os /\ u.blocks = v.blocks /\ u.fate = v.fate
  BY <1>1, <1>3, <1>4 DEF Worlds
<1>6. OwnEntries(u, id, o)
  BY <1>3, <1>5 DEF OwnEntries, Moves, SameData
<1>7. Listed(u, id) <=> Listed(v, id)
  BY <1>3, <1>5 DEF Listed, SameData
<1>. QED  BY <1>3, <1>5, <1>6, <1>7 DEF Moves, SameData, Rewrites

-----------------------------------------------------------------------------
(* One more copy of the object is stored, in one block.                    *)
Laid(w, v, o) ==
  \E p \in Positions :
    /\ Fetched(v.blocks, p).stored[o] = Fetched(w.blocks, p).stored[o] + 1
    /\ \A q \in Positions \ {p} :
         Fetched(v.blocks, q).stored[o] = Fetched(w.blocks, q).stored[o]

(* The record of the object, but for its static data, is the same. *)
SameRecord(w, v, id) ==
  /\ id \in DOMAIN v.objects
  /\ v.objects[id].gone = w.objects[id].gone
  /\ v.objects[id].known = w.objects[id].known
  /\ v.objects[id].pos = w.objects[id].pos

LEMMA DeleteMoves ==
  ASSUME DiskOK, NEW w \in Worlds, NEW id \in DOMAIN w.objects,
         NEW o, o = w.objects[id].obj, OwnEntries(w, id, o), NEW flagged \in BOOLEAN,
         NEW v, HasDeleted(w, v, id, flagged)
  PROVE  /\ Moves(w, v, id, o) /\ SameStored(w, v, o) /\ Unlisted(v, id)
         /\ SameRecord(w, v, id) /\ v.fate = w.fate
         /\ flagged = TRUE => Counted(w, v, o)
<1>. DEFINE ao == w.objects[id]
            p == ao.static_block
            b0 == Fetched(w.blocks, p)
<1>1. ao \in ActiveObject /\ p \in Positions
  BY WorldParts DEF ActiveObject
<1>2. CASE v = w /\ (ao.static_exists => p \notin DOMAIN w.blocks)
  <2>1. Unlisted(w, id)
    BY <1>2 DEF Unlisted, OwnEntries
  <2>2. Loads(w, w)
    BY DEF Loads, Fetched
  <2>3. Moves(w, w, id, o) /\ Counted(w, w, o) /\ SameStored(w, w, o)
    BY <2>2, LoadMoves
  <2>. QED  BY <1>2, <2>1, <2>3 DEF SameRecord
<1>3. CASE ~(v = w /\ (ao.static_exists => p \notin DOMAIN w.blocks))
  <2>. DEFINE gone == [ao EXCEPT !.static_exists = FALSE]
  <2>1. /\ v \in Worlds /\ v.fate = w.fate
        /\ v.objects = Put(w.objects, id, gone)
        /\ ao.static_exists
        /\ gone \in ActiveObject /\ gone.static_exists = FALSE
        /\ \E b : /\ v.blocks = Put(w.blocks, p, b) /\ Bare(b0, b, id, flagged)
    BY <1>3 DEF HasDeleted
  <2>2. PICK b : v.blocks = Put(w.blocks, p, b) /\ Bare(b0, b, id, flagged)
    BY <2>1
  <2>3. PICK g : g = gone
    OBVIOUS
  <2>4. g.obj = o /\ g.gone = ao.gone /\ g.known = ao.known /\ g.pos = ao.pos
    BY <1>1, <2>3 DEF ActiveObject
  <2>5. /\ DOMAIN v.objects = DOMAIN w.objects
        /\ v.objects[id] = g
        /\ \A i \in DOMAIN w.objects \ {id} : v.objects[i] = w.objects[i]
    BY <2>1, <2>3 DEF Put
  <2>6. b0 \in MapBlock /\ b \in MapBlock
    BY <1>1, <2>2, WorldParts, FetchedType DEF Bare
  <2>7. /\ DOMAIN b.active = DOMAIN b0.active \ {id}
        /\ \A i \in DOMAIN b0.active \ {id} : b.active[i] = b0.active[i]
    BY <2>2 DEF Bare, Without
  <2>8. b.modified # WriteNeeded => b0.modified # WriteNeeded
    BY <2>2 DEF Bare, Mark, Raised, WriteNeeded
  <2>9. flagged = TRUE => b.modified = WriteNeeded
    BY <2>2, <2>6, Marks DEF Bare
  <2>10. Alters(b0, b, id, o) /\ b.stored = b0.stored
    BY <2>2, <2>7, <2>8 DEF Alters, SameEntries, Bare
  <2>11. \A q \in DOMAIN w.blocks \ {p} : id \notin DOMAIN w.blocks[q].active
    BY DEF OwnEntries
  <2>12. id \notin DOMAIN b.active
    BY <2>7
  <2>. HIDE DEF gone, b0, ao, p
  <2>13. /\ Moves(w, v, id, o)
         /\ \/ b.modified = WriteNeeded
            \/ Count(b, o) = Count(b0, o)
            => Counted(w, v, o)
         /\ b.stored[o] = b0.stored[o] => SameStored(w, v, o)
    <3>1. p \in Positions /\ v \in Worlds /\ w.objects[id].obj = o /\ v.objects[id].obj = o
      BY <1>1, <2>1, <2>4, <2>5
    <3>2. Alters(Fetched(w.blocks, p), b, id, o)
      BY <2>10 DEF b0
    <3>. QED  BY <2>1, <2>2, <2>5, <2>6, <2>11, <2>12, <3>1, <3>2, PutMoves DEF b0
  <2>14. Unlisted(v, id)
    <3>1. /\ DOMAIN v.blocks = DOMAIN w.blocks \cup {p} /\ v.blocks[p] = b
          /\ \A q \in DOMAIN w.blocks \ {p} : v.blocks[q] = w.blocks[q]
      BY <2>2 DEF Put
    <3>. QED  BY <2>11, <2>12, <3>1 DEF Unlisted
  <2>15. SameRecord(w, v, id)
    BY <2>4, <2>5 DEF SameRecord, ao
  <2>. QED  BY <2>1, <2>9, <2>10, <2>13, <2>14, <2>15
<1>. QED  BY <1>2, <1>3

Saves(w, v, id, o, stays, flagged) ==
  /\ Moves(w, v, id, o) /\ SameRecord(w, v, id) /\ v.fate = w.fate
  /\ flagged = TRUE => Counted(w, v, o)
  /\ stays = TRUE => SameStored(w, v, o) /\ Listed(v, id)
  /\ stays = FALSE => Laid(w, v, o) /\ Unlisted(v, id)

LEMMA SaveMoves ==
  ASSUME DiskOK, NEW w \in Worlds, NEW id \in DOMAIN w.objects,
         NEW o, o = w.objects[id].obj, Unlisted(w, id), NEW p \in Positions,
         NEW stays \in BOOLEAN, NEW flagged \in BOOLEAN,
         NEW v, HasSaved(w, v, p, id, stays, flagged)
  PROVE  Saves(w, v, id, o, stays, flagged)
<1>. DEFINE ao == Placed(w.objects[id], p)
            b0 == Fetched(w.blocks, p)
<1>1. /\ v \in Worlds /\ v.fate = w.fate
      /\ v.objects = Put(w.objects, id, ao)
      /\ ao \in ActiveObject /\ ao.obj = o
      /\ ao.static_exists /\ ao.static_block = p
      /\ \E b : v.blocks = Put(w.blocks, p, b) /\ Holds(b0, b, id, ao, stays, flagged)
  BY DEF HasSaved
<1>2. w.objects[id] \in ActiveObject /\ o \in Objects
  BY WorldParts DEF ActiveObject
<1>3. ao.gone = w.objects[id].gone /\ ao.known = w.objects[id].known
      /\ ao.pos = w.objects[id].pos
  BY <1>2 DEF Placed, ActiveObject
<1>4. PICK b : v.blocks = Put(w.blocks, p, b) /\ Holds(b0, b, id, ao, stays, flagged)
  BY <1>1
<1>5. b0 \in MapBlock /\ b \in MapBlock /\ b0.stored \in Stores
  <2>1. b0 \in MapBlock /\ b \in MapBlock
    BY <1>4, WorldParts, FetchedType DEF Holds
  <2>. QED  BY <2>1 DEF MapBlock
<1>. HIDE DEF ao, b0
<1>6. /\ DOMAIN v.objects = DOMAIN w.objects
      /\ v.objects[id] = ao
      /\ \A i \in DOMAIN w.objects \ {id} : v.objects[i] = w.objects[i]
  BY <1>1 DEF Put
<1>7. id \notin DOMAIN b0.active
  <2>1. CASE p \in DOMAIN w.blocks
    BY <2>1 DEF b0, Unlisted, Fetched
  <2>2. CASE p \notin DOMAIN w.blocks
    BY <2>2, FetchedActive DEF b0
  <2>. QED  BY <2>1, <2>2
<1>8. /\ stays = TRUE => /\ DOMAIN b.active = DOMAIN b0.active \cup {id}
                         /\ b.active[id] = o
                         /\ \A i \in DOMAIN b0.active : b.active[i] = b0.active[i]
                         /\ b.stored = b0.stored
      /\ stays = FALSE => /\ b.active = b0.active
                          /\ \A x \in Objects : b.stored[x] =
                                IF x = o THEN b0.stored[x] + 1 ELSE b0.stored[x]
  <2>1. ASSUME stays = TRUE
        PROVE  /\ DOMAIN b.active = DOMAIN b0.active \cup {id}
               /\ b.active[id] = o
               /\ \A i \in DOMAIN b0.active : b.active[i] = b0.active[i]
               /\ b.stored = b0.stored
    <3>1. b.active = Put(b0.active, id, o) /\ b.stored = b0.stored
      BY <1>1, <1>4, <2>1 DEF Holds
    <3>. QED  BY <1>7, <3>1 DEF Put
  <2>2. ASSUME stays = FALSE
        PROVE  /\ b.active = b0.active
               /\ \A x \in Objects : b.stored[x] =
                     IF x = o THEN b0.stored[x] + 1 ELSE b0.stored[x]
    <3>1. b.active = b0.active /\ b.stored = [b0.stored EXCEPT ![o] = @ + 1]
      BY <1>1, <1>4, <2>2 DEF Holds
    <3>. QED  BY <1>2, <1>5, <3>1 DEF Stores
  <2>. QED  BY <2>1, <2>2
<1>9. Alters(b0, b, id, o)
  <2>1. b.modified # WriteNeeded => b0.modified # WriteNeeded
    BY <1>4 DEF Holds, Mark, Raised, WriteNeeded
  <2>2. b.stamp = b0.stamp /\ b.old = b0.old
    BY <1>4 DEF Holds
  <2>3. SameEntries(b0, b, id) /\ \A x \in Objects \ {o} : b.stored[x] = b0.stored[x]
    BY <1>8 DEF SameEntries
  <2>. QED  BY <2>1, <2>2, <2>3 DEF Alters
<1>10. flagged = TRUE => b.modified = WriteNeeded
  BY <1>4, <1>5, Marks DEF Holds
<1>11. id \in DOMAIN b.active => stays = TRUE /\ b.active[id] = o
  BY <1>7, <1>8
<1>12. \A q \in DOMAIN w.blocks \ {p} : id \notin DOMAIN w.blocks[q].active
  BY DEF Unlisted
<1>13. /\ Moves(w, v, id, o)
       /\ \/ b.modified = WriteNeeded
          \/ Count(b, o) = Count(b0, o)
          => Counted(w, v, o)
       /\ b.stored[o] = b0.stored[o] => SameStored(w, v, o)
  <2>1. v \in Worlds /\ w.objects[id].obj = o /\ v.objects[id].obj = o
        /\ v.objects[id].static_exists = TRUE /\ v.objects[id].static_block = p
    <3>1. ao.static_exists \in BOOLEAN
      BY <1>1 DEF ActiveObject
    <3>. QED  BY <1>1, <1>6, <3>1
  <2>2. Alters(Fetched(w.blocks, p), b, id, o)
    BY <1>9 DEF b0
  <2>. QED  BY <1>1, <1>4, <1>5, <1>6, <1>11, <1>12, <2>1, <2>2, PutMoves DEF b0
<1>14. /\ DOMAIN v.blocks = DOMAIN w.blocks \cup {p}
       /\ v.blocks[p] = b /\ Fetched(v.blocks, p) = b
       /\ \A q \in DOMAIN w.blocks \ {p} : v.blocks[q] = w.blocks[q]
       /\ \A q \in Positions \ {p} : Fetched(v.blocks, q) = Fetched(w.blocks, q)
  BY <1>4 DEF Put, Fetched
<1>15. SameRecord(w, v, id)
  BY <1>3, <1>6 DEF SameRecord
<1>16. ASSUME stays = TRUE PROVE SameStored(w, v, o) /\ Listed(v, id)
  BY <1>1, <1>6, <1>8, <1>13, <1>14, <1>16 DEF Listed
<1>17. ASSUME stays = FALSE PROVE Laid(w, v, o) /\ Unlisted(v, id)
  <2>1. Laid(w, v, o)
    BY <1>2, <1>8, <1>14, <1>17 DEF Laid, b0
  <2>2. Unlisted(v, id)
    BY <1>11, <1>12, <1>14, <1>17 DEF Unlisted
  <2>. QED  BY <2>1, <2>2
<1>. QED  BY <1>1, <1>10, <1>13, <1>15, <1>16, <1>17 DEF Saves

LEMMA SaveCases ==
  ASSUME DiskOK, NEW w \in Worlds, NEW id \in DOMAIN w.objects, NEW p \in Positions,
         NEW stays \in BOOLEAN, NEW flagged \in BOOLEAN,
         NEW v, v = saveStaticToBlock(w, p, id, stays, flagged)
  PROVE  IF HasRoom(EmergeBlock(w.blocks, p, TRUE), p)
         THEN HasSaved(w, v, p, id, stays, flagged)
         ELSE Loads(w, v)
<1>1. CASE HasRoom(EmergeBlock(w.blocks, p, TRUE), p)
  BY <1>1, SaveStaticHolds
<1>2. CASE ~HasRoom(EmergeBlock(w.blocks, p, TRUE), p)
  <2>1. v = [w EXCEPT !.blocks = EmergeBlock(w.blocks, p, TRUE)]
    BY <1>2 DEF saveStaticToBlock
  <2>2. TRUE \in BOOLEAN
    OBVIOUS
  <2>. QED  BY <1>2, <2>1, <2>2, EmergeLoads
<1>. QED  BY <1>1, <1>2

-----------------------------------------------------------------------------
(* What a step does to its own object. *)

LEMMA PlaceFetched ==
  ASSUME NEW w, NEW o
  PROVE  /\ NoneLaid(w, disk, o) <=> \A p \in Positions : Fetched(w.blocks, p).stored[o] = 0
         /\ OneLaid(w, disk, o) <=>
              /\ ActiveAs(w, o) = {}
              /\ \E p \in Positions :
                   /\ Fetched(w.blocks, p).stored[o] = 1
                   /\ \A q \in Positions \ {p} : Fetched(w.blocks, q).stored[o] = 0
BY AtFetched DEF NoneLaid, OneLaid

(* An active object that is followed and lives is alive, and the only one. *)
LEMMA PlaceActive ==
  ASSUME NEW w, NEW id \in DOMAIN w.objects, NEW o, o = w.objects[id].obj,
         InPlace(w, disk, o), w.fate[o] \in Followed
  PROVE  /\ Lives(w, id) <=> w.fate[o] = "alive"
         /\ w.fate[o] = "alive" => NoneLaid(w, disk, o) /\ ActiveAs(w, o) = {id}
<1>1. id \in ActiveAs(w, o)
  BY DEF ActiveAs
<1>2. ASSUME w.fate[o] = "alive"
      PROVE  Lives(w, id) /\ NoneLaid(w, disk, o) /\ ActiveAs(w, o) = {id}
  <2>1. OneActive(w, disk, o)
    BY <1>1, <1>2 DEF InPlace, OneLaid
  <2>. QED  BY <1>1, <2>1 DEF OneActive
<1>3. ASSUME Lives(w, id), w.fate[o] # "alive"
      PROVE  FALSE
  BY <1>1, <1>3 DEF InPlace, Followed, Sure, Lives
<1>. QED  BY <1>2, <1>3

Settles(w, v, o) ==
  /\ InPlace(v, disk, o)
  /\ v.fate[o] \in Followed => v.fate[o] = w.fate[o]
  /\ v.fate[o] = "cleared" => SameStored(w, v, o)
  /\ v.fate[o] \in Sure => Counted(w, v, o)

LEMMA LostSettles ==
  ASSUME NEW w, NEW v, NEW o, v.fate[o] \notin Followed
  PROVE  Settles(w, v, o)
BY DEF Settles, InPlace, Followed, Sure

(* What active objects there are of o, after a step. *)
LEMMA OwnObjects ==
  ASSUME NEW w, NEW v, NEW id, NEW o, Moves(w, v, id, o)
  PROVE  /\ id \in DOMAIN v.objects /\ id \in DOMAIN w.objects => ActiveAs(v, o) = ActiveAs(w, o)
         /\ id \notin DOMAIN v.objects => ActiveAs(v, o) = ActiveAs(w, o) \ {id}
         /\ id \in ActiveAs(v, o) <=> id \in DOMAIN v.objects
         /\ id \in ActiveAs(w, o) <=> id \in DOMAIN w.objects
BY DEF ActiveAs, Moves

LEMMA OwnStamps ==
  ASSUME DiskOK, NEW w \in Worlds, NEW v, NEW id, NEW o, Moves(w, v, id, o),
         NEW p \in Positions
  PROVE  /\ At(w.blocks, disk, p).stored = Fetched(w.blocks, p).stored
         /\ At(v.blocks, disk, p).stored = Fetched(v.blocks, p).stored
         /\ At(v.blocks, disk, p).stamp = At(w.blocks, disk, p).stamp
BY MovesFetched, AtFetched DEF Alters

LEMMA StaysSettles ==
  ASSUME DiskOK, NEW w \in Worlds, NEW id \in DOMAIN w.objects,
         NEW o, o = w.objects[id].obj, InPlace(w, disk, o),
         NEW v, Moves(w, v, id, o), SameStored(w, v, o), Counted(w, v, o),
         id \in DOMAIN v.objects, v.fate[o] = w.fate[o],
         w.fate[o] = "alive" => Lives(v, id),
         w.fate[o] = "removed" => ~Lives(v, id),
         w.fate[o] = "cleared" => v.objects[id].gone # "no" /\ ~Listed(v, id)
  PROVE  Settles(w, v, o)
<1>1. ActiveAs(v, o) = ActiveAs(w, o) /\ id \in ActiveAs(w, o)
  BY OwnObjects
<1>2. NoneLaid(w, disk, o) <=> NoneLaid(v, disk, o)
  BY PlaceFetched DEF SameStored
<1>3. \A i \in ActiveAs(w, o) \ {id} :
        /\ i \in DOMAIN v.objects /\ v.objects[i] = w.objects[i]
        /\ Listed(v, i) <=> Listed(w, i)
        /\ Lives(v, i) <=> Lives(w, i)
  BY MovesLists DEF ActiveAs
<1>4. \A p \in Positions :
        /\ At(v.blocks, disk, p).stamp = At(w.blocks, disk, p).stamp
        /\ At(v.blocks, disk, p).stored[o] = At(w.blocks, disk, p).stored[o]
  BY OwnStamps DEF SameStored
<1>5. CASE w.fate[o] = "alive"
  <2>1. NoneLaid(w, disk, o) /\ ActiveAs(w, o) = {id}
    BY <1>5, PlaceActive, SMTT(30) DEF Followed, Sure
  <2>2. OneActive(v, disk, o)
    BY <1>1, <1>2, <1>5, <2>1 DEF OneActive
  <2>. QED  BY <1>5, <2>2 DEF Settles, InPlace
<1>6. CASE w.fate[o] = "none"
  BY <1>1, <1>6 DEF InPlace
<1>7. CASE w.fate[o] = "removed"
  BY <1>1, <1>2, <1>3, <1>7 DEF Settles, InPlace
<1>8. CASE w.fate[o] = "cleared"
  <2>1. \A i \in ActiveAs(v, o) : v.objects[i].gone # "no" /\ ~Listed(v, i)
    BY <1>1, <1>3, <1>8 DEF InPlace
  <2>2. \A p \in Positions : At(v.blocks, disk, p).stamp = Valid
                               => At(v.blocks, disk, p).stored[o] = 0
    BY <1>4, <1>8 DEF InPlace
  <2>. QED  BY <1>8, <2>1, <2>2 DEF Settles, InPlace
<1>. QED  BY <1>5, <1>6, <1>7, <1>8, LostSettles DEF Followed, Sure

(* It goes and was not to live, or it is stored. *)
LEMMA GoesSettles ==
  ASSUME DiskOK, NEW w \in Worlds, NEW id \in DOMAIN w.objects,
         NEW o, o = w.objects[id].obj, InPlace(w, disk, o),
         NEW v, Moves(w, v, id, o), Counted(w, v, o), id \notin DOMAIN v.objects, v.fate[o] = w.fate[o],
         \/ SameStored(w, v, o) /\ (w.fate[o] \in Followed => ~Lives(w, id))
         \/ Laid(w, v, o) /\ (w.fate[o] \in Followed => Lives(w, id))
  PROVE  Settles(w, v, o)
<1>1. ActiveAs(v, o) = ActiveAs(w, o) \ {id} /\ id \in ActiveAs(w, o)
  BY OwnObjects
<1>2. \A i \in ActiveAs(v, o) :
        /\ i \in DOMAIN v.objects /\ v.objects[i] = w.objects[i]
        /\ Listed(v, i) <=> Listed(w, i)
        /\ Lives(v, i) <=> Lives(w, i)
  BY <1>1, MovesLists DEF ActiveAs
<1>3. CASE v.fate[o] \notin Followed
  BY <1>3, LostSettles
<1>4. CASE v.fate[o] \in Followed /\ SameStored(w, v, o) /\ ~Lives(w, id)
  <2>1. v.fate[o] # "alive" /\ v.fate[o] # "none"
    BY <1>1, <1>4, PlaceActive DEF InPlace
  <2>2. \A p \in Positions :
          /\ At(v.blocks, disk, p).stamp = At(w.blocks, disk, p).stamp
          /\ At(v.blocks, disk, p).stored[o] = At(w.blocks, disk, p).stored[o]
    BY <1>4, OwnStamps DEF SameStored
  <2>3. NoneLaid(w, disk, o) <=> NoneLaid(v, disk, o)
    BY <2>2 DEF NoneLaid
  <2>4. v.fate[o] = "removed" =>
          NoneLaid(v, disk, o) /\ \A i \in ActiveAs(v, o) : ~Lives(v, i)
    BY <1>1, <1>2, <2>3 DEF InPlace
  <2>5. v.fate[o] = "cleared" =>
          /\ \A i \in ActiveAs(v, o) : v.objects[i].gone # "no" /\ ~Listed(v, i)
          /\ \A p \in Positions : At(v.blocks, disk, p).stamp = Valid
                                    => At(v.blocks, disk, p).stored[o] = 0
    BY <1>1, <1>2, <2>2 DEF InPlace
  <2>. QED  BY <1>4, <2>1, <2>4, <2>5 DEF InPlace, Settles
<1>5. CASE v.fate[o] \in Followed /\ Laid(w, v, o) /\ Lives(w, id)
  <2>1. w.fate[o] = "alive" /\ NoneLaid(w, disk, o) /\ ActiveAs(w, o) = {id}
    BY <1>5, PlaceActive
  <2>2. \A p \in Positions : Fetched(w.blocks, p).stored[o] = 0
    BY <2>1, PlaceFetched
  <2>3. ActiveAs(v, o) = {}
    BY <1>1, <2>1
  <2>4. OneLaid(v, disk, o)
    <3>1. PICK p \in Positions :
            /\ Fetched(v.blocks, p).stored[o] = Fetched(w.blocks, p).stored[o] + 1
            /\ \A q \in Positions \ {p} :
                 Fetched(v.blocks, q).stored[o] = Fetched(w.blocks, q).stored[o]
      BY <1>5 DEF Laid
    <3>2. Fetched(v.blocks, p).stored[o] = 1
      BY <2>2, <3>1
    <3>3. \A q \in Positions \ {p} : Fetched(v.blocks, q).stored[o] = 0
      BY <2>2, <3>1
    <3>. QED  BY <2>3, <3>2, <3>3, PlaceFetched
  <2>. QED  BY <2>1, <2>4 DEF Settles, InPlace
<1>. QED  BY <1>3, <1>4, <1>5

-----------------------------------------------------------------------------
(* The operators of the environment: the steps they are.                   *)
LEMMA LaidAfter ==
  ASSUME NEW w, NEW v, NEW u, NEW o, SameStored(w, v, o), Laid(v, u, o)
  PROVE  Laid(w, u, o)
BY DEF SameStored, Laid

LEMMA ResaveSettles ==
  ASSUME DiskOK, NEW w \in Worlds, NEW id \in DOMAIN w.objects,
         NEW o, o = w.objects[id].obj, OwnEntries(w, id, o), w.objects[id].gone = "no",
         NEW v, v = Resave(w, id)
  PROVE  Moves(w, v, id, o) /\ (InPlace(w, disk, o) => Settles(w, v, o))
<1>1. PICK u : u = deleteStaticFromBlock(w, id, TRUE)
  OBVIOUS
<1>2. PICK p \in Positions : p = w.objects[id].pos
  BY WorldParts DEF ActiveObject
<1>3. v = saveStaticToBlock(u, p, id, TRUE, TRUE)
  BY <1>1, <1>2 DEF Resave
<1>4. TRUE \in BOOLEAN
  OBVIOUS
<1>5. /\ Moves(w, u, id, o) /\ SameStored(w, u, o) /\ Unlisted(u, id)
      /\ SameRecord(w, u, id) /\ u.fate = w.fate /\ Counted(w, u, o)
  <2>1. HasDeleted(w, u, id, TRUE)
    BY <1>1, <1>4, DeleteHolds
  <2>. QED  BY <1>4, <2>1, DeleteMoves
<1>6. /\ u \in Worlds /\ id \in DOMAIN u.objects /\ o = u.objects[id].obj
      /\ OwnEntries(u, id, o)
  BY <1>5 DEF Moves, SameRecord
<1>7. /\ Moves(u, v, id, o) /\ SameRecord(u, v, id) /\ v.fate = u.fate
      /\ Counted(u, v, o) /\ SameStored(u, v, o)
  <2>1. CASE HasSaved(u, v, p, id, TRUE, TRUE)
    <3>1. Saves(u, v, id, o, TRUE, TRUE)
      BY <1>4, <1>5, <1>6, <2>1, SaveMoves
    <3>. QED  BY <3>1 DEF Saves
  <2>2. CASE Loads(u, v)
    <3>1. v.objects = u.objects /\ v.fate = u.fate
      BY <2>2 DEF Loads
    <3>2. Moves(u, v, id, o) /\ Counted(u, v, o) /\ SameStored(u, v, o)
      BY <1>6, <2>2, LoadMoves
    <3>. QED  BY <1>6, <3>1, <3>2 DEF SameRecord
  <2>. QED  BY <1>3, <1>4, <1>6, <2>1, <2>2, SaveCases
<1>8. /\ Moves(w, v, id, o) /\ Counted(w, v, o) /\ SameStored(w, v, o) /\ v.fate = w.fate
      /\ id \in DOMAIN v.objects /\ v.objects[id].gone = "no"
  BY <1>5, <1>6, <1>7, MovesTransitive, CountedTransitive, StoredTransitive DEF SameRecord
<1>9. ASSUME InPlace(w, disk, o) PROVE Settles(w, v, o)
  <2>1. Lives(w, id) /\ Lives(v, id)
    BY <1>8 DEF Lives
  <2>2. w.fate[o] # "removed" /\ w.fate[o] # "cleared"
    BY <1>9, <2>1, PlaceActive DEF Followed, Sure
  <2>. QED  BY <1>8, <1>9, <2>1, <2>2, StaysSettles
<1>. QED  BY <1>8, <1>9

-----------------------------------------------------------------------------
(* Deactivate, when nothing changed: the block is not marked, and has as   *)
(* many copies as before.                                                  *)
LEMMA StoredBackCounts ==
  ASSUME DiskOK, NEW w \in Worlds, NEW id \in DOMAIN w.objects,
         NEW o, o = w.objects[id].obj, OwnEntries(w, id, o),
         NEW p, p = w.objects[id].static_block, p \in DOMAIN w.blocks,
         id \in DOMAIN w.blocks[p].active, w.objects[id].static_exists,
         NEW u, HasDeleted(w, u, id, FALSE),
         NEW stays \in BOOLEAN, NEW v, HasSaved(u, v, p, id, stays, FALSE)
  PROVE  Counted(w, v, o)
<1>. DEFINE b0 == w.blocks[p]
<1>1. /\ p \in Positions /\ b0 \in MapBlock /\ o \in Objects /\ id \in Ids
      /\ Fetched(w.blocks, p) = b0
  BY WorldParts DEF ActiveObject, Fetched
<1>2. /\ b0.stored \in Stores /\ b0.active \in Partial(Ids, Objects)
      /\ id \in DOMAIN b0.active /\ b0.active[id] = o
  BY <1>1 DEF MapBlock, OwnEntries
<1>3. /\ u.objects = Put(w.objects, id, [w.objects[id] EXCEPT !.static_exists = FALSE])
      /\ \E b : u.blocks = Put(w.blocks, p, b) /\ Bare(Fetched(w.blocks, p), b, id, FALSE)
  BY DEF HasDeleted
<1>4. PICK b1 : u.blocks = Put(w.blocks, p, b1) /\ Bare(b0, b1, id, FALSE)
  BY <1>1, <1>3
<1>5. /\ b1.stored = b0.stored /\ b1.active = Without(b0.active, {id})
      /\ Fetched(u.blocks, p) = b1
      /\ DOMAIN u.blocks = DOMAIN w.blocks
      /\ \A q \in DOMAIN w.blocks \ {p} : u.blocks[q] = w.blocks[q]
  <2>1. b1.stored = b0.stored /\ b1.active = Without(b0.active, {id})
    BY <1>4 DEF Bare
  <2>2. /\ DOMAIN u.blocks = DOMAIN w.blocks /\ u.blocks[p] = b1
        /\ \A q \in DOMAIN w.blocks \ {p} : u.blocks[q] = w.blocks[q]
    <3>. HIDE DEF b0
    <3>. QED  BY <1>4 DEF Put
  <2>3. Fetched(u.blocks, p) = b1
    BY <2>2 DEF Fetched
  <2>. QED  BY <2>1, <2>2, <2>3
<1>6. PICK g : g = [w.objects[id] EXCEPT !.static_exists = FALSE]
  OBVIOUS
<1>7. g.obj = o /\ u.objects[id] = g
  BY <1>3, <1>6, WorldParts DEF ActiveObject, Put
<1>8. PICK ao : ao = Placed(u.objects[id], p)
  OBVIOUS
<1>9. PICK b : v.blocks = Put(u.blocks, p, b) /\ Holds(b1, b, id, ao, stays, FALSE)
             /\ ao.obj = o
  BY <1>5, <1>7, <1>8 DEF HasSaved
<1>10. /\ DOMAIN v.blocks = DOMAIN w.blocks /\ v.blocks[p] = b
       /\ \A q \in DOMAIN w.blocks \ {p} : v.blocks[q] = w.blocks[q]
  BY <1>5, <1>9 DEF Put
<1>11. CASE stays = TRUE
  <2>1. b.stored = b0.stored /\ b.active = Put(b1.active, id, o)
    BY <1>5, <1>9, <1>11 DEF Holds
  <2>2. {i \in DOMAIN b.active : b.active[i] = o} = {i \in DOMAIN b0.active : b0.active[i] = o}
    <3>. HIDE DEF b0
    <3>3. /\ DOMAIN b1.active = DOMAIN b0.active \ {id}
          /\ \A i \in DOMAIN b0.active \ {id} : b1.active[i] = b0.active[i]
      BY <1>5 DEF Without
    <3>4. /\ DOMAIN b.active = DOMAIN b1.active \cup {id} /\ b.active[id] = o
          /\ \A i \in DOMAIN b1.active : i # id => b.active[i] = b1.active[i]
      BY <2>1 DEF Put
    <3>1. DOMAIN b.active = DOMAIN b0.active
      BY <1>2, <3>3, <3>4
    <3>2. \A i \in DOMAIN b0.active : b.active[i] = IF i = id THEN o ELSE b0.active[i]
      BY <3>3, <3>4
    <3>. QED  BY <1>2, <3>1, <3>2
  <2>3. Count(b, o) = Count(b0, o)
    BY <2>1, <2>2 DEF Count, ActiveOf
  <2>. QED  BY <1>1, <1>10, <2>3 DEF Counted, Fetched
<1>12. CASE stays = FALSE
  <2>1. b.stored = [b1.stored EXCEPT ![o] = @ + 1] /\ b.active = b1.active
    BY <1>9, <1>12 DEF Holds
  <2>2. b.stored[o] = b0.stored[o] + 1 /\ b0.stored[o] \in Nat
    <3>1. b.stored = [b0.stored EXCEPT ![o] = @ + 1] /\ b0.stored \in [Objects -> Nat]
      BY <1>2, <1>5, <2>1 DEF Stores
    <3>. HIDE DEF b0
    <3>. QED  BY <1>1, <3>1
  <2>6. PICK a \in Partial(Ids, Objects) : a = b0.active
    BY <1>2
  <2>7. b.active = Without(a, {id}) /\ id \in DOMAIN a /\ a[id] = o
    BY <1>2, <1>5, <2>1, <2>6
  <2>8. /\ Without(a, {id}) \in Partial(Ids, Objects)
        /\ ActiveOf(Without(a, {id}), o) + 1 = ActiveOf(a, o)
    BY <2>7, ActiveOfWithout
  <2>3. ActiveOf(b.active, o) + 1 = ActiveOf(b0.active, o)
    BY <2>6, <2>7, <2>8
  <2>4. ActiveOf(b.active, o) \in Nat
    BY <2>7, <2>8, StoreTypes
  <2>5. Count(b, o) = Count(b0, o)
    <3>. HIDE DEF b0
    <3>. QED  BY <2>2, <2>3, <2>4 DEF Count
  <2>. QED  BY <1>1, <1>10, <2>5 DEF Counted, Fetched
<1>. QED  BY <1>11, <1>12

-----------------------------------------------------------------------------
LEMMA DeactivateSettles ==
  ASSUME DiskOK, NEW w0 \in Worlds, NEW id \in DOMAIN w0.objects,
         NEW o, o = w0.objects[id].obj, OwnEntries(w0, id, o),
         NEW force \in BOOLEAN, NEW data_changed \in BOOLEAN,
         NEW x, x = Deactivate(w0, id, force, data_changed)
  PROVE  /\ Moves(w0, x, id, o)
         /\ InPlace(w0, disk, o) /\ (w0.fate[o] \in Followed => Lives(w0, id))
              => Settles(w0, x, o)
         /\ force = TRUE => id \notin DOMAIN x.objects
<1>. DEFINE ao == w0.objects[id]
            p == ao.pos
            pending == ao.known /\ ~force
            w == [w0 EXCEPT !.blocks =
                    IF ao.static_exists THEN EmergeBlock(@, ao.static_block, FALSE) ELSE @]
            found == /\ ao.static_exists /\ ao.static_block \in DOMAIN w.blocks
                     /\ id \in DOMAIN w.blocks[ao.static_block].active
            same == found /\ ao.static_block = ao.pos /\ ~data_changed
            u == deleteStaticFromBlock(w, id, ~same)
            fits == HasRoom(EmergeBlock(u.blocks, ao.pos, TRUE), ao.pos)
            v == saveStaticToBlock(u, ao.pos, id, pending, ~same)
            lost == [v EXCEPT !.fate = Fated(@, {ao.obj}, "over the limit")]
            marked == [v.objects[id] EXCEPT !.gone = "deactivation"]
            f == IF same THEN FALSE ELSE TRUE
            s == IF pending THEN TRUE ELSE FALSE
<1>1. ao \in ActiveObject /\ id \in Ids /\ p \in Positions
      /\ ao.static_block \in Positions /\ o \in Objects
  BY WorldParts DEF ActiveObject
<1>2. Loads(w0, w)
  <2>1. CASE ao.static_exists
    <3>1. PICK y : y = [w0 EXCEPT !.blocks = EmergeBlock(w0.blocks, ao.static_block, FALSE)]
      OBVIOUS
    <3>2. w = y
      BY <2>1, <3>1
    <3>3. FALSE \in BOOLEAN
      OBVIOUS
    <3>4. Loads(w0, y)
      BY <1>1, <3>1, <3>3, EmergeLoads
    <3>. HIDE DEF w
    <3>. QED  BY <3>2, <3>4
  <2>2. CASE ~ao.static_exists
    <3>1. w = w0
      BY <2>2 DEF Worlds
    <3>2. Loads(w0, w0)
      BY DEF Loads, Fetched
    <3>. HIDE DEF w
    <3>. QED  BY <3>1, <3>2
  <2>. QED  BY <2>1, <2>2
<1>3. u = deleteStaticFromBlock(w, id, f) /\ v = saveStaticToBlock(u, p, id, s, f)
  <2>1. (~same) = f /\ pending = s
    BY Zenon
  <2>2. u = deleteStaticFromBlock(w, id, f)
    <3>. HIDE DEF f, same, w
    <3>. QED  BY <2>1
  <2>3. v = saveStaticToBlock(u, p, id, s, f)
    <3>. HIDE DEF f, s, same, pending, w, u
    <3>. QED  BY <2>1
  <2>. QED  BY <2>2, <2>3
<1>4. /\ f \in BOOLEAN /\ s \in BOOLEAN /\ (s = TRUE <=> pending)
      /\ s = TRUE => force = FALSE
      /\ f = TRUE \/ /\ f = FALSE /\ p = ao.static_block /\ ao.static_exists
                     /\ p \in DOMAIN w.blocks /\ id \in DOMAIN w.blocks[p].active
  <2>. HIDE DEF w
  <2>. QED  OBVIOUS
<1>5. x = IF ~fits THEN Unregister(lost, id)
          ELSE IF pending THEN [v EXCEPT !.objects = Put(@, id, marked)]
          ELSE Unregister(v, id)
  BY Zenon DEF Deactivate
<1>6. /\ lost = [v EXCEPT !.fate = Fated(@, {ao.obj}, "over the limit")]
      /\ fits <=> HasRoom(EmergeBlock(u.blocks, p, TRUE), p)
      /\ marked = [v.objects[id] EXCEPT !.gone = "deactivation"]
  OBVIOUS
<1>. HIDE DEF u, v, w, f, s, same, pending, fits, found, lost, marked, ao, p
<1>7. /\ w \in Worlds /\ id \in DOMAIN w.objects /\ o = w.objects[id].obj
      /\ w.objects = w0.objects /\ w.fate = w0.fate
      /\ Moves(w0, w, id, o) /\ Counted(w0, w, o) /\ SameStored(w0, w, o)
      /\ OwnEntries(w, id, o)
  <2>1. Moves(w0, w, id, o) /\ Counted(w0, w, o) /\ SameStored(w0, w, o)
    BY <1>2, LoadMoves
  <2>. QED  BY <1>2, <2>1 DEF Loads, Moves
<1>8. HasDeleted(w, u, id, f)
  BY <1>3, <1>4, <1>7, DeleteHolds
<1>9. /\ Moves(w, u, id, o) /\ SameStored(w, u, o) /\ Unlisted(u, id)
      /\ SameRecord(w, u, id) /\ u.fate = w.fate
      /\ f = TRUE => Counted(w, u, o)
  BY <1>4, <1>7, <1>8, DeleteMoves
<1>10. /\ u \in Worlds /\ id \in DOMAIN u.objects /\ o = u.objects[id].obj
       /\ OwnEntries(u, id, o)
  BY <1>9 DEF Moves, SameRecord
<1>11. Moves(w0, u, id, o) /\ SameStored(w0, u, o)
  BY <1>7, <1>9, MovesTransitive, StoredTransitive
<1>12. CASE ~fits
  <2>1. Loads(u, v)
    BY <1>1, <1>3, <1>4, <1>6, <1>10, <1>12, SaveCases
  <2>2. Moves(u, v, id, o) /\ Unlisted(v, id) /\ v.fate = u.fate
    BY <1>9, <1>10, <2>1, LoadMoves DEF Loads
  <2>3. Moves(w0, v, id, o)
    BY <1>11, <2>2, MovesTransitive
  <2>4. lost = [v EXCEPT !.fate = Fated(@, {o}, "over the limit")]
    BY <1>6 DEF ao
  <2>5. "over the limit" \in Fates /\ "over the limit" \notin Followed
    BY DEF Fates, Followed, Sure
  <2>6. /\ Moves(w0, lost, id, o) /\ lost.blocks = v.blocks
        /\ lost.fate[o] = IF v.fate[o] = "alive" THEN "over the limit" ELSE v.fate[o]
    <3>1. Meets(w0, v, lost, id, o, "over the limit")
      BY <1>1, <2>3, <2>4, <2>5, FatedMoves
    <3>. QED  BY <3>1 DEF Meets
  <2>7. /\ Moves(w0, x, id, o)
        /\ x.blocks = lost.blocks /\ x.fate = lost.fate
        /\ DOMAIN x.objects = DOMAIN lost.objects \ {id}
    <3>1. Unlisted(lost, id) /\ x = Unregister(lost, id)
      BY <1>5, <1>12, <2>2, <2>6 DEF Unlisted
    <3>2. Ends(w0, lost, x, id, o)
      BY <2>6, <3>1, UnregisterMoves
    <3>. QED  BY <3>2 DEF Ends
  <2>8. ASSUME InPlace(w0, disk, o), w0.fate[o] \in Followed => Lives(w0, id)
        PROVE  Settles(w0, x, o)
    <3>1. w0.fate[o] \in Followed => w0.fate[o] = "alive"
      BY <2>8, PlaceActive
    <3>2. x.fate[o] \notin Followed
      BY <1>7, <1>9, <2>2, <2>5, <2>6, <2>7, <3>1
    <3>. QED  BY <3>2, LostSettles
  <2>. QED  BY <2>7, <2>8
<1>13. CASE fits
  <2>1. HasSaved(u, v, p, id, s, f)
    BY <1>1, <1>3, <1>4, <1>6, <1>10, <1>13, SaveCases
  <2>2. /\ Moves(u, v, id, o) /\ SameRecord(u, v, id) /\ v.fate = u.fate
        /\ f = TRUE => Counted(u, v, o)
        /\ s = TRUE => SameStored(u, v, o) /\ Listed(v, id)
        /\ s = FALSE => Laid(u, v, o) /\ Unlisted(v, id)
    <3>1. Saves(u, v, id, o, s, f)
      BY <1>1, <1>4, <1>9, <1>10, <2>1, SaveMoves
    <3>. QED  BY <3>1 DEF Saves
  <2>3. Moves(w, v, id, o) /\ Moves(w0, v, id, o)
    BY <1>7, <1>9, <2>2, MovesTransitive
  <2>4. Counted(w, v, o)
    <3>1. CASE f = TRUE
      BY <1>7, <1>9, <2>2, <3>1, CountedTransitive
    <3>2. CASE f = FALSE
      <4>1. /\ p = w.objects[id].static_block /\ w.objects[id].static_exists
            /\ p \in DOMAIN w.blocks /\ id \in DOMAIN w.blocks[p].active
        BY <1>4, <1>7, <3>2 DEF ao
      <4>. QED  BY <1>4, <1>7, <1>8, <2>1, <3>2, <4>1, StoredBackCounts
    <3>. QED  BY <1>4, <3>1, <3>2
  <2>5. Counted(w0, v, o) /\ v.fate = w0.fate
    BY <1>7, <1>9, <2>2, <2>3, <2>4, CountedTransitive
  <2>6. CASE s = TRUE
    <3>1. id \in DOMAIN v.objects /\ v.objects[id] \in ActiveObject
      BY <2>2, <2>3, WorldParts DEF Moves, SameRecord
    <3>2. /\ marked \in ActiveObject /\ marked.gone = "deactivation"
          /\ SameData(v.objects[id], marked)
      BY <1>6, <3>1 DEF ActiveObject, SameData
    <3>3. x = [v EXCEPT !.objects = Put(@, id, marked)]
      BY <1>4, <1>5, <1>13, <2>6
    <3>4. /\ Moves(w0, x, id, o) /\ x.blocks = v.blocks /\ x.fate = v.fate
          /\ DOMAIN x.objects = DOMAIN v.objects /\ x.objects[id] = marked
          /\ Listed(x, id) <=> Listed(v, id)
      <4>1. Rewrites(w0, v, x, id, o, marked)
        BY <1>1, <2>3, <3>1, <3>2, <3>3, RewriteMoves
      <4>. QED  BY <4>1 DEF Rewrites
    <3>5. SameStored(w0, x, o) /\ Counted(w0, x, o)
      <4>1. SameStored(w0, v, o)
        BY <1>11, <2>2, <2>6, StoredTransitive
      <4>. QED  BY <2>5, <3>4, <4>1 DEF SameStored, Counted
    <3>6. Lives(x, id) /\ id \in DOMAIN x.objects
      BY <2>2, <2>6, <3>1, <3>2, <3>4 DEF Lives
    <3>7. ASSUME InPlace(w0, disk, o), w0.fate[o] \in Followed => Lives(w0, id)
          PROVE  Settles(w0, x, o)
      <4>1. w0.fate[o] # "removed" /\ w0.fate[o] # "cleared"
        BY <3>7, PlaceActive DEF Followed, Sure
      <4>2. x.fate[o] = w0.fate[o]
        BY <2>5, <3>4
      <4>. QED  BY <3>4, <3>5, <3>6, <3>7, <4>1, <4>2, StaysSettles
    <3>. QED  BY <1>4, <2>6, <3>4, <3>7
  <2>7. CASE s = FALSE
    <3>1. x = Unregister(v, id)
      BY <1>4, <1>5, <1>13, <2>7
    <3>2. /\ Moves(w0, x, id, o) /\ x.blocks = v.blocks /\ x.fate = v.fate
          /\ DOMAIN x.objects = DOMAIN v.objects \ {id}
      <4>1. Ends(w0, v, x, id, o)
        BY <2>2, <2>3, <2>7, <3>1, UnregisterMoves
      <4>. QED  BY <4>1 DEF Ends
    <3>3. Laid(w0, x, o) /\ Counted(w0, x, o)
      <4>1. Laid(w0, v, o)
        BY <1>11, <2>2, <2>7, LaidAfter
      <4>. QED  BY <2>5, <3>2, <4>1 DEF Laid, Counted
    <3>4. ASSUME InPlace(w0, disk, o), w0.fate[o] \in Followed => Lives(w0, id)
          PROVE  Settles(w0, x, o)
      <4>1. x.fate[o] = w0.fate[o] /\ id \notin DOMAIN x.objects
        BY <2>5, <3>2
      <4>. QED  BY <3>2, <3>3, <3>4, <4>1, GoesSettles
    <3>. QED  BY <3>2, <3>4
  <2>. QED  BY <1>4, <2>6, <2>7
<1>. QED  BY <1>12, <1>13

-----------------------------------------------------------------------------
Shelves(w, v, id, o) ==
  /\ Moves(w, v, id, o) /\ Counted(w, v, o) /\ Unlisted(v, id)
  /\ v.objects = w.objects /\ v.fate = w.fate
  /\ IF Listed(w, id) THEN Laid(w, v, o) ELSE SameStored(w, v, o)

LEMMA StoreMoves ==
  ASSUME DiskOK, NEW w \in Worlds, NEW id \in DOMAIN w.objects,
         NEW o, o = w.objects[id].obj, OwnEntries(w, id, o),
         NEW v, v = StoreDeactivated(w, id)
  PROVE  Shelves(w, v, id, o)
<1>. DEFINE p == w.objects[id].static_block
            b0 == Fetched(w.blocks, p)
<1>1. p \in Positions /\ o \in Objects /\ b0 \in MapBlock
  BY WorldParts, FetchedType DEF ActiveObject
<1>2. CASE /\ v = [w EXCEPT !.blocks = EmergeBlock(w.blocks, p, FALSE)]
           /\ id \notin DOMAIN b0.active
  <2>1. FALSE \in BOOLEAN
    OBVIOUS
  <2>2. Loads(w, v)
    BY <1>1, <1>2, <2>1, EmergeLoads
  <2>3. Unlisted(w, id) /\ ~Listed(w, id)
    BY <1>2 DEF Unlisted, Listed, OwnEntries, Fetched
  <2>4. Moves(w, v, id, o) /\ Counted(w, v, o) /\ SameStored(w, v, o) /\ Unlisted(v, id)
    BY <2>2, <2>3, LoadMoves
  <2>. QED  BY <2>2, <2>3, <2>4 DEF Shelves, Loads
<1>3. CASE p \in DOMAIN w.blocks /\ HasShelved(w, v, id)
  <2>1. /\ v \in Worlds /\ v.fate = w.fate /\ v.objects = w.objects
        /\ \E b : v.blocks = Put(w.blocks, p, b) /\ Shelved(b0, b, id)
    BY <1>3 DEF HasShelved
  <2>2. PICK b : v.blocks = Put(w.blocks, p, b) /\ Shelved(b0, b, id)
    BY <2>1
  <2>3. b0 = w.blocks[p]
    BY <1>3 DEF Fetched
  <2>. HIDE DEF b0
  <2>4. b0.active[id] = o /\ w.objects[id].static_exists = TRUE /\ id \in DOMAIN b0.active
    BY <1>3, <2>2, <2>3 DEF OwnEntries, Shelved
  <2>5. Listed(w, id)
    BY <1>3, <2>3, <2>4 DEF Listed
  <2>6. b0.stored \in [Objects -> Nat]
    BY <1>1 DEF MapBlock, Stores
  <2>7. \A x \in Objects : b.stored[x] = IF x = o THEN b0.stored[x] + 1 ELSE b0.stored[x]
    <3>1. b.stored = [b0.stored EXCEPT ![o] = @ + 1]
      BY <2>2, <2>4 DEF Shelved
    <3>. QED  BY <1>1, <2>6, <3>1
  <2>8. /\ DOMAIN b.active = DOMAIN b0.active \ {id}
        /\ \A i \in DOMAIN b0.active \ {id} : b.active[i] = b0.active[i]
        /\ b.modified = WriteNeeded /\ b \in MapBlock
        /\ b.stamp = b0.stamp /\ b.old = b0.old
    BY <2>2 DEF Shelved, Without
  <2>9. Alters(b0, b, id, o)
    BY <2>7, <2>8 DEF Alters, SameEntries
  <2>10. \A q \in DOMAIN w.blocks \ {p} : id \notin DOMAIN w.blocks[q].active
    BY DEF OwnEntries
  <2>11. /\ Moves(w, v, id, o)
         /\ \/ b.modified = WriteNeeded
            \/ Count(b, o) = Count(Fetched(w.blocks, p), o)
            => Counted(w, v, o)
         /\ b.stored[o] = Fetched(w.blocks, p).stored[o] => SameStored(w, v, o)
    <3>1. /\ Alters(Fetched(w.blocks, p), b, id, o) /\ b \in MapBlock
          /\ id \notin DOMAIN b.active
          /\ v.objects[id].obj = o /\ w.objects[id].obj = o
          /\ \A i \in DOMAIN w.objects \ {id} : v.objects[i] = w.objects[i]
          /\ DOMAIN v.objects \ {id} = DOMAIN w.objects \ {id}
          /\ \A x \in Objects \ {o} : v.fate[x] = w.fate[x]
      BY <2>1, <2>8, <2>9 DEF b0
    <3>. HIDE DEF p
    <3>. QED  BY <1>1, <2>1, <2>2, <2>10, <3>1, PutMoves
  <2>12. /\ DOMAIN v.blocks = DOMAIN w.blocks \cup {p}
         /\ v.blocks[p] = b /\ Fetched(v.blocks, p) = b
         /\ \A q \in DOMAIN w.blocks \ {p} : v.blocks[q] = w.blocks[q]
         /\ \A q \in Positions \ {p} : Fetched(v.blocks, q) = Fetched(w.blocks, q)
    BY <2>2 DEF Put, Fetched
  <2>13. Unlisted(v, id)
    BY <2>8, <2>10, <2>12 DEF Unlisted
  <2>14. Laid(w, v, o)
    BY <1>1, <2>7, <2>12 DEF Laid, b0
  <2>. QED  BY <2>1, <2>5, <2>8, <2>11, <2>13, <2>14 DEF Shelves
<1>. QED  BY <1>2, <1>3, StoreHolds

(* removeRemovedObject *)
LEMMA RemovedSettles ==
  ASSUME DiskOK, NEW w \in Worlds, NEW id \in DOMAIN w.objects,
         NEW o, o = w.objects[id].obj, OwnEntries(w, id, o), w.objects[id].gone # "no",
         NEW v, v = removeRemovedObject(w, id)
  PROVE  /\ Moves(w, v, id, o)
         /\ InPlace(w, disk, o) => Settles(w, v, o)
<1>. DEFINE ao == w.objects[id]
<1>1. /\ ao.gone \in {"removal", "deactivation"} /\ ao.known \in BOOLEAN
      /\ ao.static_exists \in BOOLEAN
  BY WorldParts DEF ActiveObject
<1>2. Loads(w, w)
  BY DEF Loads, Fetched
<1>3. Moves(w, w, id, o) /\ Counted(w, w, o) /\ SameStored(w, w, o)
  BY <1>2, LoadMoves
<1>4. CASE ao.gone = "deactivation" /\ ao.known
  <2>1. v = w
    BY <1>4 DEF removeRemovedObject
  <2>2. ASSUME InPlace(w, disk, o) PROVE Settles(w, w, o)
    BY <1>3, <2>2 DEF Settles
  <2>. QED  BY <1>3, <2>1, <2>2
<1>5. CASE ao.gone = "removal"
  <2>1. PICK u : u = deleteStaticFromBlock(w, id, TRUE)
    OBVIOUS
  <2>2. /\ Moves(w, u, id, o) /\ SameStored(w, u, o) /\ Unlisted(u, id)
        /\ SameRecord(w, u, id) /\ u.fate = w.fate /\ Counted(w, u, o)
    <3>1. TRUE \in BOOLEAN
      OBVIOUS
    <3>2. HasDeleted(w, u, id, TRUE)
      BY <2>1, <3>1, DeleteHolds
    <3>. QED  BY <3>1, <3>2, DeleteMoves
  <2>3. ~Lives(w, id) /\ ~Lives(u, id) /\ ~Listed(u, id)
    BY <1>5, <2>2 DEF Lives, SameRecord, Listed, Unlisted
  <2>4. CASE ao.known
    <3>1. v = u
      BY <1>5, <2>1, <2>4 DEF removeRemovedObject
    <3>2. ASSUME InPlace(w, disk, o) PROVE Settles(w, u, o)
      <4>1. w.fate[o] # "alive"
        BY <2>3, <3>2, PlaceActive DEF Followed, Sure
      <4>2. id \in DOMAIN u.objects /\ u.objects[id].gone # "no"
        BY <1>5, <2>2 DEF SameRecord
      <4>. QED  BY <2>2, <2>3, <3>2, <4>1, <4>2, StaysSettles
    <3>. QED  BY <2>2, <3>1, <3>2
  <2>5. CASE ~ao.known
    <3>1. v = Unregister(u, id)
      BY <1>5, <2>1, <2>5 DEF removeRemovedObject
    <3>2. Ends(w, u, v, id, o)
      BY <2>2, <3>1, UnregisterMoves
    <3>3. /\ Moves(w, v, id, o) /\ v.fate = w.fate /\ id \notin DOMAIN v.objects
          /\ SameStored(w, v, o) /\ Counted(w, v, o)
      BY <2>2, <3>2 DEF Ends, SameStored, Counted
    <3>4. ASSUME InPlace(w, disk, o) PROVE Settles(w, v, o)
      BY <2>3, <3>3, <3>4, GoesSettles
    <3>. QED  BY <3>3, <3>4
  <2>. QED  BY <2>4, <2>5
<1>6. CASE ao.gone = "deactivation" /\ ~ao.known
  <2>1. PICK u : u = IF ao.static_exists THEN StoreDeactivated(w, id) ELSE w
    OBVIOUS
  <2>2. v = Unregister(u, id)
    BY <1>6, <2>1 DEF removeRemovedObject
  <2>3. Shelves(w, u, id, o)
    <3>1. CASE ao.static_exists
      <4>1. u = StoreDeactivated(w, id)
        BY <2>1, <3>1
      <4>. QED  BY <4>1, StoreMoves
    <3>2. CASE ~ao.static_exists
      <4>1. u = w
        BY <2>1, <3>2
      <4>2. Unlisted(w, id) /\ ~Listed(w, id)
        BY <3>2 DEF Unlisted, Listed, OwnEntries
      <4>. QED  BY <1>3, <4>1, <4>2 DEF Shelves
    <3>. QED  BY <3>1, <3>2
  <2>4. Ends(w, u, v, id, o)
    BY <2>2, <2>3, UnregisterMoves DEF Shelves
  <2>5. /\ Moves(w, v, id, o) /\ v.fate = w.fate /\ id \notin DOMAIN v.objects
        /\ Counted(w, v, o)
        /\ IF Lives(w, id) THEN Laid(w, v, o) ELSE SameStored(w, v, o)
    BY <1>6, <2>3, <2>4 DEF Ends, Shelves, SameStored, Laid, Counted, Lives
  <2>6. ASSUME InPlace(w, disk, o) PROVE Settles(w, v, o)
    BY <2>5, <2>6, GoesSettles
  <2>. QED  BY <2>5, <2>6
<1>. QED  BY <1>1, <1>4, <1>5, <1>6

(* deactivateFarObject *)
LEMMA FarObjectSettles ==
  ASSUME DiskOK, NEW w \in Worlds, NEW id \in DOMAIN w.objects,
         NEW o, o = w.objects[id].obj, OwnEntries(w, id, o),
         NEW near, NEW data_changed \in BOOLEAN,
         NEW v, v = deactivateFarObject(w, id, near, data_changed)
  PROVE  /\ Moves(w, v, id, o)
         /\ InPlace(w, disk, o) => Settles(w, v, o)
<1>1. CASE v = w
  <2>1. Loads(w, w)
    BY DEF Loads, Fetched
  <2>2. Moves(w, w, id, o) /\ Counted(w, w, o) /\ SameStored(w, w, o)
    BY <2>1, LoadMoves
  <2>3. ASSUME InPlace(w, disk, o) PROVE Settles(w, w, o)
    BY <2>2, <2>3 DEF Settles
  <2>. QED  BY <1>1, <2>2, <2>3
<1>2. CASE w.objects[id].gone = "no" /\ v = Resave(w, id)
  BY <1>2, ResaveSettles
<1>3. CASE w.objects[id].gone = "no" /\ v = Deactivate(w, id, FALSE, data_changed)
  <2>1. Lives(w, id) /\ FALSE \in BOOLEAN
    BY <1>3 DEF Lives
  <2>2. /\ Moves(w, v, id, o)
        /\ InPlace(w, disk, o) /\ (w.fate[o] \in Followed => Lives(w, id))
             => Settles(w, v, o)
        /\ FALSE = TRUE => id \notin DOMAIN v.objects
    BY <1>3, <2>1, DeactivateSettles
  <2>. QED  BY <2>1, <2>2
<1>. QED  BY <1>1, <1>2, <1>3 DEF deactivateFarObject

-----------------------------------------------------------------------------
(* A step of one object and the whole invariant. *)
LEMMA CountedOthers ==
  ASSUME NEW w, NEW v, NEW id, NEW o, Moves(w, v, id, o), OwnEntries(w, id, o),
         NEW x \in Objects \ {o}
  PROVE  Counted(w, v, x)
<1>. SUFFICES ASSUME NEW p \in DOMAIN v.blocks
              PROVE  Count(v.blocks[p], x) = Count(Fetched(w.blocks, p), x)
  BY DEF Counted
<1>. DEFINE b == v.blocks[p]
            b0 == Fetched(w.blocks, p)
<1>1. b.stored[x] = b0.stored[x] /\ SameEntries(b0, b, id)
  BY DEF Moves, Alters
<1>2. id \in DOMAIN b.active => b.active[id] = o
  BY DEF Moves, OwnEntries
<1>3. id \in DOMAIN b0.active => b0.active[id] = o
  <2>1. CASE p \in DOMAIN w.blocks
    BY <2>1 DEF Fetched, OwnEntries
  <2>2. CASE p \notin DOMAIN w.blocks
    BY <2>2, FetchedActive
  <2>. QED  BY <2>1, <2>2
<1>4. {i \in DOMAIN b.active : b.active[i] = x} = {i \in DOMAIN b0.active : b0.active[i] = x}
  BY <1>1, <1>2, <1>3 DEF SameEntries
<1>. QED  BY <1>1, <1>4 DEF Count, ActiveOf

(* The other objects stay where they are. *)
LEMMA StepSound ==
  ASSUME DiskOK, NEW w \in Worlds, NEW O \in SUBSET Objects, Sound(w, disk, O),
         NEW id, NEW o, NEW v, Moves(w, v, id, o),
         o \in O => InPlace(v, disk, o) /\ OnDisk(v, disk, o)
  PROVE  Sound(v, disk, O)
<1>1. Linked(v)
  BY MovesLinked DEF Sound
<1>2. ASSUME NEW x \in O, x # o
      PROVE  InPlace(v, disk, x) /\ OnDisk(v, disk, x)
  <2>1. x \in Objects \ {o} /\ InPlace(w, disk, x) /\ OnDisk(w, disk, x)
    BY <1>2 DEF Sound
  <2>2. OwnEntries(w, id, o)
    BY LinkedOwn DEF Sound, Moves
  <2>3. Counted(w, v, x)
    BY <2>1, <2>2, CountedOthers
  <2>4. v.fate[x] = w.fate[x]
    BY <2>1 DEF Moves
  <2>5. OnDisk(v, disk, x)
    <3>1. Tracks(w, v, x)
      BY <2>3, <2>4 DEF Tracks
    <3>2. x \in Objects
      BY <2>1
    <3>. QED  BY <2>1, <3>1, <3>2, MovesOnDisk
  <2>6. InPlace(v, disk, x)
    BY <2>1, MovesOthers
  <2>. QED  BY <2>5, <2>6
<1>. QED  BY <1>1, <1>2 DEF Sound

LEMMA SettlesOnDisk ==
  ASSUME DiskOK, NEW w \in Worlds, NEW id, NEW o \in Objects, NEW v, Moves(w, v, id, o),
         InPlace(w, disk, o), OnDisk(w, disk, o), Settles(w, v, o)
  PROVE  OnDisk(v, disk, o)
<1>1. v.fate[o] = "none" => w.fate[o] = "none"
  BY DEF Settles, Followed, Sure
<1>2. Tracks(w, v, o)
  BY <1>1 DEF Settles, Tracks
<1>. QED  BY <1>2, MovesOnDisk

LEMMA SettledSound ==
  ASSUME DiskOK, NEW w \in Worlds, NEW O \in SUBSET Objects, Sound(w, disk, O),
         NEW id, NEW o, NEW v, Moves(w, v, id, o), o \in O => Settles(w, v, o)
  PROVE  Sound(v, disk, O)
<1>1. ASSUME o \in O
      PROVE  InPlace(v, disk, o) /\ OnDisk(v, disk, o)
  <2>1. o \in Objects /\ InPlace(w, disk, o) /\ OnDisk(w, disk, o) /\ Settles(w, v, o)
    BY <1>1 DEF Sound
  <2>. QED  BY <2>1, SettlesOnDisk DEF Settles
<1>. QED  BY <1>1, StepSound

(* A block that is fetched was just used. *)
LEMMA FetchedUsed ==
  ASSUME NEW mem, NEW p, p \notin DOMAIN mem
  PROVE  /\ Fetched(mem, p).old = FALSE
         /\ p \notin DOMAIN disk => Fetched(mem, p) = BlankBlock
BY DEF Fetched, Deserialized, BlankBlock

LEMMA MovesUnaged ==
  ASSUME NEW w, NEW v, NEW id, NEW o, Moves(w, v, id, o), NEW A, Unaged(w, A)
  PROVE  Unaged(v, A)
<1>. SUFFICES ASSUME NEW p \in A \cap DOMAIN v.blocks
              PROVE  v.blocks[p].old = FALSE
  BY DEF Unaged
<1>1. v.blocks[p].old = Fetched(w.blocks, p).old
  BY DEF Moves, Alters
<1>2. p \in DOMAIN w.blocks => Fetched(w.blocks, p).old = FALSE
  BY DEF Unaged, Fetched
<1>. QED  BY <1>1, <1>2, FetchedUsed

LEMMA MovesCleared ==
  ASSUME NEW w, NEW v, NEW id, NEW o \in Objects, Moves(w, v, id, o),
         v.fate[o] = "cleared" => SameStored(w, v, o) /\ w.fate[o] = "cleared",
         NEW A \in SUBSET Positions, ClearedOut(w, disk, A)
  PROVE  ClearedOut(v, disk, A)
<1>. SUFFICES ASSUME NEW p \in A
              PROVE  IF p \in DOMAIN v.blocks
                     THEN \A x \in Objects :
                            v.fate[x] = "cleared" => v.blocks[p].stored[x] = 0
                     ELSE p \notin DOMAIN disk
  BY DEF ClearedOut
<1>1. CASE p \notin DOMAIN v.blocks
  BY <1>1 DEF Moves, ClearedOut
<1>2. ASSUME p \in DOMAIN v.blocks, NEW x \in Objects, v.fate[x] = "cleared"
      PROVE  v.blocks[p].stored[x] = 0
  <2>1. w.fate[x] = "cleared"
    BY <1>2 DEF Moves
  <2>2. Fetched(v.blocks, p) = v.blocks[p]
    BY <1>2 DEF Fetched
  <2>3. v.blocks[p].stored[x] = Fetched(w.blocks, p).stored[x]
    BY <1>2, <2>2 DEF Moves, Alters, SameStored
  <2>4. CASE p \in DOMAIN w.blocks
    BY <2>1, <2>3, <2>4 DEF ClearedOut, Fetched
  <2>5. CASE p \notin DOMAIN w.blocks
    <3>1. Fetched(w.blocks, p) = BlankBlock
      BY <2>5, FetchedUsed DEF ClearedOut
    <3>. QED  BY <2>3, <3>1 DEF BlankBlock, EmptyStore
  <2>. QED  BY <2>4, <2>5
<1>. QED  BY <1>1, <1>2

(* An order of all the members of a set. *)
LEMMA OntoOrder ==
  ASSUME NEW S, IsFiniteSet(S), NEW n, NEW seq, Order(seq, n, S), n = Cardinality(S)
  PROVE  \A x \in S : \E j \in 1..n : seq[j] = x
<1>. DEFINE T == {seq[j] : j \in 1..n}
<1>1. T \subseteq S /\ n \in Nat
  BY DEF Order
<1>2. seq \in Bijection(1..n, T)
  BY DEF Order, Bijection, Injection, Surjection, IsInjective
<1>3. IsFiniteSet(1..n) /\ Cardinality(1..n) = n
  BY <1>1, FS_Interval
<1>4. Cardinality(T) = n
  BY <1>2, <1>3, FS_Bijection DEF ExistsBijection
<1>5. T = S
  BY <1>1, <1>4, FS_Subset
<1>. QED  BY <1>5

-----------------------------------------------------------------------------
(* The loops over objects: each of O is where it should be.                *)
Settled(w, v, O, A, B) ==
  /\ v \in Worlds /\ Sound(v, disk, O)
  /\ ClearedOut(v, disk, A) /\ Unaged(v, B)
  /\ \A x \in O : v.fate[x] \in Followed => v.fate[x] = w.fate[x]

LEMMA SettledStep ==
  ASSUME DiskOK, NEW w, NEW O \in SUBSET Objects, NEW A \in SUBSET Positions, NEW B,
         O = Objects \/ A = {}, NEW v, Settled(w, v, O, A, B),
         NEW id, NEW o \in Objects, NEW u, Moves(v, u, id, o),
         o \in O => Settles(v, u, o)
  PROVE  Settled(w, u, O, A, B)
<1>1. v \in Worlds /\ u \in Worlds /\ Sound(v, disk, O)
  BY DEF Settled, Moves
<1>2. Sound(u, disk, O)
  BY <1>1, SettledSound
<1>3. Unaged(u, B)
  BY MovesUnaged DEF Settled
<1>4. ClearedOut(u, disk, A)
  <2>1. CASE A = {}
    BY <2>1 DEF ClearedOut
  <2>2. CASE A # {}
    <3>1. Settles(v, u, o)
      BY <2>2
    <3>2. u.fate[o] = "cleared" => SameStored(v, u, o) /\ v.fate[o] = "cleared"
      BY <3>1 DEF Settles, Followed
    <3>. QED  BY <3>2, MovesCleared DEF Settled
  <2>. QED  BY <2>1, <2>2
<1>5. ASSUME NEW x \in O, u.fate[x] \in Followed
      PROVE  u.fate[x] = w.fate[x]
  <2>1. u.fate[x] = v.fate[x]
    BY <1>5 DEF Moves, Settles
  <2>. QED  BY <1>5, <2>1 DEF Settled
<1>. QED  BY <1>1, <1>2, <1>3, <1>4, <1>5 DEF Settled

(* After the objects of s; the others are as they were, and these, if they *)
(* are to leave, have gone.                                                *)
Going(w, seq, n, O, A, B, leave) ==
  [s \in SUBSET (1..n) |->
     {v \in Worlds :
        /\ Settled(w, v, O, A, B)
        /\ \A j \in (1..n) \ s : /\ seq[j] \in DOMAIN v.objects
                                /\ v.objects[seq[j]] = w.objects[seq[j]]
        /\ leave = TRUE => /\ DOMAIN v.objects \subseteq DOMAIN w.objects
                           /\ \A j \in s : seq[j] \notin DOMAIN v.objects}]

LEMMA GoingStarts ==
  ASSUME NEW w \in Worlds, NEW n, NEW seq, Order(seq, n, DOMAIN w.objects),
         NEW O, NEW A, NEW B, Settled(w, w, O, A, B), NEW leave,
         NEW V, V = Going(w, seq, n, O, A, B, leave)
  PROVE  /\ w \in V[{}]
         /\ \A s \in SUBSET (1..n) : V[s] \subseteq Worlds
<1>1. \A j \in 1..n : seq[j] \in DOMAIN w.objects
  BY DEF Order
<1>. QED  BY <1>1 DEF Going

LEMMA GoingSteps ==
  ASSUME DiskOK, NEW w \in Worlds, NEW n, NEW seq, Order(seq, n, DOMAIN w.objects),
         NEW O \in SUBSET Objects, NEW A \in SUBSET Positions, NEW B,
         O = Objects \/ A = {}, NEW leave,
         NEW V, V = Going(w, seq, n, O, A, B, leave),
         NEW s \in SUBSET (1..n), NEW k \in s, NEW v \in V[s \ {k}],
         NEW o \in Objects, NEW u, Moves(v, u, seq[k], o),
         o \in O => Settles(v, u, o),
         leave = TRUE => seq[k] \notin DOMAIN u.objects
  PROVE  u \in V[s]
<1>. DEFINE id == seq[k]
<1>1. s \ {k} \in SUBSET (1..n)
  OBVIOUS
<1>2. /\ Settled(w, v, O, A, B)
      /\ \A j \in (1..n) \ (s \ {k}) : /\ seq[j] \in DOMAIN v.objects
                                      /\ v.objects[seq[j]] = w.objects[seq[j]]
      /\ leave = TRUE => /\ DOMAIN v.objects \subseteq DOMAIN w.objects
                         /\ \A j \in s \ {k} : seq[j] \notin DOMAIN v.objects
  BY <1>1 DEF Going
<1>3. Settled(w, u, O, A, B) /\ u \in Worlds
  BY <1>2, SettledStep DEF Moves
<1>4. DOMAIN u.objects \ {id} = DOMAIN v.objects \ {id}
  BY DEF Moves
<1>5. \A i \in DOMAIN v.objects \ {id} : u.objects[i] = v.objects[i]
  BY DEF Moves
<1>6. \A j \in (1..n) \ s : seq[j] # id /\ j \in (1..n) \ (s \ {k})
  BY DEF Order
<1>7. \A j \in (1..n) \ s : seq[j] \in DOMAIN u.objects /\ u.objects[seq[j]] = w.objects[seq[j]]
  BY <1>2, <1>4, <1>5, <1>6
<1>8. ASSUME leave = TRUE
      PROVE  /\ DOMAIN u.objects \subseteq DOMAIN w.objects
             /\ \A j \in s : seq[j] \notin DOMAIN u.objects
  <2>1. id \notin DOMAIN u.objects
    BY <1>8
  <2>2. \A j \in s : j = k \/ (j \in s \ {k} /\ seq[j] \notin DOMAIN v.objects)
    BY <1>2, <1>8
  <2>. QED  BY <1>2, <1>4, <1>8, <2>1, <2>2
<1>. QED  BY <1>3, <1>7, <1>8 DEF Going

(* What is to be done next is as it was. *)
Due(w, v, id, O, A, B) ==
  /\ v \in Worlds /\ Settled(w, v, O, A, B)
  /\ id \in DOMAIN v.objects /\ v.objects[id] = w.objects[id]
  /\ v.objects[id].obj \in Objects
  /\ OwnEntries(v, id, v.objects[id].obj)

LEMMA GoingNext ==
  ASSUME NEW w \in Worlds, NEW n, NEW seq, Order(seq, n, DOMAIN w.objects),
         NEW O, NEW A, NEW B, NEW leave, NEW V, V = Going(w, seq, n, O, A, B, leave),
         NEW s \in SUBSET (1..n), NEW k \in s, NEW v \in V[s \ {k}]
  PROVE  Due(w, v, seq[k], O, A, B)
<1>1. s \ {k} \in SUBSET (1..n) /\ k \in (1..n) \ (s \ {k})
  OBVIOUS
<1>2. /\ v \in Worlds /\ Settled(w, v, O, A, B)
      /\ seq[k] \in DOMAIN v.objects /\ v.objects[seq[k]] = w.objects[seq[k]]
  BY <1>1 DEF Going
<1>3. v.objects[seq[k]].obj \in Objects
  BY <1>2, WorldParts DEF ActiveObject
<1>4. OwnEntries(v, seq[k], v.objects[seq[k]].obj)
  BY <1>2, LinkedOwn DEF Settled, Sound
<1>. QED  BY <1>2, <1>3, <1>4 DEF Due

LEMMA FarSettles ==
  ASSUME DiskOK, NEW w \in Worlds, NEW seq, NEW n,
         Order(seq, n, DOMAIN w.objects), NEW near, NEW changed,
         NEW A \in SUBSET Positions, NEW B, Settled(w, w, Objects, A, B)
  PROVE  Settled(w, FarDone(w, near, changed, seq), Objects, A, B)
<1>. DEFINE V == Going(w, seq, n, Objects, A, B, FALSE)
<1>. HIDE DEF V
<1>1. w \in V[{}] /\ \A s \in SUBSET (1..n) : V[s] \subseteq Worlds
  BY GoingStarts DEF V
<1>2. ASSUME NEW s \in SUBSET (1..n), s # {}, NEW v \in V[s \ {Max(s)}]
      PROVE  deactivateFarObject(v, seq[Max(s)], near, seq[Max(s)] \in changed) \in V[s]
  <2>. DEFINE k == Max(s)
              id == seq[k]
              o == v.objects[id].obj
              u == deactivateFarObject(v, id, near, id \in changed)
  <2>1. k \in s
    BY <1>2, IndexSets DEF Order
  <2>. HIDE DEF k, u
  <2>2. /\ v \in Worlds /\ Settled(w, v, Objects, A, B)
        /\ id \in DOMAIN v.objects /\ o \in Objects /\ OwnEntries(v, id, o)
    <3>1. Due(w, v, seq[k], Objects, A, B)
      BY <1>2, <2>1, GoingNext DEF V, k
    <3>. QED  BY <3>1 DEF Due
  <2>3. (id \in changed) \in BOOLEAN
    OBVIOUS
  <2>4. Moves(v, u, id, o) /\ (InPlace(v, disk, o) => Settles(v, u, o))
    <3>. HIDE DEF o, id
    <3>1. o = v.objects[id].obj
      BY DEF o
    <3>. QED  BY <2>2, <2>3, <3>1, FarObjectSettles DEF u
  <2>5. Settles(v, u, o)
    BY <2>2, <2>4 DEF Settled, Sound
  <2>6. u \in V[s]
    <3>1. V = Going(w, seq, n, Objects, A, B, FALSE)
      BY DEF V
    <3>2. v \in V[s \ {k}]
      BY <1>2 DEF k
    <3>3. o \in Objects /\ Moves(v, u, seq[k], o) /\ Settles(v, u, o)
      BY <2>2, <2>4, <2>5
    <3>. HIDE DEF o
    <3>. QED  BY <1>2, <2>1, <3>1, <3>2, <3>3, GoingSteps
  <2>. QED  BY <2>6 DEF u, k
<1>3. FarDone(w, near, changed, seq) \in V[1..n]
  BY <1>1, <1>2, FarInduction DEF Order
<1>. QED  BY <1>3 DEF V, Going

LEMMA GoneSettles ==
  ASSUME DiskOK, NEW w \in Worlds, NEW seq, NEW n,
         Order(seq, n, DOMAIN w.objects),
         \A i \in 1..n : w.objects[seq[i]].gone # "no",
         NEW A \in SUBSET Positions, NEW B, Settled(w, w, Objects, A, B)
  PROVE  Settled(w, FoldLeft(removeRemovedObject, w, seq), Objects, A, B)
<1>. DEFINE V == Going(w, seq, n, Objects, A, B, FALSE)
<1>. HIDE DEF V
<1>1. w \in V[{}] /\ \A s \in SUBSET (1..n) : V[s] \subseteq Worlds
  BY GoingStarts DEF V
<1>2. ASSUME NEW s \in SUBSET (1..n), s # {}, NEW v \in V[s \ {Max(s)}]
      PROVE  removeRemovedObject(v, seq[Max(s)]) \in V[s]
  <2>. DEFINE k == Max(s)
              id == seq[k]
              o == v.objects[id].obj
              u == removeRemovedObject(v, id)
  <2>1. k \in s /\ k \in 1..n
    BY <1>2, IndexSets DEF Order
  <2>. HIDE DEF k, u
  <2>2. /\ v \in Worlds /\ Settled(w, v, Objects, A, B)
        /\ id \in DOMAIN v.objects /\ v.objects[id] = w.objects[id]
        /\ o \in Objects /\ OwnEntries(v, id, o)
    <3>1. Due(w, v, seq[k], Objects, A, B)
      BY <1>2, <2>1, GoingNext DEF V, k
    <3>. QED  BY <3>1 DEF Due
  <2>3. v.objects[id].gone # "no"
    BY <2>1, <2>2
  <2>4. Moves(v, u, id, o) /\ (InPlace(v, disk, o) => Settles(v, u, o))
    <3>. HIDE DEF o, id
    <3>1. o = v.objects[id].obj
      BY DEF o
    <3>. QED  BY <2>2, <2>3, <3>1, RemovedSettles DEF u
  <2>5. Settles(v, u, o)
    BY <2>2, <2>4 DEF Settled, Sound
  <2>6. u \in V[s]
    <3>1. V = Going(w, seq, n, Objects, A, B, FALSE)
      BY DEF V
    <3>2. v \in V[s \ {k}]
      BY <1>2 DEF k
    <3>3. o \in Objects /\ Moves(v, u, seq[k], o) /\ Settles(v, u, o)
      BY <2>2, <2>4, <2>5
    <3>. HIDE DEF o
    <3>. QED  BY <1>2, <2>1, <3>1, <3>2, <3>3, GoingSteps
  <2>. QED  BY <2>6 DEF u, k
<1>3. FoldLeft(removeRemovedObject, w, seq) \in V[1..n]
  BY <1>1, <1>2, GoneInduction DEF Order
<1>. QED  BY <1>3 DEF V, Going

-----------------------------------------------------------------------------
(* The shutdown stores all objects, also those that were to go: the others *)
(* are where they should be.                                               *)
Staying(w, returned) ==
  {x \in Objects : w.fate[x] \in {"removed", "cleared"} => x \notin returned}

Returned(w) == {w.objects[id].obj : id \in Gone(w.objects)}

LEMMA StayingLives ==
  ASSUME NEW w \in Worlds, NEW v \in Worlds, NEW id, NEW o \in Staying(w, Returned(w)),
         id \in DOMAIN w.objects, id \in DOMAIN v.objects, v.objects[id] = w.objects[id],
         o = v.objects[id].obj, InPlace(v, disk, o),
         v.fate[o] \in Followed, v.fate[o] = w.fate[o]
  PROVE  Lives(v, id)
<1>1. Lives(v, id) <=> v.fate[o] = "alive"
  BY PlaceActive
<1>2. v.fate[o] # "none"
  BY DEF InPlace, ActiveAs
<1>3. ASSUME w.fate[o] \in {"removed", "cleared"}
      PROVE  v.objects[id].gone = "no"
  BY <1>3 DEF Staying, Returned, Gone
<1>. QED  BY <1>1, <1>2, <1>3 DEF Followed, Sure, Lives

LEMMA ShutdownSettles ==
  ASSUME DiskOK, NEW w \in Worlds, NEW seq, NEW n, Order(seq, n, DOMAIN w.objects),
         \A id \in DOMAIN w.objects : \E j \in 1..n : seq[j] = id,
         Sound(w, disk, Objects), NEW O, O = Staying(w, Returned(w)),
         NEW changed, NEW v, v = ShutdownDone(w, seq, changed)
  PROVE  Settled(w, v, O, {}, {}) /\ DOMAIN v.objects = {}
<1>0. PICK E, L : E = {} /\ L = TRUE
  OBVIOUS
<1>. DEFINE V == Going(w, seq, n, O, E, E, L)
<1>. HIDE DEF V
<1>1. O \in SUBSET Objects
  BY DEF Staying
<1>2. Settled(w, w, O, E, E)
  BY <1>0, <1>1 DEF Settled, Sound, ClearedOut, Unaged
<1>3. w \in V[{}] /\ \A s \in SUBSET (1..n) : V[s] \subseteq Worlds
  BY <1>2, GoingStarts DEF V
<1>4. ASSUME NEW s \in SUBSET (1..n), s # {}, NEW y \in V[s \ {Max(s)}]
      PROVE  Deactivate(y, seq[Max(s)], TRUE, seq[Max(s)] \in changed) \in V[s]
  <2>. DEFINE k == Max(s)
              id == seq[k]
              o == y.objects[id].obj
              u == Deactivate(y, id, TRUE, id \in changed)
  <2>1. k \in s /\ k \in 1..n
    BY <1>4, IndexSets DEF Order
  <2>. HIDE DEF k, u
  <2>2. /\ y \in Worlds /\ Settled(w, y, O, E, E)
        /\ id \in DOMAIN y.objects /\ y.objects[id] = w.objects[id]
        /\ o \in Objects /\ OwnEntries(y, id, o)
    <3>1. V = Going(w, seq, n, O, E, E, L)
      BY DEF V
    <3>2. y \in V[s \ {k}]
      BY <1>4 DEF k
    <3>3. Due(w, y, seq[k], O, E, E)
      BY <1>4, <2>1, <3>1, <3>2, GoingNext
    <3>. QED  BY <3>3 DEF Due
  <2>3. id \in DOMAIN w.objects
    BY <2>1 DEF Order
  <2>4. /\ Moves(y, u, id, o)
        /\ InPlace(y, disk, o) /\ (y.fate[o] \in Followed => Lives(y, id))
             => Settles(y, u, o)
        /\ id \notin DOMAIN u.objects
    <3>. HIDE DEF o, id
    <3>1. o = y.objects[id].obj /\ TRUE \in BOOLEAN
      BY DEF o
    <3>2. (id \in changed) \in BOOLEAN
      OBVIOUS
    <3>. QED  BY <2>2, <3>1, <3>2, DeactivateSettles DEF u
  <2>5. ASSUME o \in O
        PROVE  Settles(y, u, o)
    <3>1. InPlace(y, disk, o)
      BY <2>2, <2>5 DEF Settled, Sound
    <3>2. ASSUME y.fate[o] \in Followed
          PROVE  Lives(y, id)
      <4>1. y.fate[o] = w.fate[o]
        BY <2>2, <2>5, <3>2 DEF Settled
      <4>. QED  BY <2>2, <2>3, <2>5, <3>1, <3>2, <4>1, StayingLives
    <3>. QED  BY <2>4, <3>1, <3>2
  <2>6. u \in V[s]
    <3>1. V = Going(w, seq, n, O, E, E, L)
      BY DEF V
    <3>2. y \in V[s \ {k}]
      BY <1>4 DEF k
    <3>3. o \in Objects /\ Moves(y, u, seq[k], o) /\ seq[k] \notin DOMAIN u.objects
      BY <2>2, <2>4
    <3>4. o \in O => Settles(y, u, o)
      BY <2>5
    <3>. HIDE DEF o
    <3>5. E \in SUBSET Positions /\ L = TRUE
      BY <1>0
    <3>6. PICK j \in s : j = k
      BY <2>1
    <3>7. /\ y \in V[s \ {j}] /\ Moves(y, u, seq[j], o)
          /\ seq[j] \notin DOMAIN u.objects
      BY <3>2, <3>3, <3>6
    <3>8. O = Objects \/ E = {}
      BY <1>0
    <3>9. L = TRUE => seq[j] \notin DOMAIN u.objects
      BY <3>7
    <3>. QED  BY <1>1, <1>4, <3>1, <3>3, <3>4, <3>5, <3>7, <3>8, <3>9, ZenonT(40), GoingSteps
  <2>. QED  BY <2>6 DEF u, k
<1>5. ShutdownDone(w, seq, changed) \in V[1..n]
  BY <1>3, <1>4, ShutdownInduction DEF Order
<1>6. /\ Settled(w, v, O, E, E) /\ DOMAIN v.objects \subseteq DOMAIN w.objects
      /\ \A j \in 1..n : seq[j] \notin DOMAIN v.objects
  BY <1>0, <1>5 DEF V, Going
<1>. QED  BY <1>0, <1>6

-----------------------------------------------------------------------------
(* Sums over maps. *)
SumOf(f, S) == FoldSet(LAMBDA x, n : f[x] + n, 0, S)

LEMMA SumInduction ==
  ASSUME NEW f, NEW S, IsFiniteSet(S), NEW V, \A s \in SUBSET S : V[s] \subseteq Nat,
         0 \in V[{}],
         \A s \in SUBSET S : \A x \in s : \A n \in V[s \ {x}] : f[x] + n \in V[s]
  PROVE  SumOf(f, S) \in V[S]
<1>. DEFINE Pick(s) == CHOOSE x \in s : TRUE
            Body(it) == [s \in SUBSET S |->
                           IF s = {} THEN 0 ELSE f[Pick(s)] + it[s \ {Pick(s)}]]
            it == CHOOSE it : it = Body(it)
            pick == [s \in SUBSET S |-> Pick(s)]
            G == [s \in SUBSET S |-> [v \in Nat |-> f[Pick(s)] + v]]
<1>1. \A s \in SUBSET S : s # {} => Pick(s) \in s
  OBVIOUS
<1>2. FoldSteps(S, pick, V, G)
  <2>. HIDE DEF Pick
  <2>. SUFFICES ASSUME NEW s \in SUBSET S, s # {}
                PROVE  pick[s] \in s /\ \A v \in V[s \ {pick[s]}] : G[s][v] \in V[s]
    BY DEF FoldSteps
  <2>1. pick[s] = Pick(s) /\ Pick(s) \in s /\ s \ {Pick(s)} \in SUBSET S
    BY <1>1
  <2>2. \A v \in V[s \ {Pick(s)}] : v \in Nat /\ G[s][v] = f[Pick(s)] + v
    BY <2>1
  <2>. QED  BY <2>1, <2>2
<1>3. it = Body(it)
  <2>1. PICK g : IsFold(g, S, pick, G, 0) /\ \A s \in SUBSET S : g[s] \in V[s]
    <3>. HIDE DEF pick, G
    <3>. QED  BY <1>2, FoldExists, Zenon
  <2>. HIDE DEF Pick
  <2>2. \A s \in SUBSET S : g[s] \in Nat /\ s \ {Pick(s)} \in SUBSET S
    BY <2>1
  <2>3. g = Body(g)
    BY <2>1, <2>2 DEF IsFold
  <2>. QED  BY <2>3
<1>4. it[S] \in V[S]
  <2>. HIDE DEF it
  <2>1. Follows(it, S, pick, V, G, 0)
    <3>. HIDE DEF Pick
    <3>1. it[{}] = 0
      BY <1>3
    <3>2. ASSUME NEW s \in SUBSET S, s # {}, it[s \ {pick[s]}] \in V[s \ {pick[s]}]
          PROVE  it[s] = G[s][it[s \ {pick[s]}]]
      <4>1. pick[s] = Pick(s) /\ s \ {Pick(s)} \in SUBSET S
        OBVIOUS
      <4>2. it[s \ {Pick(s)}] \in Nat
        BY <3>2, <4>1
      <4>3. it[s] = f[Pick(s)] + it[s \ {Pick(s)}]
        BY <1>3, <3>2
      <4>. QED  BY <4>1, <4>2, <4>3
    <3>. QED  BY <3>1, <3>2 DEF Follows
  <2>. HIDE DEF pick, G
  <2>. QED  BY <1>2, <2>1, FoldReaches, Zenon
<1>. QED  BY <1>4 DEF SumOf, FoldSet, MapThenFoldSet

LEMMA TotalReaches ==
  ASSUME NEW f, IsFiniteSet(DOMAIN f), NEW p,
         \A x \in DOMAIN f : f[x] = IF x = p THEN 1 ELSE 0
  PROVE  Total(f) = IF p \in DOMAIN f THEN 1 ELSE 0
<1>. DEFINE S == DOMAIN f
            V == [s \in SUBSET S |-> {IF p \in s THEN 1 ELSE 0}]
<1>1. \A s \in SUBSET S : V[s] \subseteq Nat
  OBVIOUS
<1>2. 0 \in V[{}]
  OBVIOUS
<1>3. ASSUME NEW s \in SUBSET S, NEW x \in s, NEW n \in V[s \ {x}]
      PROVE  f[x] + n \in V[s]
  <2>1. n = IF p \in s \ {x} THEN 1 ELSE 0
    OBVIOUS
  <2>2. f[x] = IF x = p THEN 1 ELSE 0
    OBVIOUS
  <2>. QED  BY <2>1, <2>2
<1>. HIDE DEF V
<1>4. SumOf(f, S) \in V[S]
  BY <1>1, <1>2, <1>3, SumInduction
<1>. QED  BY <1>4 DEF V, SumOf, Total

LEMMA TotalNothing ==
  ASSUME NEW f, IsFiniteSet(DOMAIN f), \A x \in DOMAIN f : f[x] = 0
  PROVE  Total(f) = 0
<1>. DEFINE S == DOMAIN f
            V == [s \in SUBSET S |-> {0}]
<1>1. /\ \A s \in SUBSET S : V[s] \subseteq Nat
      /\ 0 \in V[{}]
      /\ \A s \in SUBSET S : \A x \in s : \A n \in V[s \ {x}] : f[x] + n \in V[s]
  OBVIOUS
<1>. HIDE DEF V
<1>2. SumOf(f, S) \in V[S]
  BY <1>1, SumInduction
<1>. QED  BY <1>2 DEF V, SumOf, Total

(* A store has what it has of each object. *)
LEMMA SizeBounds ==
  ASSUME NEW stored \in Stores, NEW o \in Objects
  PROVE  Size(stored) \in Nat /\ stored[o] =< Size(stored)
<1>. DEFINE V == [s \in SUBSET Objects |-> {n \in Nat : o \in s => stored[o] =< n}]
<1>1. \A x \in Objects : stored[x] \in Nat
  BY DEF Stores
<1>2. \A s \in SUBSET Objects : V[s] \subseteq Nat
  OBVIOUS
<1>3. 0 \in V[{}]
  OBVIOUS
<1>4. ASSUME NEW s \in SUBSET Objects, NEW x \in s, NEW n \in V[s \ {x}]
      PROVE  stored[x] + n \in V[s]
  <2>1. n \in Nat /\ (o \in s \ {x} => stored[o] =< n)
    OBVIOUS
  <2>2. stored[x] \in Nat /\ stored[o] \in Nat
    BY <1>1
  <2>. QED  BY <2>1, <2>2
<1>. HIDE DEF V
<1>5. SumOf(stored, Objects) \in V[Objects]
  BY <1>2, <1>3, <1>4, MapAssumption, SumInduction
<1>. QED  BY <1>5 DEF V, SumOf, Size

-----------------------------------------------------------------------------
(* What the invariant says of the counts of the property. *)
AnyStamp == {Undefined, Outdated, Valid}

StoredIf(stored, stamp, o, S) == IF stamp \in S THEN stored[o] ELSE 0

LEMMA StoredTotals ==
  ASSUME TypeOK, NEW o \in Objects, NEW S
  PROVE  \E f, g : /\ Stored(o, S) = Total(f) + Total(g)
                   /\ DOMAIN f = DOMAIN blocks /\ IsFiniteSet(DOMAIN f)
                   /\ DOMAIN g = DOMAIN disk \ DOMAIN blocks /\ IsFiniteSet(DOMAIN g)
                   /\ \A p \in DOMAIN f : f[p] =
                        StoredIf(At(blocks, disk, p).stored, At(blocks, disk, p).stamp, o, S)
                   /\ \A p \in DOMAIN g : g[p] =
                        StoredIf(At(blocks, disk, p).stored, At(blocks, disk, p).stamp, o, S)
<1>. DEFINE f == [p \in DOMAIN blocks |->
                    IF blocks[p].stamp \in S THEN blocks[p].stored[o] ELSE 0]
            g == [p \in DOMAIN disk \ DOMAIN blocks |->
                    IF disk[p].stamp \in S THEN disk[p].objects[o] ELSE 0]
<1>1. Stored(o, S) = Total(f) + Total(g)
  BY DEF Stored
<1>2. IsFiniteSet(DOMAIN blocks) /\ IsFiniteSet(DOMAIN disk)
  BY PartialMember DEF TypeOK, World, Worlds, Memory
<1>3. IsFiniteSet(DOMAIN disk \ DOMAIN blocks)
  BY <1>2, FS_Subset
<1>4. \A p \in DOMAIN blocks : At(blocks, disk, p) = blocks[p]
  BY DEF At
<1>5. \A p \in DOMAIN disk \ DOMAIN blocks :
        /\ At(blocks, disk, p).stored = disk[p].objects
        /\ At(blocks, disk, p).stamp = disk[p].stamp
  BY DEF At, Deserialized
<1>6. \A p \in DOMAIN f : f[p] =
        StoredIf(At(blocks, disk, p).stored, At(blocks, disk, p).stamp, o, S)
  BY <1>4 DEF StoredIf
<1>7. \A p \in DOMAIN g : g[p] =
        StoredIf(At(blocks, disk, p).stored, At(blocks, disk, p).stamp, o, S)
  BY <1>5 DEF StoredIf
<1>8. DOMAIN f = DOMAIN blocks /\ DOMAIN g = DOMAIN disk \ DOMAIN blocks
  OBVIOUS
<1>. HIDE DEF f, g
<1>. QED  BY <1>1, <1>2, <1>3, <1>6, <1>7, <1>8

LEMMA NowhereStored ==
  ASSUME TypeOK, NEW o \in Objects, NEW S,
         \A p \in Positions : At(blocks, disk, p).stamp \in S
                              => At(blocks, disk, p).stored[o] = 0
  PROVE  Stored(o, S) = 0
<1>1. PICK f, g : /\ Stored(o, S) = Total(f) + Total(g)
                  /\ DOMAIN f = DOMAIN blocks /\ IsFiniteSet(DOMAIN f)
                  /\ DOMAIN g = DOMAIN disk \ DOMAIN blocks /\ IsFiniteSet(DOMAIN g)
                  /\ \A p \in DOMAIN f : f[p] =
                       StoredIf(At(blocks, disk, p).stored, At(blocks, disk, p).stamp, o, S)
                  /\ \A p \in DOMAIN g : g[p] =
                       StoredIf(At(blocks, disk, p).stored, At(blocks, disk, p).stamp, o, S)
  BY StoredTotals
<1>2. DOMAIN blocks \subseteq Positions /\ DOMAIN disk \subseteq Positions
  BY PartialMember DEF TypeOK, World, Worlds, Memory
<1>3. (\A p \in DOMAIN f : f[p] = 0) /\ (\A p \in DOMAIN g : g[p] = 0)
  BY <1>1, <1>2 DEF StoredIf
<1>4. Total(f) = 0 /\ Total(g) = 0
  BY <1>1, <1>3, TotalNothing
<1>. QED  BY <1>1, <1>4

LEMMA OnceStored ==
  ASSUME TypeOK, NEW o \in Objects, OneLaid(World, disk, o)
  PROVE  Stored(o, AnyStamp) = 1
<1>1. World.blocks = blocks /\ blocks \in Memory /\ DiskOK
  BY DEF World, TypeOK, Worlds, DiskOK
<1>2. PICK p \in Positions :
        /\ At(blocks, disk, p).stored[o] = 1
        /\ \A q \in Positions \ {p} : At(blocks, disk, q).stored[o] = 0
  BY <1>1 DEF OneLaid
<1>3. PICK f, g : /\ Stored(o, AnyStamp) = Total(f) + Total(g)
                  /\ DOMAIN f = DOMAIN blocks /\ IsFiniteSet(DOMAIN f)
                  /\ DOMAIN g = DOMAIN disk \ DOMAIN blocks /\ IsFiniteSet(DOMAIN g)
                  /\ \A q \in DOMAIN f : f[q] = StoredIf(At(blocks, disk, q).stored,
                                            At(blocks, disk, q).stamp, o, AnyStamp)
                  /\ \A q \in DOMAIN g : g[q] = StoredIf(At(blocks, disk, q).stored,
                                            At(blocks, disk, q).stamp, o, AnyStamp)
  BY StoredTotals
<1>4. DOMAIN blocks \subseteq Positions /\ DOMAIN disk \subseteq Positions
  BY <1>1, PartialMember DEF DiskOK, Memory
<1>5. ASSUME NEW q \in Positions
      PROVE  StoredIf(At(blocks, disk, q).stored, At(blocks, disk, q).stamp, o, AnyStamp)
               = IF q = p THEN 1 ELSE 0
  <2>1. At(blocks, disk, q) = Fetched(blocks, q)
    BY AtFetched
  <2>2. At(blocks, disk, q).stamp \in AnyStamp
    BY <1>1, <2>1, FetchedType DEF MapBlock, Stamps, AnyStamp
  <2>. QED  BY <1>2, <2>2 DEF StoredIf
<1>6. p \in DOMAIN f \cup DOMAIN g
  BY <1>2, <1>3 DEF At, BlankBlock, EmptyStore
<1>7. Total(f) = IF p \in DOMAIN f THEN 1 ELSE 0
  BY <1>3, <1>4, <1>5, TotalReaches
<1>8. Total(g) = IF p \in DOMAIN g THEN 1 ELSE 0
  <2>1. \A q \in DOMAIN g : g[q] = IF q = p THEN 1 ELSE 0
    BY <1>3, <1>4, <1>5
  <2>. QED  BY <1>3, <2>1, TotalReaches
<1>. QED  BY <1>3, <1>6, <1>7, <1>8

(* The static data that no object claims is that of the objects that wait  *)
(* to be stored.                                                           *)
Waiting(w, o) == {id \in ActiveAs(w, o) : w.objects[id].gone = "deactivation" /\ Listed(w, id)}

LEMMA UnclaimedWaits ==
  ASSUME TypeOK, Linked(World), NEW o \in Objects
  PROVE  Unclaimed(o) = {<<m_active_objects[id].static_block, id>> : id \in Waiting(World, o)}
<1>. DEFINE T == {<<m_active_objects[id].static_block, id>> : id \in Waiting(World, o)}
<1>1. World.blocks = blocks /\ World.objects = m_active_objects
  BY DEF World
<1>2. ASSUME NEW k \in Unclaimed(o)
      PROVE  k \in T
  <2>1. PICK p \in DOMAIN blocks : k \in {p} \X DOMAIN blocks[p].active
    BY DEF Unclaimed
  <2>2. PICK id \in DOMAIN blocks[p].active : k = <<p, id>>
    BY <2>1
  <2>3. blocks[p].active[id] = o /\ ~Claimed(p, id)
    BY <2>2 DEF Unclaimed
  <2>4. /\ id \in DOMAIN m_active_objects
        /\ m_active_objects[id].static_exists = TRUE
        /\ m_active_objects[id].static_block = p /\ m_active_objects[id].obj = o
    BY <1>1, <2>3 DEF Linked
  <2>5. m_active_objects[id].gone = "deactivation"
    BY <2>3, <2>4 DEF Claimed
  <2>6. id \in Waiting(World, o)
    BY <1>1, <2>4, <2>5 DEF Waiting, ActiveAs, Listed
  <2>. QED  BY <2>2, <2>4, <2>6
<1>3. ASSUME NEW k \in T
      PROVE  k \in Unclaimed(o)
  <2>1. PICK id \in Waiting(World, o) : k = <<m_active_objects[id].static_block, id>>
    OBVIOUS
  <2>. DEFINE p == m_active_objects[id].static_block
  <2>2. /\ id \in DOMAIN m_active_objects /\ m_active_objects[id].obj = o
        /\ m_active_objects[id].gone = "deactivation"
        /\ p \in DOMAIN blocks /\ id \in DOMAIN blocks[p].active
    BY <1>1 DEF Waiting, ActiveAs, Listed
  <2>3. blocks[p].active[id] = o
    BY <1>1, <2>2 DEF Linked
  <2>4. ~Claimed(p, id)
    BY <2>2 DEF Claimed
  <2>5. k \in UNION {{q} \X DOMAIN blocks[q].active : q \in DOMAIN blocks}
    BY <2>1, <2>2
  <2>6. k[1] = p /\ k[2] = id
    BY <2>1
  <2>. QED  BY <2>3, <2>4, <2>5, <2>6 DEF Unclaimed
<1>. QED  BY <1>2, <1>3

(* Nothing is active that is to be counted. *)
LEMMA NothingActive ==
  ASSUME TypeOK, Linked(World), NEW o \in Objects,
         \A id \in ActiveAs(World, o) : ~Lives(World, id)
  PROVE  Cardinality(Active(o)) = 0 /\ Cardinality(Unclaimed(o)) = 0
<1>1. World.objects = m_active_objects
  BY DEF World
<1>2. Active(o) = {}
  BY <1>1 DEF Active, ActiveAs, Lives
<1>3. Waiting(World, o) = {}
  BY <1>1 DEF Waiting, Lives
<1>4. Unclaimed(o) = {}
  BY <1>3, UnclaimedWaits
<1>. QED  BY <1>2, <1>4, FS_EmptySet

LEMMA OneIsActive ==
  ASSUME TypeOK, Linked(World), NEW o \in Objects,
         NEW id, ActiveAs(World, o) = {id}, Lives(World, id)
  PROVE  \/ Cardinality(Active(o)) = 1 /\ Cardinality(Unclaimed(o)) = 0
         \/ Cardinality(Active(o)) = 0 /\ Cardinality(Unclaimed(o)) = 1
<1>1. World.objects = m_active_objects
  BY DEF World
<1>2. id \in DOMAIN m_active_objects /\ m_active_objects[id].obj = o
  BY <1>1 DEF ActiveAs
<1>3. CASE m_active_objects[id].gone = "no"
  <2>1. Active(o) = {id}
    BY <1>1, <1>2, <1>3 DEF Active, ActiveAs
  <2>2. Waiting(World, o) = {}
    BY <1>1, <1>3 DEF Waiting
  <2>3. Unclaimed(o) = {}
    BY <2>2, UnclaimedWaits
  <2>. QED  BY <2>1, <2>3, FS_EmptySet, FS_Singleton
<1>4. CASE m_active_objects[id].gone # "no"
  <2>1. Active(o) = {}
    BY <1>1, <1>2, <1>4 DEF Active, ActiveAs
  <2>2. Waiting(World, o) = {id}
    BY <1>1, <1>2, <1>4 DEF Waiting, Lives
  <2>3. Unclaimed(o) = {<<m_active_objects[id].static_block, id>>}
    BY <2>2, UnclaimedWaits
  <2>. QED  BY <2>1, <2>3, FS_EmptySet, FS_Singleton
<1>. QED  BY <1>3, <1>4

LEMMA SoundIsExactlyOnce ==
  ASSUME TypeOK, Sound(World, disk, Objects)
  PROVE  ExactlyOnce
<1>. SUFFICES ASSUME NEW o \in Objects
              PROVE  /\ fate[o] = "alive" => Homes(o, AnyStamp) = 1
                     /\ fate[o] \in {"none", "removed"} => Homes(o, AnyStamp) = 0
                     /\ fate[o] = "cleared" => Homes(o, {Valid}) = 0
  BY DEF ExactlyOnce, AnyStamp
<1>1. /\ World.blocks = blocks /\ World.objects = m_active_objects /\ World.fate = fate
      /\ Linked(World) /\ InPlace(World, disk, o)
  BY DEF World, Sound
<1>2. ASSUME NoneLaid(World, disk, o)
      PROVE  \A S : Stored(o, S) = 0
  BY <1>1, <1>2, NowhereStored DEF NoneLaid
<1>3. ASSUME fate[o] \in {"none", "removed"}
      PROVE  Homes(o, AnyStamp) = 0
  <2>1. NoneLaid(World, disk, o) /\ \A id \in ActiveAs(World, o) : ~Lives(World, id)
    BY <1>1, <1>3 DEF InPlace
  <2>. QED  BY <1>1, <1>2, <2>1, NothingActive DEF Homes
<1>4. ASSUME fate[o] = "cleared"
      PROVE  Homes(o, {Valid}) = 0
  <2>1. \A id \in ActiveAs(World, o) : ~Lives(World, id)
    BY <1>1, <1>4 DEF InPlace, Lives
  <2>2. \A p \in Positions : At(blocks, disk, p).stamp \in {Valid}
                             => At(blocks, disk, p).stored[o] = 0
    BY <1>1, <1>4 DEF InPlace
  <2>3. Stored(o, {Valid}) = 0
    BY <2>2, NowhereStored
  <2>. QED  BY <1>1, <2>1, <2>3, NothingActive DEF Homes
<1>5. ASSUME fate[o] = "alive"
      PROVE  Homes(o, AnyStamp) = 1
  <2>1. OneActive(World, disk, o) \/ OneLaid(World, disk, o)
    BY <1>1, <1>5 DEF InPlace
  <2>2. CASE OneActive(World, disk, o)
    <3>1. PICK id : ActiveAs(World, o) = {id} /\ Lives(World, id)
      BY <2>2 DEF OneActive
    <3>2. Stored(o, AnyStamp) = 0
      BY <1>2, <2>2 DEF OneActive
    <3>. QED  BY <1>1, <3>1, <3>2, OneIsActive DEF Homes
  <2>3. CASE OneLaid(World, disk, o)
    <3>1. Stored(o, AnyStamp) = 1
      BY <2>3, OnceStored
    <3>2. Cardinality(Active(o)) = 0 /\ Cardinality(Unclaimed(o)) = 0
      BY <1>1, <2>3, NothingActive DEF OneLaid
    <3>. QED  BY <3>1, <3>2 DEF Homes
  <2>. QED  BY <2>1, <2>2, <2>3
<1>. QED  BY <1>3, <1>4, <1>5

-----------------------------------------------------------------------------
(* activateBlock: a block gets the timestamp, and loses what it stores.    *)
Refills(w, v, p, b, x) ==
  \/ v.fate[x] \notin Followed
  \/ /\ v.fate[x] = w.fate[x] /\ b.stored[x] = w.blocks[p].stored[x]
     /\ b.stamp = w.blocks[p].stamp \/ (w.fate[x] = "cleared" => b.stored[x] = 0)
  \/ w.fate[x] = "cleared" /\ v.fate[x] = "cleared" /\ b.stored[x] = 0

LEMMA RefillPlaces ==
  ASSUME DiskOK, NEW w \in Worlds, NEW p \in DOMAIN w.blocks, NEW b \in MapBlock,
         b.active = w.blocks[p].active,
         NEW v \in Worlds, v.blocks = Put(w.blocks, p, b), v.objects = w.objects,
         NEW x \in Objects, Refills(w, v, p, b, x), InPlace(w, disk, x)
  PROVE  InPlace(v, disk, x)
<1>1. p \in Positions
  BY WorldParts
<1>2. /\ At(w.blocks, disk, p) = w.blocks[p] /\ At(v.blocks, disk, p) = b
      /\ \A q \in Positions \ {p} : At(v.blocks, disk, q) = At(w.blocks, disk, q)
  BY DEF At, Put
<1>3. \A q \in DOMAIN w.blocks : v.blocks[q].active = w.blocks[q].active
  BY DEF Put
<1>4. DOMAIN v.blocks = DOMAIN w.blocks
  BY DEF Put
<1>5. \A i \in DOMAIN w.objects : Listed(v, i) <=> Listed(w, i)
  BY <1>3, <1>4 DEF Listed
<1>6. ActiveAs(v, x) = ActiveAs(w, x) /\ \A i \in ActiveAs(w, x) : i \in DOMAIN w.objects
  BY DEF ActiveAs
<1>7. \A i \in DOMAIN w.objects : Lives(v, i) <=> Lives(w, i)
  BY <1>5 DEF Lives
<1>8. CASE v.fate[x] \notin Followed
  BY <1>8 DEF InPlace, Followed, Sure
<1>9. CASE /\ v.fate[x] = w.fate[x] /\ b.stored[x] = w.blocks[p].stored[x]
           /\ b.stamp = w.blocks[p].stamp \/ (w.fate[x] = "cleared" => b.stored[x] = 0)
  <2>1. \A q \in Positions : At(v.blocks, disk, q).stored[x] = At(w.blocks, disk, q).stored[x]
    BY <1>2, <1>9
  <2>2. NoneLaid(v, disk, x) <=> NoneLaid(w, disk, x)
    BY <2>1 DEF NoneLaid
  <2>3. OneLaid(v, disk, x) <=> OneLaid(w, disk, x)
    BY <1>6, <2>1 DEF OneLaid
  <2>4. OneActive(v, disk, x) <=> OneActive(w, disk, x)
    BY <1>6, <1>7, <2>2 DEF OneActive
  <2>5. w.fate[x] = "cleared" =>
          \A q \in Positions : At(v.blocks, disk, q).stamp = Valid
                               => At(v.blocks, disk, q).stored[x] = 0
    <3>1. SUFFICES ASSUME w.fate[x] = "cleared", NEW q \in Positions,
                          At(v.blocks, disk, q).stamp = Valid
                   PROVE  At(v.blocks, disk, q).stored[x] = 0
      OBVIOUS
    <3>2. At(w.blocks, disk, q).stamp = Valid => At(w.blocks, disk, q).stored[x] = 0
      BY <3>1 DEF InPlace
    <3>3. CASE q = p
      BY <1>2, <1>9, <3>1, <3>2, <3>3
    <3>4. CASE q # p
      BY <1>2, <3>1, <3>2, <3>4
    <3>. QED  BY <3>3, <3>4
  <2>. QED  BY <1>5, <1>6, <1>7, <1>9, <2>2, <2>3, <2>4, <2>5 DEF InPlace
<1>10. CASE w.fate[x] = "cleared" /\ v.fate[x] = "cleared" /\ b.stored[x] = 0
  <2>1. \A q \in Positions : At(v.blocks, disk, q).stamp = Valid
                             => At(v.blocks, disk, q).stored[x] = 0
    BY <1>2, <1>10 DEF InPlace
  <2>2. \A i \in ActiveAs(v, x) : v.objects[i].gone # "no" /\ ~Listed(v, i)
    BY <1>5, <1>6, <1>10 DEF InPlace
  <2>. QED  BY <1>10, <2>1, <2>2 DEF InPlace
<1>. QED  BY <1>8, <1>9, <1>10 DEF Refills

LEMMA RefillSound ==
  ASSUME DiskOK, NEW w \in Worlds, Sound(w, disk, Objects), NEW p \in DOMAIN w.blocks,
         NEW b \in MapBlock, b.active = w.blocks[p].active,
         b.modified # WriteNeeded => w.blocks[p].modified # WriteNeeded,
         NEW v \in Worlds, v.blocks = Put(w.blocks, p, b), v.objects = w.objects,
         \A x \in Objects : Refills(w, v, p, b, x)
  PROVE  Sound(v, disk, Objects)
<1>1. DOMAIN v.blocks = DOMAIN w.blocks
  BY DEF Put
<1>2. v.blocks[p] = b /\ \A q \in DOMAIN w.blocks \ {p} : v.blocks[q] = w.blocks[q]
  BY DEF Put
<1>3. Linked(v)
  BY <1>1, <1>2 DEF Sound, Linked
<1>4. ASSUME NEW x \in Objects
      PROVE  OnDisk(v, disk, x)
  <2>1. Refills(w, v, p, b, x) /\ OnDisk(w, disk, x)
    BY DEF Sound
  <2>2. ASSUME NEW q \in DOMAIN v.blocks, v.blocks[q].modified # WriteNeeded
        PROVE  /\ q \in DOMAIN disk
               /\ v.fate[x] \in Sure => Count(v.blocks[q], x) = disk[q].objects[x]
               /\ v.fate[x] = "cleared" /\ disk[q].stamp = Valid => disk[q].objects[x] = 0
    <3>1. w.blocks[q].modified # WriteNeeded /\ q \in DOMAIN w.blocks
      BY <1>1, <1>2, <2>2
    <3>2. q \in DOMAIN disk
      BY <2>1, <3>1 DEF OnDisk, UnmarkedOnDisk
    <3>3. ASSUME v.fate[x] \in Sure
          PROVE  Count(v.blocks[q], x) = disk[q].objects[x]
      <4>1. w.fate[x] = v.fate[x] /\ b.stored[x] = w.blocks[p].stored[x]
        BY <2>1, <3>3 DEF Refills, Followed, Sure
      <4>2. Count(v.blocks[q], x) = Count(w.blocks[q], x)
        BY <1>2, <3>1, <4>1 DEF Count
      <4>. QED  BY <2>1, <3>1, <3>3, <4>1, <4>2 DEF OnDisk, UnmarkedOnDisk
    <3>4. v.fate[x] = "cleared" => w.fate[x] = "cleared"
      BY <2>1 DEF Refills, Followed
    <3>. QED  BY <2>1, <3>1, <3>2, <3>3, <3>4 DEF OnDisk, UnmarkedOnDisk
  <2>3. v.fate[x] = "none" => w.fate[x] = "none"
    BY <2>1 DEF Refills, Followed, Sure
  <2>. QED  BY <2>1, <2>2, <2>3 DEF OnDisk, UnmarkedOnDisk
<1>5. ASSUME NEW x \in Objects
      PROVE  InPlace(v, disk, x)
  BY RefillPlaces DEF Sound
<1>. QED  BY <1>3, <1>4, <1>5 DEF Sound

-----------------------------------------------------------------------------
(* Exact counts *)
LEMMA OneMore ==
  ASSUME NEW S, IsFiniteSet(S), NEW i, i \notin S, NEW x, NEW y,
         NEW T, T = IF x = y THEN S \cup {i} ELSE S
  PROVE  /\ Cardinality(S) \in Nat
         /\ Cardinality(T) = Cardinality(S) + (IF x = y THEN 1 ELSE 0)
<1>1. Cardinality(S) \in Nat
  BY FS_CardinalityType
<1>2. CASE x = y
  BY <1>1, <1>2, FS_AddElement
<1>3. CASE x # y
  BY <1>1, <1>3
<1>. QED  BY <1>1, <1>2, <1>3

LEMMA ActiveOfNew ==
  ASSUME NEW a \in Partial(Ids, Objects), NEW id, id \notin DOMAIN a, NEW o, NEW x
  PROVE  /\ ActiveOf(a, x) \in Nat
         /\ ActiveOf(Put(a, id, o), x) = ActiveOf(a, x) + (IF x = o THEN 1 ELSE 0)
<1>. DEFINE S == {i \in DOMAIN a : a[i] = x}
            T == {i \in DOMAIN Put(a, id, o) : Put(a, id, o)[i] = x}
<1>1. IsFiniteSet(S)
  BY PartialMember, FS_Subset
<1>2. T = IF x = o THEN S \cup {id} ELSE S
  BY DEF Put
<1>3. id \notin S
  OBVIOUS
<1>. HIDE DEF S, T
<1>4. Cardinality(T) = Cardinality(S) + (IF x = o THEN 1 ELSE 0) /\ Cardinality(S) \in Nat
  BY <1>1, <1>2, <1>3, OneMore
<1>. QED  BY <1>4 DEF S, T, ActiveOf

LEMMA ActiveAsNew ==
  ASSUME NEW w \in Worlds, NEW id, id \notin DOMAIN w.objects, NEW ao, NEW v,
         v.objects = Put(w.objects, id, ao), NEW x
  PROVE  /\ Cardinality(ActiveAs(w, x)) \in Nat
         /\ Cardinality(ActiveAs(v, x)) =
              Cardinality(ActiveAs(w, x)) + (IF x = ao.obj THEN 1 ELSE 0)
<1>1. IsFiniteSet(DOMAIN w.objects)
  BY WorldParts, PartialMember
<1>2. IsFiniteSet(ActiveAs(w, x))
  BY <1>1, FS_Subset DEF ActiveAs
<1>3. ActiveAs(v, x) = IF x = ao.obj THEN ActiveAs(w, x) \cup {id} ELSE ActiveAs(w, x)
  BY DEF Put, ActiveAs
<1>4. id \notin ActiveAs(w, x)
  BY DEF ActiveAs
<1>. QED  BY <1>2, <1>3, <1>4, OneMore

Grows(c, d, x, o) == c \in Nat /\ d = c + (IF x = o THEN 1 ELSE 0)

LEMMA OfMore ==
  ASSUME NEW n \in Nat, NEW s \in SUBSET (1..n), NEW k \in s, NEW seq, NEW x
  PROVE  Grows(Cardinality(Of(seq, s \ {k}, x)), Cardinality(Of(seq, s, x)), x, seq[k][1])
<1>. DEFINE S == Of(seq, s \ {k}, x)
            T == Of(seq, s, x)
            y == seq[k][1]
<1>1. IsFiniteSet(1..n)
  BY FS_Interval
<1>2. IsFiniteSet(S)
  BY <1>1, FS_Subset DEF Of
<1>3. T = IF x = y THEN S \cup {k} ELSE S
  BY DEF Of
<1>4. k \notin S
  BY DEF Of
<1>. HIDE DEF S, T, y
<1>5. Cardinality(S) \in Nat /\ Cardinality(T) = Cardinality(S) + (IF x = y THEN 1 ELSE 0)
  BY <1>2, <1>3, <1>4, OneMore
<1>. QED  BY <1>5 DEF S, T, y, Grows

(* All copies that a block stores are in the order. *)
LEMMA AllCopies ==
  ASSUME NEW stored \in Stores, NEW seq, seq = SetToSeq(Copies(stored)),
         NEW n, n = Cardinality(Copies(stored)), NEW o \in Objects
  PROVE  Cardinality(Of(seq, 1..n, o)) = stored[o]
<1>. DEFINE f == [j \in Of(seq, 1..n, o) |-> seq[j][2]]
<1>1. IsFiniteSet(Copies(stored))
  <2>1. Size(stored) \in Nat
    BY SizeType
  <2>2. IsFiniteSet(1..Size(stored)) /\ IsFiniteSet(Objects)
    BY <2>1, FS_Interval, MapAssumption
  <2>3. IsFiniteSet(Objects \X (1..Size(stored)))
    BY <2>2, FS_Product
  <2>. QED  BY <2>3, FS_Subset DEF Copies
<1>2. Order(seq, n, Copies(stored))
  BY CopiesInOrder
<1>3. \A c \in Copies(stored) : \E j \in 1..n : seq[j] = c
  BY <1>1, <1>2, OntoOrder
<1>4. stored[o] \in Nat /\ Size(stored) \in Nat /\ stored[o] =< Size(stored)
  BY SizeBounds DEF Stores
<1>5. \A j \in Of(seq, 1..n, o) : /\ seq[j] = <<o, seq[j][2]>> /\ j \in 1..n
                                 /\ seq[j][2] \in 1..stored[o]
  <2>1. SUFFICES ASSUME NEW j \in Of(seq, 1..n, o)
                 PROVE  /\ seq[j] = <<o, seq[j][2]>> /\ j \in 1..n
                        /\ seq[j][2] \in 1..stored[o]
    OBVIOUS
  <2>2. j \in 1..n /\ seq[j][1] = o
    BY DEF Of
  <2>3. PICK c \in Copies(stored) : c = seq[j]
    BY <1>2, <2>2 DEF Order
  <2>4. /\ c = <<c[1], c[2]>> /\ c[2] \in 1..Size(stored) /\ c[2] =< stored[c[1]]
    BY DEF Copies
  <2>5. c[1] = o
    BY <2>2, <2>3
  <2>6. c[2] \in 1..stored[o]
    BY <1>4, <2>4, <2>5
  <2>. QED  BY <2>2, <2>3, <2>4, <2>5, <2>6
<1>6. \A c \in 1..stored[o] : \E j \in Of(seq, 1..n, o) : seq[j][2] = c
  <2>1. SUFFICES ASSUME NEW c \in 1..stored[o]
                 PROVE  \E j \in Of(seq, 1..n, o) : seq[j][2] = c
    OBVIOUS
  <2>2. <<o, c>> \in Copies(stored)
    BY <1>4 DEF Copies
  <2>3. PICK j \in 1..n : seq[j] = <<o, c>>
    BY <1>3, <2>2
  <2>. QED  BY <2>3 DEF Of
<1>7. \A i, j \in Of(seq, 1..n, o) : seq[i][2] = seq[j][2] => i = j
  BY <1>2, <1>5 DEF Order
<1>8. f \in Bijection(Of(seq, 1..n, o), 1..stored[o])
  BY <1>5, <1>6, <1>7 DEF Bijection, Injection, Surjection, IsInjective
<1>9. IsFiniteSet(1..n) /\ n \in Nat
  BY <1>2, FS_Interval DEF Order
<1>10. IsFiniteSet(Of(seq, 1..n, o))
  BY <1>9, FS_Subset DEF Of
<1>11. Cardinality(1..stored[o]) = Cardinality(Of(seq, 1..n, o))
  BY <1>8, <1>10, FS_Bijection DEF ExistsBijection
<1>12. Cardinality(1..stored[o]) = stored[o]
  BY <1>4, FS_Interval
<1>. QED  BY <1>11, <1>12

-----------------------------------------------------------------------------
(* activateObjects, one copy after the other. *)
Woken(u, v, p, seq, s) ==
  /\ v \in Worlds /\ Linked(v) /\ v.fate = u.fate
  /\ DOMAIN v.blocks = DOMAIN u.blocks
  /\ \A q \in DOMAIN u.blocks \ {p} : v.blocks[q] = u.blocks[q]
  /\ v.blocks[p].stored = EmptyStore
  /\ v.blocks[p].stamp = u.blocks[p].stamp /\ v.blocks[p].old = u.blocks[p].old
  /\ v.blocks[p].modified = u.blocks[p].modified
  /\ DOMAIN u.objects \subseteq DOMAIN v.objects
  /\ \A i \in DOMAIN u.objects : v.objects[i] = u.objects[i] /\ (Listed(v, i) <=> Listed(u, i))
  /\ \A i \in DOMAIN v.objects \ DOMAIN u.objects : v.objects[i].gone = "no"
  /\ \A x \in Objects :
       /\ ActiveOf(v.blocks[p].active, x) =
            ActiveOf(u.blocks[p].active, x) + Cardinality(Of(seq, s, x))
       /\ Cardinality(ActiveAs(v, x)) =
            Cardinality(ActiveAs(u, x)) + Cardinality(Of(seq, s, x))

LEMMA CountsType ==
  ASSUME NEW w \in Worlds, NEW p \in DOMAIN w.blocks, NEW x
  PROVE  /\ ActiveOf(w.blocks[p].active, x) \in Nat
         /\ IsFiniteSet(ActiveAs(w, x)) /\ Cardinality(ActiveAs(w, x)) \in Nat
<1>1. w.blocks[p].active \in Partial(Ids, Objects)
  BY WorldParts DEF MapBlock
<1>2. IsFiniteSet(ActiveAs(w, x))
  <2>1. IsFiniteSet(DOMAIN w.objects)
    BY WorldParts, PartialMember
  <2>. QED  BY <2>1, FS_Subset DEF ActiveAs
<1>. QED  BY <1>1, <1>2, StoreTypes, FS_CardinalityType

LEMMA WokenStarts ==
  ASSUME NEW u \in Worlds, Linked(u), NEW p \in DOMAIN u.blocks, NEW b \in MapBlock,
         b = [u.blocks[p] EXCEPT !.stored = EmptyStore], NEW seq,
         NEW e, e = [u EXCEPT !.blocks = Put(@, p, b)]
  PROVE  Woken(u, e, p, seq, {})
<1>1. PICK bs : bs = Put(u.blocks, p, b)
  OBVIOUS
<1>2. e.blocks = bs /\ e.objects = u.objects /\ e.fate = u.fate /\ e \in Worlds
  <2>1. e = [u EXCEPT !.blocks = bs]
    BY <1>1
  <2>2. bs \in Memory
    BY <1>1, WorldParts, PutPartial DEF Memory
  <2>. QED  BY <2>1, <2>2 DEF Worlds
<1>3. /\ DOMAIN e.blocks = DOMAIN u.blocks /\ e.blocks[p] = b
      /\ \A q \in DOMAIN u.blocks \ {p} : e.blocks[q] = u.blocks[q]
  BY <1>1, <1>2 DEF Put
<1>4. /\ b.stored = EmptyStore /\ b.active = u.blocks[p].active
      /\ b.stamp = u.blocks[p].stamp /\ b.old = u.blocks[p].old
      /\ b.modified = u.blocks[p].modified
  BY WorldParts DEF MapBlock
<1>5. \A q \in DOMAIN u.blocks : e.blocks[q].active = u.blocks[q].active
  BY <1>3, <1>4
<1>6. Linked(e)
  BY <1>2, <1>3, <1>5 DEF Linked
<1>7. \A i \in DOMAIN u.objects : Listed(e, i) <=> Listed(u, i)
  BY <1>2, <1>3, <1>5 DEF Listed
<1>8. ASSUME NEW x \in Objects
      PROVE  /\ ActiveOf(e.blocks[p].active, x) =
                  ActiveOf(u.blocks[p].active, x) + Cardinality(Of(seq, {}, x))
             /\ Cardinality(ActiveAs(e, x)) =
                  Cardinality(ActiveAs(u, x)) + Cardinality(Of(seq, {}, x))
  <2>1. Cardinality(Of(seq, {}, x)) = 0
    <3>1. Of(seq, {}, x) = {}
      BY DEF Of
    <3>. QED  BY <3>1, FS_EmptySet
  <2>2. ActiveAs(e, x) = ActiveAs(u, x)
    BY <1>2 DEF ActiveAs
  <2>3. ActiveOf(u.blocks[p].active, x) \in Nat /\ Cardinality(ActiveAs(u, x)) \in Nat
    BY CountsType
  <2>. QED  BY <1>5, <2>1, <2>2, <2>3
<1>. QED  BY <1>2, <1>3, <1>4, <1>6, <1>7, <1>8 DEF Woken

(* An object with a new id gets active in the block p of the memory. *)
Joins(v, y, p, id, o) ==
  /\ y \in Worlds /\ y.fate = v.fate
  /\ id \notin DOMAIN v.objects
  /\ DOMAIN y.blocks = DOMAIN v.blocks
  /\ \A q \in DOMAIN v.blocks \ {p} : y.blocks[q] = v.blocks[q]
  /\ y.blocks[p].stored = v.blocks[p].stored
  /\ y.blocks[p].stamp = v.blocks[p].stamp /\ y.blocks[p].old = v.blocks[p].old
  /\ y.blocks[p].modified = v.blocks[p].modified
  /\ y.blocks[p].active = Put(v.blocks[p].active, id, o)
  /\ DOMAIN y.objects = DOMAIN v.objects \cup {id}
  /\ \A i \in DOMAIN v.objects : y.objects[i] = v.objects[i]
  /\ y.objects[id].obj = o /\ y.objects[id].gone = "no"
  /\ y.objects[id].static_exists = TRUE /\ y.objects[id].static_block = p

LEMMA AddJoins ==
  ASSUME DiskOK, NEW v \in Worlds, NEW p \in DOMAIN v.blocks, NEW o \in Objects,
         NEW y, y = addActiveObjectRaw(v, o, p, FALSE)
  PROVE  Joins(v, y, p, FreeId(v.objects), o)
<1>. DEFINE id == FreeId(v.objects)
<1>1. p \in Positions
  BY WorldParts
<1>2. id \notin DOMAIN v.objects
  BY WorldParts, FreeIdIsFree
<1>3. HasAdded(v, y, o, p, FALSE)
  BY <1>1, AddHolds
<1>4. Fetched(v.blocks, p) = v.blocks[p]
  BY DEF Fetched
<1>. HIDE DEF id
<1>5. PICK ao \in ActiveObject :
        /\ y.objects = Put(v.objects, id, ao)
        /\ ao.obj = o /\ ao.gone = "no"
        /\ ao.static_exists = TRUE /\ ao.static_block = p
  BY <1>3 DEF HasAdded, id
<1>6. PICK b \in MapBlock :
        /\ y.blocks = Put(v.blocks, p, b)
        /\ b.stamp = v.blocks[p].stamp /\ b.old = v.blocks[p].old
        /\ b.modified = Mark(v.blocks[p], FALSE).modified
        /\ b.stored = v.blocks[p].stored /\ b.active = Put(v.blocks[p].active, id, o)
  BY <1>3, <1>4 DEF HasAdded, id
<1>7. y \in Worlds /\ y.fate = v.fate
  BY <1>3 DEF HasAdded
<1>8. /\ DOMAIN y.blocks = DOMAIN v.blocks /\ y.blocks[p] = b
      /\ \A q \in DOMAIN v.blocks \ {p} : y.blocks[q] = v.blocks[q]
  BY <1>6 DEF Put
<1>9. /\ DOMAIN y.objects = DOMAIN v.objects \cup {id} /\ y.objects[id] = ao
      /\ \A i \in DOMAIN v.objects : y.objects[i] = v.objects[i]
  BY <1>2, <1>5 DEF Put
<1>10. b.modified = v.blocks[p].modified
  BY <1>6 DEF Mark
<1>11. Joins(v, y, p, id, o)
  BY <1>2, <1>5, <1>6, <1>7, <1>8, <1>9, <1>10 DEF Joins
<1>. QED  BY <1>11 DEF id

LEMMA JoinsLists ==
  ASSUME NEW v, Linked(v), NEW p \in DOMAIN v.blocks, NEW y, NEW id, NEW o,
         Joins(v, y, p, id, o)
  PROVE  /\ Linked(y) /\ id \notin DOMAIN v.blocks[p].active
         /\ \A i \in DOMAIN v.objects : Listed(y, i) <=> Listed(v, i)
<1>1. \A q \in DOMAIN v.blocks : id \notin DOMAIN v.blocks[q].active
  BY DEF Linked, Joins
<1>2. /\ DOMAIN y.blocks[p].active = DOMAIN v.blocks[p].active \cup {id}
      /\ y.blocks[p].active[id] = o
      /\ \A i \in DOMAIN v.blocks[p].active :
           i # id /\ y.blocks[p].active[i] = v.blocks[p].active[i]
  BY <1>1 DEF Joins, Put
<1>3. ASSUME NEW q \in DOMAIN y.blocks, NEW i \in DOMAIN y.blocks[q].active
      PROVE  /\ i \in DOMAIN y.objects
             /\ y.objects[i].static_exists = TRUE /\ y.objects[i].static_block = q
             /\ y.objects[i].obj = y.blocks[q].active[i]
  <2>1. q \in DOMAIN v.blocks
    BY DEF Joins
  <2>2. CASE i \in DOMAIN v.blocks[q].active
    <3>1. /\ i \in DOMAIN v.objects
          /\ v.objects[i].static_exists = TRUE /\ v.objects[i].static_block = q
          /\ v.objects[i].obj = v.blocks[q].active[i]
      BY <2>1, <2>2 DEF Linked
    <3>2. y.blocks[q].active[i] = v.blocks[q].active[i]
      BY <1>2, <2>1, <2>2 DEF Joins
    <3>3. i \in DOMAIN y.objects /\ y.objects[i] = v.objects[i]
      BY <3>1 DEF Joins
    <3>. QED  BY <3>1, <3>2, <3>3
  <2>3. CASE i \notin DOMAIN v.blocks[q].active
    <3>1. q = p /\ i = id
      BY <1>2, <2>1, <2>3 DEF Joins
    <3>. QED  BY <1>2, <3>1 DEF Joins
  <2>. QED  BY <2>2, <2>3
<1>4. ASSUME NEW i \in DOMAIN v.objects
      PROVE  Listed(y, i) <=> Listed(v, i)
  <2>1. i # id /\ y.objects[i] = v.objects[i] /\ DOMAIN y.blocks = DOMAIN v.blocks
    BY DEF Joins
  <2>2. \A q \in DOMAIN v.blocks :
          i \in DOMAIN y.blocks[q].active <=> i \in DOMAIN v.blocks[q].active
    BY <1>2, <2>1 DEF Joins
  <2>. QED  BY <2>1, <2>2 DEF Listed
<1>. QED  BY <1>1, <1>3, <1>4 DEF Linked

LEMMA WokenSteps ==
  ASSUME NEW u \in Worlds, NEW p \in DOMAIN u.blocks, NEW seq, NEW n \in Nat,
         NEW s \in SUBSET (1..n), NEW k \in s, NEW v, Woken(u, v, p, seq, s \ {k}),
         NEW y, NEW id, NEW o, o = seq[k][1], Joins(v, y, p, id, o)
  PROVE  Woken(u, y, p, seq, s)
<1>1. v \in Worlds /\ Linked(v) /\ p \in DOMAIN v.blocks /\ v.blocks[p] \in MapBlock
  BY WorldParts DEF Woken
<1>2. /\ Linked(y) /\ id \notin DOMAIN v.blocks[p].active
      /\ \A i \in DOMAIN v.objects : Listed(y, i) <=> Listed(v, i)
  BY <1>1, JoinsLists
<1>3. ASSUME NEW x \in Objects
      PROVE  /\ ActiveOf(y.blocks[p].active, x) =
                  ActiveOf(u.blocks[p].active, x) + Cardinality(Of(seq, s, x))
             /\ Cardinality(ActiveAs(y, x)) =
                  Cardinality(ActiveAs(u, x)) + Cardinality(Of(seq, s, x))
  <2>1. PICK c, d : c = Cardinality(Of(seq, s \ {k}, x)) /\ d = IF x = o THEN 1 ELSE 0
    OBVIOUS
  <2>2. c \in Nat /\ Cardinality(Of(seq, s, x)) = c + d
    <3>1. Grows(Cardinality(Of(seq, s \ {k}, x)), Cardinality(Of(seq, s, x)), x, seq[k][1])
      BY OfMore
    <3>. QED  BY <2>1, <3>1 DEF Grows
  <2>3. /\ ActiveOf(v.blocks[p].active, x) = ActiveOf(u.blocks[p].active, x) + c
        /\ Cardinality(ActiveAs(v, x)) = Cardinality(ActiveAs(u, x)) + c
    BY <2>1 DEF Woken
  <2>4. ActiveOf(u.blocks[p].active, x) \in Nat /\ Cardinality(ActiveAs(u, x)) \in Nat
    BY CountsType
  <2>5. ActiveOf(y.blocks[p].active, x) = ActiveOf(v.blocks[p].active, x) + d
    <3>1. v.blocks[p].active \in Partial(Ids, Objects)
      BY <1>1 DEF MapBlock
    <3>2. y.blocks[p].active = Put(v.blocks[p].active, id, o)
      BY DEF Joins
    <3>. QED  BY <1>2, <2>1, <3>1, <3>2, ActiveOfNew
  <2>6. Cardinality(ActiveAs(y, x)) = Cardinality(ActiveAs(v, x)) + d
    <3>1. id \notin ActiveAs(v, x)
      BY DEF ActiveAs, Joins
    <3>2. ActiveAs(y, x) = IF x = o THEN ActiveAs(v, x) \cup {id} ELSE ActiveAs(v, x)
      BY DEF ActiveAs, Joins
    <3>3. IsFiniteSet(ActiveAs(v, x))
      BY <1>1, CountsType
    <3>. QED  BY <2>1, <3>1, <3>2, <3>3, OneMore
  <2>7. d \in Nat
    BY <2>1
  <2>. QED  BY <2>2, <2>3, <2>4, <2>5, <2>6, <2>7
<1>4. /\ y \in Worlds /\ y.fate = u.fate /\ DOMAIN y.blocks = DOMAIN u.blocks
      /\ \A q \in DOMAIN u.blocks \ {p} : y.blocks[q] = u.blocks[q]
  BY DEF Woken, Joins
<1>5. /\ y.blocks[p].stored = EmptyStore /\ y.blocks[p].stamp = u.blocks[p].stamp
      /\ y.blocks[p].old = u.blocks[p].old
      /\ y.blocks[p].modified = u.blocks[p].modified
  BY DEF Woken, Joins
<1>6. ASSUME NEW i \in DOMAIN u.objects
      PROVE  /\ i \in DOMAIN y.objects /\ y.objects[i] = u.objects[i]
             /\ Listed(y, i) <=> Listed(u, i)
  <2>1. i \in DOMAIN v.objects /\ v.objects[i] = u.objects[i] /\ (Listed(v, i) <=> Listed(u, i))
    BY DEF Woken
  <2>2. i \in DOMAIN y.objects /\ y.objects[i] = v.objects[i]
    BY <2>1 DEF Joins
  <2>. QED  BY <1>2, <2>1, <2>2
<1>7. ASSUME NEW i \in DOMAIN y.objects \ DOMAIN u.objects
      PROVE  y.objects[i].gone = "no"
  <2>1. CASE i = id
    BY <2>1 DEF Joins
  <2>2. CASE i # id
    <3>1. i \in DOMAIN v.objects \ DOMAIN u.objects /\ y.objects[i] = v.objects[i]
      BY <2>2 DEF Joins
    <3>. QED  BY <3>1 DEF Woken
  <2>. QED  BY <2>1, <2>2
<1>. QED  BY <1>2, <1>3, <1>4, <1>5, <1>6, <1>7 DEF Woken

LEMMA WokenAll ==
  ASSUME DiskOK, NEW u \in Worlds, NEW p \in DOMAIN u.blocks, NEW seq, NEW n,
         Order(seq, n, Copies(u.blocks[p].stored)), NEW e, Woken(u, e, p, seq, {})
  PROVE  Woken(u, WakeDone(p, e, seq), p, seq, 1..n)
<1>. DEFINE V == [s \in SUBSET (1..n) |-> {v \in Worlds : Woken(u, v, p, seq, s)}]
<1>1. e \in V[{}] /\ \A s \in SUBSET (1..n) : V[s] \subseteq Worlds
  BY DEF Woken
<1>2. ASSUME NEW s \in SUBSET (1..n), s # {}, NEW v \in V[s \ {Max(s)}]
      PROVE  addActiveObjectRaw(v, seq[Max(s)][1], p, FALSE) \in V[s]
  <2>1. PICK k : k = Max(s)
    OBVIOUS
  <2>2. k \in s /\ s \ {k} \in SUBSET (1..n)
    BY <1>2, <2>1, IndexSets DEF Order
  <2>3. Woken(u, v, p, seq, s \ {k})
    BY <2>1, <2>2
  <2>4. PICK y : y = addActiveObjectRaw(v, seq[k][1], p, FALSE)
    OBVIOUS
  <2>5. Woken(u, y, p, seq, s)
    <3>1. PICK o, id : o = seq[k][1] /\ id = FreeId(v.objects)
      OBVIOUS
    <3>2. o \in Objects /\ n \in Nat
      BY <2>2, <3>1 DEF Order, Copies
    <3>3. p \in DOMAIN v.blocks /\ v \in Worlds
      BY <2>3 DEF Woken
    <3>4. Joins(v, y, p, id, o)
      BY <2>4, <3>1, <3>2, <3>3, AddJoins
    <3>. QED  BY <2>2, <2>3, <3>1, <3>2, <3>4, WokenSteps
  <2>6. y \in V[s]
    BY <2>5 DEF Woken
  <2>. QED  BY <2>1, <2>4, <2>6
<1>. HIDE DEF V
<1>3. WakeDone(p, e, seq) \in V[1..n]
  BY <1>1, <1>2, WakeInduction DEF Order
<1>. QED  BY <1>3 DEF V

-----------------------------------------------------------------------------
(* All that the block stored is active now. *)
LEMMA WokenPlaces ==
  ASSUME DiskOK, NEW u \in Worlds, NEW p \in DOMAIN u.blocks, u.blocks[p].stamp = Valid,
         NEW seq, NEW S, NEW v, Woken(u, v, p, seq, S),
         NEW x \in Objects, Cardinality(Of(seq, S, x)) = u.blocks[p].stored[x],
         InPlace(u, disk, x)
  PROVE  InPlace(v, disk, x)
<1>. DEFINE c == u.blocks[p].stored[x]
<1>1. /\ p \in Positions /\ c \in Nat /\ v \in Worlds /\ v.fate = u.fate
      /\ p \in DOMAIN v.blocks
  BY WorldParts DEF MapBlock, Stores, Woken
<1>2. /\ At(u.blocks, disk, p) = u.blocks[p] /\ At(v.blocks, disk, p).stored[x] = 0
      /\ At(v.blocks, disk, p).stamp = u.blocks[p].stamp
      /\ \A q \in Positions \ {p} : At(v.blocks, disk, q) = At(u.blocks, disk, q)
  BY <1>1 DEF At, Woken, EmptyStore
<1>3. /\ IsFiniteSet(ActiveAs(v, x)) /\ Cardinality(ActiveAs(u, x)) \in Nat
      /\ Cardinality(ActiveAs(v, x)) = Cardinality(ActiveAs(u, x)) + c
  BY <1>1, CountsType DEF Woken
<1>4. ASSUME NEW i \in ActiveAs(u, x)
      PROVE  /\ i \in ActiveAs(v, x) /\ i \in DOMAIN v.objects /\ v.objects[i] = u.objects[i]
             /\ Listed(v, i) <=> Listed(u, i)
             /\ Lives(v, i) <=> Lives(u, i)
  <2>1. i \in DOMAIN u.objects /\ u.objects[i].obj = x
    BY DEF ActiveAs
  <2>2. i \in DOMAIN v.objects /\ v.objects[i] = u.objects[i] /\ (Listed(v, i) <=> Listed(u, i))
    BY <2>1 DEF Woken
  <2>. QED  BY <2>1, <2>2 DEF ActiveAs, Lives
<1>. HIDE DEF c
<1>5. CASE c = 0
  <2>1. ActiveAs(v, x) = ActiveAs(u, x)
    <3>1. Cardinality(ActiveAs(v, x)) = Cardinality(ActiveAs(u, x))
      BY <1>3, <1>5
    <3>2. ActiveAs(u, x) \in SUBSET ActiveAs(v, x)
      BY <1>4
    <3>. QED  BY <1>3, <3>1, <3>2, FS_Subset
  <2>2. \A q \in Positions : /\ At(v.blocks, disk, q).stored[x] = At(u.blocks, disk, q).stored[x]
                             /\ At(v.blocks, disk, q).stamp = At(u.blocks, disk, q).stamp
    BY <1>2, <1>5 DEF c
  <2>3. NoneLaid(v, disk, x) <=> NoneLaid(u, disk, x)
    BY <2>2 DEF NoneLaid
  <2>4. OneLaid(v, disk, x) <=> OneLaid(u, disk, x)
    BY <2>1, <2>2 DEF OneLaid
  <2>5. OneActive(u, disk, x) => OneActive(v, disk, x)
    <3>1. SUFFICES ASSUME OneActive(u, disk, x) PROVE OneActive(v, disk, x)
      OBVIOUS
    <3>2. PICK i : ActiveAs(u, x) = {i} /\ Lives(u, i)
      BY <3>1 DEF OneActive
    <3>3. i \in DOMAIN v.objects /\ ActiveAs(v, x) = {i} /\ Lives(v, i)
      BY <1>4, <2>1, <3>2
    <3>. QED  BY <2>3, <3>1, <3>3 DEF OneActive
  <2>. QED  BY <1>1, <1>4, <2>1, <2>2, <2>3, <2>4, <2>5 DEF InPlace
<1>6. CASE c # 0
  <2>1. ~NoneLaid(u, disk, x)
    BY <1>1, <1>2, <1>6 DEF NoneLaid, c
  <2>2. u.fate[x] \notin {"none", "removed", "cleared"}
    BY <1>1, <1>2, <1>6, <2>1 DEF InPlace, c
  <2>3. ASSUME u.fate[x] = "alive"
        PROVE  OneActive(v, disk, x)
    <3>1. OneLaid(u, disk, x)
      BY <2>1, <2>3 DEF InPlace, OneActive
    <3>2. PICK r \in Positions :
            /\ At(u.blocks, disk, r).stored[x] = 1
            /\ \A q \in Positions \ {r} : At(u.blocks, disk, q).stored[x] = 0
      BY <3>1 DEF OneLaid
    <3>3. r = p /\ c = 1
      BY <1>1, <1>2, <1>6, <3>2 DEF c
    <3>4. ActiveAs(u, x) = {}
      BY <3>1 DEF OneLaid
    <3>5. Cardinality(ActiveAs(v, x)) = 1
      BY <1>3, <3>3, <3>4, FS_EmptySet
    <3>6. PICK i : ActiveAs(v, x) = {i}
      BY <1>3, <3>5, FS_Singleton
    <3>7. i \in DOMAIN v.objects /\ v.objects[i].obj = x
      BY <3>6 DEF ActiveAs
    <3>8. i \notin DOMAIN u.objects
      BY <3>4, <3>7 DEF ActiveAs, Woken
    <3>9. Lives(v, i)
      BY <3>7, <3>8 DEF Woken, Lives
    <3>10. NoneLaid(v, disk, x)
      BY <1>2, <3>2, <3>3 DEF NoneLaid
    <3>. QED  BY <3>6, <3>7, <3>9, <3>10 DEF OneActive
  <2>. QED  BY <1>1, <2>2, <2>3 DEF InPlace
<1>. QED  BY <1>5, <1>6

LEMMA WokenSound ==
  ASSUME DiskOK, NEW u \in Worlds, Sound(u, disk, Objects),
         NEW p \in DOMAIN u.blocks, u.blocks[p].stamp = Valid,
         NEW seq, NEW S, NEW v, Woken(u, v, p, seq, S),
         \A x \in Objects : Cardinality(Of(seq, S, x)) = u.blocks[p].stored[x]
  PROVE  Sound(v, disk, Objects)
<1>1. Linked(v) /\ v.fate = u.fate /\ DOMAIN v.blocks = DOMAIN u.blocks
  BY DEF Woken
<1>2. ASSUME NEW x \in Objects
      PROVE  InPlace(v, disk, x)
  BY WokenPlaces DEF Sound
<1>3. ASSUME NEW x \in Objects, NEW q \in DOMAIN u.blocks
      PROVE  /\ Count(v.blocks[q], x) = Count(u.blocks[q], x)
             /\ v.blocks[q].modified = u.blocks[q].modified
  <2>1. CASE q = p
    <3>1. u.blocks[p].stored[x] \in Nat /\ ActiveOf(u.blocks[p].active, x) \in Nat
      BY WorldParts, CountsType DEF MapBlock, Stores
    <3>2. /\ v.blocks[p].stored[x] = 0
          /\ ActiveOf(v.blocks[p].active, x) =
               ActiveOf(u.blocks[p].active, x) + u.blocks[p].stored[x]
      BY DEF Woken, EmptyStore
    <3>. QED  BY <2>1, <3>1, <3>2 DEF Count, Woken
  <2>2. CASE q # p
    BY <2>2 DEF Woken
  <2>. QED  BY <2>1, <2>2
<1>4. ASSUME NEW x \in Objects
      PROVE  OnDisk(v, disk, x)
  <2>1. OnDisk(u, disk, x)
    BY DEF Sound
  <2>. QED  BY <1>1, <1>3, <2>1 DEF OnDisk, UnmarkedOnDisk
<1>. QED  BY <1>1, <1>2, <1>4 DEF Sound

-----------------------------------------------------------------------------
(* A block is activated. *)
Activates(w, v, p, old) ==
  /\ v \in Worlds /\ Sound(v, disk, Objects)
  /\ DOMAIN v.blocks = DOMAIN w.blocks
  /\ \A q \in DOMAIN w.blocks \ {p} : v.blocks[q] = w.blocks[q]
  /\ v.blocks[p].stored = EmptyStore /\ v.blocks[p].old = old
  /\ \A x \in Objects : v.fate[x] \in Followed => v.fate[x] = w.fate[x]

LEMMA FatedValues ==
  ASSUME NEW f \in [Objects -> Fates], NEW S, NEW new \in Fates, NEW x \in Objects
  PROVE  Fated(f, S, new)[x] = IF x \in S /\ f[x] = "alive" THEN new ELSE f[x]
BY DEF Fated

LEMMA ObjectsActivate ==
  ASSUME DiskOK, NEW w \in Worlds, Sound(w, disk, Objects), NEW p \in DOMAIN w.blocks,
         w.blocks[p].stamp = Valid, NEW v, v = activateObjects(w, p)
  PROVE  Activates(w, v, p, w.blocks[p].old)
<1>. DEFINE b0 == w.blocks[p]
<1>1. /\ b0 \in MapBlock /\ b0.stored \in Stores /\ EmptyStore \in Stores
      /\ p \in Positions /\ w.blocks \in Memory /\ w.fate \in [Objects -> Fates]
  BY WorldParts, StoreTypes DEF MapBlock
<1>2. v \in Worlds
  BY LinkedAgrees, ActivateObjectsWalks DEF Walked, Sound
<1>3. CASE Size(b0.stored) > MaxObjectsPerBlock
  <2>. DEFINE m == Raised(b0, WriteNeeded)
  <2>1. PICK b : b = [m EXCEPT !.stored = EmptyStore]
    OBVIOUS
  <2>a. PICK S : S = StoredIn(b0.stored)
    OBVIOUS
  <2>b. PICK new : new = "over the limit"
    OBVIOUS
  <2>2. PICK bs, f : bs = Put(w.blocks, p, b) /\ f = Fated(w.fate, S, new)
    OBVIOUS
  <2>0. new \in Fates /\ new \notin Followed
    BY <2>b DEF Fates, Followed, Sure
  <2>3. v = [w EXCEPT !.blocks = bs, !.fate = f]
    BY <1>3, <2>1, <2>a, <2>b, <2>2 DEF activateObjects
  <2>4. v.blocks = bs /\ v.fate = f /\ v.objects = w.objects
    BY <2>3 DEF Worlds
  <2>5. /\ m \in MapBlock /\ m.modified = WriteNeeded
        /\ m = [b0 EXCEPT !.modified = m.modified]
    <3>. HIDE DEF b0
    <3>. QED  BY <1>1, RaisedBlock
  <2>6. /\ b \in MapBlock /\ b.modified = WriteNeeded /\ b.active = b0.active
        /\ b.stamp = b0.stamp /\ b.old = b0.old /\ b.stored = EmptyStore
    <3>. HIDE DEF m, b0
    <3>. QED  BY <1>1, <2>1, <2>5 DEF MapBlock
  <2>7. ASSUME NEW x \in Objects
        PROVE  /\ Refills(w, v, p, b, x)
               /\ v.fate[x] \in Followed => v.fate[x] = w.fate[x]
    <3>1. v.fate[x] = IF x \in S /\ w.fate[x] = "alive" THEN new ELSE w.fate[x]
      <4>. HIDE DEF b0, m
      <4>. QED  BY <1>1, <2>0, <2>2, <2>4, FatedValues
    <3>2. b.stored[x] = 0 /\ b0.stored[x] \in Nat
      BY <1>1, <2>6 DEF EmptyStore, Stores
    <3>3. InPlace(w, disk, x) /\ At(w.blocks, disk, p) = b0
      BY DEF Sound, At
    <3>4. CASE b0.stored[x] = 0
      <4>1. x \notin S
        BY <2>a, <3>4 DEF StoredIn
      <4>. QED  BY <2>6, <3>1, <3>2, <3>4, <4>1 DEF Refills
    <3>5. CASE b0.stored[x] # 0
      <4>1. x \in S
        BY <2>a, <3>2, <3>5 DEF StoredIn
      <4>2. w.fate[x] \notin {"none", "removed", "cleared"}
        BY <1>1, <3>3, <3>5 DEF InPlace, NoneLaid
      <4>. QED  BY <2>0, <3>1, <4>1, <4>2 DEF Refills, Followed, Sure
    <3>. QED  BY <3>4, <3>5
  <2>8. Sound(v, disk, Objects)
    BY <1>2, <2>2, <2>4, <2>6, <2>7, RefillSound
  <2>9. /\ DOMAIN v.blocks = DOMAIN w.blocks /\ v.blocks[p] = b
        /\ \A q \in DOMAIN w.blocks \ {p} : v.blocks[q] = w.blocks[q]
    BY <2>2, <2>4 DEF Put
  <2>. QED  BY <1>2, <2>6, <2>7, <2>8, <2>9 DEF Activates
<1>4. CASE ~(Size(b0.stored) > MaxObjectsPerBlock)
  <2>1. PICK seq, n : seq = SetToSeq(Copies(b0.stored)) /\ n = Cardinality(Copies(b0.stored))
    OBVIOUS
  <2>2. PICK b : b = [b0 EXCEPT !.stored = EmptyStore]
    OBVIOUS
  <2>3. PICK e : e = [w EXCEPT !.blocks = Put(@, p, b)]
    OBVIOUS
  <2>4. v = WakeDone(p, e, seq)
    BY <1>4, <2>1, <2>2, <2>3 DEF activateObjects, Copies, WakeDone
  <2>5. b \in MapBlock
    <3>. HIDE DEF b0
    <3>. QED  BY <1>1, <2>2 DEF MapBlock
  <2>6. Woken(w, e, p, seq, {})
    BY <2>2, <2>3, <2>5, WokenStarts DEF Sound
  <2>7. Order(seq, n, Copies(b0.stored))
    <3>. HIDE DEF b0
    <3>. QED  BY <1>1, <2>1, CopiesInOrder
  <2>8. Woken(w, v, p, seq, 1..n)
    BY <2>4, <2>6, <2>7, WokenAll
  <2>9. \A x \in Objects : Cardinality(Of(seq, 1..n, x)) = b0.stored[x]
    <3>. HIDE DEF b0
    <3>. QED  BY <1>1, <2>1, AllCopies
  <2>10. Sound(v, disk, Objects)
    BY <2>8, <2>9, WokenSound
  <2>. QED  BY <2>8, <2>10 DEF Woken, Activates
<1>. QED  BY <1>3, <1>4

-----------------------------------------------------------------------------
(* activateBlock: what is forgotten was not followed, or was cleared.      *)
LEMMA BlockActivates ==
  ASSUME DiskOK, NEW w \in Worlds, Sound(w, disk, Objects), NEW p \in DOMAIN w.blocks,
         NEW v, v = activateBlock(w, p)
  PROVE  Activates(w, v, p, FALSE)
<1>. DEFINE b0 == w.blocks[p]
<1>1. /\ b0 \in MapBlock /\ b0.stored \in Stores /\ EmptyStore \in Stores
      /\ p \in Positions /\ w.blocks \in Memory
      /\ w.objects \in Partial(Ids, ActiveObject) /\ w.fate \in [Objects -> Fates]
  BY WorldParts, StoreTypes DEF MapBlock
<1>2. PICK kept_ones \in Stores : kept_ones = IF b0.stamp = Valid THEN b0.stored ELSE EmptyStore
  BY <1>1
<1>3. PICK lost : lost = IF b0.stamp = Undefined THEN "unstamped" ELSE "outdated"
  OBVIOUS
<1>4. lost \in Fates /\ lost \notin Followed
  BY <1>3 DEF Fates, Followed, Sure
<1>5. PICK b : b = [b0 EXCEPT !.old = FALSE, !.stamp = Valid, !.stored = kept_ones]
  OBVIOUS
<1>6. PICK S : S = StoredIn(b0.stored) \ StoredIn(kept_ones)
  OBVIOUS
<1>7. PICK bs, f : bs = Put(w.blocks, p, b) /\ f = Fated(w.fate, S, lost)
  OBVIOUS
<1>8. PICK u : u = [w EXCEPT !.blocks = bs, !.fate = f]
  OBVIOUS
<1>9. v = activateObjects(u, p)
  BY <1>2, <1>3, <1>5, <1>6, <1>7, <1>8 DEF activateBlock
<1>10. /\ b \in MapBlock /\ b.modified = b0.modified /\ b.active = b0.active
       /\ b.stored = kept_ones /\ b.stamp = Valid /\ b.old = FALSE
  <2>. HIDE DEF b0
  <2>. QED  BY <1>1, <1>5 DEF MapBlock, Stamps
<1>11. u \in Worlds /\ u.blocks = bs /\ u.objects = w.objects /\ u.fate = f
  <2>1. bs \in Memory
    BY <1>1, <1>7, <1>10, PutPartial DEF Memory
  <2>2. f \in [Objects -> Fates]
    BY <1>1, <1>4, <1>7, FatedType
  <2>. QED  BY <1>1, <1>8, <2>1, <2>2 DEF Worlds
<1>12. ASSUME NEW x \in Objects
       PROVE  /\ Refills(w, u, p, b, x)
              /\ u.fate[x] \in Followed => u.fate[x] = w.fate[x]
  <2>1. u.fate[x] = IF x \in S /\ w.fate[x] = "alive" THEN lost ELSE w.fate[x]
    <3>. HIDE DEF b0
    <3>. QED  BY <1>1, <1>4, <1>7, <1>11, FatedValues
  <2>2. b0.stored[x] \in Nat
    BY <1>1 DEF Stores
  <2>3. InPlace(w, disk, x) /\ At(w.blocks, disk, p) = b0
    BY DEF Sound, At
  <2>4. CASE b0.stamp = Valid
    <3>1. x \notin S
      BY <1>2, <1>6, <2>4
    <3>. QED  BY <1>2, <1>10, <2>1, <2>4, <3>1 DEF Refills
  <2>5. CASE b0.stamp # Valid /\ b0.stored[x] = 0
    <3>1. x \notin S /\ b.stored[x] = 0
      BY <1>2, <1>6, <1>10, <2>5 DEF StoredIn, EmptyStore
    <3>. QED  BY <2>1, <2>5, <3>1 DEF Refills
  <2>6. CASE b0.stamp # Valid /\ b0.stored[x] # 0
    <3>1. x \in S /\ b.stored[x] = 0
      BY <1>2, <1>6, <1>10, <2>2, <2>6 DEF StoredIn, EmptyStore
    <3>2. w.fate[x] \notin {"none", "removed"}
      BY <1>1, <2>3, <2>6 DEF InPlace, NoneLaid
    <3>. QED  BY <1>4, <2>1, <3>1, <3>2 DEF Refills, Followed, Sure
  <2>. QED  BY <2>4, <2>5, <2>6
<1>13. Sound(u, disk, Objects)
  BY <1>7, <1>10, <1>11, <1>12, RefillSound
<1>14. /\ DOMAIN u.blocks = DOMAIN w.blocks /\ p \in DOMAIN u.blocks /\ u.blocks[p] = b
       /\ \A q \in DOMAIN w.blocks \ {p} : u.blocks[q] = w.blocks[q]
  BY <1>7, <1>11 DEF Put
<1>15. Activates(u, v, p, FALSE)
  <2>1. Activates(u, v, p, u.blocks[p].old) /\ u.blocks[p].old = FALSE
    BY <1>9, <1>10, <1>11, <1>13, <1>14, ObjectsActivate
  <2>. QED  BY <2>1
<1>16. \A x \in Objects : v.fate[x] \in Followed => v.fate[x] = w.fate[x]
  BY <1>12, <1>15 DEF Activates
<1>. QED  BY <1>14, <1>15, <1>16 DEF Activates

(* One more block holds nothing that was cleared. *)
LEMMA ActivatesSettles ==
  ASSUME NEW w, NEW v, NEW A, NEW B, Settled(w, v, Objects, A, B), NEW p \in DOMAIN v.blocks,
         NEW u, Activates(v, u, p, FALSE), NEW C, C \subseteq A \cup {p}
  PROVE  Settled(w, u, Objects, C, B)
<1>1. /\ u \in Worlds /\ Sound(u, disk, Objects) /\ DOMAIN u.blocks = DOMAIN v.blocks
      /\ \A q \in DOMAIN v.blocks \ {p} : u.blocks[q] = v.blocks[q]
      /\ u.blocks[p].stored = EmptyStore /\ u.blocks[p].old = FALSE
  BY DEF Activates
<1>2. ASSUME NEW x \in Objects, u.fate[x] \in Followed
      PROVE  u.fate[x] = v.fate[x] /\ u.fate[x] = w.fate[x]
  BY <1>2 DEF Activates, Settled
<1>3. Unaged(u, B)
  BY <1>1 DEF Settled, Unaged
<1>4. ASSUME NEW q \in C
      PROVE  IF q \in DOMAIN u.blocks
             THEN \A x \in Objects : u.fate[x] = "cleared" => u.blocks[q].stored[x] = 0
             ELSE q \notin DOMAIN disk
  <2>1. CASE q = p
    BY <1>1, <2>1 DEF EmptyStore
  <2>2. CASE q # p
    <3>1. q \in A
      BY <2>2
    <3>2. \A x \in Objects : u.fate[x] = "cleared" => v.fate[x] = "cleared"
      BY <1>2 DEF Followed
    <3>. QED  BY <1>1, <2>2, <3>1, <3>2 DEF Settled, ClearedOut
  <2>. QED  BY <2>1, <2>2
<1>5. ClearedOut(u, disk, C)
  BY <1>4 DEF ClearedOut
<1>. QED  BY <1>1, <1>2, <1>3, <1>5 DEF Settled

LEMMA ActivateSettles ==
  ASSUME DiskOK, NEW w \in Worlds, NEW A, NEW B, Settled(w, w, Objects, A, B),
         NEW S \in SUBSET (DOMAIN w.blocks)
  PROVE  Settled(w, FoldLeft(activateBlock, w, SetToSeq(S)), Objects, A \cup S, B)
<1>. DEFINE Op(v, p) == activateBlock(v, p)
            seq == SetToSeq(S)
            n == Cardinality(S)
            Done(s) == A \cup {seq[j] : j \in s}
            V == [s \in SUBSET (1..n) |->
                    {v \in Worlds : /\ Settled(w, v, Objects, Done(s), B)
                                    /\ DOMAIN v.blocks = DOMAIN w.blocks}]
<1>1. IsFiniteSet(S) /\ Order(seq, n, S)
  <2>1. IsFiniteSet(S)
    BY WorldParts, PartialMember, FS_Subset DEF Memory
  <2>. QED  BY <2>1, SetToSeqOrders DEF Order
<1>2. \A x \in S : \E j \in 1..n : seq[j] = x
  <2>1. PICK s, k : s = seq /\ k = n
    OBVIOUS
  <2>2. Order(s, k, S) /\ k = Cardinality(S)
    BY <1>1, <2>1
  <2>. HIDE DEF seq, n
  <2>3. \A x \in S : \E j \in 1..k : s[j] = x
    BY <1>1, <2>2, OntoOrder
  <2>. QED  BY <2>1, <2>3
<1>3. /\ n \in Nat /\ DOMAIN seq = 1..n
      /\ \A s \in SUBSET (1..n) : s # {} => Max(s) \in s
      /\ \A j \in 1..n : seq[j] \in S
  <2>. HIDE DEF seq, n
  <2>. QED  BY <1>1, IndexSets DEF Order
<1>. HIDE DEF seq, n
<1>4. w \in V[{}] /\ \A s \in SUBSET (1..n) : V[s] \subseteq Worlds
  <2>1. Done({}) = A
    OBVIOUS
  <2>. HIDE DEF Done
  <2>. QED  BY <2>1
<1>5. ASSUME NEW s \in SUBSET (1..n), s # {}, NEW v \in V[s \ {Max(s)}]
      PROVE  Op(v, seq[Max(s)]) \in V[s]
  <2>1. PICK k \in s : k = Max(s)
    BY <1>3, <1>5
  <2>2. v \in Worlds /\ Settled(w, v, Objects, Done(s \ {k}), B) /\ DOMAIN v.blocks = DOMAIN w.blocks
    BY <1>5, <2>1
  <2>3. PICK p \in DOMAIN v.blocks : p = seq[k]
    BY <1>3, <2>2
  <2>4. PICK u : u = Op(v, p)
    OBVIOUS
  <2>5. Activates(v, u, p, FALSE)
    BY <2>2, <2>4, BlockActivates DEF Settled
  <2>6. Done(s) \subseteq Done(s \ {k}) \cup {p}
    BY <2>3
  <2>. HIDE DEF Done, Op
  <2>7. Settled(w, u, Objects, Done(s), B)
    BY <2>2, <2>5, <2>6, ActivatesSettles
  <2>8. u \in Worlds /\ DOMAIN u.blocks = DOMAIN w.blocks
    BY <2>2, <2>5 DEF Activates
  <2>9. u \in V[s]
    BY <2>7, <2>8
  <2>. QED  BY <2>1, <2>3, <2>4, <2>9
<1>6. FoldLeft(activateBlock, w, seq) \in V[1..n]
  <2>. HIDE DEF V
  <2>. QED  BY <1>3, <1>4, <1>5, ActivateInduction
<1>7. Done(1..n) = A \cup S
  BY <1>2, <1>3
<1>. HIDE DEF Done
<1>. QED  BY <1>6, <1>7 DEF seq

-----------------------------------------------------------------------------
(* Steps that leave the objects alone: blocks are loaded, used, stamped,   *)
(* marked or changed in other ways.                                        *)
Rests(w, b0, b) ==
  /\ b.active = b0.active /\ b.stored = b0.stored
  /\ b.modified # WriteNeeded => b0.modified # WriteNeeded
  /\ \/ b.stamp = b0.stamp
     \/ \A x \in Objects : w.fate[x] = "cleared" => b0.stored[x] = 0

Quiet(w, v) ==
  /\ v \in Worlds /\ v.objects = w.objects /\ v.fate = w.fate
  /\ DOMAIN w.blocks \subseteq DOMAIN v.blocks
  /\ \A p \in DOMAIN v.blocks : Rests(w, Fetched(w.blocks, p), v.blocks[p])

LEMMA QuietPlaces ==
  ASSUME DiskOK, NEW w \in Worlds, NEW v, Quiet(w, v), NEW x \in Objects, InPlace(w, disk, x)
  PROVE  InPlace(v, disk, x)
<1>1. ASSUME NEW p \in Positions
      PROVE  /\ At(v.blocks, disk, p).stored[x] = At(w.blocks, disk, p).stored[x]
             /\ \/ At(v.blocks, disk, p).stamp = At(w.blocks, disk, p).stamp
                \/ w.fate[x] = "cleared" => At(w.blocks, disk, p).stored[x] = 0
  <2>1. CASE p \in DOMAIN v.blocks
    <3>1. At(v.blocks, disk, p) = v.blocks[p] /\ Rests(w, At(w.blocks, disk, p), v.blocks[p])
      BY <2>1, AtFetched DEF At, Quiet
    <3>. QED  BY <3>1 DEF Rests
  <2>2. CASE p \notin DOMAIN v.blocks
    BY <2>2 DEF At, Quiet
  <2>. QED  BY <2>1, <2>2
<1>2. ActiveAs(v, x) = ActiveAs(w, x) /\ v.objects = w.objects /\ v.fate = w.fate
  BY DEF ActiveAs, Quiet
<1>3. ASSUME NEW i \in DOMAIN w.objects
      PROVE  (Listed(v, i) <=> Listed(w, i)) /\ (Lives(v, i) <=> Lives(w, i))
  <2>. DEFINE p == w.objects[i].static_block
  <2>1. p \in DOMAIN w.blocks => p \in DOMAIN v.blocks /\ v.blocks[p].active = w.blocks[p].active
    BY DEF Quiet, Rests, Fetched
  <2>2. p \notin DOMAIN w.blocks /\ p \in DOMAIN v.blocks => i \notin DOMAIN v.blocks[p].active
    BY FetchedActive DEF Quiet, Rests
  <2>3. Listed(v, i) <=> Listed(w, i)
    BY <1>2, <2>1, <2>2 DEF Listed
  <2>. QED  BY <1>2, <2>3 DEF Lives
<1>4. NoneLaid(v, disk, x) <=> NoneLaid(w, disk, x)
  BY <1>1 DEF NoneLaid
<1>5. OneLaid(v, disk, x) <=> OneLaid(w, disk, x)
  BY <1>1, <1>2 DEF OneLaid
<1>6. OneActive(v, disk, x) <=> OneActive(w, disk, x)
  BY <1>2, <1>3, <1>4 DEF OneActive
<1>7. \A i \in ActiveAs(w, x) : i \in DOMAIN w.objects
  BY DEF ActiveAs
<1>8. w.fate[x] = "cleared" => \A p \in Positions : At(v.blocks, disk, p).stamp = Valid
                                 => At(v.blocks, disk, p).stored[x] = 0
  BY <1>1 DEF InPlace
<1>. QED  BY <1>2, <1>3, <1>4, <1>5, <1>6, <1>7, <1>8 DEF InPlace

LEMMA QuietSound ==
  ASSUME DiskOK, NEW w \in Worlds, Sound(w, disk, Objects), NEW v, Quiet(w, v)
  PROVE  Sound(v, disk, Objects)
<1>1. v.objects = w.objects /\ v.fate = w.fate /\ v \in Worlds
  BY DEF Quiet
<1>2. Linked(v)
  <2>1. SUFFICES ASSUME NEW p \in DOMAIN v.blocks, NEW i \in DOMAIN v.blocks[p].active
                 PROVE  /\ i \in DOMAIN v.objects
                        /\ v.objects[i].static_exists = TRUE /\ v.objects[i].static_block = p
                        /\ v.objects[i].obj = v.blocks[p].active[i]
    BY DEF Linked
  <2>2. v.blocks[p].active = Fetched(w.blocks, p).active
    BY DEF Quiet, Rests
  <2>3. p \in DOMAIN w.blocks /\ Fetched(w.blocks, p) = w.blocks[p]
    BY <2>2, FetchedActive DEF Fetched
  <2>. QED  BY <1>1, <2>2, <2>3 DEF Sound, Linked
<1>3. ASSUME NEW x \in Objects
      PROVE  OnDisk(v, disk, x)
  <2>1. InPlace(w, disk, x) /\ OnDisk(w, disk, x)
    BY DEF Sound
  <2>2. ASSUME NEW p \in DOMAIN v.blocks, v.blocks[p].modified # WriteNeeded
        PROVE  Holding(v, disk, p, x, Count(v.blocks[p], x))
    <3>1. /\ Rests(w, Fetched(w.blocks, p), v.blocks[p])
          /\ p \in Positions
      BY <1>1, WorldParts DEF Quiet
    <3>2. Holding(w, disk, p, x, Count(Fetched(w.blocks, p), x))
      BY <2>1, <2>2, <3>1, FetchedOnDisk DEF Rests
    <3>. QED  BY <1>1, <3>1, <3>2 DEF Holding, Count, Rests
  <2>. QED  BY <1>1, <2>1, <2>2 DEF OnDisk, UnmarkedOnDisk, Holding
<1>4. ASSUME NEW x \in Objects
      PROVE  InPlace(v, disk, x)
  BY QuietPlaces DEF Sound
<1>. QED  BY <1>2, <1>3, <1>4 DEF Sound

LEMMA QuietCleared ==
  ASSUME NEW w, NEW v, Quiet(w, v), NEW A, ClearedOut(w, disk, A)
  PROVE  ClearedOut(v, disk, A)
<1>. SUFFICES ASSUME NEW p \in A
              PROVE  IF p \in DOMAIN v.blocks
                     THEN \A x \in Objects :
                            v.fate[x] = "cleared" => v.blocks[p].stored[x] = 0
                     ELSE p \notin DOMAIN disk
  BY DEF ClearedOut
<1>1. CASE p \notin DOMAIN v.blocks
  BY <1>1 DEF Quiet, ClearedOut
<1>2. ASSUME p \in DOMAIN v.blocks, NEW x \in Objects, v.fate[x] = "cleared"
      PROVE  v.blocks[p].stored[x] = 0
  <2>1. w.fate[x] = "cleared" /\ v.blocks[p].stored[x] = Fetched(w.blocks, p).stored[x]
    BY <1>2 DEF Quiet, Rests
  <2>2. CASE p \in DOMAIN w.blocks
    BY <2>1, <2>2 DEF ClearedOut, Fetched
  <2>3. CASE p \notin DOMAIN w.blocks
    <3>1. Fetched(w.blocks, p) = BlankBlock
      BY <2>3, FetchedUsed DEF ClearedOut
    <3>. QED  BY <2>1, <3>1 DEF BlankBlock, EmptyStore
  <2>. QED  BY <2>2, <2>3
<1>. QED  BY <1>1, <1>2

(* The whole invariant, when objects and blocks were there before.         *)
LEMMA QuietSettles ==
  ASSUME DiskOK, NEW w \in Worlds, NEW A, NEW B, Settled(w, w, Objects, A, B),
         NEW v, Quiet(w, v), NEW C, Unaged(v, C)
  PROVE  Settled(v, v, Objects, A, C) /\ Settled(w, v, Objects, A, C)
<1>1. Sound(v, disk, Objects) /\ ClearedOut(v, disk, A)
  BY QuietSound, QuietCleared DEF Settled
<1>2. v \in Worlds /\ v.fate = w.fate
  BY DEF Quiet
<1>. QED  BY <1>1, <1>2 DEF Settled

(* Blocks stay as young as they were, or are used. *)
Young(b0, b) == b.old = FALSE \/ b.old = b0.old

LEMMA QuietUnaged ==
  ASSUME NEW w, NEW v, NEW A, Unaged(w, A),
         \A p \in DOMAIN v.blocks : Young(Fetched(w.blocks, p), v.blocks[p])
  PROVE  Unaged(v, A)
<1>. SUFFICES ASSUME NEW p \in A \cap DOMAIN v.blocks
              PROVE  v.blocks[p].old = FALSE
  BY DEF Unaged
<1>1. p \in DOMAIN w.blocks => Fetched(w.blocks, p).old = FALSE
  BY DEF Unaged, Fetched
<1>2. Young(Fetched(w.blocks, p), v.blocks[p])
  OBVIOUS
<1>. QED  BY <1>1, <1>2, FetchedUsed DEF Young

-----------------------------------------------------------------------------
(* The invariant of the specification.                                     *)
AllSound(w, d, A) == Sound(w, d, Objects) /\ ClearedOut(w, d, A) /\ Unaged(w, A)

SoundInv == AllSound(World, disk, m_active_blocks)

LEMMA AllSoundAfter ==
  ASSUME NEW v, v = World', NEW d, d = disk', NEW A, A = m_active_blocks', AllSound(v, d, A)
  PROVE  SoundInv'
BY DEF SoundInv

(* The world before a step, as a value, and after it.                      *)
Before(w, A) ==
  /\ DiskOK /\ w \in Worlds /\ w = World
  /\ w.blocks = blocks /\ w.objects = m_active_objects /\ w.fate = fate
  /\ A \in SUBSET Positions /\ A = m_active_blocks
  /\ Settled(w, w, Objects, A, A)

LEMMA BeforeStep ==
  ASSUME Inv, SoundInv
  PROVE  \E w, A : Before(w, A)
<1>1. PICK w \in Worlds : w = World
  BY InvParts
<1>2. PICK A \in SUBSET Positions : A = m_active_blocks
  BY InvParts
<1>3. Settled(w, w, Objects, A, A)
  BY <1>1, <1>2 DEF SoundInv, AllSound, Settled
<1>. QED  BY <1>1, <1>2, <1>3, InvParts DEF Before

LEMMA SettledAfter ==
  ASSUME NEW w, NEW v, NEW A, NEW B, Settled(w, v, Objects, A, B), Become(v), disk' = disk,
         m_active_blocks' \subseteq A, m_active_blocks' \subseteq B
  PROVE  SoundInv'
<1>1. PICK C : C = m_active_blocks'
  OBVIOUS
<1>2. AllSound(v, disk, C)
  BY <1>1 DEF AllSound, Settled, ClearedOut, Unaged
<1>3. v = World'
  BY DEF Become, World, Worlds, Settled
<1>4. PICK d : d = disk
  OBVIOUS
<1>. QED  BY <1>1, <1>2, <1>3, <1>4, AllSoundAfter

-----------------------------------------------------------------------------
(* An object is added. *)
LEMMA AddObjectSound ==
  ASSUME Inv, SoundInv, NEW o \in Objects, NEW p \in Positions, AddObject(o, p)
  PROVE  SoundInv'
<1>1. PICK w, A : Before(w, A)
  BY BeforeStep
<1>2. /\ DiskOK /\ w \in Worlds /\ w.fate[o] = "none" /\ A \in SUBSET Positions
      /\ Sound(w, disk, Objects) /\ ClearedOut(w, disk, A) /\ Unaged(w, A) /\ Linked(w)
      /\ w.blocks \in Memory /\ w.objects \in Partial(Ids, ActiveObject)
      /\ w.fate \in [Objects -> Fates]
  BY <1>1, WorldParts DEF Before, Settled, AddObject, Sound
<1>3. PICK f : f = [w.fate EXCEPT ![o] = "alive"]
  OBVIOUS
<1>4. f \in [Objects -> Fates] /\ f[o] = "alive" /\ \A x \in Objects \ {o} : f[x] = w.fate[x]
  BY <1>2, <1>3 DEF Fates
<1>5. PICK e : e = [w EXCEPT !.fate = f]
  OBVIOUS
<1>6. e \in Worlds /\ e.blocks = w.blocks /\ e.objects = w.objects /\ e.fate = f
  BY <1>2, <1>4, <1>5 DEF Worlds
<1>7. PICK v : v = addActiveObjectRaw(e, o, p, TRUE)
  OBVIOUS
<1>8. Become(v) /\ disk' = disk /\ m_active_blocks' = A
  <2>1. e = [World EXCEPT !.fate[o] = "alive"]
    BY <1>1, <1>3, <1>5 DEF Before, World
  <2>. QED  BY <1>1, <1>7, <2>1 DEF AddObject, Before
<1>9. PICK id : id = FreeId(e.objects) /\ id = FreeId(w.objects)
  BY <1>6
<1>10. id \in Ids /\ id \notin DOMAIN w.objects
  BY <1>2, <1>9, FreeIdIsFree
<1>11. HasAdded(e, v, o, p, TRUE)
  BY <1>2, <1>6, <1>7, AddHolds
<1>12. PICK ao \in ActiveObject :
         /\ v.objects = Put(w.objects, id, ao)
         /\ ao.obj = o /\ ao.gone = "no"
         /\ ao.static_exists = TRUE /\ ao.static_block = p
  BY <1>6, <1>9, <1>11 DEF HasAdded
<1>13. PICK b0 \in MapBlock : b0 = Fetched(w.blocks, p) /\ b0 = Fetched(e.blocks, p)
  BY <1>2, <1>6, FetchedType
<1>14. PICK b \in MapBlock :
         /\ v.blocks = Put(w.blocks, p, b)
         /\ b.stamp = b0.stamp /\ b.old = b0.old /\ b.modified = Mark(b0, TRUE).modified
         /\ b.stored = b0.stored /\ b.active = Put(b0.active, id, o)
  BY <1>6, <1>9, <1>11, <1>13 DEF HasAdded
<1>15. v \in Worlds /\ v.fate = f
  BY <1>6, <1>11 DEF HasAdded
<1>16. b.modified = WriteNeeded
  BY <1>14, Marks
<1>17. Alters(b0, b, id, o)
  <2>1. SameEntries(b0, b, id)
    BY <1>14 DEF SameEntries, Put
  <2>. QED  BY <1>14, <1>16, <2>1 DEF Alters
<1>18. /\ DOMAIN v.objects = DOMAIN w.objects \cup {id} /\ v.objects[id] = ao
       /\ \A i \in DOMAIN w.objects : v.objects[i] = w.objects[i]
  BY <1>10, <1>12 DEF Put
<1>19. \A q \in DOMAIN w.blocks : id \notin DOMAIN w.blocks[q].active
  BY <1>2, <1>10 DEF Linked
<1>20. b.active[id] = o
  BY <1>14 DEF Put
<1>21. Moves(w, v, id, o) /\ Counted(w, v, o) /\ SameStored(w, v, o)
  <2>1. /\ Moves(w, v, id, o)
        /\ \/ b.modified = WriteNeeded
           \/ Count(b, o) = Count(Fetched(w.blocks, p), o)
           => Counted(w, v, o)
        /\ b.stored[o] = Fetched(w.blocks, p).stored[o] => SameStored(w, v, o)
    <3>1. /\ Alters(Fetched(w.blocks, p), b, id, o)
          /\ DOMAIN v.objects \ {id} = DOMAIN w.objects \ {id}
          /\ \A i \in DOMAIN w.objects \ {id} : v.objects[i] = w.objects[i]
          /\ \A x \in Objects \ {o} : v.fate[x] = w.fate[x]
          /\ id \in DOMAIN w.objects => w.objects[id].obj = o
          /\ id \in DOMAIN v.objects => v.objects[id].obj = o
          /\ id \in DOMAIN b.active =>
               /\ id \in DOMAIN v.objects
               /\ v.objects[id].static_exists = TRUE /\ v.objects[id].static_block = p
               /\ b.active[id] = o
          /\ \A q \in DOMAIN w.blocks \ {p} : id \notin DOMAIN w.blocks[q].active
      BY <1>4, <1>10, <1>12, <1>13, <1>15, <1>17, <1>18, <1>19, <1>20
    <3>2. v.blocks = Put(w.blocks, p, b) /\ v \in Worlds /\ w \in Worlds /\ DiskOK
      BY <1>2, <1>14, <1>15
    <3>. QED  BY <3>1, <3>2, PutMoves
  <2>. QED  BY <1>13, <1>14, <1>16, <2>1
<1>22. InPlace(v, disk, o)
  <2>1. ActiveAs(w, o) = {} /\ NoneLaid(w, disk, o)
    BY <1>2 DEF Sound, InPlace
  <2>2. NoneLaid(v, disk, o)
    BY <1>21, <2>1, PlaceFetched DEF SameStored
  <2>3. ActiveAs(v, o) = {id}
    BY <1>12, <1>18, <2>1 DEF ActiveAs
  <2>4. Lives(v, id) /\ id \in DOMAIN v.objects
    BY <1>12, <1>18 DEF Lives
  <2>5. OneActive(v, disk, o)
    BY <2>2, <2>3, <2>4 DEF OneActive
  <2>. QED  BY <1>4, <1>15, <2>5 DEF InPlace
<1>23. OnDisk(v, disk, o)
  <2>1. Tracks(w, v, o)
    BY <1>2, <1>4, <1>15, <1>21 DEF Tracks, Sure
  <2>. QED  BY <1>2, <1>21, <2>1, MovesOnDisk DEF Sound
<1>24. Sound(v, disk, Objects)
  BY <1>2, <1>21, <1>22, <1>23, StepSound
<1>25. Unaged(v, A) /\ ClearedOut(v, disk, A)
  <2>1. v.fate[o] # "cleared"
    BY <1>4, <1>15
  <2>. QED  BY <1>2, <1>21, <2>1, MovesUnaged, MovesCleared
<1>26. Settled(v, v, Objects, A, A)
  BY <1>15, <1>24, <1>25 DEF Settled
<1>. QED  BY <1>8, <1>26, SettledAfter

-----------------------------------------------------------------------------
(* The record of one object changes. *)
LEMMA SameMoves ==
  ASSUME DiskOK, NEW w \in Worlds, Linked(w), NEW id \in DOMAIN w.objects,
         NEW o, o = w.objects[id].obj
  PROVE  Moves(w, w, id, o) /\ Counted(w, w, o) /\ SameStored(w, w, o)
<1>1. Loads(w, w)
  BY DEF Loads, Fetched
<1>2. OwnEntries(w, id, o)
  BY LinkedOwn
<1>. QED  BY <1>1, <1>2, LoadMoves

(* The world after the record of id has become ao. *)
Recorded(w, v, id, ao) ==
  /\ v.blocks = w.blocks /\ v.fate = w.fate
  /\ v = [w EXCEPT !.objects = Put(@, id, ao)]

LEMMA RecordMoves ==
  ASSUME DiskOK, NEW w \in Worlds, Linked(w), NEW id \in DOMAIN w.objects,
         NEW o, o = w.objects[id].obj,
         NEW ao \in ActiveObject, SameData(w.objects[id], ao), NEW v, Recorded(w, v, id, ao)
  PROVE  Rewrites(w, w, v, id, o, ao) /\ Counted(w, v, o) /\ SameStored(w, v, o)
<1>1. Moves(w, w, id, o) /\ Counted(w, w, o) /\ SameStored(w, w, o)
  BY SameMoves
<1>2. id \in Ids
  BY WorldParts
<1>3. Rewrites(w, w, v, id, o, ao)
  BY <1>1, <1>2, RewriteMoves DEF Recorded
<1>. QED  BY <1>1, <1>3 DEF Counted, SameStored, Recorded

LEMMA RecordSound ==
  ASSUME Inv, SoundInv, NEW id \in DOMAIN m_active_objects, NEW ao \in ActiveObject,
         SameData(m_active_objects[id], ao), ao.gone = m_active_objects[id].gone,
         m_active_objects' = [m_active_objects EXCEPT ![id] = ao],
         UNCHANGED <<mapVars, m_active_blocks, fate>>
  PROVE  SoundInv'
<1>1. PICK w, A : Before(w, A)
  BY BeforeStep
<1>2. /\ DiskOK /\ w \in Worlds /\ A \in SUBSET Positions /\ Settled(w, w, Objects, A, A)
      /\ id \in DOMAIN w.objects /\ w.objects[id] = m_active_objects[id]
      /\ Sound(w, disk, Objects) /\ Linked(w)
      /\ w.objects \in Partial(Ids, ActiveObject)
  BY <1>1, WorldParts DEF Before, Settled, Sound
<1>3. PICK o \in Objects : o = w.objects[id].obj
  BY <1>2, WorldParts DEF ActiveObject
<1>4. PICK v : v = [w EXCEPT !.objects = Put(@, id, ao)]
  OBVIOUS
<1>5. Recorded(w, v, id, ao) /\ v.objects = Put(w.objects, id, ao)
  BY <1>2, <1>4 DEF Recorded, Worlds
<1>6. Become(v) /\ disk' = disk /\ m_active_blocks' = A
  <2>1. m_active_objects' = Put(w.objects, id, ao)
    <3>1. PICK m : m = m_active_objects
      OBVIOUS
    <3>2. m = w.objects /\ m = [i \in DOMAIN m |-> m[i]] /\ id \in DOMAIN m
      BY <1>1, <1>2, <3>1, PartialMember DEF Before
    <3>3. Put(m, id, ao) = [m EXCEPT ![id] = ao]
      BY <3>2 DEF Put
    <3>. QED  BY <3>1, <3>2, <3>3
  <2>. QED  BY <1>1, <1>5, <2>1 DEF Before, Become, Recorded, mapVars
<1>7. Rewrites(w, w, v, id, o, ao) /\ Counted(w, v, o) /\ SameStored(w, v, o)
  BY <1>2, <1>3, <1>5, RecordMoves
<1>8. /\ Moves(w, v, id, o) /\ id \in DOMAIN v.objects /\ v.objects[id].gone = w.objects[id].gone
      /\ v.fate[o] = w.fate[o]
      /\ Listed(v, id) <=> Listed(w, id)
      /\ Lives(v, id) <=> Lives(w, id)
  BY <1>2, <1>7 DEF Rewrites, Lives
<1>9. Settles(w, v, o)
  <2>1. InPlace(w, disk, o)
    BY <1>2 DEF Sound
  <2>2. id \in ActiveAs(w, o)
    BY <1>2, <1>3 DEF ActiveAs
  <2>3. /\ w.fate[o] = "alive" => Lives(w, id)
        /\ w.fate[o] = "removed" => ~Lives(w, id)
    BY <1>2, <1>3, <2>1, PlaceActive DEF Followed, Sure
  <2>4. w.fate[o] = "cleared" => w.objects[id].gone # "no" /\ ~Listed(w, id)
    BY <2>1, <2>2 DEF InPlace
  <2>. QED  BY <1>2, <1>3, <1>7, <1>8, <2>1, <2>3, <2>4, StaysSettles
<1>10. Settled(w, v, Objects, A, A)
  BY <1>2, <1>8, <1>9, SettledStep
<1>. QED  BY <1>6, <1>10, SettledAfter

-----------------------------------------------------------------------------
(* An object that is there is removed. *)
Dooms(u, v, o) == v = [u EXCEPT !.fate = Fated(@, {o}, "removed")]

LEMMA RemoveSettles ==
  ASSUME DiskOK, NEW w \in Worlds, NEW A \in SUBSET Positions, Settled(w, w, Objects, A, A),
         NEW id \in DOMAIN w.objects, w.objects[id].gone = "no",
         NEW o \in Objects, o = w.objects[id].obj,
         NEW ao \in ActiveObject, SameData(w.objects[id], ao), ao.gone = "removal",
         NEW u, Recorded(w, u, id, ao),
         NEW v, Dooms(u, v, o)
  PROVE  Settled(v, v, Objects, A, A)
<1>1. Linked(w) /\ InPlace(w, disk, o) /\ OnDisk(w, disk, o) /\ Sound(w, disk, Objects)
  BY DEF Settled, Sound
<1>2. Rewrites(w, w, u, id, o, ao) /\ Counted(w, u, o) /\ SameStored(w, u, o)
  BY <1>1, RecordMoves
<1>3. Moves(w, u, id, o) /\ id \in DOMAIN u.objects /\ u.objects[id] = ao
      /\ u.blocks = w.blocks /\ u.fate = w.fate
  BY <1>2 DEF Rewrites
<1>4. PICK new : new = "removed"
  OBVIOUS
<1>5. Meets(w, u, v, id, o, new)
  <2>1. new \in Fates
    BY <1>4 DEF Fates
  <2>2. v = [u EXCEPT !.fate = Fated(@, {o}, new)]
    BY <1>4 DEF Dooms
  <2>. QED  BY <1>3, <2>1, <2>2, FatedMoves
<1>6. /\ Moves(w, v, id, o) /\ v.blocks = u.blocks /\ v.objects = u.objects
      /\ v.fate[o] = IF w.fate[o] = "alive" THEN "removed" ELSE w.fate[o]
  BY <1>3, <1>4, <1>5 DEF Meets
<1>7. id \in ActiveAs(w, o) /\ Lives(w, id)
  BY DEF ActiveAs, Lives
<1>8. w.fate[o] \notin {"none", "removed", "cleared"}
  BY <1>1, <1>7 DEF InPlace
<1>9. SameStored(w, v, o) /\ Counted(w, v, o)
  BY <1>2, <1>6 DEF SameStored, Counted
<1>10. InPlace(v, disk, o)
  <2>1. CASE w.fate[o] # "alive"
    BY <1>6, <1>8, <2>1 DEF InPlace
  <2>2. CASE w.fate[o] = "alive"
    <3>1. NoneLaid(w, disk, o) /\ ActiveAs(w, o) = {id}
      BY <1>1, <2>2, PlaceActive DEF Followed, Sure
    <3>2. NoneLaid(v, disk, o)
      BY <1>9, <3>1, PlaceFetched DEF SameStored
    <3>3. ActiveAs(v, o) = {id}
      BY <1>3, <1>6, <1>7, <3>1, OwnObjects
    <3>4. ~Lives(v, id)
      BY <1>3, <1>6 DEF Lives
    <3>. QED  BY <1>6, <2>2, <3>2, <3>3, <3>4 DEF InPlace
  <2>. QED  BY <2>1, <2>2
<1>11. OnDisk(v, disk, o)
  <2>1. Tracks(w, v, o)
    BY <1>6, <1>8, <1>9 DEF Tracks, Sure, Followed
  <2>. QED  BY <1>1, <1>6, <2>1, MovesOnDisk
<1>12. Sound(v, disk, Objects)
  BY <1>1, <1>6, <1>10, <1>11, StepSound
<1>13. Unaged(v, A) /\ ClearedOut(v, disk, A)
  <2>1. v.fate[o] # "cleared"
    BY <1>6, <1>8
  <2>. QED  BY <1>6, <2>1, MovesUnaged, MovesCleared DEF Settled
<1>. QED  BY <1>6, <1>12, <1>13 DEF Settled, Moves

LEMMA OneObjectSound ==
  ASSUME Inv, SoundInv, NEW id \in DOMAIN m_active_objects, NEW p \in Positions,
         RemoveObject(id) \/ KnownChanges(id) \/ MoveObject(id, p)
  PROVE  SoundInv'
<1>1. m_active_objects[id] \in ActiveObject
  BY InvParts, PartialMember
<1>2. CASE RemoveObject(id)
  <2>1. PICK w, A : Before(w, A)
    BY BeforeStep
  <2>2. /\ DiskOK /\ w \in Worlds /\ A \in SUBSET Positions /\ Settled(w, w, Objects, A, A)
        /\ id \in DOMAIN w.objects /\ w.objects[id] = m_active_objects[id]
        /\ w.objects \in Partial(Ids, ActiveObject)
    BY <2>1, WorldParts DEF Before
  <2>3. PICK o \in Objects : o = w.objects[id].obj
    BY <2>2, WorldParts DEF ActiveObject
  <2>4. PICK ao : ao = [m_active_objects[id] EXCEPT !.gone = "removal"]
    OBVIOUS
  <2>5. ao \in ActiveObject /\ SameData(m_active_objects[id], ao) /\ ao.gone = "removal"
    BY <1>1, <2>4 DEF ActiveObject, SameData
  <2>6. w.objects[id].gone = "no"
    BY <1>2, <2>2 DEF RemoveObject, Gone
  <2>7. PICK u : u = [w EXCEPT !.objects = Put(@, id, ao)]
    OBVIOUS
  <2>8. /\ Recorded(w, u, id, ao) /\ u.objects = Put(w.objects, id, ao)
        /\ u.blocks = w.blocks /\ u.fate = w.fate
    BY <2>2, <2>7 DEF Recorded, Worlds
  <2>9. PICK v : v = [u EXCEPT !.fate = Fated(@, {o}, "removed")]
    OBVIOUS
  <2>10. Settled(v, v, Objects, A, A)
    BY <2>2, <2>3, <2>5, <2>6, <2>8, <2>9, RemoveSettles DEF Dooms
  <2>11. Become(v) /\ disk' = disk /\ m_active_blocks' = A
    <3>1. m_active_objects' = Put(w.objects, id, ao)
      <4>1. PICK m : m = m_active_objects
        OBVIOUS
      <4>2. m = w.objects /\ m = [i \in DOMAIN m |-> m[i]] /\ id \in DOMAIN m
        BY <2>1, <2>2, <4>1, PartialMember DEF Before
      <4>3. Put(m, id, ao) = [m EXCEPT ![id] = ao]
        BY <4>2 DEF Put
      <4>4. m_active_objects' = [m EXCEPT ![id] = ao]
        BY <1>2, <2>4, <4>1 DEF RemoveObject
      <4>. QED  BY <4>2, <4>3, <4>4
    <3>2. v.blocks = blocks /\ v.objects = Put(w.objects, id, ao)
          /\ v.fate = Fated(w.fate, {o}, "removed")
      <4>1. PICK f : f = Fated(w.fate, {o}, "removed")
        OBVIOUS
      <4>2. v = [u EXCEPT !.fate = f]
        BY <2>8, <2>9, <4>1
      <4>3. u = [w EXCEPT !.objects = u.objects]
        BY <2>7, <2>8
      <4>4. v = [blocks |-> w.blocks, objects |-> u.objects, fate |-> f]
        BY <2>2, <4>2, <4>3 DEF Worlds
      <4>. QED  BY <2>1, <2>8, <4>1, <4>4 DEF Before
    <3>3. fate' = Fated(w.fate, {o}, "removed")
      BY <1>2, <2>1, <2>2, <2>3 DEF RemoveObject, Before
    <3>. QED  BY <1>2, <2>1, <3>1, <3>2, <3>3 DEF Become, Before, RemoveObject, mapVars
  <2>. QED  BY <2>10, <2>11, SettledAfter
<1>3. CASE KnownChanges(id)
  <2>1. PICK ao : ao = [m_active_objects[id] EXCEPT !.known = ~@]
    OBVIOUS
  <2>2. /\ ao \in ActiveObject /\ SameData(m_active_objects[id], ao)
        /\ ao.gone = m_active_objects[id].gone
    BY <1>1, <2>1 DEF ActiveObject, SameData
  <2>3. m_active_objects' = [m_active_objects EXCEPT ![id] = ao]
    BY <1>3, <2>1 DEF KnownChanges
  <2>4. UNCHANGED <<mapVars, m_active_blocks, fate>>
    BY <1>3 DEF KnownChanges
  <2>. QED  BY <2>2, <2>3, <2>4, RecordSound
<1>4. CASE MoveObject(id, p)
  <2>1. PICK ao : ao = [m_active_objects[id] EXCEPT !.pos = p]
    OBVIOUS
  <2>2. /\ ao \in ActiveObject /\ SameData(m_active_objects[id], ao)
        /\ ao.gone = m_active_objects[id].gone
    BY <1>1, <2>1 DEF ActiveObject, SameData
  <2>3. m_active_objects' = [m_active_objects EXCEPT ![id] = ao]
    BY <1>4, <2>1 DEF MoveObject
  <2>4. UNCHANGED <<mapVars, m_active_blocks, fate>>
    BY <1>4 DEF MoveObject
  <2>. QED  BY <2>2, <2>3, <2>4, RecordSound
<1>. QED  BY <1>2, <1>3, <1>4

LEMMA RemovedSound ==
  ASSUME Inv, SoundInv, removeRemovedObjects
  PROVE  SoundInv'
<1>1. PICK w, A : Before(w, A)
  BY BeforeStep
<1>2. /\ DiskOK /\ w \in Worlds /\ A \in SUBSET Positions /\ Settled(w, w, Objects, A, A)
      /\ w.objects = m_active_objects /\ w.objects \in Partial(Ids, ActiveObject)
  BY <1>1, WorldParts DEF Before
<1>3. PICK S : S = Gone(m_active_objects)
  OBVIOUS
<1>4. S \in SUBSET (DOMAIN w.objects) /\ \A id \in S : w.objects[id].gone # "no"
  BY <1>2, <1>3 DEF Gone
<1>5. IsFiniteSet(S)
  BY <1>2, <1>4, PartialMember, FS_Subset
<1>6. PICK seq, n : seq = SetToSeq(S) /\ n = Cardinality(S)
  OBVIOUS
<1>7. seq \in [1..n -> S] /\ Order(seq, n, DOMAIN w.objects)
  BY <1>4, <1>5, <1>6, SetToSeqOrders DEF Order
<1>8. \A i \in 1..n : w.objects[seq[i]].gone # "no"
  BY <1>4, <1>7
<1>9. PICK v : v = FoldLeft(removeRemovedObject, w, seq)
  OBVIOUS
<1>10. Settled(w, v, Objects, A, A)
  BY <1>2, <1>7, <1>8, <1>9, GoneSettles
<1>11. Become(v) /\ disk' = disk /\ m_active_blocks' = A
  BY <1>1, <1>3, <1>6, <1>9 DEF removeRemovedObjects, Before
<1>. QED  BY <1>10, <1>11, SettledAfter

-----------------------------------------------------------------------------
(* The actions of the map. *)
Marked(b0, b) ==
  /\ b.active = b0.active /\ b.stored = b0.stored /\ b.stamp = b0.stamp /\ b.old = b0.old
  /\ b.modified # WriteNeeded => b0.modified # WriteNeeded

LEMMA RaisedMarked ==
  ASSUME NEW b0 \in MapBlock, NEW state \in {WriteAtUnload, WriteNeeded},
         NEW b, b = Raised(b0, state)
  PROVE  b \in MapBlock /\ Marked(b0, b)
<1>1. /\ b \in MapBlock /\ b = [b0 EXCEPT !.modified = b.modified]
      /\ b0.modified = WriteNeeded => b.modified = WriteNeeded
  BY RaisedBlock
<1>2. b.active = b0.active /\ b.stored = b0.stored /\ b.stamp = b0.stamp /\ b.old = b0.old
  BY <1>1 DEF MapBlock
<1>. QED  BY <1>1, <1>2 DEF Marked

LEMMA MarkedRests ==
  ASSUME NEW w, NEW b0, NEW b, Marked(b0, b)
  PROVE  Rests(w, b0, b)
BY DEF Marked, Rests

LEMMA MapQuiet ==
  ASSUME Inv', NEW w, NEW A, Before(w, A), NEW bs, bs = blocks', DOMAIN blocks \subseteq DOMAIN bs,
         \A p \in DOMAIN bs :
            Rests(w, Fetched(blocks, p), bs[p]) /\ Young(Fetched(blocks, p), bs[p]),
         UNCHANGED <<disk, envVars>>
  PROVE  SoundInv'
<1>1. /\ DiskOK /\ w \in Worlds /\ w = World /\ w.blocks = blocks
      /\ w.objects = m_active_objects /\ w.fate = fate
      /\ A = m_active_blocks /\ Settled(w, w, Objects, A, A) /\ Unaged(w, A)
  BY DEF Before, Settled
<1>2. PICK v : v = World'
  OBVIOUS
<1>3. v \in Worlds /\ v.blocks = bs /\ v.objects = m_active_objects /\ v.fate = fate
  <2>1. World' \in Worlds
    BY DEF Inv, TypeOK
  <2>2. v = [blocks |-> bs, objects |-> m_active_objects, fate |-> fate]
    BY <1>2 DEF World, envVars
  <2>. QED  BY <1>2, <2>1, <2>2
<1>4. Quiet(w, v)
  BY <1>1, <1>3 DEF Quiet
<1>5. Unaged(v, A)
  BY <1>1, <1>3, QuietUnaged
<1>6. Settled(v, v, Objects, A, A)
  BY <1>1, <1>4, <1>5, QuietSettles
<1>7. Become(v) /\ disk' = disk /\ m_active_blocks' = A
  BY <1>1, <1>3 DEF Become, envVars
<1>. QED  BY <1>6, <1>7, SettledAfter

LEMMA GetSound ==
  ASSUME Inv, SoundInv, NEW p \in Positions, NEW allow_gen \in BOOLEAN,
         MapAction(GetBlockOrStartGen(p, allow_gen))
  PROVE  SoundInv'
<1>. DEFINE mem == EmergeBlock(blocks, p, FALSE)
<1>1. Inv'
  BY GetKeeps DEF Kept
<1>2. PICK w, A : Before(w, A)
  BY BeforeStep
<1>3. /\ UNCHANGED <<disk, kept, envVars>>
      /\ \/ InitBlockMake(mem, p)
         \/ blocks' = mem /\ UNCHANGED making
  BY DEF MapAction, GetBlockOrStartGen
<1>4. DiskOK /\ blocks \in Memory
  BY InvParts
<1>5. mem \in Memory /\ DOMAIN blocks \subseteq DOMAIN mem
  BY <1>4, EmergeKeeps DEF Keeps
<1>6. \A x : Fetched(mem, x) = Fetched(blocks, x)
  BY FetchedAfter
<1>7. PICK bs : bs = blocks'
  OBVIOUS
<1>8. DOMAIN blocks \subseteq DOMAIN bs /\ \A x \in DOMAIN bs : bs[x] = Fetched(blocks, x)
  <2>1. CASE InitBlockMake(mem, p)
    <3>1. bs = [x \in Positions |-> EmergeBlock(mem, x, TRUE)[x]]
      BY <1>7, <2>1, Zenon DEF InitBlockMake
    <3>2. \A x \in Positions : EmergeBlock(mem, x, TRUE)[x] = Fetched(mem, x)
      <4>. HIDE DEF mem
      <4>. QED  BY <1>4, <1>5, EmergeKeeps
    <3>3. DOMAIN blocks \subseteq Positions
      BY <1>4, PartialMember DEF Memory
    <3>. HIDE DEF mem
    <3>. QED  BY <1>6, <3>1, <3>2, <3>3
  <2>2. CASE blocks' = mem
    <3>. HIDE DEF mem
    <3>. QED  BY <1>5, <1>6, <1>7, <2>2 DEF Fetched
  <2>. QED  BY <1>3, <2>1, <2>2
<1>9. \A x \in DOMAIN bs : /\ Rests(w, Fetched(blocks, x), bs[x])
                           /\ Young(Fetched(blocks, x), bs[x])
  BY <1>8 DEF Rests, Young
<1>. QED  BY <1>1, <1>2, <1>3, <1>7, <1>8, <1>9, MapQuiet

LEMMA EditSound ==
  ASSUME Inv, SoundInv, NEW p \in Positions, NEW e \in Edits, MapAction(EditNode(p, e))
  PROVE  SoundInv'
<1>1. Inv'
  BY EditKeeps DEF Kept
<1>2. PICK w, A : Before(w, A)
  BY BeforeStep
<1>3. PICK b0 \in MapBlock : b0 = blocks[p]
  BY InvParts, PartialMember DEF MapAction, EditNode, Memory
<1>4. PICK r : r = Raised(b0, WriteNeeded)
  OBVIOUS
<1>5. PICK b : b = [r EXCEPT !.nodes = @ \cup {e}]
  OBVIOUS
<1>6. /\ p \in DOMAIN blocks /\ blocks' = Put(blocks, p, b)
      /\ UNCHANGED <<disk, making, envVars>>
  BY <1>3, <1>4, <1>5 DEF MapAction, EditNode
<1>7. r \in MapBlock /\ Marked(b0, r)
  BY <1>4, RaisedMarked
<1>8. /\ b.active = r.active /\ b.stored = r.stored /\ b.stamp = r.stamp
      /\ b.old = r.old /\ b.modified = r.modified
  BY <1>5, <1>7 DEF MapBlock
<1>9. Rests(w, b0, b) /\ Young(b0, b)
  BY <1>7, <1>8 DEF Marked, Rests, Young
<1>10. PICK bs : bs = blocks'
  OBVIOUS
<1>11. /\ DOMAIN bs = DOMAIN blocks /\ bs[p] = b
       /\ \A x \in DOMAIN bs \ {p} : bs[x] = blocks[x]
  BY <1>6, <1>10 DEF Put
<1>12. ASSUME NEW x \in DOMAIN bs
       PROVE  Rests(w, Fetched(blocks, x), bs[x]) /\ Young(Fetched(blocks, x), bs[x])
  <2>1. Fetched(blocks, x) = blocks[x]
    BY <1>11 DEF Fetched
  <2>2. CASE x = p
    BY <1>3, <1>9, <1>11, <2>1, <2>2
  <2>3. CASE x # p
    BY <1>11, <2>1, <2>3 DEF Rests, Young
  <2>. QED  BY <2>2, <2>3
<1>. QED  BY <1>1, <1>2, <1>6, <1>10, <1>11, <1>12, MapQuiet

(* The active blocks are stamped: they hold nothing that was cleared. *)
LEMMA TimersSound ==
  ASSUME Inv, SoundInv, NEW expired, RunNodeTimers(expired)
  PROVE  SoundInv'
<1>1. Inv'
  BY TimersKeep DEF Kept
<1>2. PICK w, A : Before(w, A)
  BY BeforeStep
<1>3. blocks \in Memory /\ UNCHANGED <<disk, envVars>>
  BY InvParts DEF RunNodeTimers
<1>4. PICK bs : bs = blocks'
  OBVIOUS
<1>5. DOMAIN bs = DOMAIN blocks
  BY <1>4 DEF RunNodeTimers
<1>6. ASSUME NEW p \in DOMAIN bs
      PROVE  Rests(w, Fetched(blocks, p), bs[p]) /\ Young(Fetched(blocks, p), bs[p])
  <2>1. PICK b \in MapBlock : b = blocks[p]
    BY <1>3, <1>5, PartialMember DEF Memory
  <2>2. Fetched(blocks, p) = b
    BY <1>5, <2>1 DEF Fetched
  <2>3. PICK b1 : b1 = [b EXCEPT !.old = FALSE, !.stamp = Valid]
    OBVIOUS
  <2>4. PICK b2 : b2 = Raised(b1, WriteAtUnload)
    OBVIOUS
  <2>5. CASE p \notin m_active_blocks
    <3>1. bs[p] = b
      BY <1>4, <1>5, <2>1, <2>5 DEF RunNodeTimers
    <3>. QED  BY <2>2, <3>1 DEF Rests, Young
  <2>6. CASE p \in m_active_blocks
    <3>1. bs[p] = b1 \/ bs[p] = b2
      BY <1>4, <1>5, <2>1, <2>3, <2>4, <2>6 DEF RunNodeTimers
    <3>2. /\ b1 \in MapBlock /\ b1.active = b.active /\ b1.stored = b.stored
          /\ b1.modified = b.modified /\ b1.old = FALSE
      BY <2>3 DEF MapBlock, Stamps
    <3>3. Marked(b1, b2)
      BY <2>4, <3>2, RaisedMarked
    <3>4. \A x \in Objects : w.fate[x] = "cleared" => b.stored[x] = 0
      BY <1>2, <1>5, <2>1, <2>6 DEF Before, Settled, ClearedOut
    <3>5. CASE bs[p] = b1
      BY <2>2, <3>2, <3>4, <3>5 DEF Rests, Young
    <3>6. CASE bs[p] = b2
      BY <2>2, <3>2, <3>3, <3>4, <3>6 DEF Rests, Marked, Young
    <3>. QED  BY <3>1, <3>5, <3>6
  <2>. QED  BY <2>5, <2>6
<1>. QED  BY <1>1, <1>2, <1>3, <1>4, <1>5, <1>6, MapQuiet

(* The end of a chunk: all blocks are marked. *)
LEMMA MadeMarked ==
  ASSUME Inv, NEW p \in DOMAIN making, NEW bs, bs = FinishBlockMake(p)
  PROVE  bs \in Memory /\ DOMAIN bs = DOMAIN blocks
         /\ \A q \in DOMAIN bs : Marked(blocks[q], bs[q])
<1>1. /\ blocks \in Memory /\ DOMAIN blocks \subseteq Positions
      /\ \A q \in DOMAIN blocks : blocks[q] \in MapBlock
  BY InvParts, PartialMember DEF Memory
<1>2. bs \in Memory /\ DOMAIN bs = DOMAIN blocks
      /\ \A q \in DOMAIN bs : bs[q] \in MapBlock /\ bs[q].modified = WriteNeeded
  BY MadeBlocks DEF MadeFrom
<1>3. ASSUME NEW q \in DOMAIN bs
      PROVE  Marked(blocks[q], bs[q])
  <2>1. PICK b0 \in MapBlock : b0 = blocks[q]
    BY <1>1, <1>2
  <2>2. PICK r : r = Raised(b0, WriteNeeded)
    OBVIOUS
  <2>3. PICK nodes : nodes = making[p][q] \cup (IF q = p THEN {Terrain} ELSE {})
    OBVIOUS
  <2>4. r \in MapBlock /\ Marked(b0, r)
    BY <2>2, RaisedMarked
  <2>5. PICK g \in BOOLEAN : g <=> r.generated \/ q = p
    OBVIOUS
  <2>6. bs[q] = [r EXCEPT !.nodes = nodes, !.generated = g]
    <3>1. bs[q] = [r EXCEPT !.nodes = nodes, !.generated = @ \/ q = p]
      BY <1>2, <2>1, <2>2, <2>3 DEF FinishBlockMake
    <3>. QED  BY <2>4, <2>5, <3>1 DEF MapBlock
  <2>7. /\ bs[q].active = r.active /\ bs[q].stored = r.stored
        /\ bs[q].stamp = r.stamp /\ bs[q].old = r.old
    BY <2>4, <2>6 DEF MapBlock
  <2>8. bs[q].modified = WriteNeeded
    BY <1>2
  <2>. QED  BY <2>1, <2>4, <2>7, <2>8 DEF Marked
<1>. QED  BY <1>2, <1>3

LEMMA FinishSound ==
  ASSUME Inv, SoundInv, NEW p \in Positions, FinishGen(p)
  PROVE  SoundInv'
<1>1. PICK w, A : Before(w, A)
  BY BeforeStep
<1>2. /\ DiskOK /\ w \in Worlds /\ w = World /\ w.blocks = blocks
      /\ A \in SUBSET Positions /\ A = m_active_blocks
      /\ Settled(w, w, Objects, A, A) /\ Unaged(w, A)
      /\ w.objects \in Partial(Ids, ActiveObject) /\ w.fate \in [Objects -> Fates]
  BY <1>1, WorldParts DEF Before, Settled
<1>3. p \in DOMAIN making /\ UNCHANGED <<disk, kept, m_active_blocks>>
  BY DEF FinishGen
<1>4. PICK bs : bs = FinishBlockMake(p)
  OBVIOUS
<1>5. /\ bs \in Memory /\ DOMAIN bs = DOMAIN blocks
      /\ \A q \in DOMAIN bs : Marked(blocks[q], bs[q])
  BY <1>3, <1>4, MadeMarked
<1>6. PICK made : made = [w EXCEPT !.blocks = bs]
  OBVIOUS
<1>7. /\ made \in Worlds /\ made.blocks = bs /\ made.objects = w.objects
      /\ made.fate = w.fate
  BY <1>2, <1>5, <1>6 DEF Worlds
<1>8. PICK v : v = IF p \in DOMAIN blocks THEN activateBlock(made, p) ELSE made
  OBVIOUS
<1>9. Become(v)
  <2>1. made = [World EXCEPT !.blocks = FinishBlockMake(p)]
    BY <1>2, <1>4, <1>6
  <2>. QED  BY <1>8, <2>1 DEF FinishGen
<1>10. Settled(made, made, Objects, A, A)
  <2>1. Quiet(w, made)
    BY <1>2, <1>5, <1>7, MarkedRests DEF Quiet, Fetched
  <2>2. Unaged(made, A)
    BY <1>2, <1>5, <1>7 DEF Unaged, Marked
  <2>. QED  BY <1>2, <2>1, <2>2, QuietSettles
<1>11. Settled(made, v, Objects, A, A)
  <2>1. CASE p \in DOMAIN blocks
    <3>1. Sound(made, disk, Objects) /\ p \in DOMAIN made.blocks
      BY <1>5, <1>7, <1>10, <2>1 DEF Settled
    <3>2. Activates(made, v, p, FALSE)
      BY <1>2, <1>7, <1>8, <2>1, <3>1, BlockActivates
    <3>. QED  BY <1>10, <3>1, <3>2, ActivatesSettles
  <2>2. CASE p \notin DOMAIN blocks
    BY <1>8, <1>10, <2>2
  <2>. QED  BY <2>1, <2>2
<1>. QED  BY <1>2, <1>3, <1>9, <1>11, SettledAfter

-----------------------------------------------------------------------------
(* The active blocks are managed. *)
LEMMA AgingQuiet ==
  ASSUME NEW w \in Worlds, NEW near, NEW v, v = AgedIn(w, near)
  PROVE  Quiet(w, v) /\ Unaged(v, near)
<1>1. /\ w.blocks \in Memory /\ w.objects \in Partial(Ids, ActiveObject)
      /\ w.fate \in [Objects -> Fates]
      /\ \A p \in DOMAIN w.blocks : w.blocks[p] \in MapBlock /\ p \in Positions
      /\ IsFiniteSet(DOMAIN w.blocks)
  BY WorldParts, PartialMember DEF Memory
<1>2. PICK bs : bs = [p \in DOMAIN w.blocks |-> [w.blocks[p] EXCEPT !.old = p \notin near]]
  OBVIOUS
<1>3. v = [w EXCEPT !.blocks = bs]
  BY <1>2 DEF AgedIn
<1>4. ASSUME NEW p \in DOMAIN bs
      PROVE  /\ bs[p] \in MapBlock /\ Rests(w, w.blocks[p], bs[p])
             /\ p \in near => bs[p].old = FALSE
  <2>1. PICK b \in MapBlock : b = w.blocks[p]
    BY <1>1, <1>2
  <2>2. PICK old \in BOOLEAN : old = (p \notin near)
    OBVIOUS
  <2>3. PICK c : c = bs[p]
    OBVIOUS
  <2>4. c = [b EXCEPT !.old = old]
    BY <1>2, <2>1, <2>2, <2>3
  <2>5. /\ c \in MapBlock /\ c.stored = b.stored /\ c.active = b.active
        /\ c.modified = b.modified /\ c.stamp = b.stamp /\ c.old = old
    BY <2>4 DEF MapBlock
  <2>. QED  BY <2>1, <2>2, <2>3, <2>5 DEF Rests
<1>5. DOMAIN bs = DOMAIN w.blocks /\ bs \in Memory
  <2>1. DOMAIN bs = DOMAIN w.blocks /\ bs = [p \in DOMAIN bs |-> bs[p]]
    BY <1>2
  <2>. QED  BY <1>1, <1>4, <2>1, PartialMember DEF Memory
<1>6. v \in Worlds /\ v.blocks = bs /\ v.objects = w.objects /\ v.fate = w.fate
  BY <1>1, <1>3, <1>5 DEF Worlds
<1>7. Quiet(w, v)
  BY <1>4, <1>5, <1>6 DEF Quiet, Fetched
<1>. QED  BY <1>4, <1>5, <1>6, <1>7 DEF Unaged

(* Blocks that are not active any more held nothing that was cleared. *)
LEMMA StampingQuiet ==
  ASSUME NEW w \in Worlds, NEW left, ClearedOut(w, disk, left), NEW v,
         v = [w EXCEPT !.blocks = [p \in DOMAIN @ |->
                IF p \in left THEN [Raised(@[p], WriteAtUnload) EXCEPT !.stamp = Valid]
                ELSE @[p]]]
  PROVE  /\ Quiet(w, v) /\ DOMAIN v.blocks = DOMAIN w.blocks
         /\ \A p \in DOMAIN w.blocks : v.blocks[p].old = w.blocks[p].old
<1>1. /\ w.blocks \in Memory /\ w.objects \in Partial(Ids, ActiveObject)
      /\ w.fate \in [Objects -> Fates]
      /\ \A p \in DOMAIN w.blocks : w.blocks[p] \in MapBlock /\ p \in Positions
      /\ IsFiniteSet(DOMAIN w.blocks)
  BY WorldParts, PartialMember DEF Memory
<1>2. PICK bs : bs = [p \in DOMAIN w.blocks |->
                IF p \in left THEN [Raised(w.blocks[p], WriteAtUnload) EXCEPT !.stamp = Valid]
                ELSE w.blocks[p]]
  OBVIOUS
<1>3. v = [w EXCEPT !.blocks = bs]
  BY <1>2
<1>4. ASSUME NEW p \in DOMAIN bs
      PROVE  bs[p] \in MapBlock /\ Rests(w, w.blocks[p], bs[p]) /\ bs[p].old = w.blocks[p].old
  <2>1. PICK b \in MapBlock : b = w.blocks[p]
    BY <1>1, <1>2
  <2>2. PICK c : c = bs[p]
    OBVIOUS
  <2>3. CASE p \notin left
    <3>1. c = b
      BY <1>2, <2>1, <2>2, <2>3
    <3>. QED  BY <2>1, <2>2, <3>1 DEF Rests
  <2>4. CASE p \in left
    <3>1. PICK r : r = Raised(b, WriteAtUnload)
      OBVIOUS
    <3>2. c = [r EXCEPT !.stamp = Valid]
      BY <1>2, <2>1, <2>2, <2>4, <3>1
    <3>3. r \in MapBlock /\ Marked(b, r)
      BY <3>1, RaisedMarked
    <3>4. /\ c \in MapBlock /\ c.stored = r.stored /\ c.active = r.active
          /\ c.modified = r.modified /\ c.old = r.old
      BY <3>2, <3>3 DEF MapBlock, Stamps
    <3>5. \A x \in Objects : w.fate[x] = "cleared" => b.stored[x] = 0
      BY <1>2, <2>1, <2>4 DEF ClearedOut
    <3>. QED  BY <2>1, <2>2, <3>3, <3>4, <3>5 DEF Rests, Marked
  <2>. QED  BY <2>3, <2>4
<1>5. DOMAIN bs = DOMAIN w.blocks /\ bs \in Memory
  <2>1. DOMAIN bs = DOMAIN w.blocks /\ bs = [p \in DOMAIN bs |-> bs[p]]
    BY <1>2
  <2>. QED  BY <1>1, <1>4, <2>1, PartialMember DEF Memory
<1>6. v \in Worlds /\ v.blocks = bs /\ v.objects = w.objects /\ v.fate = w.fate
  BY <1>1, <1>3, <1>5 DEF Worlds
<1>. QED  BY <1>4, <1>5, <1>6 DEF Quiet, Fetched

LEMMA UpdateSound ==
  ASSUME Inv, SoundInv, NEW near \in SUBSET Positions, NEW changed, NEW order \in Orders,
         UpdateActiveBlocks(near, changed, order)
  PROVE  SoundInv'
<1>. DEFINE aged == [World EXCEPT !.blocks =
                       [p \in DOMAIN @ |-> [@[p] EXCEPT !.old = p \notin near]]]
            far == FoldLeft(LAMBDA w, id : deactivateFarObject(w, id, near, id \in changed),
                            aged, order)
            left == (m_active_blocks \ near) \cap DOMAIN far.blocks
            stamped == [far EXCEPT !.blocks = [p \in DOMAIN @ |->
                IF p \in left THEN [Raised(@[p], WriteAtUnload) EXCEPT !.stamp = Valid]
                ELSE @[p]]]
            added == near \ m_active_blocks
            there == added \cap DOMAIN far.blocks
            v == FoldLeft(activateBlock, stamped, SetToSeq(there))
<1>1. PICK w, A : Before(w, A)
  BY BeforeStep
<1>2. /\ DiskOK /\ w \in Worlds /\ w = World /\ w.objects = m_active_objects
      /\ A \in SUBSET Positions /\ A = m_active_blocks
      /\ Settled(w, w, Objects, A, A)
      /\ w.objects \in Partial(Ids, ActiveObject)
  BY <1>1, WorldParts DEF Before
<1>3. /\ Become(v) /\ UNCHANGED <<disk, making, kept>>
      /\ m_active_blocks' = near \ (added \ there)
  BY DEF UpdateActiveBlocks
<1>4. /\ aged \in Worlds /\ aged.objects = w.objects
      /\ Settled(aged, aged, Objects, A, near)
  <2>1. PICK a : a = AgedIn(w, near)
    OBVIOUS
  <2>2. Quiet(w, a) /\ Unaged(a, near)
    BY <1>2, <2>1, AgingQuiet
  <2>3. Settled(a, a, Objects, A, near)
    BY <1>2, <2>2, QuietSettles
  <2>4. a = aged
    BY <1>2, <2>1 DEF AgedIn
  <2>. HIDE DEF aged
  <2>. QED  BY <2>2, <2>3, <2>4 DEF Quiet
<1>. HIDE DEF aged
<1>5. Settled(aged, far, Objects, A, near)
  <2>1. PICK n : n = Cardinality(DOMAIN m_active_objects)
    OBVIOUS
  <2>2. Order(order, n, DOMAIN aged.objects)
    BY <1>2, <1>4, <2>1, OrdersAreOrders DEF Orders
  <2>3. Settled(aged, FarDone(aged, near, changed, order), Objects, A, near)
    BY <1>2, <1>4, <2>2, FarSettles
  <2>4. far = FarDone(aged, near, changed, order)
    BY DEF FarDone
  <2>. HIDE DEF far
  <2>. QED  BY <2>3, <2>4
<1>. HIDE DEF far
<1>6. far \in Worlds /\ Settled(far, far, Objects, A, near) /\ ClearedOut(far, disk, A)
  BY <1>5 DEF Settled
<1>7. /\ stamped \in Worlds /\ DOMAIN stamped.blocks = DOMAIN far.blocks
      /\ Settled(stamped, stamped, Objects, A, near)
  <2>1. PICK l : l = left
    OBVIOUS
  <2>2. PICK s : s = [far EXCEPT !.blocks = [p \in DOMAIN @ |->
                IF p \in l THEN [Raised(@[p], WriteAtUnload) EXCEPT !.stamp = Valid]
                ELSE @[p]]]
    OBVIOUS
  <2>3. ClearedOut(far, disk, l)
    BY <1>2, <1>6, <2>1 DEF ClearedOut
  <2>4. /\ Quiet(far, s) /\ DOMAIN s.blocks = DOMAIN far.blocks
        /\ \A p \in DOMAIN far.blocks : s.blocks[p].old = far.blocks[p].old
    BY <1>6, <2>2, <2>3, StampingQuiet
  <2>5. Unaged(s, near)
    BY <1>6, <2>4 DEF Settled, Unaged
  <2>6. Settled(s, s, Objects, A, near) /\ s \in Worlds
    BY <1>2, <1>6, <2>4, <2>5, QuietSettles DEF Quiet
  <2>7. s = stamped
    BY <2>1, <2>2
  <2>. QED  BY <2>4, <2>6, <2>7
<1>. HIDE DEF stamped
<1>8. PICK S : S = there
  OBVIOUS
<1>9. Settled(stamped, v, Objects, A \cup S, near)
  <2>1. S \in SUBSET (DOMAIN stamped.blocks)
    BY <1>7, <1>8
  <2>2. v = FoldLeft(activateBlock, stamped, SetToSeq(S))
    BY <1>8
  <2>. HIDE DEF v
  <2>. QED  BY <1>2, <1>7, <2>1, <2>2, ActivateSettles
<1>. HIDE DEF v
<1>10. m_active_blocks' \subseteq A \cup S /\ m_active_blocks' \subseteq near
  BY <1>2, <1>3, <1>8
<1>. QED  BY <1>3, <1>9, <1>10, SettledAfter

-----------------------------------------------------------------------------
(* clearObjects, one active object: it and its static data go.             *)
Dropped(b0, b) ==
  /\ b.stored = b0.stored /\ b.stamp = b0.stamp /\ b.old = b0.old
  /\ b.modified # WriteNeeded => b0.modified # WriteNeeded /\ b.active = b0.active

DropsBlocks(w, v) ==
  /\ DOMAIN v.blocks = DOMAIN w.blocks
  /\ \A p \in DOMAIN w.blocks : Dropped(w.blocks[p], v.blocks[p])

Drops(w, v, id) ==
  /\ v \in Worlds /\ v.fate = w.fate /\ Linked(v) /\ Unlisted(v, id)
  /\ DropsBlocks(w, v)
  /\ DOMAIN v.objects \ {id} = DOMAIN w.objects \ {id}
  /\ \A i \in DOMAIN w.objects \ {id} : v.objects[i] = w.objects[i]
  /\ id \in DOMAIN v.objects => /\ v.objects[id].obj = w.objects[id].obj
                                /\ v.objects[id].gone = "removal"

LEMMA DeletedDrops ==
  ASSUME DiskOK, NEW w \in Worlds, NEW id \in DOMAIN w.objects,
         NEW v, HasDeleted(w, v, id, TRUE),
         v = w \/ w.objects[id].static_block \in DOMAIN w.blocks
  PROVE  DropsBlocks(w, v)
<1>. DEFINE p == w.objects[id].static_block
            b0 == Fetched(w.blocks, p)
<1>1. CASE v = w
  BY <1>1 DEF DropsBlocks, Dropped
<1>2. CASE v # w
  <2>1. p \in DOMAIN w.blocks
    BY <1>2
  <2>2. PICK b : v.blocks = Put(w.blocks, p, b) /\ Bare(b0, b, id, TRUE)
    BY <1>2 DEF HasDeleted
  <2>3. b0 = w.blocks[p] /\ b0 \in MapBlock
    BY <2>1, WorldParts DEF Fetched
  <2>. HIDE DEF b0, p
  <2>4. b.modified = WriteNeeded
    BY <2>2, <2>3, Marks DEF Bare
  <2>5. Dropped(b0, b)
    BY <2>2, <2>4 DEF Bare, Dropped
  <2>6. /\ DOMAIN v.blocks = DOMAIN w.blocks /\ v.blocks[p] = b
        /\ \A q \in DOMAIN w.blocks \ {p} : v.blocks[q] = w.blocks[q]
    BY <2>1, <2>2 DEF Put
  <2>7. ASSUME NEW q \in DOMAIN w.blocks
        PROVE  Dropped(w.blocks[q], v.blocks[q])
    <3>1. CASE q = p
      BY <2>3, <2>5, <2>6, <3>1
    <3>2. CASE q # p
      BY <2>6, <3>2 DEF Dropped
    <3>. QED  BY <3>1, <3>2
  <2>. QED  BY <2>6, <2>7 DEF DropsBlocks
<1>. QED  BY <1>1, <1>2

LEMMA ClearObjectDrops ==
  ASSUME DiskOK, NEW w \in Worlds, Linked(w), NEW id \in DOMAIN w.objects,
         NEW v, v = ClearObject(w, id)
  PROVE  Drops(w, v, id)
<1>1. PICK u : u = IF w.objects[id].static_block \in DOMAIN w.blocks
                   THEN deleteStaticFromBlock(w, id, TRUE) ELSE w
  OBVIOUS
<1>2. HasDeleted(w, u, id, TRUE)
      /\ (u = w \/ w.objects[id].static_block \in DOMAIN w.blocks)
  <2>1. CASE w.objects[id].static_block \in DOMAIN w.blocks
    <3>1. u = deleteStaticFromBlock(w, id, TRUE) /\ TRUE \in BOOLEAN
      BY <1>1, <2>1
    <3>. QED  BY <2>1, <3>1, DeleteHolds
  <2>2. CASE w.objects[id].static_block \notin DOMAIN w.blocks
    BY <1>1, <2>2 DEF HasDeleted
  <2>. QED  BY <2>1, <2>2
<1>3. DropsBlocks(w, u)
  BY <1>2, DeletedDrops
<1>4. PICK o \in Objects : o = w.objects[id].obj
  BY WorldParts DEF ActiveObject
<1>5. /\ Moves(w, u, id, o) /\ Unlisted(u, id) /\ SameRecord(w, u, id) /\ u.fate = w.fate
  <2>1. OwnEntries(w, id, o)
    BY <1>4, LinkedOwn
  <2>2. TRUE \in BOOLEAN
    OBVIOUS
  <2>. QED  BY <1>2, <1>4, <2>1, <2>2, DeleteMoves
<1>6. u \in Worlds /\ id \in DOMAIN u.objects /\ u.objects[id] \in ActiveObject /\ id \in Ids
      /\ u.objects[id].obj = o
  BY <1>5, WorldParts DEF Moves, SameRecord
<1>7. CASE u.objects[id].known
  <2>1. PICK ao : ao = [u.objects[id] EXCEPT !.gone = "removal"]
    OBVIOUS
  <2>2. ao \in ActiveObject /\ SameData(u.objects[id], ao) /\ ao.gone = "removal" /\ ao.obj = o
    BY <1>6, <2>1 DEF ActiveObject, SameData
  <2>3. v = [u EXCEPT !.objects = Put(@, id, ao)]
    <3>1. [u.objects EXCEPT ![id] = ao] = Put(u.objects, id, ao)
      <4>1. u.objects = [i \in DOMAIN u.objects |-> u.objects[i]]
        BY <1>6, WorldParts, PartialMember
      <4>. QED  BY <1>6, <4>1 DEF Put
    <3>2. v = [u EXCEPT !.objects[id].gone = "removal"]
      BY <1>1, <1>7 DEF ClearObject
    <3>3. v = [u EXCEPT !.objects = [u.objects EXCEPT ![id] = ao]]
      BY <2>1, <3>2
    <3>. QED  BY <3>1, <3>3
  <2>4. Rewrites(w, u, v, id, o, ao)
    BY <1>5, <1>6, <2>2, <2>3, RewriteMoves
  <2>5. Unlisted(v, id) /\ DropsBlocks(w, v) /\ v.fate = w.fate
    BY <1>3, <1>5, <2>4 DEF Rewrites, Unlisted, DropsBlocks
  <2>6. Moves(w, v, id, o) /\ v.objects[id] = ao
    BY <2>4 DEF Rewrites
  <2>7. Linked(v)
    BY <2>6, MovesLinked
  <2>. QED  BY <1>4, <2>2, <2>5, <2>6, <2>7 DEF Drops, Moves
<1>8. CASE ~u.objects[id].known
  <2>1. v = Unregister(u, id)
    BY <1>1, <1>8 DEF ClearObject
  <2>2. Ends(w, u, v, id, o)
    BY <1>5, <2>1, UnregisterMoves
  <2>3. Unlisted(v, id) /\ DropsBlocks(w, v) /\ v.fate = w.fate /\ id \notin DOMAIN v.objects
    BY <1>3, <1>5, <2>2 DEF Ends, Unlisted, DropsBlocks
  <2>4. Moves(w, v, id, o)
    BY <2>2 DEF Ends
  <2>5. Linked(v)
    BY <2>4, MovesLinked
  <2>. QED  BY <2>3, <2>4, <2>5 DEF Drops, Moves
<1>. QED  BY <1>7, <1>8

(* The objects of s are gone, or wait to be; the others are as they were.  *)
Doomed(w, v, id) ==
  id \in DOMAIN v.objects =>
    /\ id \in DOMAIN w.objects /\ v.objects[id].obj = w.objects[id].obj
    /\ v.objects[id].gone = "removal" /\ Unlisted(v, id)

Clearing(w, seq, n) ==
  [s \in SUBSET (1..n) |->
     {v \in Worlds :
        /\ v.fate = w.fate /\ Linked(v) /\ DropsBlocks(w, v)
        /\ DOMAIN v.objects \subseteq DOMAIN w.objects
        /\ \A j \in s : Doomed(w, v, seq[j])
        /\ \A j \in (1..n) \ s : /\ seq[j] \in DOMAIN v.objects
                                /\ v.objects[seq[j]] = w.objects[seq[j]]}]

LEMMA DropsTransitive ==
  ASSUME NEW w, NEW v, NEW u, DropsBlocks(w, v), DropsBlocks(v, u)
  PROVE  DropsBlocks(w, u)
<1>1. \A p \in DOMAIN w.blocks : Dropped(w.blocks[p], u.blocks[p])
  BY DEF DropsBlocks, Dropped
<1>. QED  BY <1>1 DEF DropsBlocks

(* Once it has left the lists it does not get in again. *)
LEMMA DropsUnlisted ==
  ASSUME NEW v \in Worlds, NEW u, NEW id, Drops(v, u, id), NEW i, i # id, Unlisted(v, i),
         i \in DOMAIN v.objects, OnlyTouches(v.blocks, u.blocks, id)
  PROVE  Unlisted(u, i)
BY DEF Drops, DropsBlocks, Unlisted, OnlyTouches, Touches, Fetched

LEMMA ClearingSteps ==
  ASSUME DiskOK, NEW w \in Worlds, NEW n, NEW seq, Order(seq, n, DOMAIN w.objects),
         NEW s \in SUBSET (1..n), NEW k \in s, NEW v \in Clearing(w, seq, n)[s \ {k}],
         NEW u, u = ClearObject(v, seq[k])
  PROVE  u \in Clearing(w, seq, n)[s]
<1>1. PICK id : id = seq[k]
  OBVIOUS
<1>2. /\ v \in Worlds /\ v.fate = w.fate /\ Linked(v) /\ DropsBlocks(w, v)
      /\ DOMAIN v.objects \subseteq DOMAIN w.objects
      /\ \A j \in s \ {k} : Doomed(w, v, seq[j])
      /\ id \in DOMAIN v.objects /\ v.objects[id] = w.objects[id]
      /\ \A j \in (1..n) \ s : /\ seq[j] \in DOMAIN v.objects
                              /\ v.objects[seq[j]] = w.objects[seq[j]]
  BY <1>1 DEF Clearing
<1>3. Drops(v, u, id)
  BY <1>1, <1>2, ClearObjectDrops
<1>4. OnlyTouches(v.blocks, u.blocks, id)
  BY <1>1, <1>2, LinkedAgrees, ClearObjectSteps DEF Step
<1>5. \A j \in 1..n : j # k => seq[j] # id
  BY <1>1 DEF Order
<1>6. u \in Worlds /\ u.fate = w.fate /\ Linked(u) /\ DropsBlocks(w, u)
  BY <1>2, <1>3, DropsTransitive DEF Drops
<1>7. DOMAIN u.objects \subseteq DOMAIN w.objects
  BY <1>2, <1>3 DEF Drops
<1>8. ASSUME NEW j \in s
      PROVE  Doomed(w, u, seq[j])
  <2>1. CASE j = k
    BY <1>1, <1>2, <1>3, <2>1 DEF Drops, Doomed
  <2>2. CASE j # k
    <3>1. PICK i : i = seq[j]
      OBVIOUS
    <3>2. i # id /\ Doomed(w, v, i)
      BY <1>2, <1>5, <2>2, <3>1
    <3>3. CASE i \in DOMAIN u.objects
      <4>1. i \in DOMAIN v.objects /\ u.objects[i] = v.objects[i]
        BY <1>3, <3>2, <3>3 DEF Drops
      <4>2. Unlisted(u, i)
        BY <1>2, <1>3, <1>4, <3>2, <4>1, DropsUnlisted DEF Doomed
      <4>. QED  BY <3>1, <3>2, <4>1, <4>2 DEF Doomed
    <3>4. CASE i \notin DOMAIN u.objects
      BY <3>1, <3>4 DEF Doomed
    <3>. QED  BY <3>3, <3>4
  <2>. QED  BY <2>1, <2>2
<1>9. ASSUME NEW j \in (1..n) \ s
      PROVE  seq[j] \in DOMAIN u.objects /\ u.objects[seq[j]] = w.objects[seq[j]]
  BY <1>2, <1>3, <1>5 DEF Drops
<1>. QED  BY <1>6, <1>7, <1>8, <1>9 DEF Clearing

(* All objects are gone or wait to be, without static data. *)
Cleared(w, v) ==
  /\ v \in Worlds /\ v.fate = w.fate /\ DropsBlocks(w, v)
  /\ \A p \in DOMAIN v.blocks : DOMAIN v.blocks[p].active = {}
  /\ \A id \in DOMAIN v.objects :
       /\ id \in DOMAIN w.objects /\ v.objects[id].obj = w.objects[id].obj
       /\ v.objects[id].gone = "removal"

LEMMA AllClear ==
  ASSUME DiskOK, NEW w \in Worlds, Linked(w), NEW n, NEW seq, Order(seq, n, DOMAIN w.objects),
         \A id \in DOMAIN w.objects : \E j \in 1..n : seq[j] = id
  PROVE  Cleared(w, FoldLeft(ClearObject, w, seq))
<1>. DEFINE V == Clearing(w, seq, n)
<1>1. /\ n \in Nat /\ DOMAIN seq = 1..n /\ \A j \in 1..n : seq[j] \in DOMAIN w.objects
      /\ \A s \in SUBSET (1..n) : s # {} => Max(s) \in s
  BY IndexSets DEF Order
<1>2. w \in V[{}]
  <2>1. DropsBlocks(w, w)
    BY DEF DropsBlocks, Dropped
  <2>. QED  BY <1>1, <2>1 DEF Clearing
<1>3. \A s \in SUBSET (1..n) : V[s] \subseteq Worlds
  BY DEF Clearing
<1>4. ASSUME NEW s \in SUBSET (1..n), s # {}, NEW v \in V[s \ {Max(s)}]
      PROVE  ClearObject(v, seq[Max(s)]) \in V[s]
  BY <1>1, <1>4, ClearingSteps
<1>5. PICK v : v = FoldLeft(ClearObject, w, seq)
  OBVIOUS
<1>6. v \in V[1..n]
  <2>. HIDE DEF V
  <2>. QED  BY <1>1, <1>2, <1>3, <1>4, <1>5, ClearInduction
<1>7. /\ v \in Worlds /\ v.fate = w.fate /\ Linked(v) /\ DropsBlocks(w, v)
      /\ DOMAIN v.objects \subseteq DOMAIN w.objects
      /\ \A j \in 1..n : Doomed(w, v, seq[j])
  BY <1>6 DEF Clearing
<1>8. \A id \in DOMAIN v.objects : Doomed(w, v, id)
  BY <1>7
<1>9. \A p \in DOMAIN v.blocks : DOMAIN v.blocks[p].active = {}
  BY <1>7, <1>8 DEF Linked, Doomed, Unlisted
<1>. QED  BY <1>5, <1>7, <1>8, <1>9 DEF Cleared, Doomed

-----------------------------------------------------------------------------
(* clearObjects, one block: what it stores goes if it is checked, and its  *)
(* timestamp is older then.                                                *)
Wipes(b, c, checked) ==
  /\ c.old = b.old /\ (c.stamp = Valid => b.stamp = Valid)
  /\ DOMAIN b.active = {} => DOMAIN c.active = {}
  /\ IF checked THEN \A x \in Objects : c.stored[x] = 0 ELSE c.stored = b.stored
  /\ c.modified # WriteNeeded =>
       /\ b.modified # WriteNeeded /\ c.active = b.active
       /\ checked => \A x \in Objects : b.stored[x] = 0

LEMMA ClearWipes ==
  ASSUME NEW b \in MapBlock, NEW checked \in BOOLEAN, NEW recently \in BOOLEAN,
         NEW c, c = AfterClear(b, checked, recently)
  PROVE  Wipes(b, c, checked)
<1>1. PICK e : e = IF checked = TRUE THEN Emptied(b) ELSE b
  OBVIOUS
<1>2. PICK stamp : stamp = Aged(e.stamp, recently)
  OBVIOUS
<1>3. c = [e EXCEPT !.stamp = stamp]
  BY <1>1, <1>2 DEF AfterClear
<1>4. PICK r : r = Raised(b, WriteNeeded)
  OBVIOUS
<1>5. r \in MapBlock /\ Marked(b, r) /\ r.modified = WriteNeeded
  BY <1>4, RaisedMarked, RaisedBlock
<1>6. /\ EmptyStore \in Stores /\ Nothing \in Partial(Ids, Objects) /\ DOMAIN Nothing = {}
      /\ \A x \in Objects : EmptyStore[x] = 0
  BY StoreTypes, NothingPartial DEF EmptyStore
<1>7. \/ /\ e = b
         /\ checked = TRUE => \A x \in Objects : b.stored[x] = 0
      \/ /\ checked = TRUE
         /\ e = [r EXCEPT !.stored = EmptyStore, !.active = Nothing]
  <2>1. CASE checked = TRUE /\ StoredIn(b.stored) = {} /\ b.active = Nothing
    <3>1. b.stored \in Stores
      BY DEF MapBlock
    <3>2. \A x \in Objects : b.stored[x] = 0
      BY <2>1, <3>1 DEF StoredIn, Stores
    <3>. QED  BY <1>1, <2>1, <3>2 DEF Emptied
  <2>2. CASE checked = TRUE /\ ~(StoredIn(b.stored) = {} /\ b.active = Nothing)
    BY <1>1, <1>4, <2>2 DEF Emptied
  <2>3. CASE checked # TRUE
    BY <1>1, <2>3
  <2>. QED  BY <2>1, <2>2, <2>3
<1>8. /\ e \in MapBlock /\ e.old = b.old /\ e.stamp = b.stamp
      /\ DOMAIN b.active = {} => DOMAIN e.active = {}
      /\ IF checked = TRUE THEN \A x \in Objects : e.stored[x] = 0 ELSE e.stored = b.stored
      /\ e.modified # WriteNeeded =>
           /\ b.modified # WriteNeeded /\ e.active = b.active
           /\ checked = TRUE => \A x \in Objects : b.stored[x] = 0
  <2>1. CASE /\ e = b
             /\ checked = TRUE => \A x \in Objects : b.stored[x] = 0
    BY <2>1
  <2>2. CASE /\ checked = TRUE
             /\ e = [r EXCEPT !.stored = EmptyStore, !.active = Nothing]
    <3>1. /\ e \in MapBlock /\ e.old = r.old /\ e.stamp = r.stamp /\ e.stored = EmptyStore
          /\ e.active = Nothing /\ e.modified = r.modified
      BY <1>5, <1>6, <2>2 DEF MapBlock
    <3>. QED  BY <1>5, <1>6, <2>2, <3>1 DEF Marked
  <2>. QED  BY <1>7, <2>1, <2>2
<1>9. stamp \in Stamps /\ (stamp = Valid => e.stamp = Valid)
  BY <1>2, <1>8 DEF Aged, MapBlock, Stamps, Valid, Outdated
<1>10. /\ c.old = e.old /\ c.stamp = stamp /\ c.active = e.active /\ c.stored = e.stored
       /\ c.modified = e.modified
  BY <1>3, <1>8, <1>9 DEF MapBlock
<1>. QED  BY <1>8, <1>9, <1>10 DEF Wipes

(* What is on disk, likewise. *)
WipesDisk(w, d, full, fresh) ==
  /\ DOMAIN d = DOMAIN disk
  /\ \A p \in DOMAIN disk :
       /\ d[p].stamp = Valid => disk[p].stamp = Valid /\ p \in fresh
       /\ p \in DOMAIN w.blocks \/ ~full => d[p].objects = disk[p].objects
       /\ p \notin DOMAIN w.blocks /\ full => \A x \in Objects : d[p].objects[x] = 0

LEMMA DiskWiped ==
  ASSUME DiskOK, NEW w, w.blocks = blocks, NEW full \in BOOLEAN, NEW fresh,
         NEW d, d = ClearedOnDisk(full, fresh)
  PROVE  WipesDisk(w, d, full, fresh)
<1>1. DOMAIN d = DOMAIN disk /\ \A p \in DOMAIN disk : disk[p] \in BlockCopy
  BY PartialMember DEF DiskOK, ClearedOnDisk
<1>2. ASSUME NEW p \in DOMAIN disk
      PROVE  /\ d[p].stamp = Valid => disk[p].stamp = Valid /\ p \in fresh
             /\ p \in DOMAIN w.blocks \/ ~full => d[p].objects = disk[p].objects
             /\ p \notin DOMAIN w.blocks /\ full => \A x \in Objects : d[p].objects[x] = 0
  <2>1. PICK c \in BlockCopy : c = disk[p]
    BY <1>1
  <2>2. PICK objects : objects = IF full /\ p \notin DOMAIN blocks THEN EmptyStore ELSE c.objects
    OBVIOUS
  <2>3. PICK stamp : stamp = Aged(c.stamp, p \in fresh)
    OBVIOUS
  <2>4. d[p] = [c EXCEPT !.objects = objects, !.stamp = stamp]
    BY <1>1, <2>1, <2>2, <2>3 DEF ClearedOnDisk
  <2>5. stamp = Valid => c.stamp = Valid /\ p \in fresh
    BY <2>1, <2>3 DEF Aged, BlockCopy, Stamps, Valid, Outdated
  <2>6. d[p].objects = objects /\ d[p].stamp = stamp
    BY <2>4 DEF BlockCopy
  <2>7. \A x \in Objects : EmptyStore[x] = 0
    BY DEF EmptyStore
  <2>. QED  BY <2>1, <2>2, <2>5, <2>6, <2>7
<1>. QED  BY <1>1, <1>2 DEF WipesDisk

-----------------------------------------------------------------------------
(* What was stored out of reach is overlooked, the rest is cleared.        *)
Overlooked(w, checked, fresh) ==
  {o \in Objects :
     \/ \E p \in DOMAIN w.blocks \ checked : o \in StoredIn(w.blocks[p].stored)
     \/ \E p \in fresh \ (DOMAIN w.blocks \cup checked) : o \in StoredIn(disk[p].objects)}

(* The world u after clearObjects, and the world w before it. *)
Clears(w, u, checked, fresh) ==
  /\ u \in Worlds
  /\ DOMAIN u.blocks = DOMAIN w.blocks
  /\ \A p \in DOMAIN w.blocks :
       \E b \in MapBlock : /\ Dropped(w.blocks[p], b) /\ DOMAIN b.active = {}
                           /\ Wipes(b, u.blocks[p], p \in checked)
  /\ \A id \in DOMAIN u.objects :
       /\ id \in DOMAIN w.objects /\ u.objects[id].obj = w.objects[id].obj
       /\ u.objects[id].gone = "removal"
  /\ \A x \in Objects :
       u.fate[x] = IF w.fate[x] # "alive" THEN w.fate[x]
                   ELSE IF x \in Overlooked(w, checked, fresh) THEN "overlooked"
                   ELSE "cleared"

(* A block of the memory after it. *)
Left(w, u, p, checked) ==
  /\ DOMAIN u.blocks[p].active = {} /\ u.blocks[p].old = w.blocks[p].old
  /\ u.blocks[p].stamp = Valid => w.blocks[p].stamp = Valid
  /\ IF p \in checked THEN \A x \in Objects : u.blocks[p].stored[x] = 0
     ELSE u.blocks[p].stored = w.blocks[p].stored
  /\ u.blocks[p].modified # WriteNeeded =>
       /\ w.blocks[p].modified # WriteNeeded /\ DOMAIN w.blocks[p].active = {}
       /\ p \in checked => \A x \in Objects : w.blocks[p].stored[x] = 0

LEMMA ClearsBlock ==
  ASSUME NEW w, NEW u, NEW checked, NEW fresh, Clears(w, u, checked, fresh),
         NEW p \in DOMAIN w.blocks
  PROVE  Left(w, u, p, checked)
<1>1. PICK b \in MapBlock : /\ Dropped(w.blocks[p], b) /\ DOMAIN b.active = {}
                            /\ Wipes(b, u.blocks[p], p \in checked)
  BY DEF Clears
<1>. QED  BY <1>1 DEF Dropped, Wipes, Left

(* An object that is cleared now is not where clearObjects does not look.  *)
LEMMA ClearedIsReached ==
  ASSUME DiskOK, NEW w \in Worlds, NEW u, NEW checked, NEW fresh, Clears(w, u, checked, fresh),
         NEW x \in Objects, w.fate[x] = "alive", u.fate[x] = "cleared"
  PROVE  /\ \A p \in DOMAIN w.blocks \ checked : w.blocks[p].stored[x] = 0
         /\ \A p \in (fresh \cap DOMAIN disk) \ (DOMAIN w.blocks \cup checked) :
              disk[p].objects[x] = 0
<1>1. x \notin Overlooked(w, checked, fresh)
  BY DEF Clears
<1>2. ASSUME NEW p \in DOMAIN w.blocks \ checked
      PROVE  w.blocks[p].stored[x] = 0
  <2>1. x \notin StoredIn(w.blocks[p].stored)
    BY <1>1 DEF Overlooked
  <2>2. w.blocks[p].stored[x] \in Nat
    BY WorldParts DEF MapBlock, Stores
  <2>. QED  BY <2>1, <2>2 DEF StoredIn
<1>3. ASSUME NEW p \in (fresh \cap DOMAIN disk) \ (DOMAIN w.blocks \cup checked)
      PROVE  disk[p].objects[x] = 0
  <2>1. x \notin StoredIn(disk[p].objects)
    BY <1>1 DEF Overlooked
  <2>2. disk[p].objects[x] \in Nat
    <3>1. disk[p] \in BlockCopy
      BY PartialMember DEF DiskOK
    <3>. QED  BY <3>1 DEF BlockCopy, Stores
  <2>. QED  BY <2>1, <2>2 DEF StoredIn
<1>. QED  BY <1>2, <1>3

Reach(w, full) == IF full THEN DOMAIN disk ELSE DOMAIN w.blocks

LEMMA ClearsPlaces ==
  ASSUME DiskOK, NEW w \in Worlds, NEW u, NEW full \in BOOLEAN, NEW fresh,
         NEW checked, checked = Reach(w, full), Clears(w, u, checked, fresh),
         NEW d, WipesDisk(w, d, full, fresh), NEW x \in Objects, InPlace(w, disk, x)
  PROVE  InPlace(u, d, x)
<1>1. ASSUME NEW id \in ActiveAs(u, x)
      PROVE  /\ id \in ActiveAs(w, x) /\ u.objects[id].gone = "removal"
             /\ ~Listed(u, id) /\ ~Lives(u, id)
  <2>1. id \in DOMAIN u.objects /\ u.objects[id].obj = x /\ u.objects[id].gone = "removal"
        /\ id \in ActiveAs(w, x)
    BY DEF ActiveAs, Clears
  <2>2. ~Listed(u, id)
    <3>1. ASSUME NEW p \in DOMAIN u.blocks
          PROVE  DOMAIN u.blocks[p].active = {}
      <4>1. p \in DOMAIN w.blocks
        BY DEF Clears
      <4>2. Left(w, u, p, checked)
        BY <4>1, ClearsBlock
      <4>. QED  BY <4>2 DEF Left
    <3>. QED  BY <3>1 DEF Listed
  <2>. QED  BY <2>1, <2>2 DEF Lives
<1>2. ASSUME NoneLaid(w, disk, x)
      PROVE  NoneLaid(u, d, x)
  <2>1. ASSUME NEW p \in Positions
        PROVE  At(u.blocks, d, p).stored[x] = 0
    <3>1. CASE p \in DOMAIN w.blocks
      <4>1. w.blocks[p].stored[x] = 0
        BY <1>2, <3>1 DEF NoneLaid, At
      <4>2. Left(w, u, p, checked) /\ p \in DOMAIN u.blocks
        BY <3>1, ClearsBlock DEF Clears
      <4>. QED  BY <4>1, <4>2 DEF Left, At
    <3>2. CASE p \notin DOMAIN w.blocks /\ p \in DOMAIN disk
      <4>1. disk[p].objects[x] = 0
        BY <1>2, <3>2 DEF NoneLaid, At, Deserialized
      <4>2. p \notin DOMAIN u.blocks /\ p \in DOMAIN d /\ d[p].objects[x] = 0
        BY <3>2, <4>1 DEF WipesDisk, Clears
      <4>. QED  BY <4>2 DEF At, Deserialized
    <3>3. CASE p \notin DOMAIN w.blocks /\ p \notin DOMAIN disk
      <4>1. p \notin DOMAIN u.blocks /\ p \notin DOMAIN d
        BY <3>3 DEF WipesDisk, Clears
      <4>. QED  BY <4>1 DEF At, BlankBlock, EmptyStore
    <3>. QED  BY <3>1, <3>2, <3>3
  <2>. QED  BY <2>1 DEF NoneLaid
<1>3. u.fate[x] = "none" \/ u.fate[x] = "removed" => w.fate[x] = u.fate[x]
  BY DEF Clears
<1>4. u.fate[x] # "alive"
  BY DEF Clears
<1>5. u.fate[x] = "cleared" => w.fate[x] = "cleared" \/ w.fate[x] = "alive"
  BY DEF Clears
<1>6. ASSUME u.fate[x] = "cleared", NEW p \in Positions, At(u.blocks, d, p).stamp = Valid
      PROVE  At(u.blocks, d, p).stored[x] = 0
  <2>1. ASSUME w.fate[x] = "cleared"
        PROVE  At(w.blocks, disk, p).stamp = Valid => At(w.blocks, disk, p).stored[x] = 0
    BY <2>1 DEF InPlace
  <2>2. ASSUME w.fate[x] = "alive"
        PROVE  /\ p \in DOMAIN w.blocks \ checked => w.blocks[p].stored[x] = 0
               /\ p \in (fresh \cap DOMAIN disk) \ (DOMAIN w.blocks \cup checked)
                    => disk[p].objects[x] = 0
    BY <1>6, <2>2, ClearedIsReached
  <2>3. CASE p \in DOMAIN w.blocks
    <3>1. Left(w, u, p, checked) /\ p \in DOMAIN u.blocks
      BY <2>3, ClearsBlock DEF Clears
    <3>2. w.blocks[p].stamp = Valid
      BY <1>6, <3>1 DEF At, Left
    <3>3. p \notin checked => w.blocks[p].stored[x] = 0
      BY <1>5, <1>6, <2>1, <2>2, <2>3, <3>2 DEF At
    <3>. QED  BY <3>1, <3>3 DEF Left, At
  <2>4. CASE p \notin DOMAIN w.blocks /\ p \in DOMAIN disk
    <3>1. p \notin DOMAIN u.blocks /\ p \in DOMAIN d
      BY <2>4 DEF WipesDisk, Clears
    <3>2. d[p].stamp = Valid
      BY <1>6, <3>1 DEF At, Deserialized
    <3>3. disk[p].stamp = Valid /\ p \in fresh
      BY <2>4, <3>2 DEF WipesDisk
    <3>4. d[p].objects[x] = 0
      <4>1. CASE full
        BY <2>4, <4>1 DEF WipesDisk
      <4>2. CASE ~full
        <5>1. d[p].objects = disk[p].objects
          BY <2>4, <4>2 DEF WipesDisk
        <5>2. p \notin checked
          BY <2>4, <4>2 DEF Reach
        <5>3. w.fate[x] = "cleared" => disk[p].objects[x] = 0
          BY <2>1, <2>4, <3>3 DEF At, Deserialized
        <5>4. w.fate[x] = "alive" => disk[p].objects[x] = 0
          BY <2>2, <2>4, <3>3, <5>2
        <5>. QED  BY <1>5, <1>6, <5>1, <5>3, <5>4
      <4>. QED  BY <4>1, <4>2
    <3>. QED  BY <3>1, <3>4 DEF At, Deserialized
  <2>5. CASE p \notin DOMAIN w.blocks /\ p \notin DOMAIN disk
    <3>1. p \notin DOMAIN u.blocks /\ p \notin DOMAIN d
      BY <2>5 DEF WipesDisk, Clears
    <3>. QED  BY <3>1 DEF At, BlankBlock, EmptyStore
  <2>. QED  BY <2>3, <2>4, <2>5
<1>7. CASE u.fate[x] = "none"
  <2>1. ActiveAs(w, x) = {} /\ NoneLaid(w, disk, x)
    BY <1>3, <1>7 DEF InPlace
  <2>. QED  BY <1>1, <1>2, <1>7, <2>1 DEF InPlace
<1>8. CASE u.fate[x] = "removed"
  <2>1. NoneLaid(w, disk, x)
    BY <1>3, <1>8 DEF InPlace
  <2>. QED  BY <1>1, <1>2, <1>8, <2>1 DEF InPlace
<1>9. CASE u.fate[x] = "cleared"
  BY <1>1, <1>6, <1>9 DEF InPlace
<1>. QED  BY <1>4, <1>7, <1>8, <1>9 DEF InPlace

LEMMA ClearsOnDisk ==
  ASSUME DiskOK, NEW w \in Worlds, NEW u, NEW full \in BOOLEAN, NEW fresh,
         NEW checked, checked = Reach(w, full), Clears(w, u, checked, fresh),
         NEW d, WipesDisk(w, d, full, fresh), NEW x \in Objects, OnDisk(w, disk, x)
  PROVE  OnDisk(u, d, x)
<1>1. ASSUME NEW p \in DOMAIN u.blocks, u.blocks[p].modified # WriteNeeded
      PROVE  /\ p \in DOMAIN d
             /\ u.fate[x] \in Sure => Count(u.blocks[p], x) = d[p].objects[x]
             /\ u.fate[x] = "cleared" /\ d[p].stamp = Valid => d[p].objects[x] = 0
  <2>1. p \in DOMAIN w.blocks /\ Left(w, u, p, checked)
    BY ClearsBlock DEF Clears
  <2>2. /\ w.blocks[p].modified # WriteNeeded /\ DOMAIN w.blocks[p].active = {}
        /\ p \in checked => \A y \in Objects : w.blocks[p].stored[y] = 0
    BY <1>1, <2>1 DEF Left
  <2>3. /\ p \in DOMAIN disk
        /\ w.fate[x] \in Sure => Count(w.blocks[p], x) = disk[p].objects[x]
        /\ w.fate[x] = "cleared" /\ disk[p].stamp = Valid => disk[p].objects[x] = 0
    BY <2>1, <2>2 DEF OnDisk, UnmarkedOnDisk
  <2>4. p \in checked
    BY <2>1, <2>3 DEF Reach
  <2>5. Count(w.blocks[p], x) = 0
    <3>1. ActiveOf(w.blocks[p].active, x) = 0 /\ w.blocks[p].stored[x] = 0
      BY <2>2, <2>4, NothingCounts
    <3>. QED  BY <3>1 DEF Count
  <2>6. Count(u.blocks[p], x) = 0
    <3>1. DOMAIN u.blocks[p].active = {} /\ u.blocks[p].stored[x] = 0
      BY <2>1, <2>4 DEF Left
    <3>2. ActiveOf(u.blocks[p].active, x) = 0
      BY <3>1, NothingCounts
    <3>. QED  BY <3>1, <3>2 DEF Count
  <2>7. p \in DOMAIN d /\ d[p].objects = disk[p].objects
        /\ (d[p].stamp = Valid => disk[p].stamp = Valid)
    BY <2>1, <2>3 DEF WipesDisk
  <2>8. u.fate[x] \in Sure => w.fate[x] = u.fate[x]
    BY DEF Clears, Sure
  <2>9. u.fate[x] = "cleared" => w.fate[x] = "cleared" \/ w.fate[x] \in Sure
    BY DEF Clears, Sure
  <2>. QED  BY <2>3, <2>5, <2>6, <2>7, <2>8, <2>9
<1>2. ASSUME u.fate[x] = "none", NEW p \in DOMAIN d
      PROVE  d[p].objects[x] = 0
  <2>1. w.fate[x] = "none"
    BY <1>2 DEF Clears
  <2>2. p \in DOMAIN disk /\ disk[p].objects[x] = 0
    BY <2>1 DEF OnDisk, WipesDisk
  <2>. QED  BY <2>2 DEF WipesDisk
<1>. QED  BY <1>1, <1>2 DEF OnDisk, UnmarkedOnDisk

LEMMA ClearsAll ==
  ASSUME DiskOK, NEW w \in Worlds, NEW A \in SUBSET Positions, AllSound(w, disk, A),
         NEW u, NEW full \in BOOLEAN, NEW fresh,
         NEW checked, checked = Reach(w, full), Clears(w, u, checked, fresh),
         NEW d, WipesDisk(w, d, full, fresh)
  PROVE  AllSound(u, d, A)
<1>. DOMAIN u.blocks = DOMAIN w.blocks
  BY DEF Clears
<1>0. \A p \in DOMAIN w.blocks : Left(w, u, p, checked)
  BY ClearsBlock
<1>1. Linked(u)
  BY <1>0 DEF Linked, Left
<1>2. Sound(u, d, Objects)
  BY <1>1, ClearsPlaces, ClearsOnDisk DEF AllSound, Sound
<1>3. Unaged(u, A)
  BY <1>0 DEF AllSound, Unaged, Left
<1>4. ASSUME NEW p \in A
      PROVE  IF p \in DOMAIN u.blocks
             THEN \A x \in Objects : u.fate[x] = "cleared" => u.blocks[p].stored[x] = 0
             ELSE p \notin DOMAIN d
  <2>1. CASE p \in DOMAIN w.blocks
    <3>1. ASSUME NEW x \in Objects, u.fate[x] = "cleared"
          PROVE  u.blocks[p].stored[x] = 0
      <4>1. Left(w, u, p, checked)
        BY <2>1, ClearsBlock
      <4>2. CASE p \in checked
        BY <4>1, <4>2 DEF Left
      <4>3. CASE p \notin checked
        <5>1. w.fate[x] = "cleared" \/ w.fate[x] = "alive"
          BY <3>1 DEF Clears
        <5>2. w.fate[x] = "cleared" => w.blocks[p].stored[x] = 0
          BY <2>1 DEF AllSound, ClearedOut
        <5>3. w.fate[x] = "alive" => w.blocks[p].stored[x] = 0
          BY <2>1, <3>1, <4>3, ClearedIsReached
        <5>. QED  BY <4>1, <4>3, <5>1, <5>2, <5>3 DEF Left
      <4>. QED  BY <4>2, <4>3
    <3>. QED  BY <2>1, <3>1 DEF Clears
  <2>2. CASE p \notin DOMAIN w.blocks
    BY <2>2 DEF AllSound, ClearedOut, Clears, WipesDisk
  <2>. QED  BY <2>1, <2>2
<1>. QED  BY <1>2, <1>3, <1>4 DEF AllSound, ClearedOut

-----------------------------------------------------------------------------
LEMMA ClearedFates ==
  ASSUME NEW f \in [Objects -> Fates], NEW S, NEW x \in Objects,
         NEW h, h = Fated(Fated(f, S, "overlooked"), Objects, "cleared")
  PROVE  h[x] = IF f[x] # "alive" THEN f[x]
                ELSE IF x \in S THEN "overlooked" ELSE "cleared"
<1>1. PICK a \in Fates, b \in Fates : a = "overlooked" /\ b = "cleared"
  BY DEF Fates
<1>2. PICK g : g = Fated(f, S, a)
  OBVIOUS
<1>3. g \in [Objects -> Fates] /\ g[x] = IF x \in S /\ f[x] = "alive" THEN a ELSE f[x]
  BY <1>2, FatedType, FatedValues
<1>4. h = Fated(g, Objects, b)
  BY <1>1, <1>2
<1>5. h[x] = IF x \in Objects /\ g[x] = "alive" THEN b ELSE g[x]
  BY <1>3, <1>4, FatedValues
<1>. QED  BY <1>1, <1>3, <1>5

LEMMA MemberTruth ==
  ASSUME NEW p, NEW S
  PROVE  \E e \in BOOLEAN : e = (p \in S)
<1>1. (p \in S) \in BOOLEAN
  OBVIOUS
<1>. WITNESS (p \in S) \in BOOLEAN
<1>. QED  OBVIOUS

WipedBlocks(m, checked, recent) ==
  [p \in DOMAIN m |-> [(IF p \in checked THEN Emptied(m[p]) ELSE m[p]) EXCEPT
                          !.stamp = Aged(@, p \in recent)]]

(* All blocks in memory, after the objects are cleared. *)
LEMMA WorldClears ==
  ASSUME DiskOK, NEW w \in Worlds, NEW bare, Cleared(w, bare), NEW checked, NEW recent, NEW fresh,
         NEW bs, bs = WipedBlocks(bare.blocks, checked, recent),
         NEW S, S = Overlooked(w, checked, fresh),
         NEW f, f = Fated(Fated(bare.fate, S, "overlooked"), Objects, "cleared"),
         NEW u, u = [bare EXCEPT !.blocks = bs, !.fate = f]
  PROVE  Clears(w, u, checked, fresh)
<1>1. /\ bare \in Worlds /\ bare.fate = w.fate /\ DOMAIN bare.blocks = DOMAIN w.blocks
      /\ \A p \in DOMAIN w.blocks : /\ Dropped(w.blocks[p], bare.blocks[p])
                                    /\ DOMAIN bare.blocks[p].active = {}
      /\ \A id \in DOMAIN bare.objects :
           /\ id \in DOMAIN w.objects /\ bare.objects[id].obj = w.objects[id].obj
           /\ bare.objects[id].gone = "removal"
  BY DEF Cleared, DropsBlocks
<1>2. /\ bare.objects \in Partial(Ids, ActiveObject) /\ bare.fate \in [Objects -> Fates]
      /\ IsFiniteSet(DOMAIN bare.blocks)
      /\ \A p \in DOMAIN bare.blocks : p \in Positions /\ bare.blocks[p] \in MapBlock
  BY <1>1, WorldParts, PartialMember DEF Memory
<1>. DOMAIN bs = DOMAIN bare.blocks /\ bs = [p \in DOMAIN bs |-> bs[p]]
  BY DEF WipedBlocks
<1>3. ASSUME NEW p \in DOMAIN bs
      PROVE  bs[p] \in MapBlock /\ Wipes(bare.blocks[p], bs[p], p \in checked)
  <2>1. PICK b \in MapBlock : b = bare.blocks[p]
    BY <1>2
  <2>2. PICK c : c = bs[p]
    OBVIOUS
  <2>3. PICK emptied \in BOOLEAN : emptied = (p \in checked)
    BY MemberTruth
  <2>4. PICK recently \in BOOLEAN : recently = (p \in recent)
    BY MemberTruth
  <2>5. c = AfterClear(b, emptied, recently)
    <3>1. c = [(IF p \in checked THEN Emptied(b) ELSE b) EXCEPT
                 !.stamp = Aged(@, p \in recent)]
      BY <2>1, <2>2 DEF WipedBlocks
    <3>2. PICK e : e = IF p \in checked THEN Emptied(b) ELSE b
      OBVIOUS
    <3>3. e = IF emptied = TRUE THEN Emptied(b) ELSE b
      BY <2>3, <3>2
    <3>4. c = [e EXCEPT !.stamp = Aged(@, recently)]
      BY <2>4, <3>1, <3>2
    <3>. QED  BY <3>3, <3>4 DEF AfterClear
  <2>6. c \in MapBlock /\ Wipes(b, c, emptied)
    BY <2>5, AfterBlock, ClearWipes
  <2>7. Wipes(b, c, p \in checked)
    BY <2>3, <2>6 DEF Wipes
  <2>. QED  BY <2>1, <2>2, <2>6, <2>7
<1>4. DOMAIN bs = DOMAIN bare.blocks /\ bs \in Memory
  <2>1. \A p \in DOMAIN bs : bs[p] \in MapBlock
    BY <1>3
  <2>. QED  BY <1>2, <2>1, PartialMember DEF Memory
<1>5. f \in [Objects -> Fates]
  <2>1. PICK g : g = Fated(bare.fate, S, "overlooked")
    OBVIOUS
  <2>2. g \in [Objects -> Fates]
    BY <1>2, <2>1, FatedType DEF Fates
  <2>. QED  BY <2>1, <2>2, FatedType DEF Fates
<1>6. u \in Worlds /\ u.blocks = bs /\ u.objects = bare.objects /\ u.fate = f
  BY <1>1, <1>2, <1>4, <1>5 DEF Worlds
<1>7. \A x \in Objects : f[x] = IF w.fate[x] # "alive" THEN w.fate[x]
                               ELSE IF x \in S THEN "overlooked" ELSE "cleared"
  BY <1>1, <1>2, ClearedFates
<1>8. \A p \in DOMAIN w.blocks :
         \E b \in MapBlock : /\ Dropped(w.blocks[p], b) /\ DOMAIN b.active = {}
                             /\ Wipes(b, u.blocks[p], p \in checked)
  BY <1>1, <1>2, <1>3, <1>4, <1>6
<1>9. u \in Worlds /\ DOMAIN u.blocks = DOMAIN w.blocks
  BY <1>1, <1>4, <1>6
<1>10. \A id \in DOMAIN u.objects :
         /\ id \in DOMAIN w.objects /\ u.objects[id].obj = w.objects[id].obj
         /\ u.objects[id].gone = "removal"
  BY <1>1, <1>6
<1>11. \A x \in Objects :
         u.fate[x] = IF w.fate[x] # "alive" THEN w.fate[x]
                     ELSE IF x \in Overlooked(w, checked, fresh) THEN "overlooked"
                     ELSE "cleared"
  BY <1>6, <1>7
<1>. QED  BY <1>8, <1>9, <1>10, <1>11, Zenon DEF Clears

LEMMA ClearSound ==
  ASSUME Inv, SoundInv, NEW full \in BOOLEAN, NEW recent, NEW fresh,
         ClearObjects(full, recent, fresh)
  PROVE  SoundInv'
<1>1. PICK w, A : Before(w, A)
  BY BeforeStep
<1>2. /\ DiskOK /\ w \in Worlds /\ w = World /\ w.blocks = blocks
      /\ w.objects = m_active_objects /\ w.fate = fate
      /\ A \in SUBSET Positions /\ A = m_active_blocks /\ Linked(w)
      /\ AllSound(w, disk, A) /\ w.objects \in Partial(Ids, ActiveObject)
  BY <1>1, WorldParts DEF Before, Settled, AllSound, Sound
<1>3. PICK seq : seq = SetToSeq(DOMAIN m_active_objects)
  OBVIOUS
<1>4. PICK bare : bare = FoldLeft(ClearObject, w, seq)
  OBVIOUS
<1>5. Cleared(w, bare)
  <2>1. PICK S : S = DOMAIN m_active_objects
    OBVIOUS
  <2>2. PICK n : n = Cardinality(S)
    OBVIOUS
  <2>3. IsFiniteSet(S)
    BY <1>2, <2>1, PartialMember
  <2>4. Order(seq, n, S)
    BY <1>3, <2>1, <2>2, <2>3, SetToSeqOrders DEF Order
  <2>5. \A id \in S : \E j \in 1..n : seq[j] = id
    BY <2>2, <2>3, <2>4, OntoOrder
  <2>6. S = DOMAIN w.objects
    BY <1>2, <2>1
  <2>. QED  BY <1>2, <1>4, <2>4, <2>5, <2>6, AllClear
<1>6. PICK checked : checked = IF full THEN DOMAIN disk ELSE DOMAIN blocks
  OBVIOUS
<1>7. PICK S : S = {o \in Objects :
               \/ \E p \in DOMAIN blocks \ checked : o \in StoredIn(blocks[p].stored)
               \/ \E p \in fresh \ (DOMAIN blocks \cup checked) :
                      o \in StoredIn(disk[p].objects)}
  OBVIOUS
<1>8. PICK bs : bs = [p \in DOMAIN bare.blocks |->
            [(IF p \in checked THEN Emptied(bare.blocks[p]) ELSE bare.blocks[p]) EXCEPT
                !.stamp = Aged(@, p \in recent)]]
  OBVIOUS
<1>9. PICK f : f = Fated(Fated(bare.fate, S, "overlooked"), Objects, "cleared")
  OBVIOUS
<1>10. PICK u : u = [bare EXCEPT !.blocks = bs, !.fate = f]
  OBVIOUS
<1>11. Become(u) /\ disk' = ClearedOnDisk(full, fresh)
       /\ UNCHANGED <<making, kept, m_active_blocks>>
  BY <1>2, <1>3, <1>4, <1>6, <1>7, <1>8, <1>9, <1>10, ZenonT(60) DEF ClearObjects
<1>12. Clears(w, u, checked, fresh)
  <2>1. S = Overlooked(w, checked, fresh)
    BY <1>2, <1>7, Zenon DEF Overlooked
  <2>2. bs = WipedBlocks(bare.blocks, checked, recent)
    BY <1>8, Zenon DEF WipedBlocks
  <2>. QED  BY <1>2, <1>5, <1>9, <1>10, <2>1, <2>2, WorldClears
<1>13. PICK d : d = ClearedOnDisk(full, fresh)
  OBVIOUS
<1>14. WipesDisk(w, d, full, fresh)
  BY <1>2, <1>13, DiskWiped
<1>15. checked = Reach(w, full)
  BY <1>2, <1>6 DEF Reach
<1>16. AllSound(u, d, A)
  BY <1>2, <1>12, <1>14, <1>15, ClearsAll
<1>17. u = World'
  <2>1. u \in Worlds
    BY <1>12 DEF Clears
  <2>. QED  BY <1>11, <2>1 DEF Become, World, Worlds
<1>. QED  BY <1>2, <1>11, <1>13, <1>16, <1>17, AllSoundAfter

-----------------------------------------------------------------------------
(* Blocks are written to the database, and leave memory.                   *)
Writes(m, d, W) ==
  /\ DOMAIN d = W \cup DOMAIN disk
  /\ \A p \in W : /\ d[p].stamp = m[p].stamp
                  /\ \A o \in Objects : d[p].objects[o] = Count(m[p], o)
  /\ \A p \in DOMAIN disk \ W : d[p] = disk[p]

LEMMA SavedWrites ==
  ASSUME DiskOK, NEW m \in Memory, NEW W \in SUBSET (DOMAIN m), NEW d, d = Saved(m, W)
  PROVE  Writes(m, d, W)
<1>1. SavedFrom(d, m, W)
  BY SavedValues
<1>2. \A p \in W : d[p] = Serialized(m[p])
  BY DEF Saved
<1>3. ASSUME NEW p \in W
      PROVE  d[p].stamp = m[p].stamp
  <2>1. PICK b : b = m[p]
    OBVIOUS
  <2>2. PICK s : s = [o \in Objects |-> b.stored[o] + ActiveOf(b.active, o)]
    OBVIOUS
  <2>3. PICK c : c = Serialized(b)
    OBVIOUS
  <2>4. c = [nodes |-> b.nodes, generated |-> b.generated, stamp |-> b.stamp, objects |-> s]
    BY <2>2, <2>3, Zenon DEF Serialized
  <2>5. c.stamp = b.stamp
    BY <2>4
  <2>6. d[p] = c
    BY <1>2, <2>1, <2>3
  <2>. QED  BY <2>1, <2>5, <2>6
<1>. QED  BY <1>1, <1>3 DEF SavedFrom, Writes

(* W is written and S leaves.                                              *)
Leaves(v, z, d, S, W) ==
  /\ W \subseteq DOMAIN v.blocks /\ Writes(v.blocks, d, W)
  /\ DOMAIN z.blocks = DOMAIN v.blocks \ S
  /\ \A p \in DOMAIN z.blocks :
       /\ z.blocks[p].stored = v.blocks[p].stored /\ z.blocks[p].stamp = v.blocks[p].stamp
       /\ z.blocks[p].active = v.blocks[p].active /\ z.blocks[p].old = v.blocks[p].old
       /\ p \in W \/ z.blocks[p].modified = v.blocks[p].modified
  /\ DOMAIN z.objects = DOMAIN v.objects
  /\ \A id \in DOMAIN v.objects : z.objects[id] = v.objects[id]

(* What is on disk of the block p has as much of the object x as the block *)
(* in memory, although that one is marked.                                 *)
NoneLost(v, p, x) ==
  /\ v.fate[x] \in Sure => Copy(p).objects[x] = Count(v.blocks[p], x)
  /\ v.fate[x] = "cleared" /\ Copy(p).stamp = Valid => Copy(p).objects[x] = 0

(* An object is followed, none of its static data leaves as m_active, and  *)
(* none of it is lost because it could not be written.                     *)
Stays(v, z, S, W, x) ==
  z.fate[x] \in Followed =>
    /\ z.fate[x] = v.fate[x]
    /\ \A p \in S \cap DOMAIN v.blocks : \A id \in DOMAIN v.blocks[p].active :
         v.blocks[p].active[id] # x
    /\ \A p \in (S \cap DOMAIN v.blocks) \ W :
         v.blocks[p].modified = WriteNeeded => NoneLost(v, p, x)

LEMMA SerializedParts ==
  ASSUME NEW b, NEW x \in Objects
  PROVE  Serialized(b).objects[x] = Count(b, x) /\ Serialized(b).stamp = b.stamp
<1>1. PICK s : s = [o \in Objects |-> b.stored[o] + ActiveOf(b.active, o)]
  OBVIOUS
<1>2. PICK c : c = Serialized(b)
  OBVIOUS
<1>3. c = [nodes |-> b.nodes, generated |-> b.generated, stamp |-> b.stamp, objects |-> s]
  BY <1>1, <1>2, Zenon DEF Serialized
<1>4. c.objects = s /\ c.stamp = b.stamp
  BY <1>3
<1>5. s[x] = Count(b, x)
  BY <1>1 DEF Count
<1>. QED  BY <1>2, <1>4, <1>5

(* Of a block that is not on disk either a blank one is read.              *)
LEMMA BlankCopy ==
  ASSUME NEW p, p \notin DOMAIN disk, NEW x \in Objects
  PROVE  /\ Copy(p).objects[x] = 0 /\ Copy(p).stamp = Undefined
         /\ BlankBlock.stored[x] = 0 /\ BlankBlock.stamp = Undefined
<1>1. /\ BlankBlock.stored[x] = 0 /\ BlankBlock.active = Nothing
      /\ BlankBlock.stamp = Undefined
  BY DEF BlankBlock, EmptyStore
<1>2. Copy(p) = Serialized(BlankBlock)
  BY DEF Copy
<1>3. Copy(p).objects[x] = Count(BlankBlock, x) /\ Copy(p).stamp = BlankBlock.stamp
  BY <1>2, SerializedParts
<1>4. ActiveOf(Nothing, x) = 0
  BY NothingCounts DEF Nothing
<1>5. Count(BlankBlock, x) = 0
  BY <1>1, <1>4 DEF Count
<1>. QED  BY <1>1, <1>3, <1>5

(* What is read of a block that is in memory no more.                      *)
LEMMA CopyRead ==
  ASSUME NEW m, NEW d, NEW p, p \notin DOMAIN m, NEW x \in Objects,
         p \in DOMAIN d <=> p \in DOMAIN disk, p \in DOMAIN disk => d[p] = disk[p]
  PROVE  /\ At(m, d, p).stored[x] = Copy(p).objects[x]
         /\ At(m, d, p).stamp = Copy(p).stamp
<1>1. CASE p \in DOMAIN disk
  BY <1>1 DEF At, Deserialized, Copy
<1>2. CASE p \notin DOMAIN disk
  BY <1>2, BlankCopy DEF At
<1>. QED  BY <1>1, <1>2

(* The objects that are not among the unwritten ones are as they were.     *)
LEMMA UnwrittenOnes ==
  ASSUME DiskOK, NEW v \in Worlds, NEW lost \in SUBSET (DOMAIN v.blocks), NEW p \in lost,
         NEW x \in Objects \ Unwritten(v.blocks, v.fate, lost)
  PROVE  NoneLost(v, p, x)
<1>1. Serialized(v.blocks[p]).objects[x] = Count(v.blocks[p], x)
  BY SerializedParts
<1>2. Copy(p).objects[x] \in Nat
  <2>1. CASE p \in DOMAIN disk
    <3>1. disk[p] \in BlockCopy
      BY <2>1, PartialMember DEF DiskOK
    <3>. QED  BY <2>1, <3>1 DEF Copy, BlockCopy, Stores
  <2>2. CASE p \notin DOMAIN disk
    BY <2>2, BlankCopy
  <2>. QED  BY <2>1, <2>2
<1>3. PICK m : m = v.blocks
  OBVIOUS
<1>4. PICK f : f = v.fate
  OBVIOUS
<1>5. ~(IF f[x] = "cleared" THEN Copy(p).stamp = Valid /\ Copy(p).objects[x] > 0
        ELSE Copy(p).objects[x] # Serialized(m[p]).objects[x])
  BY <1>3, <1>4, Zenon DEF Unwritten
<1>6. f[x] # "cleared" => Copy(p).objects[x] = Serialized(m[p]).objects[x]
  BY <1>5
<1>7. f[x] = "cleared" /\ Copy(p).stamp = Valid => Copy(p).objects[x] = 0
  BY <1>2, <1>5
<1>. QED  BY <1>1, <1>3, <1>4, <1>6, <1>7 DEF NoneLost, Sure

LEMMA NoEntry ==
  ASSUME NEW a, NEW x, \A id \in DOMAIN a : a[id] # x
  PROVE  ActiveOf(a, x) = 0
<1>1. {id \in DOMAIN a : a[id] = x} = {}
  OBVIOUS
<1>. QED  BY <1>1, FS_EmptySet DEF ActiveOf

(* What was not added, or was cleared, has no static data in m_active.     *)
LEMMA Unentered ==
  ASSUME NEW w, Linked(w), NEW d, NEW x, InPlace(w, d, x),
         w.fate[x] = "none" \/ w.fate[x] = "cleared", NEW p \in DOMAIN w.blocks
  PROVE  ActiveOf(w.blocks[p].active, x) = 0
<1>1. ASSUME NEW id \in DOMAIN w.blocks[p].active, w.blocks[p].active[id] = x
      PROVE  FALSE
  <2>1. id \in DOMAIN w.objects /\ w.objects[id].static_exists
        /\ w.objects[id].static_block = p /\ w.objects[id].obj = x
    BY <1>1 DEF Linked
  <2>2. id \in ActiveAs(w, x) /\ Listed(w, id)
    BY <2>1 DEF ActiveAs, Listed
  <2>. QED  BY <2>2 DEF InPlace
<1>. QED  BY <1>1, NoEntry

LEMMA CountUnentered ==
  ASSUME NEW b \in MapBlock, NEW x \in Objects, ActiveOf(b.active, x) = 0
  PROVE  Count(b, x) = b.stored[x]
BY DEF Count, MapBlock, Stores

(* Where the block is read from is another place; what it stores is not.   *)
LEMMA LeavesStored ==
  ASSUME DiskOK, NEW v \in Worlds, NEW z, NEW d, NEW S, NEW W, Leaves(v, z, d, S, W),
         NEW x \in Objects, Stays(v, z, S, W, x), z.fate[x] \in Followed,
         InPlace(v, disk, x), OnDisk(v, disk, x), NEW p \in Positions
  PROVE  /\ z.fate[x] \in Sure =>
              At(z.blocks, d, p).stored[x] = At(v.blocks, disk, p).stored[x]
         /\ z.fate[x] = "cleared" /\ At(z.blocks, d, p).stamp = Valid
              => At(z.blocks, d, p).stored[x] = 0
<1>1. v.fate[x] = z.fate[x]
  BY DEF Stays
<1>2. v.fate[x] = "cleared" /\ At(v.blocks, disk, p).stamp = Valid
        => At(v.blocks, disk, p).stored[x] = 0
  BY DEF InPlace
<1>3. CASE p \in DOMAIN z.blocks
  BY <1>1, <1>2, <1>3 DEF Leaves, At
<1>4. CASE p \notin DOMAIN v.blocks
  <2>1. p \notin DOMAIN z.blocks /\ p \notin W /\ (p \in DOMAIN d <=> p \in DOMAIN disk)
        /\ (p \in DOMAIN disk => d[p] = disk[p])
    BY <1>4 DEF Leaves, Writes
  <2>2. At(z.blocks, d, p) = At(v.blocks, disk, p)
    BY <1>4, <2>1 DEF At
  <2>. QED  BY <1>1, <1>2, <2>2
<1>5. CASE p \in S \cap DOMAIN v.blocks
  <2>1. p \notin DOMAIN z.blocks
    BY <1>5 DEF Leaves
  <2>2. PICK b \in MapBlock : b = v.blocks[p]
    BY <1>5, WorldParts
  <2>3. ActiveOf(b.active, x) = 0
    BY <1>5, <2>2, NoEntry DEF Stays
  <2>4. Count(b, x) = b.stored[x]
    BY <2>3, CountUnentered
  <2>5. At(v.blocks, disk, p) = b
    BY <1>5, <2>2 DEF At
  <2>6. CASE p \in W
    <3>1. p \in DOMAIN d /\ d[p].stamp = b.stamp /\ d[p].objects[x] = b.stored[x]
      BY <2>2, <2>4, <2>6 DEF Leaves, Writes
    <3>2. At(z.blocks, d, p).stored[x] = b.stored[x] /\ At(z.blocks, d, p).stamp = b.stamp
      BY <2>1, <3>1 DEF At, Deserialized
    <3>. QED  BY <1>1, <1>2, <2>5, <3>2
  <2>7. CASE p \notin W /\ b.modified = WriteNeeded
    <3>1. NoneLost(v, p, x)
      BY <1>5, <2>2, <2>7 DEF Stays
    <3>2. (p \in DOMAIN d <=> p \in DOMAIN disk) /\ (p \in DOMAIN disk => d[p] = disk[p])
      BY <2>7 DEF Leaves, Writes
    <3>3. At(z.blocks, d, p).stored[x] = Copy(p).objects[x]
          /\ At(z.blocks, d, p).stamp = Copy(p).stamp
      BY <2>1, <3>2, CopyRead
    <3>. QED  BY <1>1, <2>2, <2>4, <2>5, <3>1, <3>3 DEF NoneLost
  <2>8. CASE p \notin W /\ b.modified # WriteNeeded
    <3>1. b.modified # WriteNeeded
      BY <2>8
    <3>2. /\ p \in DOMAIN disk
          /\ v.fate[x] \in Sure => Count(b, x) = disk[p].objects[x]
          /\ v.fate[x] = "cleared" /\ disk[p].stamp = Valid => disk[p].objects[x] = 0
      BY <1>5, <2>2, <3>1 DEF OnDisk, UnmarkedOnDisk
    <3>3. p \in DOMAIN d /\ d[p] = disk[p]
      BY <2>8, <3>2 DEF Leaves, Writes
    <3>4. At(z.blocks, d, p).stored[x] = disk[p].objects[x]
          /\ At(z.blocks, d, p).stamp = disk[p].stamp
      BY <2>1, <3>3 DEF At, Deserialized
    <3>. QED  BY <1>1, <2>4, <2>5, <3>2, <3>4
  <2>. QED  BY <2>6, <2>7, <2>8
<1>. QED  BY <1>3, <1>4, <1>5 DEF Leaves

LEMMA LeavesPlaces ==
  ASSUME DiskOK, NEW v \in Worlds, Linked(v), NEW z, NEW d, NEW S, NEW W, Leaves(v, z, d, S, W),
         NEW x \in Objects, Stays(v, z, S, W, x), InPlace(v, disk, x), OnDisk(v, disk, x)
  PROVE  InPlace(z, d, x)
<1>1. CASE z.fate[x] \notin Followed
  BY <1>1 DEF InPlace, Followed, Sure
<1>2. CASE z.fate[x] \in Followed
  <2>1. v.fate[x] = z.fate[x]
    BY <1>2 DEF Stays
  <2>2. \A p \in Positions :
          /\ z.fate[x] \in Sure =>
               At(z.blocks, d, p).stored[x] = At(v.blocks, disk, p).stored[x]
          /\ z.fate[x] = "cleared" /\ At(z.blocks, d, p).stamp = Valid
               => At(z.blocks, d, p).stored[x] = 0
    BY <1>2, LeavesStored
  <2>3. ActiveAs(z, x) = ActiveAs(v, x)
    BY DEF Leaves, ActiveAs
  <2>4. ASSUME NEW id \in ActiveAs(v, x)
        PROVE  /\ id \in DOMAIN v.objects /\ z.objects[id] = v.objects[id]
               /\ Listed(z, id) <=> Listed(v, id)
               /\ Lives(z, id) <=> Lives(v, id)
    <3>1. /\ id \in DOMAIN v.objects /\ z.objects[id] = v.objects[id]
          /\ v.objects[id].obj = x
      BY DEF ActiveAs, Leaves
    <3>2. Listed(z, id) => Listed(v, id)
      BY <3>1 DEF Listed, Leaves
    <3>3. ASSUME Listed(v, id)
          PROVE  Listed(z, id)
      <4>1. PICK p : p = v.objects[id].static_block
        OBVIOUS
      <4>2. /\ p \in DOMAIN v.blocks /\ id \in DOMAIN v.blocks[p].active
            /\ v.objects[id].static_exists
        BY <3>3, <4>1 DEF Listed
      <4>3. v.blocks[p].active[id] = x
        BY <3>1, <4>2 DEF Linked
      <4>4. p \notin S
        BY <1>2, <4>2, <4>3 DEF Stays
      <4>5. p \in DOMAIN z.blocks /\ id \in DOMAIN z.blocks[p].active
        BY <4>2, <4>4 DEF Leaves
      <4>. QED  BY <3>1, <4>1, <4>2, <4>5 DEF Listed
    <3>. QED  BY <3>1, <3>2, <3>3 DEF Lives
  <2>5. z.fate[x] \in Sure /\ NoneLaid(v, disk, x) => NoneLaid(z, d, x)
    BY <2>2 DEF NoneLaid
  <2>6. CASE z.fate[x] = "none"
    <3>1. z.fate[x] \in Sure
      BY <2>6 DEF Sure
    <3>. QED  BY <2>1, <2>3, <2>5, <2>6, <3>1 DEF InPlace
  <2>7. CASE z.fate[x] = "alive"
    <3>1. z.fate[x] \in Sure
      BY <2>7 DEF Sure
    <3>2. CASE OneActive(v, disk, x)
      <4>1. NoneLaid(z, d, x)
        BY <2>5, <3>1, <3>2 DEF OneActive
      <4>2. PICK id \in DOMAIN v.objects : ActiveAs(v, x) = {id} /\ Lives(v, id)
        BY <3>2 DEF OneActive
      <4>3. id \in DOMAIN z.objects /\ ActiveAs(z, x) = {id} /\ Lives(z, id)
        BY <2>3, <2>4, <4>2 DEF Leaves
      <4>. QED  BY <2>7, <4>1, <4>3 DEF InPlace, OneActive
    <3>3. CASE OneLaid(v, disk, x)
      <4>1. OneLaid(z, d, x)
        BY <2>2, <2>3, <3>1, <3>3 DEF OneLaid
      <4>. QED  BY <2>7, <4>1 DEF InPlace
    <3>. QED  BY <2>1, <2>7, <3>2, <3>3 DEF InPlace
  <2>8. CASE z.fate[x] = "removed"
    <3>1. z.fate[x] \in Sure
      BY <2>8 DEF Sure
    <3>2. NoneLaid(z, d, x)
      BY <2>1, <2>5, <2>8, <3>1 DEF InPlace
    <3>3. \A id \in ActiveAs(z, x) : ~Lives(z, id)
      BY <2>1, <2>3, <2>4, <2>8 DEF InPlace
    <3>. QED  BY <2>8, <3>2, <3>3 DEF InPlace
  <2>9. CASE z.fate[x] = "cleared"
    <3>1. \A id \in ActiveAs(z, x) : z.objects[id].gone # "no" /\ ~Listed(z, id)
      BY <2>1, <2>3, <2>4, <2>9 DEF InPlace
    <3>. QED  BY <2>2, <2>9, <3>1 DEF InPlace
  <2>. QED  BY <1>2, <2>6, <2>7, <2>8, <2>9 DEF Followed, Sure
<1>. QED  BY <1>1, <1>2

(* What stays in memory and is not marked is on disk. *)
LEMMA LeavesOnDisk ==
  ASSUME DiskOK, NEW v \in Worlds, Linked(v), NEW z, NEW d, NEW S, NEW W, Leaves(v, z, d, S, W),
         NEW x \in Objects, Stays(v, z, S, W, x), InPlace(v, disk, x), OnDisk(v, disk, x)
  PROVE  OnDisk(z, d, x)
<1>1. z.fate[x] \in Followed => v.fate[x] = z.fate[x]
  BY DEF Stays
<1>2. ASSUME z.fate[x] = "none" \/ z.fate[x] = "cleared", NEW p \in DOMAIN v.blocks
      PROVE  Count(v.blocks[p], x) = v.blocks[p].stored[x]
  <2>1. v.fate[x] = z.fate[x]
    BY <1>1, <1>2 DEF Followed, Sure
  <2>2. ActiveOf(v.blocks[p].active, x) = 0
    BY <1>2, <2>1, Unentered
  <2>. QED  BY <2>2, WorldParts, CountUnentered
<1>3. ASSUME NEW p \in DOMAIN z.blocks, z.blocks[p].modified # WriteNeeded
      PROVE  /\ p \in DOMAIN d
             /\ z.fate[x] \in Sure => Count(z.blocks[p], x) = d[p].objects[x]
             /\ z.fate[x] = "cleared" /\ d[p].stamp = Valid => d[p].objects[x] = 0
  <2>1. /\ p \in DOMAIN v.blocks
        /\ z.blocks[p].stored = v.blocks[p].stored /\ z.blocks[p].active = v.blocks[p].active
        /\ p \in W \/ z.blocks[p].modified = v.blocks[p].modified
    BY DEF Leaves
  <2>2. Count(z.blocks[p], x) = Count(v.blocks[p], x)
    BY <2>1 DEF Count
  <2>3. CASE p \in W
    <3>1. p \in DOMAIN d /\ d[p].stamp = v.blocks[p].stamp
          /\ d[p].objects[x] = Count(v.blocks[p], x)
      BY <2>3 DEF Leaves, Writes
    <3>2. ASSUME z.fate[x] = "cleared", d[p].stamp = Valid
          PROVE  d[p].objects[x] = 0
      <4>1. v.fate[x] = "cleared" /\ At(v.blocks, disk, p).stamp = Valid
        BY <1>1, <2>1, <3>1, <3>2 DEF Followed, At
      <4>2. p \in Positions
        BY <2>1, WorldParts
      <4>3. v.blocks[p].stored[x] = 0
        BY <2>1, <4>1, <4>2 DEF InPlace, At
      <4>. QED  BY <1>2, <2>1, <3>1, <3>2, <4>3
    <3>. QED  BY <2>2, <3>1, <3>2
  <2>4. CASE p \notin W
    <3>1. /\ p \in DOMAIN disk
          /\ v.fate[x] \in Sure => Count(v.blocks[p], x) = disk[p].objects[x]
          /\ v.fate[x] = "cleared" /\ disk[p].stamp = Valid => disk[p].objects[x] = 0
      BY <1>3, <2>1, <2>4 DEF OnDisk, UnmarkedOnDisk
    <3>2. p \in DOMAIN d /\ d[p] = disk[p]
      BY <2>4, <3>1 DEF Leaves, Writes
    <3>. QED  BY <1>1, <2>2, <3>1, <3>2 DEF Followed, Sure
  <2>. QED  BY <2>3, <2>4
<1>4. ASSUME z.fate[x] = "none", NEW p \in DOMAIN d
      PROVE  d[p].objects[x] = 0
  <2>1. v.fate[x] = "none"
    BY <1>1, <1>4 DEF Followed, Sure
  <2>2. CASE p \in W
    <3>1. p \in DOMAIN v.blocks /\ p \in Positions /\ d[p].objects[x] = Count(v.blocks[p], x)
      BY <2>2, WorldParts DEF Leaves, Writes
    <3>2. v.blocks[p].stored[x] = 0
      BY <2>1, <3>1 DEF InPlace, NoneLaid, At
    <3>. QED  BY <1>2, <1>4, <3>1, <3>2
  <2>3. CASE p \notin W
    BY <2>1, <2>3 DEF Leaves, Writes, OnDisk
  <2>. QED  BY <2>2, <2>3
<1>. QED  BY <1>3, <1>4 DEF OnDisk, UnmarkedOnDisk

LEMMA LeavesSound ==
  ASSUME DiskOK, NEW v \in Worlds, NEW O \in SUBSET Objects, Sound(v, disk, O),
         NEW z, NEW d, NEW S, NEW W, Leaves(v, z, d, S, W),
         \A x \in O : Stays(v, z, S, W, x)
  PROVE  Sound(z, d, O)
<1>1. Linked(z)
  BY DEF Sound, Linked, Leaves
<1>. QED  BY <1>1, LeavesPlaces, LeavesOnDisk DEF Sound

-----------------------------------------------------------------------------
(* Active blocks do not leave. *)
LEMMA LeavesCleared ==
  ASSUME NEW v \in Worlds, NEW z, NEW d, NEW S, NEW W, Leaves(v, z, d, S, W),
         \A x \in Objects : z.fate[x] = "cleared" => v.fate[x] = "cleared",
         NEW A, \A p \in A : p \notin S, ClearedOut(v, disk, A), Unaged(v, A)
  PROVE  ClearedOut(z, d, A) /\ Unaged(z, A)
<1>1. ASSUME NEW p \in A, p \in DOMAIN z.blocks
      PROVE  /\ \A x \in Objects : z.fate[x] = "cleared" => z.blocks[p].stored[x] = 0
             /\ z.blocks[p].old = FALSE
  <2>1. /\ p \in DOMAIN v.blocks
        /\ z.blocks[p].stored = v.blocks[p].stored /\ z.blocks[p].old = v.blocks[p].old
    BY <1>1 DEF Leaves
  <2>. QED  BY <2>1 DEF ClearedOut, Unaged
<1>2. ASSUME NEW p \in A, p \notin DOMAIN z.blocks
      PROVE  p \notin DOMAIN d
  BY <1>2 DEF Leaves, Writes, ClearedOut
<1>. QED  BY <1>1, <1>2 DEF ClearedOut, Unaged

(* The world after a step. *)
After(z, d) ==
  /\ z = World' /\ z.blocks = blocks' /\ z.objects = m_active_objects' /\ z.fate = fate'
  /\ d = disk'

LEMMA AfterStep == \E z, d : After(z, d)
<1>1. PICK z : z = [blocks |-> blocks', objects |-> m_active_objects', fate |-> fate']
  OBVIOUS
<1>2. PICK d : d = disk'
  OBVIOUS
<1>3. z.blocks = blocks' /\ z.objects = m_active_objects' /\ z.fate = fate'
  BY <1>1
<1>4. z = World'
  BY <1>1 DEF World
<1>5. After(z, d)
  BY <1>2, <1>3, <1>4 DEF After
<1>. QED  BY <1>5

LEMMA LeavesAllSound ==
  ASSUME NEW w, NEW A, Before(w, A), NEW z, NEW d, After(z, d), NEW S, NEW W,
         Leaves(w, z, d, S, W), \A x \in Objects : Stays(w, z, S, W, x), \A p \in A : p \notin S,
         m_active_blocks' = A
  PROVE  SoundInv'
<1>1. /\ DiskOK /\ w \in Worlds /\ Sound(w, disk, Objects)
      /\ ClearedOut(w, disk, A) /\ Unaged(w, A)
  BY DEF Before, Settled
<1>2. Sound(z, d, Objects)
  BY <1>1, LeavesSound
<1>3. \A x \in Objects : z.fate[x] = "cleared" => w.fate[x] = "cleared"
  BY DEF Stays, Followed
<1>4. ClearedOut(z, d, A) /\ Unaged(z, A)
  BY <1>1, <1>3, LeavesCleared
<1>. QED  BY <1>2, <1>4, AllSoundAfter DEF AllSound, After

(* The periodic save. *)
LEMMA SaveSound ==
  ASSUME Inv, SoundInv, NEW written, MapAction(Save(written))
  PROVE  SoundInv'
<1>1. PICK w, A : Before(w, A)
  BY BeforeStep
<1>2. PICK z, d : After(z, d)
  BY AfterStep
<1>3. /\ DiskOK /\ w \in Worlds /\ w.blocks \in Memory
      /\ w.blocks = blocks /\ w.objects = m_active_objects /\ w.fate = fate
      /\ A = m_active_blocks
  BY <1>1, WorldParts DEF Before
<1>4. /\ written \subseteq AtLevel(blocks, WriteNeeded)
      /\ d = Saved(blocks, written) /\ z.blocks = ResetModified(blocks, written)
      /\ z.objects = m_active_objects /\ z.fate = fate /\ m_active_blocks' = m_active_blocks
  BY <1>2, Zenon DEF MapAction, Save, After, envVars
<1>5. written \in SUBSET (DOMAIN w.blocks)
  BY <1>3, <1>4 DEF AtLevel
<1>6. Writes(w.blocks, d, written)
  BY <1>3, <1>4, <1>5, SavedWrites
<1>7. /\ DOMAIN z.blocks = DOMAIN w.blocks
      /\ \A p \in DOMAIN w.blocks : z.blocks[p] =
           IF p \in written THEN [w.blocks[p] EXCEPT !.modified = Clean] ELSE w.blocks[p]
  BY <1>3, <1>4 DEF ResetModified
<1>8. ASSUME NEW p \in DOMAIN w.blocks
      PROVE  /\ z.blocks[p].stored = w.blocks[p].stored /\ z.blocks[p].stamp = w.blocks[p].stamp
             /\ z.blocks[p].active = w.blocks[p].active /\ z.blocks[p].old = w.blocks[p].old
             /\ p \in written \/ z.blocks[p].modified = w.blocks[p].modified
  <2>1. w.blocks[p] \in MapBlock
    BY <1>3, WorldParts
  <2>. QED  BY <1>7, <2>1 DEF MapBlock
<1>9. PICK S : S = {}
  OBVIOUS
<1>10. Leaves(w, z, d, S, written)
  BY <1>3, <1>4, <1>5, <1>6, <1>7, <1>8, <1>9 DEF Leaves
<1>11. \A x \in Objects : Stays(w, z, S, written, x)
  BY <1>3, <1>4, <1>9 DEF Stays
<1>. QED  BY <1>1, <1>2, <1>3, <1>4, <1>9, <1>10, <1>11, LeavesAllSound

(* A block that is not active is unloaded; the objects of its list lose    *)
(* their static data.                                                      *)
LEMMA UnloadSound ==
  ASSUME Inv, SoundInv, NEW p \in Positions, NEW written, UnloadBlock(p, written)
  PROVE  SoundInv'
<1>1. PICK w, A : Before(w, A)
  BY BeforeStep
<1>2. PICK z, d : After(z, d)
  BY AfterStep
<1>3. /\ DiskOK /\ w \in Worlds /\ w.blocks \in Memory
      /\ w.blocks = blocks /\ w.objects = m_active_objects /\ w.fate = fate
      /\ A = m_active_blocks /\ Unaged(w, A)
  BY <1>1, WorldParts DEF Before, Settled
<1>4. PICK W, lost : /\ W = written
                     /\ lost = ({p} \cap AtLevel(w.blocks, WriteNeeded)) \ written
  OBVIOUS
<1>5. /\ p \in DOMAIN blocks /\ blocks[p].old
      /\ d = Saved(blocks, W) /\ z.blocks = Without(blocks, {p})
      /\ z.objects = m_active_objects /\ m_active_blocks' = m_active_blocks
      /\ z.fate = [o \in Objects |->
            IF o \in Orphans(p) THEN "orphaned"
            ELSE IF o \in Unwritten(w.blocks, w.fate, lost) THEN "unwritten" ELSE fate[o]]
      /\ W \subseteq WrittenAtUnload(p)
  BY <1>2, <1>3, <1>4, Zenon DEF UnloadBlock, Unload, After
<1>6. W \in SUBSET (DOMAIN w.blocks) /\ lost \in SUBSET (DOMAIN w.blocks)
  BY <1>3, <1>4, <1>5 DEF WrittenAtUnload
<1>7. Writes(w.blocks, d, W)
  BY <1>3, <1>5, <1>6, SavedWrites
<1>8. PICK S : S = {p}
  OBVIOUS
<1>9. /\ DOMAIN z.blocks = DOMAIN w.blocks \ S
      /\ \A q \in DOMAIN z.blocks : z.blocks[q] = w.blocks[q]
  BY <1>3, <1>5, <1>8 DEF Without
<1>10. ASSUME NEW q \in (S \cap DOMAIN w.blocks) \ W, w.blocks[q].modified = WriteNeeded
       PROVE  q \in lost
  BY <1>4, <1>8, <1>10 DEF AtLevel, WriteNeeded
<1>11. Leaves(w, z, d, S, W)
  BY <1>3, <1>5, <1>6, <1>7, <1>9 DEF Leaves
<1>12. ASSUME NEW x \in Objects
       PROVE  Stays(w, z, S, W, x)
  <2>1. CASE x \in Orphans(p)
    <3>1. z.fate[x] = "orphaned"
      BY <1>5, <2>1
    <3>. QED  BY <3>1 DEF Stays, Followed, Sure
  <2>2. CASE x \notin Orphans(p) /\ x \in Unwritten(w.blocks, w.fate, lost)
    <3>1. z.fate[x] = "unwritten"
      BY <1>5, <2>2
    <3>. QED  BY <3>1 DEF Stays, Followed, Sure
  <2>3. CASE x \notin Orphans(p) /\ x \notin Unwritten(w.blocks, w.fate, lost)
    <3>1. z.fate[x] = w.fate[x]
      BY <1>3, <1>5, <2>3
    <3>2. \A id \in DOMAIN w.blocks[p].active : w.blocks[p].active[id] # x
      BY <1>3, <2>3 DEF Orphans
    <3>3. ASSUME NEW q \in (S \cap DOMAIN w.blocks) \ W, w.blocks[q].modified = WriteNeeded
          PROVE  NoneLost(w, q, x)
      BY <1>3, <1>6, <1>10, <2>3, <3>3, UnwrittenOnes
    <3>. QED  BY <1>8, <3>1, <3>2, <3>3 DEF Stays
  <2>. QED  BY <2>1, <2>2, <2>3
<1>13. \A q \in A : q \notin S
  BY <1>3, <1>5, <1>8 DEF Unaged
<1>. QED  BY <1>1, <1>2, <1>3, <1>5, <1>11, <1>12, <1>13, LeavesAllSound

-----------------------------------------------------------------------------
(* The server ends: everything is stored, and what can be is written.      *)
LEMMA ShutdownSound ==
  ASSUME Inv, SoundInv, NEW order \in Orders, NEW changed, Shutdown(order, changed)
  PROVE  SoundInv'
<1>1. PICK w, A : Before(w, A)
  BY BeforeStep
<1>2. PICK z, d : After(z, d)
  BY AfterStep
<1>3. /\ DiskOK /\ w \in Worlds /\ w = World /\ w.objects \in Partial(Ids, ActiveObject)
      /\ w.objects = m_active_objects /\ w.fate = fate /\ Sound(w, disk, Objects)
  BY <1>1, WorldParts DEF Before, Settled
<1>4. PICK v : v = ShutdownDone(w, order, changed)
  OBVIOUS
<1>5. PICK O : O = Staying(w, Returned(w))
  OBVIOUS
<1>6. Settled(w, v, O, {}, {}) /\ DOMAIN v.objects = {}
  <2>1. PICK n : n = Cardinality(DOMAIN w.objects)
    OBVIOUS
  <2>2. Order(order, n, DOMAIN w.objects)
    BY <1>3, <2>1, OrdersAreOrders DEF Orders
  <2>3. IsFiniteSet(DOMAIN w.objects)
    BY <1>3, PartialMember
  <2>4. \A id \in DOMAIN w.objects : \E j \in 1..n : order[j] = id
    BY <2>1, <2>2, <2>3, OntoOrder
  <2>. QED  BY <1>3, <1>4, <1>5, <2>2, <2>4, ShutdownSettles
<1>7. O \in SUBSET Objects /\ v \in Worlds /\ v.blocks \in Memory /\ Sound(v, disk, O)
  BY <1>5, <1>6, WorldParts DEF Settled, Staying
<1>8. PICK returned : returned = {m_active_objects[id].obj : id \in Gone(m_active_objects)}
  OBVIOUS
<1>9. SaveAtEnd(v, returned) /\ z.blocks = Nothing /\ z.objects = Nothing
      /\ m_active_blocks' = {}
  BY <1>2, <1>3, <1>4, <1>8, Zenon DEF Shutdown, ShutdownDone, After
<1>10. PICK W \in SUBSET AtLevel(v.blocks, WriteAtUnload),
            lost \in SUBSET (DOMAIN v.blocks) :
         /\ lost = AtLevel(v.blocks, WriteNeeded) \ W /\ d = Saved(v.blocks, W)
         /\ z.fate = [o \in Objects |->
              IF o \in returned /\ fate[o] \in {"removed", "cleared"} THEN "returned"
              ELSE IF o \in Unwritten(v.blocks, v.fate, lost) THEN "unwritten"
              ELSE v.fate[o]]
  <2>1. PICK Wr \in SUBSET AtLevel(v.blocks, WriteAtUnload) :
          /\ disk' = Saved(v.blocks, Wr)
          /\ fate' = [o \in Objects |->
               IF o \in returned /\ fate[o] \in {"removed", "cleared"} THEN "returned"
               ELSE IF o \in Unwritten(v.blocks, v.fate, AtLevel(v.blocks, WriteNeeded) \ Wr)
                    THEN "unwritten"
               ELSE v.fate[o]]
    BY <1>9, Zenon DEF SaveAtEnd
  <2>2. AtLevel(v.blocks, WriteNeeded) \ Wr \in SUBSET (DOMAIN v.blocks)
    BY DEF AtLevel
  <2>. QED  BY <1>2, <2>1, <2>2, Zenon DEF After
<1>11. DOMAIN z.blocks = {} /\ DOMAIN z.objects = {}
  BY <1>9 DEF Nothing
<1>12. W \in SUBSET (DOMAIN v.blocks)
       /\ \A p \in DOMAIN v.blocks \ W : v.blocks[p].modified = WriteNeeded => p \in lost
  BY <1>10 DEF AtLevel, WriteNeeded
<1>13. Writes(v.blocks, d, W)
  BY <1>3, <1>7, <1>10, <1>12, SavedWrites
<1>14. PICK S : S = DOMAIN v.blocks
  OBVIOUS
<1>15. Leaves(v, z, d, S, W)
  BY <1>6, <1>11, <1>12, <1>13, <1>14 DEF Leaves
<1>16. returned = Returned(w)
  BY <1>3, <1>8 DEF Returned
<1>17. ASSUME NEW x \in O
       PROVE  Stays(v, z, S, W, x)
  <2>1. x \in Objects /\ ~(x \in returned /\ fate[x] \in {"removed", "cleared"})
    BY <1>3, <1>5, <1>16 DEF Staying
  <2>2. CASE x \in Unwritten(v.blocks, v.fate, lost)
    <3>1. z.fate[x] = "unwritten"
      BY <1>10, <2>1, <2>2
    <3>. QED  BY <3>1 DEF Stays, Followed, Sure
  <2>3. CASE x \notin Unwritten(v.blocks, v.fate, lost)
    <3>1. z.fate[x] = v.fate[x]
      BY <1>10, <2>1, <2>3
    <3>2. \A p \in DOMAIN v.blocks : \A id \in DOMAIN v.blocks[p].active : FALSE
      BY <1>6, <1>7 DEF Sound, Linked
    <3>3. ASSUME NEW p \in (S \cap DOMAIN v.blocks) \ W, v.blocks[p].modified = WriteNeeded
          PROVE  NoneLost(v, p, x)
      BY <1>3, <1>7, <1>12, <2>1, <2>3, <3>3, UnwrittenOnes
    <3>. QED  BY <3>1, <3>2, <3>3 DEF Stays
  <2>. QED  BY <2>2, <2>3
<1>18. Sound(z, d, O)
  BY <1>3, <1>7, <1>15, <1>17, LeavesSound
<1>19. ASSUME NEW x \in Objects \ O
       PROVE  InPlace(z, d, x) /\ OnDisk(z, d, x)
  <2>1. x \in returned /\ fate[x] \in {"removed", "cleared"}
    BY <1>3, <1>5, <1>16 DEF Staying
  <2>2. z.fate[x] = "returned"
    BY <1>10, <2>1
  <2>. QED  BY <1>11, <2>2 DEF InPlace, OnDisk, UnmarkedOnDisk
<1>20. PICK B : B = {}
  OBVIOUS
<1>21. Sound(z, d, Objects)
  BY <1>18, <1>19 DEF Sound
<1>22. ClearedOut(z, d, B) /\ Unaged(z, B)
  BY <1>20 DEF ClearedOut, Unaged
<1>23. m_active_blocks' = B
  BY <1>9, <1>20
<1>. QED  BY <1>2, <1>21, <1>22, <1>23, AllSoundAfter DEF AllSound, After

-----------------------------------------------------------------------------
(* minetest.delete_area. *)
(* What goes with the block p: what it stores, and what waits in its list. *)
WaitsIn(w, p, x) ==
  \E id \in ActiveAs(w, x) : /\ w.objects[id].gone # "no" /\ Listed(w, id)
                             /\ w.objects[id].static_block = p
GoesWith(w, p, x) == At(w.blocks, disk, p).stored[x] > 0 \/ WaitsIn(w, p, x)

Deletes(w, z, d, p, S) ==
  /\ z.objects = w.objects
  /\ DOMAIN z.blocks = DOMAIN w.blocks \ {p} /\ DOMAIN d = DOMAIN disk \ {p}
  /\ \A q \in DOMAIN w.blocks \ {p} : z.blocks[q] = w.blocks[q]
  /\ \A q \in DOMAIN disk \ {p} : d[q] = disk[q]
  /\ \A x \in Objects :
       /\ x \in S <=> GoesWith(w, p, x)
       /\ z.fate[x] = IF x \in S /\ w.fate[x] = "alive" THEN "removed" ELSE w.fate[x]

LEMMA DeletesAt ==
  ASSUME NEW w, NEW z, NEW d, NEW p, NEW S, Deletes(w, z, d, p, S)
  PROVE  /\ \A x \in Objects : At(z.blocks, d, p).stored[x] = 0
         /\ \A q : q # p => At(z.blocks, d, q) = At(w.blocks, disk, q)
         /\ At(z.blocks, d, p).stamp # Valid
<1>1. p \notin DOMAIN z.blocks /\ p \notin DOMAIN d
  BY DEF Deletes
<1>2. At(z.blocks, d, p) = BlankBlock
  BY <1>1 DEF At
<1>3. BlankBlock.stored = EmptyStore /\ BlankBlock.stamp = Undefined
  BY DEF BlankBlock
<1>4. \A x \in Objects : EmptyStore[x] = 0
  BY DEF EmptyStore
<1>5. Undefined # Valid
  BY DEF Undefined, Valid
<1>6. ASSUME NEW q, q # p
      PROVE  At(z.blocks, d, q) = At(w.blocks, disk, q)
  <2>1. /\ q \in DOMAIN z.blocks <=> q \in DOMAIN w.blocks
        /\ q \in DOMAIN d <=> q \in DOMAIN disk
        /\ q \in DOMAIN w.blocks => z.blocks[q] = w.blocks[q]
        /\ q \in DOMAIN disk => d[q] = disk[q]
    BY <1>6 DEF Deletes
  <2>. QED  BY <2>1 DEF At
<1>. QED  BY <1>2, <1>3, <1>4, <1>5, <1>6

LEMMA DeletesLists ==
  ASSUME NEW w, NEW z, NEW d, NEW p, NEW S, Deletes(w, z, d, p, S),
         NEW id \in DOMAIN w.objects
  PROVE  /\ id \in DOMAIN z.objects /\ z.objects[id] = w.objects[id]
         /\ Listed(z, id) <=> Listed(w, id) /\ w.objects[id].static_block # p
         /\ Lives(z, id) => Lives(w, id)
<1>1. id \in DOMAIN z.objects /\ z.objects[id] = w.objects[id]
  BY DEF Deletes
<1>2. Listed(z, id) <=> Listed(w, id) /\ w.objects[id].static_block # p
  <2>1. PICK q : q = w.objects[id].static_block
    OBVIOUS
  <2>2. /\ q \in DOMAIN z.blocks <=> q \in DOMAIN w.blocks /\ q # p
        /\ q \in DOMAIN w.blocks /\ q # p => z.blocks[q] = w.blocks[q]
    BY DEF Deletes
  <2>. QED  BY <1>1, <2>1, <2>2 DEF Listed
<1>. QED  BY <1>1, <1>2 DEF Lives

LEMMA DeletesPlaces ==
  ASSUME DiskOK, NEW w \in Worlds, NEW z, NEW d, NEW p \in Positions, NEW S,
         Deletes(w, z, d, p, S), NEW x \in Objects, InPlace(w, disk, x)
  PROVE  InPlace(z, d, x)
<1>1. ActiveAs(z, x) = ActiveAs(w, x)
      /\ \A id \in ActiveAs(w, x) : id \in DOMAIN w.objects /\ w.objects[id].obj = x
  BY DEF Deletes, ActiveAs
<1>2. \A id \in ActiveAs(w, x) :
        /\ id \in DOMAIN z.objects /\ z.objects[id] = w.objects[id]
        /\ Listed(z, id) <=> Listed(w, id) /\ w.objects[id].static_block # p
        /\ Lives(z, id) => Lives(w, id)
  BY <1>1, DeletesLists
<1>3. /\ At(z.blocks, d, p).stored[x] = 0
      /\ \A q : q # p => At(z.blocks, d, q) = At(w.blocks, disk, q)
      /\ At(z.blocks, d, p).stamp # Valid
  BY DeletesAt
<1>4. NoneLaid(w, disk, x) => NoneLaid(z, d, x)
  BY <1>3 DEF NoneLaid
<1>5. At(w.blocks, disk, p).stored[x] \in Nat
  <2>1. PICK b \in MapBlock : b = Fetched(w.blocks, p)
    BY WorldParts, FetchedType
  <2>2. At(w.blocks, disk, p) = b
    BY <2>1, AtFetched
  <2>. QED  BY <2>2 DEF MapBlock, Stores
<1>6. /\ x \in S <=> GoesWith(w, p, x)
      /\ z.fate[x] = IF x \in S /\ w.fate[x] = "alive" THEN "removed" ELSE w.fate[x]
  BY DEF Deletes
<1>7. CASE w.fate[x] # "alive"
  <2>1. z.fate[x] = w.fate[x]
    BY <1>6, <1>7
  <2>2. z.fate[x] = "none" => ActiveAs(z, x) = {} /\ NoneLaid(z, d, x)
    BY <1>1, <1>4, <2>1 DEF InPlace
  <2>3. z.fate[x] = "removed" =>
          NoneLaid(z, d, x) /\ \A id \in ActiveAs(z, x) : ~Lives(z, id)
    BY <1>1, <1>2, <1>4, <2>1 DEF InPlace
  <2>4. z.fate[x] = "cleared" =>
          /\ \A id \in ActiveAs(z, x) : z.objects[id].gone # "no" /\ ~Listed(z, id)
          /\ \A q \in Positions : At(z.blocks, d, q).stamp = Valid
                                  => At(z.blocks, d, q).stored[x] = 0
    BY <1>1, <1>2, <1>3, <2>1 DEF InPlace
  <2>. QED  BY <1>7, <2>1, <2>2, <2>3, <2>4 DEF InPlace
<1>8. CASE w.fate[x] = "alive" /\ x \in S
  <2>1. z.fate[x] = "removed"
    BY <1>6, <1>8
  <2>2. CASE OneActive(w, disk, x)
    <3>1. PICK id \in DOMAIN w.objects : ActiveAs(w, x) = {id} /\ Lives(w, id)
      BY <2>2 DEF OneActive
    <3>2. NoneLaid(w, disk, x)
      BY <2>2 DEF OneActive
    <3>3. WaitsIn(w, p, x)
      BY <1>6, <1>8, <3>2 DEF GoesWith, NoneLaid
    <3>4. w.objects[id].gone # "no" /\ Listed(w, id) /\ w.objects[id].static_block = p
      BY <3>1, <3>3 DEF WaitsIn
    <3>5. z.objects[id] = w.objects[id] /\ ~Listed(z, id)
      BY <1>2, <3>1, <3>4
    <3>6. ~Lives(z, id)
      BY <3>4, <3>5 DEF Lives
    <3>7. \A i \in ActiveAs(z, x) : ~Lives(z, i)
      BY <1>1, <3>1, <3>6
    <3>. QED  BY <1>4, <2>1, <3>2, <3>7 DEF InPlace
  <2>3. CASE OneLaid(w, disk, x)
    <3>1. ActiveAs(w, x) = {}
      BY <2>3 DEF OneLaid
    <3>2. At(w.blocks, disk, p).stored[x] > 0
      BY <1>6, <1>8, <3>1 DEF GoesWith, WaitsIn
    <3>3. \A q \in Positions \ {p} : At(w.blocks, disk, q).stored[x] = 0
      BY <2>3, <3>2 DEF OneLaid
    <3>4. NoneLaid(z, d, x)
      BY <1>3, <3>3 DEF NoneLaid
    <3>. QED  BY <1>1, <2>1, <3>1, <3>4 DEF InPlace
  <2>. QED  BY <1>8, <2>2, <2>3 DEF InPlace
<1>9. CASE w.fate[x] = "alive" /\ x \notin S
  <2>1. z.fate[x] = "alive" /\ ~WaitsIn(w, p, x)
    BY <1>6, <1>9 DEF GoesWith
  <2>2. At(w.blocks, disk, p).stored[x] = 0
    BY <1>5, <1>6, <1>9 DEF GoesWith
  <2>3. CASE OneActive(w, disk, x)
    <3>1. PICK id \in DOMAIN w.objects : ActiveAs(w, x) = {id} /\ Lives(w, id)
      BY <2>3 DEF OneActive
    <3>2. NoneLaid(z, d, x)
      BY <1>4, <2>3 DEF OneActive
    <3>3. id \in DOMAIN z.objects /\ z.objects[id] = w.objects[id]
          /\ (Listed(z, id) <=> Listed(w, id) /\ w.objects[id].static_block # p)
      BY <1>2, <3>1
    <3>4. w.objects[id].gone = "no" \/ ~Listed(w, id) \/ w.objects[id].static_block # p
      BY <2>1, <3>1 DEF WaitsIn
    <3>5. Lives(z, id)
      BY <3>1, <3>3, <3>4 DEF Lives
    <3>6. OneActive(z, d, x)
      BY <1>1, <3>1, <3>2, <3>3, <3>5 DEF OneActive
    <3>. QED  BY <2>1, <3>6 DEF InPlace
  <2>4. CASE OneLaid(w, disk, x)
    <3>1. PICK q \in Positions : /\ At(w.blocks, disk, q).stored[x] = 1
                                 /\ \A r \in Positions \ {q} : At(w.blocks, disk, r).stored[x] = 0
      BY <2>4 DEF OneLaid
    <3>2. q # p
      BY <2>2, <3>1
    <3>3. At(z.blocks, d, q).stored[x] = 1
      BY <1>3, <3>1, <3>2
    <3>4. \A r \in Positions \ {q} : At(z.blocks, d, r).stored[x] = 0
      BY <1>3, <3>1
    <3>5. OneLaid(z, d, x)
      BY <1>1, <2>4, <3>3, <3>4 DEF OneLaid
    <3>. QED  BY <2>1, <3>5 DEF InPlace
  <2>. QED  BY <1>9, <2>3, <2>4 DEF InPlace
<1>. QED  BY <1>7, <1>8, <1>9

LEMMA DeletesOnDisk ==
  ASSUME NEW w, NEW z, NEW d, NEW p, NEW S, Deletes(w, z, d, p, S),
         NEW x \in Objects, OnDisk(w, disk, x)
  PROVE  OnDisk(z, d, x)
<1>1. /\ z.fate[x] \in Sure => w.fate[x] \in Sure
      /\ z.fate[x] = "cleared" => w.fate[x] = "cleared"
      /\ z.fate[x] = "none" => w.fate[x] = "none"
  BY DEF Deletes, Sure
<1>2. ASSUME NEW q \in DOMAIN z.blocks, z.blocks[q].modified # WriteNeeded
      PROVE  /\ q \in DOMAIN d
             /\ z.fate[x] \in Sure => Count(z.blocks[q], x) = d[q].objects[x]
             /\ z.fate[x] = "cleared" /\ d[q].stamp = Valid => d[q].objects[x] = 0
  <2>1. q \in DOMAIN w.blocks /\ q # p /\ z.blocks[q] = w.blocks[q]
    BY DEF Deletes
  <2>2. /\ q \in DOMAIN disk
        /\ w.fate[x] \in Sure => Count(w.blocks[q], x) = disk[q].objects[x]
        /\ w.fate[x] = "cleared" /\ disk[q].stamp = Valid => disk[q].objects[x] = 0
    BY <1>2, <2>1 DEF OnDisk, UnmarkedOnDisk
  <2>3. q \in DOMAIN d /\ d[q] = disk[q]
    BY <2>1, <2>2 DEF Deletes
  <2>. QED  BY <1>1, <2>1, <2>2, <2>3
<1>3. ASSUME z.fate[x] = "none", NEW q \in DOMAIN d
      PROVE  d[q].objects[x] = 0
  BY <1>1, <1>3 DEF Deletes, OnDisk
<1>. QED  BY <1>2, <1>3 DEF OnDisk, UnmarkedOnDisk

LEMMA DeletesAll ==
  ASSUME DiskOK, NEW w \in Worlds, NEW A, AllSound(w, disk, A),
         NEW z, NEW d, NEW p \in Positions, NEW S, Deletes(w, z, d, p, S)
  PROVE  AllSound(z, d, A)
<1>1. Linked(z)
  BY DEF AllSound, Sound, Linked, Deletes
<1>2. Sound(z, d, Objects)
  BY <1>1, DeletesPlaces, DeletesOnDisk DEF AllSound, Sound
<1>3. \A x \in Objects : z.fate[x] = "cleared" => w.fate[x] = "cleared"
  BY DEF Deletes
<1>4. ASSUME NEW q \in A, q \in DOMAIN z.blocks
      PROVE  /\ \A x \in Objects : z.fate[x] = "cleared" => z.blocks[q].stored[x] = 0
             /\ z.blocks[q].old = FALSE
  <2>1. q \in DOMAIN w.blocks /\ z.blocks[q] = w.blocks[q]
    BY <1>4 DEF Deletes
  <2>. QED  BY <1>3, <2>1 DEF AllSound, ClearedOut, Unaged
<1>5. ASSUME NEW q \in A, q \notin DOMAIN z.blocks
      PROVE  q \notin DOMAIN d
  BY <1>5 DEF Deletes, AllSound, ClearedOut
<1>. QED  BY <1>2, <1>4, <1>5 DEF AllSound, ClearedOut, Unaged

-----------------------------------------------------------------------------
LEMMA DeleteSound ==
  ASSUME Inv, SoundInv, NEW p \in Positions, DeleteArea(p)
  PROVE  SoundInv'
<1>1. PICK w, A : Before(w, A)
  BY BeforeStep
<1>2. PICK z, d : After(z, d)
  BY AfterStep
<1>3. /\ DiskOK /\ w \in Worlds /\ w.blocks = blocks /\ w.objects = m_active_objects
      /\ w.fate = fate /\ fate \in [Objects -> Fates] /\ Linked(w)
      /\ A = m_active_blocks /\ AllSound(w, disk, A)
  BY <1>1, WorldParts DEF Before, Settled, AllSound, Sound
<1>4. PICK S : S = IF p \in DOMAIN blocks
                   THEN StoredIn(blocks[p].stored)
                        \cup {blocks[p].active[id] : id \in
                               DOMAIN blocks[p].active \ DOMAIN m_active_objects}
                        \cup {blocks[p].active[id] : id \in
                               DOMAIN blocks[p].active \cap Gone(m_active_objects)}
                   ELSE StoredIn(disk[p].objects)
  OBVIOUS
<1>5. /\ p \in DOMAIN blocks \cup DOMAIN disk
      /\ d = Without(disk, {p}) /\ z.blocks = Without(blocks, {p})
      /\ z.fate = Fated(fate, S, "removed")
      /\ z.objects = m_active_objects /\ m_active_blocks' = m_active_blocks
  BY <1>2, <1>4, Zenon DEF DeleteArea, DeleteBlock, After
<1>6. ASSUME NEW x \in Objects
      PROVE  x \in S <=> GoesWith(w, p, x)
  <2>1. CASE p \in DOMAIN blocks
    <3>1. PICK b : b = w.blocks[p]
      OBVIOUS
    <3>2. S = StoredIn(b.stored)
              \cup {b.active[id] : id \in DOMAIN b.active \ DOMAIN w.objects}
              \cup {b.active[id] : id \in DOMAIN b.active \cap Gone(w.objects)}
      BY <1>3, <1>4, <2>1, <3>1
    <3>3. \A id \in DOMAIN b.active :
            /\ id \in DOMAIN w.objects
            /\ w.objects[id].static_exists = TRUE /\ w.objects[id].static_block = p
            /\ w.objects[id].obj = b.active[id]
      BY <1>3, <2>1, <3>1 DEF Linked
    <3>4. At(w.blocks, disk, p) = b
      BY <1>3, <2>1, <3>1 DEF At
    <3>5. ASSUME NEW id \in DOMAIN b.active \cap Gone(w.objects), b.active[id] = x
          PROVE  WaitsIn(w, p, x)
      <4>1. id \in ActiveAs(w, x) /\ Listed(w, id) /\ w.objects[id].static_block = p
        BY <1>3, <2>1, <3>1, <3>3, <3>5 DEF ActiveAs, Listed
      <4>2. w.objects[id].gone # "no"
        BY DEF Gone
      <4>. QED  BY <4>1, <4>2 DEF WaitsIn
    <3>6. ASSUME WaitsIn(w, p, x)
          PROVE  \E id \in DOMAIN b.active \cap Gone(w.objects) : b.active[id] = x
      <4>1. PICK id \in ActiveAs(w, x) : /\ w.objects[id].gone # "no" /\ Listed(w, id)
                                         /\ w.objects[id].static_block = p
        BY <3>6 DEF WaitsIn
      <4>2. id \in DOMAIN w.objects /\ w.objects[id].obj = x /\ id \in DOMAIN b.active
        BY <3>1, <4>1 DEF ActiveAs, Listed
      <4>3. id \in Gone(w.objects)
        BY <4>1, <4>2 DEF Gone
      <4>. QED  BY <3>3, <4>2, <4>3
    <3>7. x \in StoredIn(b.stored) <=> b.stored[x] > 0
      BY DEF StoredIn
    <3>. QED  BY <3>2, <3>3, <3>4, <3>5, <3>6, <3>7 DEF GoesWith
  <2>2. CASE p \notin DOMAIN blocks
    <3>1. S = StoredIn(disk[p].objects)
      BY <1>4, <2>2
    <3>2. At(w.blocks, disk, p).stored = disk[p].objects
      BY <1>3, <1>5, <2>2 DEF At, Deserialized
    <3>3. ~WaitsIn(w, p, x)
      BY <1>3, <2>2 DEF WaitsIn, Listed
    <3>. QED  BY <3>1, <3>2, <3>3 DEF GoesWith, StoredIn
  <2>. QED  BY <2>1, <2>2
<1>7. PICK new \in Fates : new = "removed"
  BY DEF Fates
<1>8. \A x \in Objects :
        z.fate[x] = IF x \in S /\ w.fate[x] = "alive" THEN "removed" ELSE w.fate[x]
  <2>1. z.fate = Fated(fate, S, new)
    BY <1>5, <1>7
  <2>. QED  BY <1>3, <1>7, <2>1, FatedValues
<1>9. /\ DOMAIN z.blocks = DOMAIN w.blocks \ {p} /\ DOMAIN d = DOMAIN disk \ {p}
      /\ \A q \in DOMAIN w.blocks \ {p} : z.blocks[q] = w.blocks[q]
      /\ \A q \in DOMAIN disk \ {p} : d[q] = disk[q]
  <2>1. PICK T : T = {p}
    OBVIOUS
  <2>2. d = Without(disk, T) /\ z.blocks = Without(blocks, T)
    BY <1>5, <2>1
  <2>3. /\ DOMAIN z.blocks = DOMAIN w.blocks \ T /\ DOMAIN d = DOMAIN disk \ T
        /\ \A q \in DOMAIN w.blocks \ T : z.blocks[q] = w.blocks[q]
        /\ \A q \in DOMAIN disk \ T : d[q] = disk[q]
    BY <1>3, <2>2 DEF Without
  <2>. QED  BY <2>1, <2>3
<1>10. Deletes(w, z, d, p, S)
  BY <1>3, <1>5, <1>6, <1>8, <1>9 DEF Deletes
<1>11. AllSound(z, d, A)
  BY <1>3, <1>10, DeletesAll
<1>. QED  BY <1>2, <1>3, <1>5, <1>11, AllSoundAfter DEF After

-----------------------------------------------------------------------------
(* The server dies: what is still followed was on disk. *)
Survives(w, d, x) ==
  /\ w.fate[x] # "none" =>
       /\ \A p \in DOMAIN w.blocks : w.blocks[p].modified # WriteNeeded
       /\ \A id \in ActiveAs(w, x) : w.objects[id].gone # "removal" /\ Listed(w, id)
  /\ w.fate[x] = "cleared" => \A p \in DOMAIN disk : d[p].stamp = disk[p].stamp

Dies(w, z, d) ==
  /\ DOMAIN z.blocks = {} /\ DOMAIN z.objects = {}
  /\ DOMAIN d = DOMAIN disk /\ \A p \in DOMAIN disk : d[p].objects = disk[p].objects
  /\ \A x \in Objects : z.fate[x] \in Followed => z.fate[x] = w.fate[x] /\ Survives(w, d, x)

LEMMA DiesAt ==
  ASSUME NEW w, NEW z, NEW d, Dies(w, z, d), NEW x \in Objects, NEW p
  PROVE  /\ p \in DOMAIN disk =>
              /\ At(z.blocks, d, p).stored[x] = disk[p].objects[x]
              /\ At(z.blocks, d, p).stamp = d[p].stamp
         /\ p \notin DOMAIN disk =>
              At(z.blocks, d, p).stored[x] = 0 /\ At(z.blocks, d, p).stamp # Valid
<1>1. p \notin DOMAIN z.blocks
  BY DEF Dies
<1>2. CASE p \in DOMAIN disk
  <2>1. At(z.blocks, d, p) = Deserialized(d[p])
    BY <1>1, <1>2 DEF Dies, At
  <2>2. Deserialized(d[p]).stored = d[p].objects /\ Deserialized(d[p]).stamp = d[p].stamp
    BY DEF Deserialized
  <2>. QED  BY <1>2, <2>1, <2>2 DEF Dies
<1>3. CASE p \notin DOMAIN disk
  <2>1. At(z.blocks, d, p) = BlankBlock
    BY <1>1, <1>3 DEF Dies, At
  <2>2. BlankBlock.stored = EmptyStore /\ BlankBlock.stamp = Undefined
    BY DEF BlankBlock
  <2>3. EmptyStore[x] = 0 /\ Undefined # Valid
    BY DEF EmptyStore, Undefined, Valid
  <2>. QED  BY <1>3, <2>1, <2>2, <2>3
<1>. QED  BY <1>2, <1>3

(* Memory and disk agree, for an object of which all blocks are on disk.   *)
LEMMA DiesStored ==
  ASSUME NEW w, NEW z, NEW d, Dies(w, z, d), NEW x \in Objects, OnDisk(w, disk, x),
         w.fate[x] \in Sure, w.fate[x] # "none", Survives(w, d, x), NEW p
  PROVE  At(z.blocks, d, p).stored[x] =
           IF p \in DOMAIN w.blocks THEN Count(w.blocks[p], x)
           ELSE At(w.blocks, disk, p).stored[x]
<1>1. CASE p \in DOMAIN w.blocks
  <2>1. p \in DOMAIN disk /\ Count(w.blocks[p], x) = disk[p].objects[x]
    BY <1>1 DEF Survives, OnDisk, UnmarkedOnDisk
  <2>. QED  BY <1>1, <2>1, DiesAt
<1>2. CASE p \notin DOMAIN w.blocks
  <2>1. CASE p \in DOMAIN disk
    BY <1>2, <2>1, DiesAt DEF At, Deserialized
  <2>2. CASE p \notin DOMAIN disk
    <3>1. At(w.blocks, disk, p).stored[x] = 0
      BY <1>2, <2>2 DEF At, BlankBlock, EmptyStore
    <3>. QED  BY <1>2, <2>2, <3>1, DiesAt
  <2>. QED  BY <2>1, <2>2
<1>. QED  BY <1>1, <1>2

LEMMA DiesPlaces ==
  ASSUME DiskOK, NEW w \in Worlds, Linked(w), NEW z, NEW d, Dies(w, z, d),
         NEW x \in Objects, InPlace(w, disk, x), OnDisk(w, disk, x)
  PROVE  InPlace(z, d, x)
<1>1. ActiveAs(z, x) = {}
  BY DEF Dies, ActiveAs
<1>2. CASE z.fate[x] \notin Followed
  BY <1>2 DEF InPlace, Followed, Sure
<1>3. CASE z.fate[x] \in Followed
  <2>1. z.fate[x] = w.fate[x] /\ Survives(w, d, x)
    BY <1>3 DEF Dies
  <2>2. ASSUME NEW p \in DOMAIN w.blocks, NEW id \in DOMAIN w.blocks[p].active,
               w.blocks[p].active[id] = x
        PROVE  id \in ActiveAs(w, x) /\ Listed(w, id) /\ w.objects[id].static_block = p
    <3>1. id \in DOMAIN w.objects /\ w.objects[id].static_exists
          /\ w.objects[id].static_block = p /\ w.objects[id].obj = x
      BY <2>2 DEF Linked
    <3>. QED  BY <3>1 DEF ActiveAs, Listed
  <2>3. ASSUME NEW p \in DOMAIN w.blocks
        PROVE  /\ w.blocks[p] \in MapBlock /\ p \in Positions
               /\ At(w.blocks, disk, p) = w.blocks[p]
               /\ ActiveOf(w.blocks[p].active, x) = 0
                    => Count(w.blocks[p], x) = At(w.blocks, disk, p).stored[x]
    <3>1. w.blocks[p] \in MapBlock /\ p \in Positions
      BY WorldParts
    <3>2. At(w.blocks, disk, p) = w.blocks[p]
      BY DEF At
    <3>. QED  BY <3>1, <3>2, CountUnentered
  <2>4. ASSUME w.fate[x] \in Sure, w.fate[x] # "none", NEW p,
               \A id \in ActiveAs(w, x) : ~(Listed(w, id) /\ w.objects[id].static_block = p)
        PROVE  At(z.blocks, d, p).stored[x] = At(w.blocks, disk, p).stored[x]
    <3>1. CASE p \in DOMAIN w.blocks
      <4>1. \A id \in DOMAIN w.blocks[p].active : w.blocks[p].active[id] # x
        BY <2>2, <2>4, <3>1
      <4>2. ActiveOf(w.blocks[p].active, x) = 0
        BY <4>1, NoEntry
      <4>. QED  BY <2>1, <2>3, <2>4, <3>1, <4>2, DiesStored
    <3>2. CASE p \notin DOMAIN w.blocks
      BY <2>1, <2>4, <3>2, DiesStored
    <3>. QED  BY <3>1, <3>2
  <2>5. CASE w.fate[x] = "none"
    <3>1. ASSUME NEW p \in Positions
          PROVE  At(z.blocks, d, p).stored[x] = 0
      <4>1. CASE p \in DOMAIN disk
        <5>1. disk[p].objects[x] = 0
          BY <2>5, <4>1 DEF OnDisk
        <5>. QED  BY <4>1, <5>1, DiesAt
      <4>2. CASE p \notin DOMAIN disk
        BY <4>2, DiesAt
      <4>. QED  BY <4>1, <4>2
    <3>. QED  BY <1>1, <2>1, <2>5, <3>1 DEF InPlace, NoneLaid
  <2>6. CASE w.fate[x] = "removed"
    <3>1. \A id \in ActiveAs(w, x) : FALSE
      <4>1. SUFFICES ASSUME NEW id \in ActiveAs(w, x)  PROVE FALSE
        OBVIOUS
      <4>2. id \in DOMAIN w.objects /\ w.objects[id] \in ActiveObject
        BY WorldParts DEF ActiveAs
      <4>3. ~Lives(w, id)
        BY <2>6 DEF InPlace
      <4>4. Listed(w, id) /\ w.objects[id].gone # "removal"
        BY <2>1, <2>6 DEF Survives
      <4>. QED  BY <4>2, <4>3, <4>4 DEF Lives, ActiveObject
    <3>2. w.fate[x] \in Sure /\ w.fate[x] # "none"
      BY <2>6 DEF Sure
    <3>3. NoneLaid(w, disk, x)
      BY <2>6 DEF InPlace
    <3>4. \A p \in Positions : At(z.blocks, d, p).stored[x] = At(w.blocks, disk, p).stored[x]
      BY <2>4, <3>1, <3>2
    <3>5. NoneLaid(z, d, x)
      BY <3>3, <3>4 DEF NoneLaid
    <3>. QED  BY <1>1, <2>1, <2>6, <3>5 DEF InPlace
  <2>7. CASE w.fate[x] = "cleared"
    <3>1. ASSUME NEW p \in Positions, At(z.blocks, d, p).stamp = Valid
          PROVE  At(z.blocks, d, p).stored[x] = 0
      <4>1. p \in DOMAIN disk
        BY <3>1, DiesAt
      <4>2. At(z.blocks, d, p).stored[x] = disk[p].objects[x] /\ d[p].stamp = Valid
        BY <3>1, <4>1, DiesAt
      <4>3. disk[p].stamp = Valid
        BY <2>1, <2>7, <4>1, <4>2 DEF Survives
      <4>4. CASE p \in DOMAIN w.blocks
        <5>1. w.blocks[p].modified # WriteNeeded
          BY <2>1, <2>7, <4>4 DEF Survives
        <5>. QED  BY <2>7, <4>2, <4>3, <4>4, <5>1 DEF OnDisk, UnmarkedOnDisk
      <4>5. CASE p \notin DOMAIN w.blocks
        <5>1. /\ At(w.blocks, disk, p).stamp = disk[p].stamp
              /\ At(w.blocks, disk, p).stored = disk[p].objects
          BY <4>1, <4>5 DEF At, Deserialized
        <5>. QED  BY <2>7, <4>2, <4>3, <5>1 DEF InPlace
      <4>. QED  BY <4>4, <4>5
    <3>. QED  BY <1>1, <2>1, <2>7, <3>1 DEF InPlace
  <2>8. CASE w.fate[x] = "alive" /\ OneLaid(w, disk, x)
    <3>1. w.fate[x] \in Sure /\ w.fate[x] # "none" /\ ActiveAs(w, x) = {}
      BY <2>8 DEF Sure, OneLaid
    <3>2. \A p \in Positions : At(z.blocks, d, p).stored[x] = At(w.blocks, disk, p).stored[x]
      BY <2>4, <3>1
    <3>3. OneLaid(z, d, x)
      BY <1>1, <2>8, <3>2 DEF OneLaid
    <3>. QED  BY <2>1, <2>8, <3>3 DEF InPlace
  <2>9. CASE w.fate[x] = "alive" /\ OneActive(w, disk, x)
    <3>1. w.fate[x] \in Sure /\ w.fate[x] # "none" /\ NoneLaid(w, disk, x)
      BY <2>9 DEF Sure, OneActive
    <3>2. PICK id \in DOMAIN w.objects : ActiveAs(w, x) = {id}
      BY <2>9 DEF OneActive
    <3>3. PICK p : p = w.objects[id].static_block
      OBVIOUS
    <3>4. /\ Listed(w, id) /\ p \in DOMAIN w.blocks /\ id \in DOMAIN w.blocks[p].active
          /\ w.objects[id].obj = x
      BY <2>1, <3>1, <3>2, <3>3 DEF Survives, Listed, ActiveAs
    <3>5. w.blocks[p].active[id] = x
      BY <3>4 DEF Linked
    <3>6. {i \in DOMAIN w.blocks[p].active : w.blocks[p].active[i] = x} = {id}
      BY <2>2, <3>2, <3>4, <3>5
    <3>7. ActiveOf(w.blocks[p].active, x) = 1
      BY <3>6, FS_Singleton DEF ActiveOf
    <3>8. w.blocks[p].stored[x] = 0 /\ p \in Positions
      BY <2>3, <3>1, <3>4 DEF NoneLaid
    <3>9. At(z.blocks, d, p).stored[x] = 1
      <4>1. Count(w.blocks[p], x) = 1
        BY <3>7, <3>8 DEF Count
      <4>. QED  BY <2>1, <3>1, <3>4, <4>1, DiesStored
    <3>10. \A q \in Positions \ {p} :
             At(z.blocks, d, q).stored[x] = At(w.blocks, disk, q).stored[x]
      BY <2>4, <3>1, <3>2, <3>3
    <3>11. OneLaid(z, d, x)
      BY <1>1, <3>1, <3>8, <3>9, <3>10 DEF OneLaid, NoneLaid
    <3>. QED  BY <2>1, <2>9, <3>11 DEF InPlace
  <2>10. w.fate[x] \in Followed
    BY <1>3, <2>1
  <2>. QED  BY <2>5, <2>6, <2>7, <2>8, <2>9, <2>10 DEF InPlace, Followed, Sure
<1>. QED  BY <1>2, <1>3

LEMMA DiesSound ==
  ASSUME DiskOK, NEW w \in Worlds, Sound(w, disk, Objects), NEW z, NEW d, Dies(w, z, d)
  PROVE  Sound(z, d, Objects)
<1>1. Linked(z)
  BY DEF Dies, Linked
<1>2. ASSUME NEW x \in Objects
      PROVE  OnDisk(z, d, x)
  <2>1. UnmarkedOnDisk(z, d, x)
    BY DEF Dies, UnmarkedOnDisk
  <2>2. ASSUME z.fate[x] = "none", NEW p \in DOMAIN d
        PROVE  d[p].objects[x] = 0
    <3>1. w.fate[x] = "none"
      BY <2>2 DEF Dies, Followed, Sure
    <3>2. p \in DOMAIN disk /\ d[p].objects = disk[p].objects
      BY DEF Dies
    <3>. QED  BY <3>1, <3>2 DEF Sound, OnDisk
  <2>. QED  BY <2>1, <2>2 DEF OnDisk
<1>. QED  BY <1>1, <1>2, DiesPlaces DEF Sound

LEMMA CrashSound ==
  ASSUME Inv, SoundInv, NEW meta_saved, Crash(meta_saved)
  PROVE  SoundInv'
<1>1. PICK w, A : Before(w, A)
  BY BeforeStep
<1>2. PICK z, d : After(z, d)
  BY AfterStep
<1>3. /\ DiskOK /\ w \in Worlds /\ w.blocks = blocks /\ w.objects = m_active_objects
      /\ w.fate = fate /\ Sound(w, disk, Objects)
  BY <1>1 DEF Before, Settled
<1>4. PICK T : T = AtLevel(blocks, WriteNeeded)
  OBVIOUS
<1>5. PICK U : U = {m_active_objects[id].obj : id \in {i \in DOMAIN m_active_objects :
            \/ m_active_objects[i].gone = "removal"
            \/ ~StaticDataResides(m_active_objects[i], i)}}
  OBVIOUS
<1>6. /\ z.blocks = Nothing /\ z.objects = Nothing /\ m_active_blocks' = {}
      /\ d = [p \in DOMAIN disk |-> [disk[p] EXCEPT !.stamp =
                IF @ = Outdated /\ ~meta_saved THEN Valid ELSE @]]
      /\ z.fate = [o \in Objects |->
                IF \/ fate[o] # "none" /\ (T # {} \/ o \in U)
                   \/ fate[o] = "cleared" /\ ~meta_saved
                THEN "crashed" ELSE fate[o]]
  BY <1>2, <1>4, <1>5, Zenon DEF Crash, LoseMemory, After
<1>7. DOMAIN z.blocks = {} /\ DOMAIN z.objects = {}
  BY <1>6 DEF Nothing
<1>8. ASSUME NEW p \in DOMAIN disk
      PROVE  /\ d[p].objects = disk[p].objects
             /\ meta_saved => d[p].stamp = disk[p].stamp
  <2>1. PICK c \in BlockCopy : c = disk[p]
    BY <1>3, PartialMember DEF DiskOK
  <2>2. PICK stamp : stamp = IF c.stamp = Outdated /\ ~meta_saved THEN Valid ELSE c.stamp
    OBVIOUS
  <2>3. d[p] = [c EXCEPT !.stamp = stamp]
    BY <1>6, <2>1, <2>2
  <2>4. d[p].objects = c.objects /\ d[p].stamp = stamp
    BY <2>3 DEF BlockCopy
  <2>. QED  BY <2>1, <2>2, <2>4
<1>9. ASSUME NEW x \in Objects, z.fate[x] \in Followed
      PROVE  z.fate[x] = w.fate[x] /\ Survives(w, d, x)
  <2>1. ~(\/ fate[x] # "none" /\ (T # {} \/ x \in U)
          \/ fate[x] = "cleared" /\ ~meta_saved)
    <3>1. z.fate[x] # "crashed"
      BY <1>9 DEF Followed, Sure
    <3>. QED  BY <1>6, <3>1
  <2>2. z.fate[x] = fate[x]
    BY <1>6, <2>1
  <2>3. ASSUME fate[x] # "none", NEW p \in DOMAIN w.blocks
        PROVE  w.blocks[p].modified # WriteNeeded
    <3>1. p \notin AtLevel(blocks, WriteNeeded)
      BY <1>4, <2>1, <2>3
    <3>. QED  BY <1>3, <3>1 DEF AtLevel, WriteNeeded
  <2>4. ASSUME fate[x] # "none", NEW id \in ActiveAs(w, x)
        PROVE  w.objects[id].gone # "removal" /\ Listed(w, id)
    <3>1. id \in DOMAIN m_active_objects /\ m_active_objects[id].obj = x
      BY <1>3 DEF ActiveAs
    <3>2. x \notin U
      BY <2>1, <2>4
    <3>3. /\ m_active_objects[id].gone # "removal"
          /\ StaticDataResides(m_active_objects[id], id)
      BY <1>5, <3>1, <3>2
    <3>. QED  BY <1>3, <3>3 DEF StaticDataResides, Listed
  <2>5. fate[x] = "cleared" => \A p \in DOMAIN disk : d[p].stamp = disk[p].stamp
    BY <1>8, <2>1
  <2>. QED  BY <1>3, <2>2, <2>3, <2>4, <2>5 DEF Survives
<1>10. DOMAIN d = DOMAIN disk
  BY <1>6
<1>11. Dies(w, z, d)
  BY <1>7, <1>8, <1>9, <1>10 DEF Dies
<1>12. PICK B : B = {}
  OBVIOUS
<1>13. Sound(z, d, Objects)
  BY <1>3, <1>11, DiesSound
<1>14. ClearedOut(z, d, B) /\ Unaged(z, B)
  BY <1>12 DEF ClearedOut, Unaged
<1>15. m_active_blocks' = B
  BY <1>6, <1>12
<1>. QED  BY <1>2, <1>13, <1>14, <1>15, AllSoundAfter DEF AllSound, After

-----------------------------------------------------------------------------
LEMMA InitSound ==
  ASSUME InitObjects
  PROVE  SoundInv
<1>1. /\ blocks = Nothing /\ disk = Nothing /\ m_active_objects = Nothing
      /\ m_active_blocks = {} /\ fate = [o \in Objects |-> "none"]
  BY DEF InitObjects, Init
<1>2. PICK w : w = World
  OBVIOUS
<1>3. w.blocks = blocks /\ w.objects = m_active_objects /\ w.fate = fate
  BY <1>2 DEF World
<1>4. DOMAIN w.blocks = {} /\ DOMAIN w.objects = {} /\ DOMAIN disk = {}
  BY <1>1, <1>3 DEF Nothing
<1>5. PICK d : d = disk
  OBVIOUS
<1>6. ASSUME NEW x \in Objects
      PROVE  InPlace(w, d, x) /\ OnDisk(w, d, x)
  <2>1. w.fate[x] = "none"
    BY <1>1, <1>3
  <2>2. ActiveAs(w, x) = {}
    BY <1>4 DEF ActiveAs
  <2>3. \A p \in Positions : At(w.blocks, d, p) = BlankBlock
    BY <1>4, <1>5 DEF At
  <2>4. BlankBlock.stored[x] = 0
    BY DEF BlankBlock, EmptyStore
  <2>5. NoneLaid(w, d, x)
    BY <2>3, <2>4 DEF NoneLaid
  <2>6. InPlace(w, d, x)
    BY <2>1, <2>2, <2>5 DEF InPlace
  <2>7. OnDisk(w, d, x)
    BY <1>4, <1>5 DEF OnDisk, UnmarkedOnDisk
  <2>. QED  BY <2>6, <2>7
<1>7. Linked(w)
  BY <1>4 DEF Linked
<1>8. ClearedOut(w, d, m_active_blocks) /\ Unaged(w, m_active_blocks)
  BY <1>1 DEF ClearedOut, Unaged
<1>. QED  BY <1>2, <1>5, <1>6, <1>7, <1>8 DEF SoundInv, AllSound, Sound

LEMMA StutterSound ==
  ASSUME Inv, SoundInv, UNCHANGED vars
  PROVE  SoundInv'
<1>1. PICK w, A : Before(w, A)
  BY BeforeStep
<1>2. UNCHANGED <<blocks, disk, m_active_objects, m_active_blocks, fate>>
  BY DEF vars, mapVars, envVars
<1>3. w = World'
  BY <1>1, <1>2 DEF World, Before
<1>4. A = m_active_blocks' /\ AllSound(w, disk, A)
  BY <1>1, <1>2 DEF Before, Settled, AllSound
<1>5. PICK d : d = disk
  OBVIOUS
<1>6. d = disk'
  BY <1>2, <1>5
<1>. QED  BY <1>3, <1>4, <1>5, <1>6, AllSoundAfter

(* One step per action. *)
LEMMA NextSound ==
  ASSUME Inv, SoundInv, [Next]_vars
  PROVE  SoundInv'
<1>1. ASSUME NEW p \in Positions, NEW allow_gen \in BOOLEAN,
             MapAction(GetBlockOrStartGen(p, allow_gen))
      PROVE  SoundInv'
  BY <1>1, GetSound
<1>2. ASSUME NEW p \in Positions, NEW e \in Edits, MapAction(EditNode(p, e))
      PROVE  SoundInv'
  BY <1>2, EditSound
<1>3. ASSUME NEW written, MapAction(Save(written))
      PROVE  SoundInv'
  BY <1>3, SaveSound
<1>4. ASSUME NEW p \in Positions,
             FinishGen(p) \/ DeleteArea(p) \/ \E written \in SUBSET {p} : UnloadBlock(p, written)
      PROVE  SoundInv'
  BY <1>4, FinishSound, UnloadSound, DeleteSound
<1>5. ASSUME NEW o \in Objects, NEW p \in Positions, AddObject(o, p)
      PROVE  SoundInv'
  BY <1>5, AddObjectSound
<1>6. ASSUME NEW id \in DOMAIN m_active_objects,
             \/ RemoveObject(id) \/ KnownChanges(id)
             \/ \E p \in Positions : MoveObject(id, p)
      PROVE  SoundInv'
  <2>1. m_active_objects[id].pos \in Positions
    <3>1. m_active_objects \in Partial(Ids, ActiveObject)
      BY InvParts
    <3>2. m_active_objects[id] \in ActiveObject
      BY <3>1, PartialMember
    <3>. QED  BY <3>2 DEF ActiveObject
  <2>2. \E p \in Positions : RemoveObject(id) \/ KnownChanges(id) \/ MoveObject(id, p)
    BY <1>6, <2>1
  <2>. QED  BY <2>2, OneObjectSound
<1>7. CASE removeRemovedObjects
  BY <1>7, RemovedSound
<1>8. ASSUME NEW near \in SUBSET Positions, NEW changed, NEW order \in Orders,
             UpdateActiveBlocks(near, changed, order)
      PROVE  SoundInv'
  BY <1>8, UpdateSound
<1>9. ASSUME NEW expired, RunNodeTimers(expired)
      PROVE  SoundInv'
  BY <1>9, TimersSound
<1>10. ASSUME NEW full \in BOOLEAN, NEW recent, NEW fresh, ClearObjects(full, recent, fresh)
       PROVE  SoundInv'
  BY <1>10, ClearSound
<1>11. ASSUME NEW meta_saved, Crash(meta_saved)
       PROVE  SoundInv'
  BY <1>11, CrashSound
<1>12. ASSUME NEW order \in Orders, NEW changed, Shutdown(order, changed)
       PROVE  SoundInv'
  BY <1>12, ShutdownSound
<1>13. CASE UNCHANGED vars
  BY <1>13, StutterSound
<1>. QED  BY <1>1, <1>2, <1>3, <1>4, <1>5, <1>6, <1>7, <1>8, <1>9, <1>10, <1>11, <1>12,
             <1>13 DEF Next

-----------------------------------------------------------------------------
(* Each object added and not removed is in the world exactly once, active  *)
(* or stored, in memory or on disk; one that was removed is not, and one   *)
(* that was cleared is only where it will be forgotten: for any blocks,    *)
(* objects, limits and number of emerge threads, but for the objects whose *)
(* fate says how the code lost track of them.                              *)
THEOREM ObjectsAreExactlyOnce == Spec => []ExactlyOnce
<1>1. InitObjects => Inv /\ SoundInv
  BY InitInv, InitSound
<1>2. Inv /\ SoundInv /\ [Next]_vars => (Inv /\ SoundInv)'
  BY NextKeeps, NextSound DEF Kept
<1>3. Inv /\ SoundInv => ExactlyOnce
  BY SoundIsExactlyOnce DEF Inv, SoundInv, AllSound
<1>. QED  BY <1>1, <1>2, <1>3, PTL DEF Spec
=============================================================================
