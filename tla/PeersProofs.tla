---------------------------- MODULE PeersProofs ----------------------------
(***************************************************************************)
(* Why no thread ever uses a deleted peer, for any number of threads,      *)
(* peers and datagrams.  m_usage counts the helpers that hold the peer; a  *)
(* peer is marked for deletion exactly when it is neither in the map nor   *)
(* in the hands of deletePeer; and it is deleted exactly when it is marked *)
(* and unused.  Then, what the events tell of the peers: the peers that    *)
(* were added and not removed are those in the map and those that leave.   *)
(***************************************************************************)
EXTENDS Peers, FiniteSetTheorems, WellFoundedInduction, TLAPS

Holders(o) == {h \in Helpers : helpers[h] = o}

UseCounts == \A o \in Objects : peers[o].usage = Cardinality(Holders(o))

MarkedWhenOut ==
    \A o \in Objects :
       peers[o].pending_deletion <=> ~ InMap(o) /\ ~ Removing(o)

DeletedWhenUnused ==
    \A o \in Objects :
       peers[o].deletes = IF peers[o].pending_deletion /\ peers[o].usage = 0
                          THEN 1 ELSE 0

(* Each peer is in the map under its own id, or in the hands of one thread. *)
OneHand ==
    /\ \A id \in DOMAIN m_peers : peers[m_peers[id]].id = id
    /\ receive.target # NoPeer => ~ InMap(receive.target)
    /\ send.target # NoPeer => ~ InMap(send.target)
    /\ receive.target # NoPeer => receive.target # send.target

(* What the threads hold, by where they are. *)
Places ==
    /\ receive.target # NoPeer <=> receive.pc \in {"removed", "drop"}
    /\ send.target # NoPeer <=> send.pc \in {"removed", "drop"}
    /\ helpers["receive"] # NoPeer <=>
         receive.pc \in {"process", "erase", "removed", "drop", "leave",
                         "data", "release"}
    /\ helpers["process"] # NoPeer <=>
         receive.pc \in {"erase", "removed", "drop", "leave"}
    /\ helpers["send"] # NoPeer <=> send.pc = "visiting"

PeersInv == /\ TypeOK /\ UseCounts /\ MarkedWhenOut /\ DeletedWhenUnused
            /\ OneHand /\ Places

USE DEF NoPeer, Objects

-----------------------------------------------------------------------------
(* Lemmas. *)

(* There are finitely many helpers, so the holders of a peer are finite.   *)
LEMMA HoldersFinite == ASSUME NEW o PROVE IsFiniteSet(Holders(o))
<1>1. IsFiniteSet({})
  BY FS_EmptySet
<1>2. IsFiniteSet({} \cup {"receive"})
  BY <1>1, FS_AddElement
<1>3. IsFiniteSet({} \cup {"receive"} \cup {"process"})
  BY <1>2, FS_AddElement
<1>4. IsFiniteSet({} \cup {"receive"} \cup {"process"} \cup {"send"})
  BY <1>3, FS_AddElement
<1>5. IsFiniteSet(Helpers)
  <2>1. Helpers = ({} \cup {"receive"} \cup {"process"} \cup {"send"}) \cup Users
    BY DEF Helpers
  <2> QED BY <2>1, <1>4, PeersAssumption, FS_Union
<1> QED BY <1>5, FS_Subset DEF Holders

(* Replacing one element of a sequence keeps its length and its type.      *)
LEMMA ReplaceOne ==
  ASSUME NEW S, NEW s \in Seq(S), NEW i \in DOMAIN s, NEW e \in S
  PROVE  /\ [s EXCEPT ![i] = e] \in Seq(S)
         /\ DOMAIN [s EXCEPT ![i] = e] = DOMAIN s
         /\ \A j \in DOMAIN s : [s EXCEPT ![i] = e][j] = IF j = i THEN e ELSE s[j]
  OBVIOUS

(* What taking and releasing a helper do to the Peer objects.              *)
LEMMA IncEffect ==
  ASSUME TypeOK, NEW o \in Objects, peers' = IncUseCount(o)
  PROVE  /\ peers' \in Seq(Peer) /\ DOMAIN peers' = DOMAIN peers
         /\ \A j \in Objects : peers'[j] =
              IF j = o THEN [peers[o] EXCEPT !.usage = @ + 1] ELSE peers[j]
<1> DEFINE e == [peers[o] EXCEPT !.usage = @ + 1]
<1>0. peers[o] \in Peer
  BY DEF TypeOK
<1>1. e \in Peer
  BY <1>0 DEF Peer
<1>2. peers' = [peers EXCEPT ![o] = e]
  BY DEF IncUseCount
<1> HIDE DEF e
<1>3. peers \in Seq(Peer)
  BY DEF TypeOK
<1>4. /\ peers' \in Seq(Peer) /\ DOMAIN peers' = DOMAIN peers
      /\ \A j \in Objects : peers'[j] = IF j = o THEN e ELSE peers[j]
  BY <1>1, <1>2, <1>3, ReplaceOne
<1> QED BY <1>4 DEF e

LEMMA DecEffect ==
  ASSUME TypeOK, NEW o \in Objects, peers' = DecUseCount(o),
         peers[o].usage > 0
  PROVE  /\ peers' \in Seq(Peer) /\ DOMAIN peers' = DOMAIN peers
         /\ \A j \in Objects : peers'[j] =
              IF j = o
              THEN [peers[o] EXCEPT !.usage = @ - 1,
                      !.deletes = IF peers[o].pending_deletion
                                     /\ peers[o].usage = 1
                                  THEN @ + 1 ELSE @]
              ELSE peers[j]
<1> DEFINE e == [peers[o] EXCEPT !.usage = @ - 1,
                   !.deletes = IF peers[o].pending_deletion
                                  /\ peers[o].usage = 1
                               THEN @ + 1 ELSE @]
<1>0. peers[o] \in Peer
  BY DEF TypeOK
<1> DEFINE d == IF peers[o].pending_deletion /\ peers[o].usage = 1 THEN peers[o].deletes + 1
               ELSE peers[o].deletes
<1>a. d \in Nat /\ (peers[o].usage - 1) \in Nat
  BY <1>0 DEF Peer
<1>b. [peers[o] EXCEPT !.usage = @ - 1] \in Peer
  BY <1>0, <1>a DEF Peer
<1>c. e = [[peers[o] EXCEPT !.usage = @ - 1] EXCEPT !.deletes = d]
  BY <1>0 DEF Peer
<1> HIDE DEF d
<1>1. e \in Peer
  BY <1>a, <1>b, <1>c DEF Peer
<1> USE DEF d
<1>2. peers' = [peers EXCEPT ![o] = e]
  BY DEF DecUseCount
<1> HIDE DEF e
<1>3. peers \in Seq(Peer)
  BY DEF TypeOK
<1>4. /\ peers' \in Seq(Peer) /\ DOMAIN peers' = DOMAIN peers
      /\ \A j \in Objects : peers'[j] = IF j = o THEN e ELSE peers[j]
  BY <1>1, <1>2, <1>3, ReplaceOne
<1> QED BY <1>4 DEF e

(* The same for any name of the new sequence. *)
LEMMA DecKeepsType ==
  ASSUME TypeOK, NEW o \in Objects, NEW new, new = DecUseCount(o),
         peers[o].usage > 0
  PROVE  new \in Seq(Peer) /\ DOMAIN new = DOMAIN peers
<1> DEFINE d == IF peers[o].pending_deletion /\ peers[o].usage = 1
                THEN peers[o].deletes + 1 ELSE peers[o].deletes
           e == [peers[o] EXCEPT !.usage = @ - 1, !.deletes = d]
<1>0. peers[o] \in Peer
  BY DEF TypeOK
<1>1. d \in Nat /\ [peers[o] EXCEPT !.usage = @ - 1] \in Peer
  BY <1>0 DEF Peer
<1>2. e = [[peers[o] EXCEPT !.usage = @ - 1] EXCEPT !.deletes = d]
  BY <1>0 DEF Peer
<1> HIDE DEF d
<1>3. e \in Peer
  BY <1>1, <1>2 DEF Peer
<1> USE DEF d
<1>4. new = [peers EXCEPT ![o] = e]
  BY DEF DecUseCount
<1> HIDE DEF e
<1>5. peers \in Seq(Peer)
  BY DEF TypeOK
<1> QED BY <1>3, <1>4, <1>5, ReplaceOne

LEMMA DropEffect ==
  ASSUME TypeOK, NEW o \in Objects, peers' = Drop(o)
  PROVE  /\ peers' \in Seq(Peer) /\ DOMAIN peers' = DOMAIN peers
         /\ \A j \in Objects : peers'[j] =
              IF j = o
              THEN [peers[o] EXCEPT !.pending_deletion = TRUE,
                      !.deletes = IF peers[o].usage = 0 THEN @ + 1 ELSE @]
              ELSE peers[j]
<1> DEFINE e == [peers[o] EXCEPT !.pending_deletion = TRUE,
                   !.deletes = IF peers[o].usage = 0 THEN @ + 1 ELSE @]
<1>0. peers[o] \in Peer
  BY DEF TypeOK
<1> DEFINE d == IF peers[o].usage = 0 THEN peers[o].deletes + 1
               ELSE peers[o].deletes
<1>a. d \in Nat /\ peers[o].usage \in Nat
  BY <1>0 DEF Peer
<1>b. [peers[o] EXCEPT !.pending_deletion = TRUE] \in Peer
  BY <1>0, <1>a DEF Peer
<1>c. e = [[peers[o] EXCEPT !.pending_deletion = TRUE] EXCEPT !.deletes = d]
  BY <1>0 DEF Peer
<1> HIDE DEF d
<1>1. e \in Peer
  BY <1>a, <1>b, <1>c DEF Peer
<1> USE DEF d
<1>2. peers' = [peers EXCEPT ![o] = e]
  BY DEF Drop
<1> HIDE DEF e
<1>3. peers \in Seq(Peer)
  BY DEF TypeOK
<1>4. /\ peers' \in Seq(Peer) /\ DOMAIN peers' = DOMAIN peers
      /\ \A j \in Objects : peers'[j] = IF j = o THEN e ELSE peers[j]
  BY <1>1, <1>2, <1>3, ReplaceOne
<1> QED BY <1>4 DEF e

(* Taking a helper keeps the counts right. *)
LEMMA HoldCounts ==
  ASSUME TypeOK, UseCounts, NEW h \in Helpers, helpers[h] = NoPeer,
         NEW o \in Objects, peers' = IncUseCount(o),
         helpers' = [helpers EXCEPT ![h] = o]
  PROVE  UseCounts'
<1>1. /\ DOMAIN peers' = DOMAIN peers
      /\ \A j \in Objects : peers'[j] =
           IF j = o THEN [peers[o] EXCEPT !.usage = @ + 1] ELSE peers[j]
  BY IncEffect
<1> SUFFICES ASSUME NEW j \in Objects
             PROVE  peers'[j].usage = Cardinality(Holders(j)')
  BY <1>1 DEF UseCounts
<1>t. peers[o] \in Peer /\ helpers \in [Helpers -> Objects \cup {0}] /\ j # 0
  BY DEF TypeOK
<1>2. CASE j = o
  <2>1. Holders(j)' = Holders(j) \cup {h} /\ h \notin Holders(j)
    BY <1>2, <1>t DEF Holders
  <2>2. Cardinality(Holders(j)') = Cardinality(Holders(j)) + 1
    BY <2>1, HoldersFinite, FS_AddElement
  <2> QED BY <2>2, <1>1, <1>2, <1>t DEF UseCounts, Peer
<1>3. CASE j # o
  <2>1. Holders(j)' = Holders(j)
    BY <1>3, <1>t DEF Holders
  <2> QED BY <2>1, <1>1, <1>3 DEF UseCounts
<1> QED BY <1>2, <1>3

(* A held peer has a use count, and letting go keeps the counts right.     *)
LEMMA HeldCounts ==
  ASSUME TypeOK, UseCounts, NEW h \in Helpers, helpers[h] # NoPeer
  PROVE  helpers[h] \in Objects /\ peers[helpers[h]].usage > 0
<1> DEFINE o == helpers[h]
<1>1. o \in Objects
  BY DEF TypeOK
<1>2. h \in Holders(o)
  BY DEF Holders
<1>3. Cardinality(Holders(o)) # 0 /\ Cardinality(Holders(o)) \in Nat
  BY <1>2, HoldersFinite, FS_EmptySet, FS_CardinalityType
<1> QED BY <1>1, <1>3 DEF UseCounts

LEMMA ReleaseCounts ==
  ASSUME TypeOK, UseCounts, NEW h \in Helpers, helpers[h] # NoPeer,
         DOMAIN peers' = DOMAIN peers,
         \A j \in Objects : peers'[j].usage =
              IF j = helpers[h] THEN peers[j].usage - 1 ELSE peers[j].usage,
         helpers' = [helpers EXCEPT ![h] = NoPeer]
  PROVE  UseCounts'
<1> SUFFICES ASSUME NEW j \in Objects
             PROVE  peers'[j].usage = Cardinality(Holders(j)')
  BY DEF UseCounts
<1>t. helpers \in [Helpers -> Objects \cup {0}] /\ j # 0
  BY DEF TypeOK
<1>2. CASE j = helpers[h]
  <2>1. Holders(j)' = Holders(j) \ {h} /\ h \in Holders(j)
    BY <1>2, <1>t DEF Holders
  <2>2. Cardinality(Holders(j)') = Cardinality(Holders(j)) - 1
    BY <2>1, HoldersFinite, FS_RemoveElement
  <2> QED BY <2>2, <1>2 DEF UseCounts
<1>3. CASE j # helpers[h]
  <2>1. Holders(j)' = Holders(j)
    BY <1>3, <1>t DEF Holders
  <2> QED BY <2>1, <1>3 DEF UseCounts
<1> QED BY <1>2, <1>3

-----------------------------------------------------------------------------
(* What the invariant says of the peers and of who holds them, and the     *)
(* three steps that change it.                                             *)

PeersPart ==
    /\ peers \in Seq(Peer)
    /\ helpers \in [Helpers -> Objects \cup {NoPeer}]
    /\ DOMAIN m_peers \subseteq PeerIds
    /\ \A id \in DOMAIN m_peers : m_peers[id] \in Objects
    /\ UseCounts /\ MarkedWhenOut /\ DeletedWhenUnused /\ OneHand

LEMMA HoldStep ==
  ASSUME PeersInv, NEW h \in Helpers, helpers[h] = NoPeer, NEW id, Hold(h, id),
         m_peers' = m_peers, receive'.target = receive.target,
         send'.target = send.target
  PROVE  PeersPart' /\ DOMAIN peers' = DOMAIN peers
<1> DEFINE o == m_peers[id]
<1>1. o \in Objects /\ id \in DOMAIN m_peers /\ TypeOK
  BY DEF PeersInv, TypeOK, Hold
<1>2. peers' = IncUseCount(o) /\ helpers' = [helpers EXCEPT ![h] = o]
  BY DEF Hold
<1>3. /\ peers' \in Seq(Peer) /\ DOMAIN peers' = DOMAIN peers
      /\ \A j \in Objects : peers'[j] =
           IF j = o THEN [peers[o] EXCEPT !.usage = @ + 1] ELSE peers[j]
  BY <1>1, <1>2, IncEffect
<1>4. UseCounts'
  BY <1>1, <1>2, HoldCounts DEF PeersInv
<1>5. peers[o] \in Peer /\ ~ peers[o].pending_deletion
  BY <1>1 DEF Hold, TypeOK
<1>6. \A j \in Objects :
         /\ peers'[j].pending_deletion = peers[j].pending_deletion
         /\ peers'[j].deletes = peers[j].deletes
         /\ peers'[j].id = peers[j].id
         /\ j # o => peers'[j].usage = peers[j].usage
  BY <1>3, <1>5 DEF Peer
<1>7. MarkedWhenOut'
  BY <1>3, <1>6 DEF PeersInv, MarkedWhenOut, InMap, Removing
<1>8. DeletedWhenUnused'
  BY <1>3, <1>5, <1>6, <1>1 DEF PeersInv, DeletedWhenUnused
<1>9. OneHand'
  BY <1>3, <1>6, <1>1 DEF PeersInv, OneHand, InMap, TypeOK
<1>10. helpers' \in [Helpers -> Objects \cup {NoPeer}]
  BY <1>1, <1>2 DEF TypeOK
<1> QED BY <1>1, <1>3, <1>4, <1>7, <1>8, <1>9, <1>10 DEF PeersPart, TypeOK

(* Two states of the peers that count the same uses and deletions. *)
SameUse(new, old) ==
    /\ DOMAIN new = DOMAIN old
    /\ \A j \in DOMAIN old : /\ new[j].usage = old[j].usage
                             /\ new[j].pending_deletion = old[j].pending_deletion
                             /\ new[j].deletes = old[j].deletes
                             /\ new[j].id = old[j].id

LEMMA ReleaseStep ==
  ASSUME PeersInv, NEW h \in Helpers, helpers[h] # NoPeer,
         helpers' = [helpers EXCEPT ![h] = NoPeer],
         peers' \in Seq(Peer), SameUse(peers', DecUseCount(helpers[h])),
         m_peers' = m_peers, receive'.target = receive.target,
         send'.target = send.target
  PROVE  PeersPart' /\ DOMAIN peers' = DOMAIN peers
<1> DEFINE o == helpers[h]
<1>0. PICK ps : ps = DecUseCount(helpers[h])
  OBVIOUS
<1>5. /\ DOMAIN peers' = DOMAIN ps
      /\ \A j \in DOMAIN ps : /\ peers'[j].usage = ps[j].usage
                              /\ peers'[j].pending_deletion = ps[j].pending_deletion
                              /\ peers'[j].deletes = ps[j].deletes
                              /\ peers'[j].id = ps[j].id
  BY <1>0 DEF SameUse
<1>1. o \in Objects /\ peers[o].usage > 0 /\ TypeOK
  BY HeldCounts DEF PeersInv
<1>2. /\ DOMAIN ps = DOMAIN peers
      /\ \A j \in Objects : ps[j] =
           IF j = o
           THEN [peers[o] EXCEPT !.usage = @ - 1,
                   !.deletes = IF peers[o].pending_deletion
                                  /\ peers[o].usage = 1
                               THEN @ + 1 ELSE @]
           ELSE peers[j]
  <2>1. \A j \in Objects : peers[j] \in Peer
    BY <1>1 DEF TypeOK
  <2> QED BY <1>0, <1>1, <2>1 DEF DecUseCount, TypeOK
<1>3. peers[o] \in Peer /\ peers[o].usage \in Nat
  <2>1. peers[o] \in Peer
    BY <1>1 DEF TypeOK
  <2> QED BY <2>1 DEF Peer
<1>6. \A j \in Objects :
         /\ peers'[j].pending_deletion = peers[j].pending_deletion
         /\ peers'[j].id = peers[j].id
         /\ j # o => /\ peers'[j].usage = peers[j].usage
                     /\ peers'[j].deletes = peers[j].deletes
         /\ j = o => /\ peers'[j].usage = peers[j].usage - 1
                     /\ peers'[j].deletes =
                          IF peers[j].pending_deletion /\ peers[j].usage = 1
                          THEN peers[j].deletes + 1 ELSE peers[j].deletes
  <2> SUFFICES ASSUME NEW j \in Objects
               PROVE  /\ ps[j].pending_deletion = peers[j].pending_deletion
                      /\ ps[j].id = peers[j].id
                      /\ j # o => ps[j] = peers[j]
                      /\ j = o => /\ ps[j].usage = peers[j].usage - 1
                                  /\ ps[j].deletes =
                                       IF /\ peers[j].pending_deletion
                                          /\ peers[j].usage = 1
                                       THEN peers[j].deletes + 1
                                       ELSE peers[j].deletes
    BY <1>2, <1>5
  <2>1. CASE j # o
    BY <2>1, <1>2
  <2>2. CASE j = o
    <3> DEFINE d == IF peers[o].pending_deletion /\ peers[o].usage = 1
                    THEN peers[o].deletes + 1 ELSE peers[o].deletes
               e == [peers[o] EXCEPT !.usage = @ - 1]
    <3>1. ps[j] = [e EXCEPT !.deletes = d]
      BY <2>2, <1>2, <1>3 DEF Peer
    <3>2. /\ e.pending_deletion = peers[o].pending_deletion
          /\ e.id = peers[o].id /\ e.usage = peers[o].usage - 1
          /\ DOMAIN e = {"id", "address", "usage", "pending_disconnect",
                         "pending_deletion", "deletes"}
      BY <1>3 DEF Peer
    <3> HIDE DEF e, d
    <3>3. /\ ps[j].pending_deletion = e.pending_deletion /\ ps[j].id = e.id
          /\ ps[j].usage = e.usage /\ ps[j].deletes = d
      BY <3>1, <3>2
    <3> QED BY <3>2, <3>3, <2>2 DEF d
  <2> QED BY <2>1, <2>2
<1>4. UseCounts'
  BY <1>1, <1>2, <1>5, <1>6, ReleaseCounts DEF PeersInv
<1>7. MarkedWhenOut'
  BY <1>2, <1>5, <1>6 DEF PeersInv, MarkedWhenOut, InMap, Removing
<1>8. DeletedWhenUnused'
  <2> SUFFICES ASSUME NEW j \in Objects
               PROVE  peers'[j].deletes =
                        IF peers'[j].pending_deletion /\ peers'[j].usage = 0
                        THEN 1 ELSE 0
    BY <1>2, <1>5 DEF DeletedWhenUnused
  <2>1. CASE j # o
    BY <2>1, <1>6 DEF PeersInv, DeletedWhenUnused
  <2>2. CASE j = o
    BY <2>2, <1>6, <1>1, <1>3 DEF PeersInv, DeletedWhenUnused
  <2> QED BY <2>1, <2>2
<1>9. OneHand'
  BY <1>2, <1>5, <1>6, <1>1 DEF PeersInv, OneHand, InMap, TypeOK
<1>10. helpers' \in [Helpers -> Objects \cup {NoPeer}]
  BY <1>1, <1>2, <1>5 DEF TypeOK
<1> QED BY <1>1, <1>2, <1>5, <1>4, <1>7, <1>8, <1>9, <1>10 DEF PeersPart, TypeOK

LEMMA DropStep ==
  ASSUME PeersInv, NEW o \in Objects, peers' = Drop(o), helpers' = helpers,
         m_peers' = m_peers,
         \/ /\ o = receive.target /\ receive'.target = NoPeer
            /\ send'.target = send.target
         \/ /\ o = send.target /\ send'.target = NoPeer
            /\ receive'.target = receive.target
  PROVE  PeersPart' /\ DOMAIN peers' = DOMAIN peers
<1>1. TypeOK /\ peers[o] \in Peer
  BY DEF PeersInv, TypeOK
<1>2. /\ peers' \in Seq(Peer) /\ DOMAIN peers' = DOMAIN peers
      /\ \A j \in Objects : peers'[j] =
           IF j = o
           THEN [peers[o] EXCEPT !.pending_deletion = TRUE,
                   !.deletes = IF peers[o].usage = 0 THEN @ + 1 ELSE @]
           ELSE peers[j]
  BY <1>1, DropEffect
<1>3. \A j \in Objects :
         /\ peers'[j].id = peers[j].id /\ peers'[j].usage = peers[j].usage
         /\ j # o => /\ peers'[j].pending_deletion = peers[j].pending_deletion
                     /\ peers'[j].deletes = peers[j].deletes
         /\ j = o => /\ peers'[j].pending_deletion = TRUE
                     /\ peers'[j].deletes = IF peers[j].usage = 0
                          THEN peers[j].deletes + 1 ELSE peers[j].deletes
  <2> SUFFICES ASSUME NEW j \in Objects
               PROVE  /\ j # o => peers'[j] = peers[j]
                      /\ j = o =>
                           /\ peers'[j].id = peers[j].id
                           /\ peers'[j].usage = peers[j].usage
                           /\ peers'[j].pending_deletion = TRUE
                           /\ peers'[j].deletes = IF peers[j].usage = 0
                                THEN peers[j].deletes + 1 ELSE peers[j].deletes
    OBVIOUS
  <2>1. CASE j # o
    BY <2>1, <1>2
  <2>2. CASE j = o
    BY <2>2, <1>1, <1>2 DEF Peer
  <2> QED BY <2>1, <2>2
<1>4. o # NoPeer /\ 0 \notin Objects
  BY <1>1 DEF TypeOK
<1>5. ~ InMap(o) /\ Removing(o) /\ receive.target # send.target
  BY <1>4 DEF PeersInv, OneHand, Removing
<1>6. ~ peers[o].pending_deletion
  BY <1>5 DEF PeersInv, MarkedWhenOut
<1>7. UseCounts'
  BY <1>2, <1>3 DEF PeersInv, UseCounts, Holders
<1>8. MarkedWhenOut'
  <2> SUFFICES ASSUME NEW j \in Objects
               PROVE  peers'[j].pending_deletion
                        <=> ~ InMap(j)' /\ ~ Removing(j)'
    BY <1>2 DEF MarkedWhenOut
  <2>0. InMap(j)' <=> InMap(j)
    BY DEF InMap
  <2>1. CASE j # o
    <3>1. Removing(j)' <=> Removing(j)
      BY <2>1, <1>4 DEF Removing
    <3> QED BY <3>1, <2>0, <2>1, <1>3 DEF PeersInv, MarkedWhenOut
  <2>2. CASE j = o
    <3>1. ~ Removing(j)'
      BY <2>2, <1>4, <1>5 DEF Removing
    <3> QED BY <3>1, <2>0, <2>2, <1>3, <1>5
  <2> QED BY <2>1, <2>2
<1>9. DeletedWhenUnused'
  BY <1>2, <1>3, <1>6 DEF PeersInv, DeletedWhenUnused
<1>10. OneHand'
  BY <1>1, <1>2, <1>3 DEF PeersInv, OneHand, InMap, TypeOK
<1> QED BY <1>1, <1>2, <1>7, <1>8, <1>9, <1>10 DEF PeersPart, TypeOK, PeersInv

LEMMA EraseStep ==
  ASSUME PeersInv, NEW id \in DOMAIN m_peers, Erase(id), peers' = peers,
         helpers' = helpers,
         \/ /\ receive.target = NoPeer /\ receive'.target = m_peers[id]
            /\ send'.target = send.target
         \/ /\ send.target = NoPeer /\ send'.target = m_peers[id]
            /\ receive'.target = receive.target
  PROVE  PeersPart'
<1>0. PICK o \in Objects : o = m_peers[id]
  BY DEF PeersInv, TypeOK
<1>1. TypeOK /\ o \in Objects /\ 0 \notin Objects
  BY DEF PeersInv, TypeOK
<1>2. /\ DOMAIN m_peers' = DOMAIN m_peers \ {id}
      /\ \A i \in DOMAIN m_peers' : m_peers'[i] = m_peers[i]
  BY DEF Erase
<1>3. InMap(o) /\ ~ peers[o].pending_deletion
  BY <1>0, <1>1 DEF PeersInv, MarkedWhenOut, InMap
<1>4. ~ InMap(o)'
  <2> SUFFICES ASSUME NEW i \in DOMAIN m_peers', m_peers'[i] = o PROVE FALSE
    BY <1>1 DEF InMap
  <2>1. i \in DOMAIN m_peers /\ m_peers[i] = o /\ i # id
    BY <1>2
  <2> QED BY <2>1, <1>0 DEF PeersInv, OneHand
<1>5. \A j \in Objects : j # o => (InMap(j)' <=> InMap(j))
  BY <1>0, <1>2 DEF InMap
<1>6. o # receive.target /\ o # send.target
  BY <1>1, <1>3 DEF PeersInv, OneHand
<1>7. UseCounts' /\ DeletedWhenUnused'
  BY DEF PeersInv, UseCounts, DeletedWhenUnused, Holders
<1>8. MarkedWhenOut'
  <2> SUFFICES ASSUME NEW j \in Objects
               PROVE  peers[j].pending_deletion
                        <=> ~ InMap(j)' /\ ~ Removing(j)'
    BY DEF MarkedWhenOut
  <2>1. CASE j # o
    <3>1. Removing(j)' <=> Removing(j)
      BY <2>1, <1>0, <1>1 DEF Removing
    <3> QED BY <3>1, <2>1, <1>5 DEF PeersInv, MarkedWhenOut
  <2>2. CASE j = o
    <3>1. Removing(j)'
      BY <2>2, <1>0 DEF Removing
    <3> QED BY <3>1, <2>2, <1>3
  <2> QED BY <2>1, <2>2
<1>9. OneHand'
  <2>1. \A i \in DOMAIN m_peers' : peers[m_peers'[i]].id = i
    BY <1>2 DEF PeersInv, OneHand
  <2>2. \A j : ~ InMap(j) => ~ InMap(j)'
    BY <1>2 DEF InMap
  <2> QED BY <2>1, <2>2, <1>0, <1>4, <1>6, <1>1 DEF PeersInv, OneHand
<1> QED BY <1>1, <1>2, <1>7, <1>8, <1>9 DEF PeersPart, TypeOK

LEMMA QuietStep ==
  ASSUME PeersInv, UNCHANGED <<m_peers, peers, helpers>>,
         receive'.target = receive.target, send'.target = send.target
  PROVE  PeersPart'
  BY DEF PeersInv, TypeOK, PeersPart, UseCounts, MarkedWhenOut,
         DeletedWhenUnused, OneHand, Holders, InMap, Removing

(* The rest of the invariant: the types of the other variables, and Places. *)
ThreadsPart ==
    /\ m_next_remote_peer_id \in PeerIds
    /\ receive \in [pc : {"idle", "lookup", "create", "get", "process",
                          "erase", "removed", "drop", "leave", "data",
                          "release"},
                    address : Addresses, id : PeerIds, disco : BOOLEAN,
                    target : Objects \cup {NoPeer}]
    /\ send \in [pc : {"idle", "visit", "visiting", "removed", "drop"},
                 pass : {"timeouts", "commands", "packets"},
                 todo : SUBSET PeerIds, doomed : SUBSET PeerIds,
                 target : Objects \cup {NoPeer}]
    /\ commands \subseteq PeerIds
    /\ m_event_queue \in Seq([type : {"added", "data", "removed"},
                              id : PeerIds, address : Addresses])
    /\ datagrams \in Nat
    /\ Places

LEMMA TwoParts == /\ PeersInv => PeersPart /\ ThreadsPart
                  /\ PeersPart' /\ ThreadsPart' => PeersInv'
  BY DEF PeersInv, TypeOK, PeersPart, ThreadsPart

LEMMA HelpersAre ==
  /\ "receive" \in Helpers /\ "process" \in Helpers /\ "send" \in Helpers
  /\ \A u \in Users : u \in Helpers /\ u \notin {"receive", "process", "send"}
  BY PeersAssumption DEF Helpers

LEMMA WaitingType ==
  /\ Waiting \in [pc : {"idle"}, address : Addresses, id : PeerIds,
                  disco : BOOLEAN, target : {NoPeer}]
  /\ \A pass : Resting(pass) = [pc |-> "idle", pass |-> pass, todo |-> {},
                                doomed |-> {}, target |-> NoPeer]
  BY PeersAssumption DEF Waiting, Resting, PeerIds, PEER_ID_INEXISTENT

LEMMA PeersInit == ASSUME Init PROVE PeersInv
<1>1. /\ peers = <<>> /\ m_peers = <<>> /\ Objects = {} /\ DOMAIN m_peers = {}
  BY DEF Init
<1>2. TypeOK
  BY <1>1, WaitingType, PeersAssumption DEF Init, TypeOK, PeerIds
<1>3. Places
  BY WaitingType, HelpersAre DEF Init, Places
<1>4. UseCounts /\ MarkedWhenOut /\ DeletedWhenUnused
  BY <1>1 DEF UseCounts, MarkedWhenOut, DeletedWhenUnused
<1>5. OneHand
  BY <1>1, WaitingType DEF Init, OneHand
<1> QED BY <1>2, <1>3, <1>4, <1>5 DEF PeersInv

-----------------------------------------------------------------------------
(* The receive thread. *)

(* A non-empty set of numbers has a smallest one. *)
LEMMA SmallestExists ==
  ASSUME NEW T \in SUBSET Nat, T # {}
  PROVE  \E k \in T : \A j \in T : k =< j
<1>1. IsWellFoundedOn(OpToRel(<, Nat), Nat)
  BY NatLessThanWellFounded
<1>2. PICK x \in T : \A y \in T : ~ (<<y, x>> \in OpToRel(<, Nat))
  BY <1>1, WFMin
<1>3. \A y \in T : ~ (y < x)
  BY <1>2 DEF OpToRel
<1> QED BY <1>3

LEMMA ReceiveQuiet ==
  ASSUME PeersInv,
         \/ \E a \in Addresses, id \in PeerIds, disco \in BOOLEAN :
               ReceiveDatagram(a, id, disco)
         \/ LookupPeer
         \/ DiscoPutRemoved
         \/ PutData
  PROVE  PeersInv'
<1> USE TwoParts
<1>1. ASSUME NEW a \in Addresses, NEW id \in PeerIds, NEW disco \in BOOLEAN,
             ReceiveDatagram(a, id, disco)
      PROVE  PeersInv'
  <2>1. receive' = [pc |-> IF id = PEER_ID_INEXISTENT THEN "lookup" ELSE "get",
                    address |-> a, id |-> id, disco |-> disco,
                    target |-> NoPeer]
    BY <1>1, WaitingType DEF ReceiveDatagram, Waiting
  <2>0. receive.pc = "idle" /\ receive.target = NoPeer
    BY <1>1 DEF ReceiveDatagram, ThreadsPart, Places
  <2>6. PICK pc \in {"lookup", "get"} :
           receive' = [pc |-> pc, address |-> a, id |-> id, disco |-> disco,
                       target |-> NoPeer]
    BY <2>1
  <2>7. /\ UNCHANGED <<m_peers, m_next_remote_peer_id, peers, helpers, send,
                       commands, m_event_queue>>
        /\ datagrams' = datagrams + 1
    BY <1>1 DEF ReceiveDatagram
  <2>2. /\ receive'.target = NoPeer /\ send' = send
        /\ receive'.pc \in {"lookup", "get"}
    BY <2>6, <2>7
  <2>3. PeersPart'
    BY <1>1, <2>0, <2>2, QuietStep DEF ReceiveDatagram
  <2>5. Places'
    BY <1>1, <2>0, <2>2 DEF ReceiveDatagram, ThreadsPart, Places
  <2>4. ThreadsPart'
    BY <2>6, <2>7, <2>5 DEF ThreadsPart
  <2> QED BY <2>3, <2>4
<1>2. ASSUME LookupPeer PROVE PeersInv'
  <2>1. PICK i \in PeerIds :
           \/ receive' = [receive EXCEPT !.pc = "create"]
           \/ receive' = [receive EXCEPT !.pc = "get", !.id = i]
    <3> DEFINE known == KnownIds(receive.address)
    <3>1. CASE known = {}
      BY <3>1, <1>2, PeersAssumption DEF LookupPeer, PeerIds
    <3>2. CASE known # {}
      <4>1. known \subseteq PeerIds
        BY DEF KnownIds, PeersPart
      <4>2. PICK k \in known : \A j \in known : k =< j
        <5>1. \A T \in SUBSET Nat : T # {} => \E k \in T : \A j \in T : k =< j
          BY SmallestExists
        <5> QED BY <5>1, <4>1, <3>2 DEF PeerIds
      <4>3. (CHOOSE i \in known : \A j \in known : i =< j) \in PeerIds
        BY <4>1, <4>2
      <4> QED BY <4>3, <3>2, <1>2 DEF LookupPeer
    <3> QED BY <3>1, <3>2
  <2>2. PeersPart'
    BY <1>2, <2>1, QuietStep DEF LookupPeer, ThreadsPart
  <2>4. Places'
    BY <1>2, <2>1 DEF LookupPeer, ThreadsPart, Places
  <2>5. receive' \in [pc : {"idle", "lookup", "create", "get", "process",
                           "erase", "removed", "drop", "leave", "data",
                           "release"},
                     address : Addresses, id : PeerIds, disco : BOOLEAN,
                     target : Objects \cup {NoPeer}]
    <3>1. CASE receive' = [receive EXCEPT !.pc = "create"]
      BY <3>1 DEF ThreadsPart
    <3>2. CASE receive' = [receive EXCEPT !.pc = "get", !.id = i]
      <4>1. [receive EXCEPT !.id = i] \in
              [pc : {"idle", "lookup", "create", "get", "process",
                     "erase", "removed", "drop", "leave", "data",
                     "release"},
               address : Addresses, id : PeerIds, disco : BOOLEAN,
               target : Objects \cup {NoPeer}]
        BY DEF ThreadsPart
      <4>2. receive' = [[receive EXCEPT !.id = i] EXCEPT !.pc = "get"]
        BY <3>2 DEF ThreadsPart
      <4> QED BY <4>1, <4>2
    <3> QED BY <3>1, <3>2, <2>1
  <2>3. ThreadsPart'
    BY <1>2, <2>4, <2>5 DEF LookupPeer, ThreadsPart
  <2> QED BY <2>2, <2>3
<1>3. ASSUME DiscoPutRemoved PROVE PeersInv'
  <2>1. receive.target \in Objects
    BY <1>3 DEF DiscoPutRemoved, ThreadsPart, Places
  <2>6. peers[receive.target] \in Peer
    BY <2>1 DEF PeersPart
  <2>2. peers[receive.target].id \in PeerIds
        /\ peers[receive.target].address \in Addresses
    BY <2>6 DEF Peer
  <2>3. m_event_queue' \in Seq([type : {"added", "data", "removed"},
                                id : PeerIds, address : Addresses])
    BY <2>2, <1>3 DEF DiscoPutRemoved, PutRemoved, Event, ThreadsPart
  <2>4. PeersPart'
    BY <1>3, QuietStep DEF DiscoPutRemoved, ThreadsPart
  <2>5. ThreadsPart'
    BY <1>3, <2>3 DEF DiscoPutRemoved, ThreadsPart, Places
  <2> QED BY <2>4, <2>5
<1>4. ASSUME PutData PROVE PeersInv'
  <2>1. m_event_queue' \in Seq([type : {"added", "data", "removed"},
                                id : PeerIds, address : Addresses])
    BY <1>4 DEF PutData, Event, ThreadsPart
  <2>2. PeersPart'
    BY <1>4, QuietStep DEF PutData, ThreadsPart
  <2>3. ThreadsPart'
    BY <1>4, <2>1 DEF PutData, ThreadsPart, Places
  <2> QED BY <2>2, <2>3
<1> QED BY <1>1, <1>2, <1>3, <1>4

(* The one step that makes a peer: it is new, unused, and in the map under *)
(* an id that was free.                                                    *)
LEMMA CreatePeerInv == ASSUME PeersInv, CreatePeer PROVE PeersInv'
<1> USE TwoParts
<1>0. /\ receive.pc = "create" /\ UNCHANGED <<helpers, send, commands, datagrams>>
      /\ TypeOK
  BY DEF CreatePeer, PeersInv
<1>1. CASE FreeIds = {}
  <2>1. /\ receive' = [receive EXCEPT !.pc = "get"]
        /\ UNCHANGED <<m_peers, peers, m_next_remote_peer_id, m_event_queue>>
    BY <1>1 DEF CreatePeer
  <2>2. PeersPart'
    BY <1>0, <2>1, QuietStep DEF ThreadsPart
  <2>3. Places'
    BY <1>0, <2>1 DEF ThreadsPart, Places
  <2>4. ThreadsPart'
    BY <1>0, <2>1, <2>3 DEF ThreadsPart
  <2> QED BY <2>2, <2>4
<1>2. CASE FreeIds # {}
  <2>1. FreeIds \subseteq PeerIds /\ FreeIds \in SUBSET Nat
    BY PeersAssumption DEF FreeIds, PeerIds, ThreadsPart
  <2>2. PICK k \in FreeIds : \A j \in FreeIds : k =< j
    BY <2>1, <1>2, SmallestExists
  <2>3. (CHOOSE i \in FreeIds : \A j \in FreeIds : i =< j) \in FreeIds
    BY <2>2
  <2>4. PICK id \in FreeIds :
           /\ peers' = Append(peers, NewPeer(id, receive.address))
           /\ m_peers' = [i \in DOMAIN m_peers \cup {id} |->
                            IF i = id THEN Len(peers) + 1 ELSE m_peers[i]]
           /\ m_next_remote_peer_id' = (id + 1) % MaxUdpPeers
           /\ m_event_queue' =
                Append(m_event_queue, Event("added", id, receive.address))
           /\ receive' = [receive EXCEPT !.pc = "get", !.id = id]
    BY <2>3, <1>2 DEF CreatePeer
  <2>5. id \in PeerIds /\ id \notin DOMAIN m_peers /\ receive.address \in Addresses
    BY <2>1 DEF FreeIds, ThreadsPart
  <2>n. PICK n \in Nat : n = Len(peers) + 1
    BY <1>0 DEF TypeOK
  <2>6. NewPeer(id, receive.address) \in Peer
    BY <2>5 DEF NewPeer, Peer
  <2>7. /\ peers \in Seq(Peer) /\ Objects = 1 .. Len(peers) /\ n \notin Objects
        /\ n # 0
    BY <1>0, <2>n DEF TypeOK
  <2>8. /\ peers' \in Seq(Peer) /\ DOMAIN peers' = Objects \cup {n}
        /\ \A j \in Objects : peers'[j] = peers[j]
        /\ peers'[n] = NewPeer(id, receive.address)
    BY <2>4, <2>6, <2>7, <2>n
  <2>9. /\ DOMAIN m_peers' = DOMAIN m_peers \cup {id} /\ m_peers'[id] = n
        /\ \A i \in DOMAIN m_peers : m_peers'[i] = m_peers[i]
    BY <2>4, <2>5, <2>n
  <2>10. /\ receive'.target = receive.target /\ send' = send
         /\ receive'.pc = "get" /\ receive'.id = id
         /\ receive.target \in Objects \cup {0} /\ send.target \in Objects \cup {0}
    BY <2>4, <1>0 DEF ThreadsPart
  <2>11. /\ InMap(n)' /\ \A j \in Objects : InMap(j)' <=> InMap(j)
    BY <2>7, <2>9, <1>0 DEF InMap, TypeOK
  <2>12. /\ ~ Removing(n)' /\ \A j \in Objects : Removing(j)' <=> Removing(j)
    BY <2>7, <2>10 DEF Removing
  <2>13. helpers \in [Helpers -> Objects \cup {0}]
    BY <1>0 DEF TypeOK
  <2>14. UseCounts'
    <3> SUFFICES ASSUME NEW j \in Objects \cup {n}
                 PROVE  peers'[j].usage = Cardinality(Holders(j)')
      BY <2>8 DEF UseCounts
    <3>0. Holders(j)' = Holders(j)
      BY <1>0 DEF Holders
    <3>1. CASE j \in Objects
      BY <3>0, <3>1, <2>8 DEF UseCounts, PeersInv
    <3>2. CASE j = n
      <4>1. Holders(j) = {}
        BY <3>2, <2>13, <2>7 DEF Holders
      <4> QED BY <4>1, <3>0, <3>2, <2>8, FS_EmptySet DEF NewPeer
    <3> QED BY <3>1, <3>2
  <2>15. MarkedWhenOut'
    BY <2>7, <2>8, <2>11, <2>12 DEF MarkedWhenOut, PeersInv, NewPeer
  <2>16. DeletedWhenUnused'
    BY <2>8 DEF DeletedWhenUnused, PeersInv, NewPeer
  <2>17. OneHand'
    <3>1. \A i \in DOMAIN m_peers' : peers'[m_peers'[i]].id = i
      BY <2>8, <2>9, <1>0 DEF PeersInv, OneHand, NewPeer, TypeOK
    <3> QED BY <3>1, <2>7, <2>10, <2>11 DEF PeersInv, OneHand
  <2>18. PeersPart'
    BY <2>5, <2>7, <2>8, <2>9, <2>13, <2>14, <2>15, <2>16, <2>17, <1>0
       DEF PeersPart, TypeOK
  <2>19. Places'
    BY <1>0, <2>10 DEF ThreadsPart, Places
  <2>20. m_next_remote_peer_id' \in PeerIds
    BY <2>4, <2>5, PeersAssumption DEF PeerIds
  <2>21. m_event_queue' \in Seq([type : {"added", "data", "removed"},
                                 id : PeerIds, address : Addresses])
    BY <2>4, <2>5 DEF Event, ThreadsPart
  <2>22. receive' \in [pc : {"get"}, address : Addresses, id : PeerIds,
                       disco : BOOLEAN, target : Objects \cup {0}]
    BY <2>4, <2>5 DEF ThreadsPart
  <2>23. ThreadsPart'
    BY <2>8, <2>10, <2>19, <2>20, <2>21, <2>22, <1>0 DEF ThreadsPart
  <2> QED BY <2>18, <2>23
<1> QED BY <1>1, <1>2

LEMMA ReceiveHolds ==
  ASSUME PeersInv, GetPeer \/ ProcessPacket
  PROVE  PeersInv'
<1> USE TwoParts, HelpersAre
<1>1. ASSUME GetPeer PROVE PeersInv'
  <2>0. /\ receive.pc = "get"
        /\ UNCHANGED <<m_peers, m_next_remote_peer_id, send, commands,
                       m_event_queue, datagrams>>
        /\ receive.target = NoPeer /\ helpers["receive"] = NoPeer
    BY <1>1 DEF GetPeer, ThreadsPart, Places
  <2>1. CASE receive.id \in DOMAIN m_peers
    <3>1. /\ Hold("receive", receive.id)
          /\ receive' = [receive EXCEPT !.pc = "process"]
      BY <2>1, <1>1 DEF GetPeer
    <3>2. PeersPart' /\ DOMAIN peers' = DOMAIN peers
      BY <3>1, <2>0, HoldStep DEF ThreadsPart
    <3>3. helpers' = [helpers EXCEPT !["receive"] = m_peers[receive.id]]
          /\ m_peers[receive.id] # NoPeer
      BY <3>1 DEF Hold, PeersPart
    <3>4. Places'
      BY <3>1, <3>3, <2>0 DEF ThreadsPart, Places, PeersPart
    <3>5. ThreadsPart'
      BY <3>1, <3>2, <3>4, <2>0 DEF ThreadsPart
    <3> QED BY <3>2, <3>5
  <2>2. CASE receive.id \notin DOMAIN m_peers
    <3>1. receive' = Waiting /\ UNCHANGED <<helpers, peers>>
      BY <2>2, <1>1 DEF GetPeer
    <3>2. receive' \in [pc : {"idle"}, address : Addresses, id : PeerIds,
                        disco : BOOLEAN, target : {NoPeer}]
      BY <3>1, WaitingType
    <3>3. PeersPart'
      BY <3>1, <3>2, <2>0, QuietStep
    <3>4. Places'
      BY <3>1, <3>2, <2>0 DEF ThreadsPart, Places
    <3>5. ThreadsPart'
      BY <3>1, <3>2, <3>4, <2>0 DEF ThreadsPart
    <3> QED BY <3>3, <3>5
  <2> QED BY <2>1, <2>2
<1>2. ASSUME ProcessPacket PROVE PeersInv'
  <2>0. /\ receive.pc = "process"
        /\ UNCHANGED <<m_peers, m_next_remote_peer_id, send, commands,
                       m_event_queue, datagrams>>
        /\ receive.target = NoPeer /\ helpers["process"] = NoPeer
    BY <1>2 DEF ProcessPacket, ThreadsPart, Places
  <2>1. CASE /\ Hold("process", receive.id)
             /\ receive' = [receive EXCEPT !.pc =
                  IF receive.disco /\ receive.id < MaxUdpPeers
                  THEN "erase" ELSE "leave"]
    <3>1. PICK pc \in {"erase", "leave"} : receive' = [receive EXCEPT !.pc = pc]
      BY <2>1
    <3>2. PeersPart' /\ DOMAIN peers' = DOMAIN peers
      BY <2>1, <3>1, <2>0, HoldStep DEF ThreadsPart
    <3>3. helpers' = [helpers EXCEPT !["process"] = m_peers[receive.id]]
          /\ m_peers[receive.id] # NoPeer
      BY <2>1 DEF Hold, PeersPart
    <3>4. Places'
      BY <3>1, <3>3, <2>0 DEF ThreadsPart, Places, PeersPart
    <3>5. ThreadsPart'
      BY <3>1, <3>2, <3>4, <2>0 DEF ThreadsPart
    <3> QED BY <3>2, <3>5
  <2>2. CASE /\ receive' = [receive EXCEPT !.pc = "release"]
             /\ UNCHANGED <<helpers, peers>>
    <3>3. PeersPart'
      BY <2>2, <2>0, QuietStep DEF ThreadsPart
    <3>4. Places'
      BY <2>2, <2>0 DEF ThreadsPart, Places
    <3>5. ThreadsPart'
      BY <2>2, <3>4, <2>0 DEF ThreadsPart
    <3> QED BY <3>3, <3>5
  <2> QED BY <2>1, <2>2, <1>2 DEF ProcessPacket
<1> QED BY <1>1, <1>2

LEMMA ReceiveRemoves ==
  ASSUME PeersInv, DiscoErase \/ DiscoDrop
  PROVE  PeersInv'
<1> USE TwoParts, HelpersAre
<1>1. ASSUME DiscoErase PROVE PeersInv'
  <2>0. /\ receive.pc = "erase" /\ receive.target = NoPeer
        /\ UNCHANGED <<m_next_remote_peer_id, peers, helpers, send, commands,
                       m_event_queue, datagrams>>
    BY <1>1 DEF DiscoErase, ThreadsPart, Places
  <2> DEFINE id == peers[helpers["process"]].id
  <2>1. CASE id \in DOMAIN m_peers
    <3>1. /\ Erase(id) /\ m_peers[id] \in Objects
          /\ receive' = [receive EXCEPT !.pc = "removed", !.target = m_peers[id]]
      BY <2>1, <1>1 DEF DiscoErase, PeersPart
    <3>2. PeersPart'
      BY <2>0, <2>1, <3>1, EraseStep DEF ThreadsPart
    <3>3. m_peers[id] # NoPeer
      BY <3>1 DEF PeersPart
    <3>4. Places'
      BY <3>1, <3>3, <2>0 DEF ThreadsPart, Places
    <3>5. ThreadsPart'
      BY <3>1, <3>4, <2>0 DEF ThreadsPart
    <3> QED BY <3>2, <3>5
  <2>2. CASE id \notin DOMAIN m_peers
    <3>1. receive' = [receive EXCEPT !.pc = "leave"] /\ m_peers' = m_peers
      BY <2>2, <1>1 DEF DiscoErase
    <3>2. PeersPart'
      BY <2>0, <3>1, QuietStep DEF ThreadsPart
    <3>4. Places'
      BY <3>1, <2>0 DEF ThreadsPart, Places
    <3>5. ThreadsPart'
      BY <3>1, <3>4, <2>0 DEF ThreadsPart
    <3> QED BY <3>2, <3>5
  <2> QED BY <2>1, <2>2
<1>2. ASSUME DiscoDrop PROVE PeersInv'
  <2>0. /\ receive.pc = "drop" /\ receive.target # NoPeer
        /\ receive.target \in Objects /\ peers' = Drop(receive.target)
        /\ receive' = [receive EXCEPT !.pc = "leave", !.target = NoPeer]
        /\ UNCHANGED <<m_peers, m_next_remote_peer_id, helpers, send, commands,
                       m_event_queue, datagrams>>
    BY <1>2 DEF DiscoDrop, ThreadsPart, Places
  <2>1. PeersPart' /\ DOMAIN peers' = DOMAIN peers
    BY <2>0, DropStep DEF ThreadsPart
  <2>4. Places'
    BY <2>0 DEF ThreadsPart, Places
  <2>5. ThreadsPart'
    BY <2>0, <2>1, <2>4 DEF ThreadsPart
  <2> QED BY <2>1, <2>5
<1> QED BY <1>1, <1>2

(* Release by any thread: what is left is where the thread goes next.      *)
LEMMA ReleaseOnly ==
  ASSUME PeersInv, NEW h \in Helpers, helpers[h] # NoPeer, Release(h),
         m_peers' = m_peers, receive'.target = receive.target,
         send'.target = send.target
  PROVE  /\ PeersPart' /\ DOMAIN peers' = DOMAIN peers
         /\ helpers' = [helpers EXCEPT ![h] = NoPeer]
<1>1. /\ peers' = DecUseCount(helpers[h])
      /\ helpers' = [helpers EXCEPT ![h] = NoPeer]
  BY DEF Release
<1>2. /\ TypeOK /\ UseCounts
  BY DEF PeersInv
<1>3. helpers[h] \in Objects /\ peers[helpers[h]].usage > 0
  BY <1>2, HeldCounts
<1>4. peers' \in Seq(Peer)
  BY <1>1, <1>2, <1>3, DecEffect
<1>5. SameUse(peers', DecUseCount(helpers[h]))
  BY <1>1 DEF SameUse
<1> QED BY <1>1, <1>4, <1>5, ReleaseStep

LEMMA ReceiveReleases ==
  ASSUME PeersInv, LeaveProcessPacket \/ LeaveReceive
  PROVE  PeersInv'
<1> USE TwoParts, HelpersAre
<1>1. ASSUME LeaveProcessPacket PROVE PeersInv'
  <2>0. /\ receive.pc = "leave" /\ Release("process")
        /\ helpers["process"] # NoPeer /\ receive.target = NoPeer
        /\ UNCHANGED <<m_peers, m_next_remote_peer_id, send, commands,
                       m_event_queue, datagrams>>
    BY <1>1 DEF LeaveProcessPacket, ThreadsPart, Places
  <2>1. PICK pc \in {"release", "data"} : receive' = [receive EXCEPT !.pc = pc]
    BY <1>1 DEF LeaveProcessPacket
  <2>2. /\ PeersPart' /\ DOMAIN peers' = DOMAIN peers
        /\ helpers' = [helpers EXCEPT !["process"] = NoPeer]
    BY <2>0, <2>1, ReleaseOnly DEF ThreadsPart
  <2>3. Places'
    BY <2>0, <2>1, <2>2 DEF ThreadsPart, Places, PeersPart
  <2>4. ThreadsPart'
    BY <2>0, <2>1, <2>2, <2>3 DEF ThreadsPart
  <2> QED BY <2>2, <2>4
<1>2. ASSUME LeaveReceive PROVE PeersInv'
  <2>0. /\ receive.pc = "release" /\ Release("receive") /\ receive' = Waiting
        /\ helpers["receive"] # NoPeer /\ receive.target = NoPeer
        /\ UNCHANGED <<m_peers, m_next_remote_peer_id, send, commands,
                       m_event_queue, datagrams>>
    BY <1>2 DEF LeaveReceive, ThreadsPart, Places
  <2>1. receive' \in [pc : {"idle"}, address : Addresses, id : PeerIds,
                      disco : BOOLEAN, target : {NoPeer}]
    BY <2>0, WaitingType
  <2>2. /\ PeersPart' /\ DOMAIN peers' = DOMAIN peers
        /\ helpers' = [helpers EXCEPT !["receive"] = NoPeer]
    BY <2>0, <2>1, ReleaseOnly
  <2>3. Places'
    BY <2>0, <2>1, <2>2 DEF ThreadsPart, Places, PeersPart
  <2>4. ThreadsPart'
    BY <2>0, <2>1, <2>2, <2>3 DEF ThreadsPart
  <2> QED BY <2>2, <2>4
<1> QED BY <1>1, <1>2

-----------------------------------------------------------------------------
(* The send thread and the users. *)

LEMMA SendQuiet ==
  ASSUME PeersInv,
         RunTimeouts \/ DisconnectPeerCommand \/ SendPackets \/ EndPass
  PROVE  PeersInv'
<1> USE TwoParts
<1>0. send.target = NoPeer /\ DOMAIN m_peers \subseteq PeerIds
  BY DEF RunTimeouts, DisconnectPeerCommand, SendPackets, EndPass,
         ThreadsPart, Places, PeersPart
<1>1. /\ UNCHANGED <<m_peers, m_next_remote_peer_id, peers, helpers, receive,
                     m_event_queue, datagrams>>
      /\ commands' \subseteq PeerIds
  BY DEF RunTimeouts, DisconnectPeerCommand, SendPackets, EndPass, ThreadsPart
<1>2. /\ send.pc \in {"idle", "visit"}
      /\ send' \in [pc : {"idle", "visit"},
                    pass : {"timeouts", "commands", "packets"},
                    todo : SUBSET PeerIds, doomed : SUBSET PeerIds,
                    target : {NoPeer}]
  <2>1. CASE RunTimeouts
    BY <2>1, <1>0, WaitingType DEF RunTimeouts, StartPass
  <2>2. CASE SendPackets
    BY <2>2, <1>0, WaitingType DEF SendPackets, StartPass
  <2>3. CASE EndPass
    <3>1. NextPass \in {"timeouts", "commands", "packets"}
      BY DEF NextPass, ThreadsPart
    <3> QED BY <2>3, <3>1, WaitingType DEF EndPass
  <2>4. CASE DisconnectPeerCommand
    <3>1. CASE commands = {}
      BY <2>4, <3>1, <1>0 DEF DisconnectPeerCommand, ThreadsPart
    <3>2. CASE commands # {}
      <4>1. PICK id \in commands : StartPass("commands", {id})
        BY <2>4, <3>2 DEF DisconnectPeerCommand
      <4>2. id \in PeerIds /\ send.pc = "idle"
        BY <2>4 DEF DisconnectPeerCommand, ThreadsPart
      <4> QED BY <4>1, <4>2, WaitingType DEF StartPass
    <3> QED BY <3>1, <3>2
  <2> QED BY <2>1, <2>2, <2>3, <2>4
<1>3. PeersPart'
  BY <1>0, <1>1, <1>2, QuietStep
<1>4. Places'
  BY <1>0, <1>1, <1>2 DEF ThreadsPart, Places
<1>5. ThreadsPart'
  BY <1>1, <1>2, <1>4 DEF ThreadsPart
<1> QED BY <1>3, <1>5

LEMMA SendVisits ==
  ASSUME PeersInv, NEW id \in PeerIds, VisitPeer(id)
  PROVE  PeersInv'
<1> USE TwoParts, HelpersAre
<1>0. /\ send.pc = "visit" /\ send.target = NoPeer /\ helpers["send"] = NoPeer
      /\ UNCHANGED <<m_peers, m_next_remote_peer_id, receive, commands,
                     m_event_queue, datagrams>>
  BY DEF VisitPeer, ThreadsPart, Places
<1>1. CASE id \in DOMAIN m_peers
  <2>1. /\ Hold("send", id)
        /\ send' = [send EXCEPT !.todo = @ \ {id}, !.pc = "visiting"]
    BY <1>1 DEF VisitPeer
  <2>2. PeersPart' /\ DOMAIN peers' = DOMAIN peers
    BY <2>1, <1>0, HoldStep DEF ThreadsPart
  <2>3. helpers' = [helpers EXCEPT !["send"] = m_peers[id]]
        /\ m_peers[id] # NoPeer
    BY <2>1 DEF Hold, PeersPart
  <2>4. Places'
    BY <2>1, <2>3, <1>0 DEF ThreadsPart, Places, PeersPart
  <2>5. ThreadsPart'
    BY <2>1, <2>2, <2>4, <1>0 DEF ThreadsPart
  <2> QED BY <2>2, <2>5
<1>2. CASE id \notin DOMAIN m_peers
  <2>1. /\ send' = [send EXCEPT !.todo = @ \ {id}, !.pc = "visit"]
        /\ UNCHANGED <<helpers, peers>>
    BY <1>2 DEF VisitPeer
  <2>2. PeersPart'
    BY <2>1, <1>0, QuietStep DEF ThreadsPart
  <2>4. Places'
    BY <2>1, <1>0 DEF ThreadsPart, Places
  <2>5. ThreadsPart'
    BY <2>1, <2>4, <1>0 DEF ThreadsPart
  <2> QED BY <2>2, <2>5
<1> QED BY <1>1, <1>2

LEMMA SendLeaves ==
  ASSUME PeersInv, NEW doom \in BOOLEAN, LeavePeer(doom)
  PROVE  PeersInv'
<1> USE TwoParts, HelpersAre
<1> DEFINE o == helpers["send"]
           ps == DecUseCount(o)
           flag == ps[o].pending_disconnect \/ send.pass = "commands"
<1>0. /\ send.pc = "visiting" /\ send.target = NoPeer /\ o # NoPeer
      /\ helpers' = [helpers EXCEPT !["send"] = NoPeer]
      /\ peers' = [ps EXCEPT ![o].pending_disconnect = flag]
      /\ UNCHANGED <<m_peers, m_next_remote_peer_id, receive, commands,
                     m_event_queue, datagrams>>
  BY DEF LeavePeer, ThreadsPart, Places
<1>1. TypeOK /\ UseCounts /\ o \in Objects /\ peers[o].usage > 0
  BY <1>0, HeldCounts DEF PeersInv
<1>2. PICK qs : qs = ps
  OBVIOUS
<1>3. /\ qs \in Seq(Peer) /\ DOMAIN qs = DOMAIN peers /\ qs[o] \in Peer
  <2>1. \A new : new = qs => new \in Seq(Peer) /\ DOMAIN new = DOMAIN peers
    BY <1>1, <1>2, DecKeepsType
  <2> QED BY <2>1, <1>1
<1>4. /\ peers' \in Seq(Peer) /\ DOMAIN peers' = DOMAIN qs
      /\ \A j \in DOMAIN qs : /\ peers'[j].usage = qs[j].usage
                              /\ peers'[j].pending_deletion = qs[j].pending_deletion
                              /\ peers'[j].deletes = qs[j].deletes
                              /\ peers'[j].id = qs[j].id
  <2> DEFINE e == [qs[o] EXCEPT !.pending_disconnect = flag]
  <2>1. e \in Peer /\ \A f \in {"usage", "pending_deletion", "deletes", "id"} :
                         e[f] = qs[o][f]
    BY <1>3 DEF Peer
  <2>2. peers' = [qs EXCEPT ![o] = e]
    BY <1>0, <1>2
  <2> HIDE DEF e
  <2>3. \A j \in DOMAIN qs : peers'[j] = IF j = o THEN e ELSE qs[j]
    BY <2>2
  <2> QED BY <2>1, <2>2, <2>3, <1>1, <1>3, ReplaceOne
<1>5. PICK doomed \in SUBSET PeerIds :
         send' = [send EXCEPT !.pc = "visit", !.doomed = doomed]
  <2>1. peers[o] \in Peer
    BY <1>1 DEF TypeOK
  <2>2. peers[o].id \in PeerIds
    BY <2>1 DEF Peer
  <2>3. (IF doom THEN send.doomed \cup {peers[o].id} ELSE send.doomed)
          \in SUBSET PeerIds
    BY <2>2 DEF ThreadsPart
  <2>4. send' = [send EXCEPT !.pc = "visit",
                   !.doomed = IF doom THEN send.doomed \cup {peers[o].id}
                              ELSE send.doomed]
    BY DEF LeavePeer
  <2> QED BY <2>3, <2>4
<1>9. /\ qs = DecUseCount(helpers["send"]) /\ m_peers' = m_peers
      /\ receive'.target = receive.target /\ send'.target = send.target
  BY <1>0, <1>2, <1>5 DEF ThreadsPart
<1> HIDE DEF o, ps, flag
<1>6. PeersPart' /\ DOMAIN peers' = DOMAIN peers
  <2>1. helpers["send"] # NoPeer /\ helpers' = [helpers EXCEPT !["send"] = NoPeer]
    BY <1>0 DEF o
  <2>2. SameUse(peers', qs)
    BY <1>4 DEF SameUse
  <2>3. peers' \in Seq(Peer) /\ SameUse(peers', DecUseCount(helpers["send"]))
    BY <1>4, <1>9, <2>2
  <2> QED BY <2>1, <2>3, <1>9, ReleaseStep
<1>7. Places'
  BY <1>0, <1>5 DEF ThreadsPart, Places, PeersPart
<1>8. ThreadsPart'
  BY <1>0, <1>5, <1>6, <1>7 DEF ThreadsPart
<1> QED BY <1>6, <1>8

LEMMA SendRemoves ==
  ASSUME PeersInv,
         (\E id \in PeerIds : RemoveDoomed(id)) \/ SendPutRemoved \/ SendDrop
  PROVE  PeersInv'
<1> USE TwoParts, HelpersAre
<1>1. ASSUME NEW id \in PeerIds, RemoveDoomed(id) PROVE PeersInv'
  <2>0. /\ send.pc = "visit" /\ send.target = NoPeer
        /\ UNCHANGED <<m_next_remote_peer_id, peers, helpers, receive, commands,
                       m_event_queue, datagrams>>
    BY <1>1 DEF RemoveDoomed, ThreadsPart, Places
  <2>1. CASE id \in DOMAIN m_peers
    <3>1. /\ Erase(id) /\ m_peers[id] \in Objects
          /\ send' = [send EXCEPT !.doomed = @ \ {id}, !.pc = "removed",
                                  !.target = m_peers[id]]
      BY <2>1, <1>1 DEF RemoveDoomed, PeersPart
    <3>2. PeersPart'
      BY <2>0, <2>1, <3>1, EraseStep DEF ThreadsPart
    <3>3. m_peers[id] # NoPeer
      BY <3>1 DEF PeersPart
    <3>4. Places'
      BY <3>1, <3>3, <2>0 DEF ThreadsPart, Places
    <3>5. ThreadsPart'
      BY <3>1, <3>4, <2>0 DEF ThreadsPart
    <3> QED BY <3>2, <3>5
  <2>2. CASE id \notin DOMAIN m_peers
    <3>1. send' = [send EXCEPT !.doomed = @ \ {id}] /\ m_peers' = m_peers
      BY <2>2, <1>1 DEF RemoveDoomed
    <3>2. PeersPart'
      BY <2>0, <3>1, QuietStep DEF ThreadsPart
    <3>4. Places'
      BY <3>1, <2>0 DEF ThreadsPart, Places
    <3>5. ThreadsPart'
      BY <3>1, <3>4, <2>0 DEF ThreadsPart
    <3> QED BY <3>2, <3>5
  <2> QED BY <2>1, <2>2
<1>2. ASSUME SendPutRemoved PROVE PeersInv'
  <2>1. send.target \in Objects
    BY <1>2 DEF SendPutRemoved, ThreadsPart, Places
  <2>6. peers[send.target] \in Peer
    BY <2>1 DEF PeersPart
  <2>2. peers[send.target].id \in PeerIds
        /\ peers[send.target].address \in Addresses
    BY <2>6 DEF Peer
  <2>3. m_event_queue' \in Seq([type : {"added", "data", "removed"},
                                id : PeerIds, address : Addresses])
    BY <2>2, <1>2 DEF SendPutRemoved, PutRemoved, Event, ThreadsPart
  <2>4. PeersPart'
    BY <1>2, QuietStep DEF SendPutRemoved, ThreadsPart
  <2>5. ThreadsPart'
    BY <1>2, <2>3 DEF SendPutRemoved, ThreadsPart, Places
  <2> QED BY <2>4, <2>5
<1>3. ASSUME SendDrop PROVE PeersInv'
  <2>0. /\ send.pc = "drop" /\ send.target # NoPeer
        /\ send.target \in Objects /\ peers' = Drop(send.target)
        /\ send' = [send EXCEPT !.pc = "visit", !.target = NoPeer]
        /\ UNCHANGED <<m_peers, m_next_remote_peer_id, helpers, receive,
                       commands, m_event_queue, datagrams>>
    BY <1>3 DEF SendDrop, ThreadsPart, Places
  <2>1. PeersPart' /\ DOMAIN peers' = DOMAIN peers
    BY <2>0, DropStep DEF ThreadsPart
  <2>4. Places'
    BY <2>0 DEF ThreadsPart, Places
  <2>5. ThreadsPart'
    BY <2>0, <2>1, <2>4 DEF ThreadsPart
  <2> QED BY <2>1, <2>5
<1> QED BY <1>1, <1>2, <1>3

LEMMA UsersStep == ASSUME PeersInv, UserThreads PROVE PeersInv'
<1> USE TwoParts, HelpersAre
<1>1. ASSUME NEW u \in Users, NEW id \in PeerIds, GetPeerAddress(u, id)
      PROVE  PeersInv'
  <2>0. /\ helpers[u] = NoPeer /\ Hold(u, id)
        /\ UNCHANGED <<m_peers, m_next_remote_peer_id, receive, send, commands,
                       m_event_queue, datagrams>>
    BY <1>1 DEF GetPeerAddress
  <2>1. PeersPart' /\ DOMAIN peers' = DOMAIN peers
    BY <2>0, HoldStep
  <2>2. \A h \in {"receive", "process", "send"} : helpers'[h] = helpers[h]
    BY <2>0 DEF Hold, PeersPart
  <2>3. ThreadsPart'
    BY <2>0, <2>1, <2>2 DEF ThreadsPart, Places
  <2> QED BY <2>1, <2>3
<1>2. ASSUME NEW u \in Users, GotPeerAddress(u) PROVE PeersInv'
  <2>0. /\ helpers[u] # NoPeer /\ Release(u)
        /\ UNCHANGED <<m_peers, m_next_remote_peer_id, receive, send, commands,
                       m_event_queue, datagrams>>
    BY <1>2 DEF GotPeerAddress
  <2>1. /\ PeersPart' /\ DOMAIN peers' = DOMAIN peers
        /\ helpers' = [helpers EXCEPT ![u] = NoPeer]
    BY <2>0, ReleaseOnly
  <2>2. \A h \in {"receive", "process", "send"} : helpers'[h] = helpers[h]
    BY <2>1 DEF PeersPart
  <2>3. ThreadsPart'
    BY <2>0, <2>1, <2>2 DEF ThreadsPart, Places
  <2> QED BY <2>1, <2>3
<1>3. ASSUME NEW o \in Objects, DisconnectPeer(o) PROVE PeersInv'
  <2>1. peers[o] \in Peer
    BY DEF PeersPart
  <2>2. peers[o].id \in PeerIds
    BY <2>1 DEF Peer
  <2>3. PeersPart'
    BY <1>3, QuietStep DEF DisconnectPeer
  <2>4. ThreadsPart'
    BY <1>3, <2>2 DEF DisconnectPeer, ThreadsPart, Places
  <2> QED BY <2>3, <2>4
<1> QED BY <1>1, <1>2, <1>3 DEF UserThreads

-----------------------------------------------------------------------------
(* The theorems. *)

LEMMA PeersNext == ASSUME PeersInv, [Next]_vars PROVE PeersInv'
<1>1. ASSUME ReceiveThread PROVE PeersInv'
  BY <1>1, ReceiveQuiet, CreatePeerInv, ReceiveHolds, ReceiveRemoves,
     ReceiveReleases DEF ReceiveThread
<1>2. ASSUME SendThread PROVE PeersInv'
  BY <1>2, SendQuiet, SendVisits, SendLeaves, SendRemoves DEF SendThread
<1>3. ASSUME UNCHANGED vars PROVE PeersInv'
  BY <1>3 DEF vars, PeersInv, TypeOK, UseCounts, MarkedWhenOut,
     DeletedWhenUnused, OneHand, Places, Holders, InMap, Removing
<1> QED BY <1>1, <1>2, <1>3, UsersStep DEF Next

THEOREM PeersInvariant == Spec => []PeersInv
<1>1. Init => PeersInv
  BY PeersInit
<1>2. PeersInv /\ [Next]_vars => PeersInv'
  BY PeersNext
<1> QED BY <1>1, <1>2, PTL DEF Spec

(* Types of every variable of the module, in every behaviour. *)
THEOREM PeersTypeCorrect == Spec => []TypeOK
<1>1. PeersInv => TypeOK
  BY DEF PeersInv
<1> QED BY <1>1, PeersInvariant, PTL

(* PeerHelper, Drop and deletePeer: for any number of threads, peers and   *)
(* datagrams, no thread reaches a deleted peer and none is deleted twice.  *)
THEOREM NeverUsedAfterDelete == Spec => []NoUseAfterDelete
<1>1. PeersInv => NoUseAfterDelete
  <2> SUFFICES ASSUME PeersInv, NEW o \in Objects
               PROVE  /\ InMap(o) \/ Held(o) \/ Removing(o)
                           => peers[o].deletes = 0
                      /\ peers[o].deletes =< 1
    BY DEF NoUseAfterDelete
  <2>1. peers[o].deletes =< 1
    BY DEF PeersInv, DeletedWhenUnused
  <2>2. ASSUME InMap(o) \/ Removing(o) PROVE peers[o].deletes = 0
    BY <2>2 DEF PeersInv, MarkedWhenOut, DeletedWhenUnused
  <2>3. ASSUME Held(o) PROVE peers[o].deletes = 0
    <3>1. PICK h \in Helpers : helpers[h] = o
      BY <2>3 DEF Held
    <3>2. o # NoPeer
      BY DEF PeersInv, TypeOK
    <3>3. peers[o].usage > 0
      BY <3>1, <3>2, HeldCounts DEF PeersInv
    <3> QED BY <3>3 DEF PeersInv, DeletedWhenUnused
  <2> QED BY <2>1, <2>2, <2>3
<1> QED BY <1>1, PeersInvariant, PTL

(* The same protocol never forgets a peer: one that no thread can reach    *)
(* has been deleted.                                                       *)
THEOREM NeverLeaked == Spec => []NoLeak
<1>1. PeersInv => NoLeak
  <2> SUFFICES ASSUME PeersInv, NEW o \in Objects,
                      ~ InMap(o), ~ Held(o), ~ Removing(o)
               PROVE  peers[o].deletes = 1
    BY DEF NoLeak
  <2>1. Holders(o) = {}
    BY DEF Holders, Held
  <2>2. peers[o].usage = 0
    BY <2>1, FS_EmptySet DEF PeersInv, UseCounts
  <2> QED BY <2>2 DEF PeersInv, MarkedWhenOut, DeletedWhenUnused
<1> QED BY <1>1, PeersInvariant, PTL

-----------------------------------------------------------------------------
(* One peer for an address: only the receive thread makes peers, and when  *)
(* it is about to, the map has none of the sender's address; the other     *)
(* threads only take peers out.                                            *)

NobodyKnown ==
    receive.pc = "create" =>
       \A i \in DOMAIN m_peers : peers[m_peers[i]].address # receive.address

(* No step moves a Peer to another address, or gives it another id. *)
LEMMA AddressesKept ==
  ASSUME PeersInv, [Next]_vars, NEW j \in Objects
  PROVE  /\ j \in DOMAIN peers' /\ peers'[j].address = peers[j].address
         /\ peers'[j].id = peers[j].id
<1> DEFINE Kept(new) == /\ j \in DOMAIN new /\ new[j].address = peers[j].address
                        /\ new[j].id = peers[j].id
<1>1. /\ peers \in Seq(Peer) /\ \A o \in Objects : peers[o] \in Peer
      /\ \A h \in Helpers : helpers[h] \in Objects \cup {NoPeer}
      /\ receive.target \in Objects \cup {NoPeer}
      /\ send.target \in Objects \cup {NoPeer}
  BY DEF PeersInv, TypeOK
<1>2. \A o \in Objects : /\ Kept(IncUseCount(o)) /\ Kept(DecUseCount(o))
                         /\ Kept(Drop(o))
  <2> SUFFICES ASSUME NEW o \in Objects
               PROVE  Kept(IncUseCount(o)) /\ Kept(DecUseCount(o)) /\ Kept(Drop(o))
    OBVIOUS
  <2>1. Kept(IncUseCount(o))
    BY <1>1 DEF IncUseCount, Peer
  <2>2. Kept(DecUseCount(o))
    BY <1>1 DEF DecUseCount, Peer
  <2>3. Kept(Drop(o))
    BY <1>1 DEF Drop, Peer
  <2> QED BY <2>1, <2>2, <2>3
<1>3. Kept(peers)
  OBVIOUS
<1> HIDE DEF Kept
<1>4. \A h \in Helpers : \A id : Hold(h, id) => Kept(peers')
  BY <1>2 DEF Hold, PeersInv, TypeOK
<1>5. \A h \in Helpers : helpers[h] # NoPeer /\ Release(h) => Kept(peers')
  BY <1>1, <1>2 DEF Release
<1>6. Places
  BY DEF PeersInv
<1>7. ASSUME ReceiveThread PROVE Kept(peers')
  <2>1. CASE CreatePeer
    <3>1. CASE UNCHANGED peers
      BY <3>1, <1>3
    <3>2. CASE \E e : peers' = Append(peers, e)
      BY <3>2, <1>1 DEF Kept
    <3> QED BY <2>1, <3>1, <3>2 DEF CreatePeer
  <2>2. CASE GetPeer \/ ProcessPacket
    BY <2>2, <1>3, <1>4, HelpersAre DEF GetPeer, ProcessPacket
  <2>3. CASE DiscoDrop
    BY <2>3, <1>1, <1>2, <1>6 DEF DiscoDrop, Places
  <2>4. CASE LeaveProcessPacket \/ LeaveReceive
    BY <2>4, <1>5, <1>6, HelpersAre DEF LeaveProcessPacket, LeaveReceive, Places
  <2> QED BY <1>3, <1>7, <2>1, <2>2, <2>3, <2>4
          DEF ReceiveThread, ReceiveDatagram, LookupPeer, DiscoErase,
              DiscoPutRemoved, PutData
<1>8. ASSUME SendThread PROVE Kept(peers')
  <2>1. ASSUME NEW id \in PeerIds, VisitPeer(id) PROVE Kept(peers')
    BY <2>1, <1>3, <1>4, HelpersAre DEF VisitPeer
  <2>2. ASSUME NEW doom \in BOOLEAN, LeavePeer(doom) PROVE Kept(peers')
    <3>1. helpers["send"] \in Objects
      BY <2>2, <1>1, <1>6, HelpersAre DEF LeavePeer, Places
    <3>2. PICK ps : ps = DecUseCount(helpers["send"])
      OBVIOUS
    <3>3. Kept(ps) /\ DOMAIN ps = DOMAIN peers
      BY <3>1, <3>2, <1>2 DEF DecUseCount
    <3>4. "address" \in DOMAIN ps[j] /\ "id" \in DOMAIN ps[j]
      BY <3>1, <3>2, <1>1 DEF DecUseCount, Peer
    <3>5. PICK flag : peers' = [ps EXCEPT ![helpers["send"]].pending_disconnect = flag]
      BY <2>2, <3>2 DEF LeavePeer
    <3> QED BY <3>3, <3>4, <3>5 DEF Kept
  <2>3. CASE SendDrop
    BY <2>3, <1>1, <1>2, <1>6 DEF SendDrop, Places
  <2> QED BY <1>3, <1>8, <2>1, <2>2, <2>3
          DEF SendThread, RunTimeouts, DisconnectPeerCommand, SendPackets,
              EndPass, RemoveDoomed, SendPutRemoved
<1>9. ASSUME UserThreads PROVE Kept(peers')
  BY <1>3, <1>4, <1>5, <1>9, HelpersAre
     DEF UserThreads, GetPeerAddress, GotPeerAddress, DisconnectPeer
<1>10. CASE UNCHANGED vars
  BY <1>3, <1>10 DEF vars
<1> QED BY <1>7, <1>8, <1>9, <1>10 DEF Next, Kept

(* Any other step than a creation only takes peers out of the map.         *)
LEMMA OnlyCreateAdds ==
  ASSUME [Next]_vars, ~ CreatePeer
  PROVE  \A i \in DOMAIN m_peers' : i \in DOMAIN m_peers /\ m_peers'[i] = m_peers[i]
<1>1. CASE UNCHANGED m_peers
  BY <1>1
<1>2. CASE \E id : Erase(id)
  BY <1>2 DEF Erase
<1> QED BY <1>1, <1>2 DEF Next, ReceiveThread, ReceiveDatagram, LookupPeer,
            GetPeer, ProcessPacket, DiscoErase, DiscoPutRemoved, DiscoDrop,
            LeaveProcessPacket, PutData, LeaveReceive, SendThread, RunTimeouts,
            DisconnectPeerCommand, SendPackets, VisitPeer, RemoveDoomed,
            LeavePeer, EndPass, SendPutRemoved, SendDrop, UserThreads,
            GetPeerAddress, GotPeerAddress, DisconnectPeer, vars

(* Only a lookup decides to create, and it keeps the address.              *)
LEMMA OnlyLookupDecides ==
  ASSUME PeersInv, [Next]_vars, receive'.pc = "create"
  PROVE  UNCHANGED receive \/ LookupPeer
<1>1. /\ Waiting.pc = "idle" /\ DOMAIN Waiting = DOMAIN receive
      /\ "pc" \in DOMAIN receive
  BY DEF Waiting, PeersInv, TypeOK
<1>2. ASSUME ReceiveThread, ~ LookupPeer PROVE FALSE
  <2>1. ASSUME NEW a \in Addresses, NEW id \in PeerIds, NEW disco \in BOOLEAN,
               ReceiveDatagram(a, id, disco)
        PROVE  FALSE
    BY <2>1 DEF ReceiveDatagram, Waiting
  <2>2. CASE CreatePeer
    BY <2>2, <1>1 DEF CreatePeer, PeersInv, TypeOK
  <2>3. CASE GetPeer \/ ProcessPacket \/ DiscoErase
    BY <2>3, <1>1 DEF GetPeer, ProcessPacket, DiscoErase, PeersInv, TypeOK
  <2>4. CASE \/ DiscoPutRemoved \/ DiscoDrop \/ LeaveProcessPacket \/ PutData
             \/ LeaveReceive
    BY <2>4, <1>1 DEF DiscoPutRemoved, DiscoDrop, LeaveProcessPacket, PutData,
                      LeaveReceive, PeersInv, TypeOK
  <2> QED BY <1>2, <2>1, <2>2, <2>3, <2>4 DEF ReceiveThread
<1>3. ASSUME SendThread \/ UserThreads PROVE UNCHANGED receive
  BY <1>3 DEF SendThread, RunTimeouts, DisconnectPeerCommand, SendPackets,
              VisitPeer, RemoveDoomed, LeavePeer, EndPass, SendPutRemoved,
              SendDrop, UserThreads, GetPeerAddress, GotPeerAddress,
              DisconnectPeer
<1> QED BY <1>2, <1>3 DEF Next, vars

LEMMA AddressesNext ==
  ASSUME PeersInv, [Next]_vars, OnePeerPerAddress, NobodyKnown
  PROVE  OnePeerPerAddress' /\ NobodyKnown'
<1>1. \A i \in DOMAIN m_peers : /\ m_peers[i] \in Objects
                                /\ ~ peers[m_peers[i]].pending_deletion
  BY DEF PeersInv, TypeOK, MarkedWhenOut, InMap
<1>2. \A i \in DOMAIN m_peers : peers'[m_peers[i]].address = peers[m_peers[i]].address
  BY <1>1, AddressesKept
<1>3. CASE ~ CreatePeer
  <2>1. OnePeerPerAddress'
    BY <1>2, <1>3, OnlyCreateAdds DEF OnePeerPerAddress
  <2>2. ASSUME receive'.pc = "create"
        PROVE  \A i \in DOMAIN m_peers' :
                  peers'[m_peers'[i]].address # receive'.address
    <3>1. CASE UNCHANGED receive
      BY <2>2, <3>1, <1>2, <1>3, OnlyCreateAdds DEF NobodyKnown
    <3>2. CASE LookupPeer
      <4>1. CASE KnownIds(receive.address) = {}
        <5>1. receive'.address = receive.address /\ UNCHANGED <<m_peers, peers>>
          BY <3>2, <4>1 DEF LookupPeer, PeersInv, TypeOK
        <5> QED BY <5>1, <4>1, <1>1 DEF KnownIds
      <4>2. CASE KnownIds(receive.address) # {}
        BY <2>2, <3>2, <4>2 DEF LookupPeer, PeersInv, TypeOK
      <4> QED BY <4>1, <4>2
    <3> QED BY <2>2, <3>1, <3>2, OnlyLookupDecides
  <2> QED BY <2>1, <2>2 DEF NobodyKnown
<1>4. CASE CreatePeer
  <2>1. receive'.pc # "create"
    BY <1>4 DEF CreatePeer, PeersInv, TypeOK
  <2>2. CASE FreeIds = {}
    BY <2>1, <2>2, <1>4 DEF CreatePeer, OnePeerPerAddress, NobodyKnown
  <2>3. CASE FreeIds # {}
    <3>0. PICK id : id = CHOOSE i \in FreeIds : \A j \in FreeIds : i =< j
      OBVIOUS
    <3>1. /\ peers' = Append(peers, NewPeer(id, receive.address))
          /\ m_peers' = [i \in DOMAIN m_peers \cup {id} |->
                           IF i = id THEN Len(peers) + 1 ELSE m_peers[i]]
      BY <2>3, <1>4, <3>0 DEF CreatePeer
    <3>2. /\ receive.pc = "create" /\ peers \in Seq(Peer)
      BY <1>4 DEF CreatePeer, PeersInv, TypeOK
    <3>3. peers'[Len(peers) + 1].address = receive.address
      BY <3>1, <3>2 DEF NewPeer
    <3>4. \A i \in DOMAIN m_peers : peers'[m_peers[i]].address # receive.address
      BY <1>2, <3>2 DEF NobodyKnown
    <3>5. /\ DOMAIN m_peers' = DOMAIN m_peers \cup {id}
          /\ m_peers'[id] = Len(peers) + 1
          /\ \A i \in DOMAIN m_peers \ {id} : m_peers'[i] = m_peers[i]
      BY <3>1
    <3>6. OnePeerPerAddress'
      BY <1>2, <3>3, <3>4, <3>5 DEF OnePeerPerAddress
    <3> QED BY <2>1, <3>6 DEF NobodyKnown
  <2> QED BY <2>2, <2>3
<1> QED BY <1>3, <1>4

(* receive() looks a sender up and creates it in two steps, between which  *)
(* the other threads go on: no address ever has two peers.                 *)
THEOREM OnePeerForAnAddress == Spec => []OnePeerPerAddress
<1>1. Init => OnePeerPerAddress /\ NobodyKnown
  BY WaitingType DEF Init, OnePeerPerAddress, NobodyKnown
<1>2. PeersInv /\ [Next]_vars /\ OnePeerPerAddress /\ NobodyKnown =>
        OnePeerPerAddress' /\ NobodyKnown'
  BY AddressesNext
<1> QED BY <1>1, <1>2, PeersInvariant, PTL DEF Spec

-----------------------------------------------------------------------------
(* What the user has been told.  All of it is of the events so far.        *)

EventTypes == [type : {"added", "data", "removed"}, id : PeerIds, address : Addresses]

(* The last change of a peer of this id is its addition from the address;  *)
(* or it has come from there at least; or there is none any more.          *)
Told(id, a) ==
    /\ Changes(id, Len(m_event_queue)) # {}
    /\ LastChange(id, Len(m_event_queue)) = Event("added", id, a)
FromAddress(id, a) ==
    /\ Changes(id, Len(m_event_queue)) # {}
    /\ LastChange(id, Len(m_event_queue)).address = a
Gone(id) ==
    Changes(id, Len(m_event_queue)) # {} =>
       LastChange(id, Len(m_event_queue)).type = "removed"

(* Of some numbers that are not above one there is a largest.              *)
LEMMA LargestExists ==
  ASSUME NEW n \in Nat, NEW T \in SUBSET (1 .. n), T # {}
  PROVE  \E j \in T : \A k \in T : k =< j
<1> DEFINE D == {n - j : j \in T}
<1>1. D \in SUBSET Nat /\ D # {}
  <2>1. \A j \in T : j \in 1 .. n
    OBVIOUS
  <2>2. \A j \in T : n - j \in Nat
    BY <2>1
  <2> QED BY <2>2, Zenon
<1>2. PICK d \in D : \A e \in D : d =< e
  BY <1>1, SmallestExists
<1>3. PICK j \in T : d = n - j
  BY <1>2
<1>4. ASSUME NEW k \in T PROVE k =< j
  <2>1. n - k \in D /\ j \in Int /\ k \in Int
    OBVIOUS
  <2>2. n - j =< n - k
    BY <1>2, <1>3, <2>1
  <2> QED BY <2>1, <2>2
<1> QED BY <1>4

LEMMA TheLastChange ==
  ASSUME NEW n \in Nat, NEW id, Changes(id, n) # {}
  PROVE  \E m \in Changes(id, n) : /\ \A k \in Changes(id, n) : k =< m
                                   /\ LastChange(id, n) = m_event_queue[m]
<1> DEFINE P(j) == \A k \in Changes(id, n) : k =< j
           m == CHOOSE j \in Changes(id, n) : P(j)
<1>1. Changes(id, n) \in SUBSET (1 .. n)
  BY DEF Changes
<1>2. \E j \in Changes(id, n) : P(j)
  BY <1>1, LargestExists
<1>3. m \in Changes(id, n) /\ P(m)
  BY <1>2
<1>4. LastChange(id, n) = m_event_queue[m]
  BY DEF LastChange
<1> QED BY <1>3, <1>4

(* It is the only one like that.                                           *)
LEMMA ThatIsTheLastChange ==
  ASSUME NEW n \in Nat, NEW id, NEW m \in Changes(id, n),
         \A k \in Changes(id, n) : k =< m
  PROVE  LastChange(id, n) = m_event_queue[m]
<1>1. PICK l \in Changes(id, n) : /\ \A k \in Changes(id, n) : k =< l
                                  /\ LastChange(id, n) = m_event_queue[l]
  BY TheLastChange
<1>2. l =< m /\ m =< l /\ l \in Int /\ m \in Int
  BY <1>1 DEF Changes
<1>3. l = m
  BY <1>2
<1> QED BY <1>1, <1>3

LEMMA LastChangeAfter ==
  ASSUME NEW n \in Nat, NEW id
  PROVE  (n \in Changes(id, n) /\ (\A k \in Changes(id, n) : k =< n)
            => LastChange(id, n) = m_event_queue[n])'
<1>1. n \in Changes(id, n) /\ (\A k \in Changes(id, n) : k =< n)
        => LastChange(id, n) = m_event_queue[n]
  BY ThatIsTheLastChange
<1> QED BY <1>1, PTL

(* One more event does not change what was told before.                    *)
LEMMA PastIsKept ==
  ASSUME m_event_queue \in Seq(EventTypes), NEW e \in EventTypes,
         m_event_queue' = Append(m_event_queue, e),
         NEW n \in 0 .. Len(m_event_queue), NEW id
  PROVE  /\ Changes(id, n)' = Changes(id, n)
         /\ Changes(id, n) # {} => LastChange(id, n)' = LastChange(id, n)
<1>1. \A i \in 1 .. n : m_event_queue'[i] = m_event_queue[i]
  OBVIOUS
<1>2. Changes(id, n)' = Changes(id, n)
  BY <1>1 DEF Changes
<1>3. ASSUME Changes(id, n) # {}
      PROVE  LastChange(id, n)' = LastChange(id, n)
  <2>1. PICK m \in Changes(id, n) : /\ \A k \in Changes(id, n) : k =< m
                                    /\ LastChange(id, n) = m_event_queue[m]
    BY <1>3, TheLastChange
  <2>2. (\A k \in Changes(id, n) : k =< m) => LastChange(id, n) = m_event_queue[m]
    BY ThatIsTheLastChange
  <2>3. LastChange(id, n)' = m_event_queue'[m]
    <3>1. \A j : (\A k \in Changes(id, n) : k =< j)' <=> (\A k \in Changes(id, n) : k =< j)
      BY <1>2
    <3>2. LastChange(id, n)' = m_event_queue'[CHOOSE j \in Changes(id, n)' :
                                                \A k \in Changes(id, n)' : k =< j]
      BY DEF LastChange
    <3>3. LastChange(id, n) = m_event_queue[CHOOSE j \in Changes(id, n) :
                                              \A k \in Changes(id, n) : k =< j]
      BY DEF LastChange
    <3> DEFINE c == CHOOSE j \in Changes(id, n) : \A k \in Changes(id, n) : k =< j
    <3>4. c \in Changes(id, n) /\ \A k \in Changes(id, n) : k =< c
      BY <2>1
    <3>5. c = m
      <4>1. c =< m /\ m =< c /\ c \in Int /\ m \in Int
        BY <2>1, <3>4 DEF Changes
      <4> QED BY <4>1
    <3>6. LastChange(id, n)' = m_event_queue'[c]
      BY <1>2, <3>2
    <3> QED BY <3>5, <3>6
  <2>4. m_event_queue'[m] = m_event_queue[m]
    BY <1>1 DEF Changes
  <2> QED BY <2>1, <2>3, <2>4
<1> QED BY <1>2, <1>3

(* What an event tells of its id, and it tells nothing of the others; data *)
(* changes nothing.                                                        *)
LEMMA ToldAfter ==
  ASSUME m_event_queue \in Seq(EventTypes), NEW e \in EventTypes,
         m_event_queue' = Append(m_event_queue, e), NEW id
  PROVE  /\ e.id = id /\ e.type # "data" =>
              /\ \A a : Told(id, a)' <=> e = Event("added", id, a)
              /\ \A a : FromAddress(id, a)' <=> e.address = a
              /\ Gone(id)' <=> e.type = "removed"
         /\ ~ (e.id = id /\ e.type # "data") =>
              /\ \A a : Told(id, a)' <=> Told(id, a)
              /\ \A a : FromAddress(id, a)' <=> FromAddress(id, a)
              /\ Gone(id)' <=> Gone(id)
<1> DEFINE n == Len(m_event_queue)
<1>1. /\ n \in Nat /\ Len(m_event_queue') = n + 1 /\ m_event_queue'[n + 1] = e
      /\ n \in 0 .. n /\ \A i \in 1 .. n : m_event_queue'[i] = m_event_queue[i]
  OBVIOUS
<1>2. PICK k \in Nat : k = n
  BY <1>1
<1>2a. PICK m \in Nat : m = k + 1
  OBVIOUS
<1>3. /\ Changes(id, k)' = Changes(id, k)
      /\ Changes(id, k) # {} => LastChange(id, k)' = LastChange(id, k)
  BY <1>1, <1>2, PastIsKept
<1>4. Changes(id, m)' = Changes(id, k)
                             \cup (IF e.id = id /\ e.type # "data" THEN {m} ELSE {})
  <2>1. 1 .. m = (1 .. k) \cup {m}
    BY <1>2a
  <2> QED BY <1>1, <1>2, <1>2a, <2>1 DEF Changes
<1>5. /\ \A a : Told(id, a)' <=> /\ Changes(id, m)' # {}
                                 /\ LastChange(id, m)' = Event("added", id, a)
      /\ \A a : FromAddress(id, a)' <=> /\ Changes(id, m)' # {}
                                        /\ LastChange(id, m)'.address = a
      /\ Gone(id)' <=> (Changes(id, m)' # {} => LastChange(id, m)'.type = "removed")
  BY <1>1, <1>2, <1>2a, Zenon DEF Told, FromAddress, Gone, Changes, LastChange, Event
<1>6. /\ \A a : Told(id, a) <=> /\ Changes(id, k) # {}
                                /\ LastChange(id, k) = Event("added", id, a)
      /\ \A a : FromAddress(id, a) <=> /\ Changes(id, k) # {}
                                       /\ LastChange(id, k).address = a
      /\ Gone(id) <=> (Changes(id, k) # {} => LastChange(id, k).type = "removed")
  BY <1>2, Zenon DEF Told, FromAddress, Gone
<1>7. ASSUME e.id = id, e.type # "data"
      PROVE  Changes(id, m)' # {} /\ LastChange(id, m)' = e
  <2>1. Changes(id, m)' = Changes(id, k) \cup {m}
    BY <1>4, <1>7
  <2>2. \A j \in Changes(id, k) : j \in Int /\ j =< k
    BY DEF Changes
  <2>3. m \in Changes(id, m)' /\ \A j \in Changes(id, m)' : j =< m
    BY <1>2a, <2>1, <2>2
  <2>4. (m \in Changes(id, m) /\ (\A j \in Changes(id, m) : j =< m)
           => LastChange(id, m) = m_event_queue[m])'
    BY LastChangeAfter
  <2>5. LastChange(id, m)' = m_event_queue'[m]
    BY <2>3, <2>4
  <2> QED BY <1>1, <1>2, <1>2a, <2>3, <2>5
<1>8. ASSUME ~ (e.id = id /\ e.type # "data")
      PROVE  /\ Changes(id, m)' = Changes(id, k)
             /\ Changes(id, k) # {} => LastChange(id, m)' = LastChange(id, k)
  <2>1. Changes(id, m)' = Changes(id, k) /\ Changes(id, m)' = Changes(id, k)'
    BY <1>3, <1>4, <1>8
  <2>2. LastChange(id, m)' = LastChange(id, k)'
    BY <2>1, Zenon DEF LastChange
  <2> QED BY <1>3, <2>1, <2>2
<1>9. ASSUME e.id = id, e.type # "data"
      PROVE  /\ \A a : Told(id, a)' <=> e = Event("added", id, a)
             /\ \A a : FromAddress(id, a)' <=> e.address = a
             /\ Gone(id)' <=> e.type = "removed"
  BY <1>5, <1>7, <1>9, Zenon
<1>10. ASSUME ~ (e.id = id /\ e.type # "data")
       PROVE  /\ \A a : Told(id, a)' <=> Told(id, a)
              /\ \A a : FromAddress(id, a)' <=> FromAddress(id, a)
              /\ Gone(id)' <=> Gone(id)
  BY <1>5, <1>6, <1>8, <1>10, Zenon
<1> QED BY <1>9, <1>10

(* What one event must find told before it.                                *)
InPlace(i) ==
    LET e == m_event_queue[i] IN
    CASE e.type = "added" ->
           Changes(e.id, i - 1) # {} =>
              LastChange(e.id, i - 1).type = "removed"
      [] e.type = "removed" ->
           /\ Changes(e.id, i - 1) # {}
           /\ LastChange(e.id, i - 1) = Event("added", e.id, e.address)
      [] e.type = "data" ->
           /\ Changes(e.id, i - 1) # {}
           /\ LastChange(e.id, i - 1).address = e.address

LEMMA StoryAfter ==
  ASSUME m_event_queue \in Seq(EventTypes), EventsTellTheStory,
         NEW e \in EventTypes, m_event_queue' = Append(m_event_queue, e),
         e.type = "added" => Gone(e.id),
         e.type = "removed" => Told(e.id, e.address),
         e.type = "data" => FromAddress(e.id, e.address)
  PROVE  EventsTellTheStory'
<1> DEFINE n == Len(m_event_queue)
<1>1. /\ n \in Nat /\ Len(m_event_queue') = n + 1 /\ m_event_queue'[n + 1] = e
      /\ \A i \in 1 .. n : m_event_queue'[i] = m_event_queue[i]
  OBVIOUS
<1>2. \A i \in 1 .. n : InPlace(i)
  BY DEF EventsTellTheStory, InPlace
<1>3. ASSUME NEW i \in 1 .. n
      PROVE  InPlace(i)'
  <2>1. PICK d \in EventTypes : d = m_event_queue[i] /\ d = m_event_queue'[i]
    BY <1>1
  <2>2. i - 1 \in 0 .. n
    BY <1>1
  <2>3. /\ Changes(d.id, i - 1)' = Changes(d.id, i - 1)
        /\ Changes(d.id, i - 1) # {} => LastChange(d.id, i - 1)' = LastChange(d.id, i - 1)
    BY <2>2, PastIsKept
  <2>4. CASE d.type = "added"
    <3>1. Changes(d.id, i - 1) # {} => LastChange(d.id, i - 1).type = "removed"
      BY <1>2, <2>1, <2>4, Zenon DEF InPlace
    <3>2. Changes(d.id, i - 1)' # {} => LastChange(d.id, i - 1)'.type = "removed"
      BY <2>3, <3>1, Zenon
    <3> QED BY <2>1, <2>4, <3>2 DEF InPlace, Changes, LastChange
  <2>5. CASE d.type = "removed"
    <3>1. /\ Changes(d.id, i - 1) # {}
          /\ LastChange(d.id, i - 1) = Event("added", d.id, d.address)
      BY <1>2, <2>1, <2>5 DEF InPlace
    <3>2. /\ Changes(d.id, i - 1)' # {}
          /\ LastChange(d.id, i - 1)' = Event("added", d.id, d.address)
      BY <2>3, <3>1, Zenon
    <3> QED BY <2>1, <2>5, <3>2 DEF InPlace, Changes, LastChange, Event
  <2>6. CASE d.type = "data"
    <3>1. /\ Changes(d.id, i - 1) # {}
          /\ LastChange(d.id, i - 1).address = d.address
      BY <1>2, <2>1, <2>6 DEF InPlace
    <3>2. /\ Changes(d.id, i - 1)' # {}
          /\ LastChange(d.id, i - 1)'.address = d.address
      BY <2>3, <3>1, Zenon
    <3> QED BY <2>1, <2>6, <3>2 DEF InPlace, Changes, LastChange
  <2> QED BY <2>4, <2>5, <2>6 DEF EventTypes
<1>4. PICK k \in Nat : k = n + 1
  BY <1>1
<1>5. InPlace(k)'
  <2>1. k - 1 = n /\ k - 1 \in 0 .. n /\ m_event_queue'[k] = e
    BY <1>1, <1>4
  <2>2. /\ Changes(e.id, k - 1)' = Changes(e.id, k - 1)
        /\ Changes(e.id, k - 1) # {} => LastChange(e.id, k - 1)' = LastChange(e.id, k - 1)
    BY <2>1, PastIsKept
  <2>3. CASE e.type = "added"
    <3>1. Changes(e.id, k - 1) # {} => LastChange(e.id, k - 1).type = "removed"
      BY <2>1, <2>3, Zenon DEF Gone
    <3>2. Changes(e.id, k - 1)' # {} => LastChange(e.id, k - 1)'.type = "removed"
      BY <2>2, <3>1, Zenon
    <3> QED BY <2>1, <2>3, <3>2 DEF InPlace, Changes, LastChange
  <2>4. CASE e.type = "removed"
    <3>1. /\ Changes(e.id, k - 1) # {}
          /\ LastChange(e.id, k - 1) = Event("added", e.id, e.address)
      BY <2>1, <2>4, Zenon DEF Told
    <3>2. /\ Changes(e.id, k - 1)' # {}
          /\ LastChange(e.id, k - 1)' = Event("added", e.id, e.address)
      BY <2>2, <3>1, Zenon
    <3> QED BY <2>1, <2>4, <3>2 DEF InPlace, Changes, LastChange, Event
  <2>5. CASE e.type = "data"
    <3>1. /\ Changes(e.id, k - 1) # {}
          /\ LastChange(e.id, k - 1).address = e.address
      BY <2>1, <2>5, Zenon DEF FromAddress
    <3>2. /\ Changes(e.id, k - 1)' # {}
          /\ LastChange(e.id, k - 1)'.address = e.address
      BY <2>2, <3>1, Zenon
    <3> QED BY <2>1, <2>5, <3>2 DEF InPlace, Changes, LastChange
  <2> QED BY <2>3, <2>4, <2>5 DEF EventTypes
<1>6. \A i \in 1 .. Len(m_event_queue') : InPlace(i)'
  <2>1. \A i \in 1 .. Len(m_event_queue') : i \in 1 .. n \/ i = k
    BY <1>1, <1>4
  <2> QED BY <1>3, <1>5, <2>1, Zenon
<1> QED BY <1>6, Zenon DEF EventsTellTheStory, InPlace, Changes, LastChange, Event

-----------------------------------------------------------------------------
(* Who the user must think of as connected: the peers in the map, and      *)
(* those taken out whose event is yet to be put.                           *)
Mapped(id, a) == id \in DOMAIN m_peers /\ peers[m_peers[id]].address = a
ReceiveLeaving(id, a) ==
    /\ receive.pc = "removed"
    /\ peers[receive.target].id = id /\ peers[receive.target].address = a
SendLeaving(id, a) ==
    /\ send.pc = "removed"
    /\ peers[send.target].id = id /\ peers[send.target].address = a
Live(id, a) == Mapped(id, a) \/ ReceiveLeaving(id, a) \/ SendLeaving(id, a)

(* They are those whose addition was told last, and nobody else is.        *)
LiveIsTold == \A id \in PeerIds, a \in Addresses : Live(id, a) => Told(id, a)
ElseGone == \A id \in PeerIds : (\A a \in Addresses : ~ Live(id, a)) => Gone(id)

(* The receive thread takes out an id that is nowhere else, since nobody   *)
(* makes peers meanwhile.                                                  *)
LeavingApart ==
    \A id \in PeerIds, a \in Addresses, b \in Addresses :
       ReceiveLeaving(id, a) => id \notin DOMAIN m_peers /\ ~ SendLeaving(id, b)

(* Whose packet the receive thread has in hand: of the peer it holds, and  *)
(* from when it has compared the addresses of the sender.                  *)
PacketIsFrom ==
    \A id \in PeerIds, a \in Addresses :
       receive.id = id =>
          /\ receive.pc = "process" /\ peers[helpers["receive"]].address = a
                => FromAddress(id, a)
          /\ receive.pc \in {"erase", "removed", "drop", "leave", "data"}
                /\ receive.address = a
                => FromAddress(id, a)

StoryInv ==
    EventsTellTheStory /\ LiveIsTold /\ ElseGone /\ LeavingApart /\ PacketIsFrom

LEMMA EventsTyped ==
  ASSUME PeersInv
  PROVE  /\ m_event_queue \in Seq(EventTypes)
         /\ \A o \in Objects : peers[o].id \in PeerIds /\ peers[o].address \in Addresses
         /\ receive.id \in PeerIds /\ receive.address \in Addresses
         /\ \A id \in DOMAIN m_peers : m_peers[id] \in Objects /\ id \in PeerIds
         /\ receive.pc = "removed" => receive.target \in Objects
         /\ send.pc = "removed" => send.target \in Objects
<1>1. \A o \in Objects : peers[o] \in Peer
  BY DEF PeersInv, TypeOK
<1>2. \A o \in Objects : peers[o].id \in PeerIds /\ peers[o].address \in Addresses
  BY <1>1 DEF Peer
<1>3. m_event_queue \in Seq(EventTypes) /\ receive.id \in PeerIds /\ receive.address \in Addresses
  BY DEF PeersInv, TypeOK, EventTypes
<1>4. \A id \in DOMAIN m_peers : m_peers[id] \in Objects /\ id \in PeerIds
  BY DEF PeersInv, TypeOK
<1>5. /\ receive.pc = "removed" => receive.target \in Objects
      /\ send.pc = "removed" => send.target \in Objects
  BY DEF PeersInv, TypeOK, Places
<1> QED BY <1>2, <1>3, <1>4, <1>5

(* A step that neither tells anything nor changes who is live.             *)
LEMMA NothingTold ==
  ASSUME m_event_queue \in Seq(EventTypes), StoryInv, UNCHANGED m_event_queue,
         \A id \in PeerIds, a \in Addresses : Live(id, a)' <=> Live(id, a)
  PROVE  EventsTellTheStory' /\ LiveIsTold' /\ ElseGone'
<1>1. \A id, a : Told(id, a)' <=> Told(id, a)
  BY DEF Told, Changes, LastChange, Event
<1>2. \A id : Gone(id)' <=> Gone(id)
  BY DEF Gone, Changes, LastChange
<1>3. EventsTellTheStory'
  <2>1. \A i \in 1 .. Len(m_event_queue) : InPlace(i)
    BY DEF StoryInv, EventsTellTheStory, InPlace
  <2>2. ASSUME NEW i \in 1 .. Len(m_event_queue)
        PROVE  InPlace(i)'
    <3>1. PICK d \in EventTypes : d = m_event_queue[i] /\ d = m_event_queue'[i]
      OBVIOUS
    <3>2. PICK k : k = i - 1
      OBVIOUS
    <3>3. Changes(d.id, k)' = Changes(d.id, k) /\ LastChange(d.id, k)' = LastChange(d.id, k)
      BY DEF Changes, LastChange
    <3>4. InPlace(i)
      BY <2>1
    <3>5. CASE d.type = "added"
      BY <3>1, <3>2, <3>3, <3>4, <3>5 DEF InPlace
    <3>6. CASE d.type = "removed"
      BY <3>1, <3>2, <3>3, <3>4, <3>6 DEF InPlace, Event
    <3>7. CASE d.type = "data"
      BY <3>1, <3>2, <3>3, <3>4, <3>7 DEF InPlace
    <3> QED BY <3>1, <3>5, <3>6, <3>7 DEF EventTypes
  <2> QED BY <2>1, <2>2, Zenon DEF EventsTellTheStory, InPlace, Changes, LastChange, Event
<1>4. LiveIsTold'
  BY <1>1, Zenon DEF StoryInv, LiveIsTold, PeerIds
<1>5. ElseGone'
  BY <1>2, Zenon DEF StoryInv, ElseGone, PeerIds
<1> QED BY <1>3, <1>4, <1>5

(* The peers that are leaving stay the same while the threads stay where   *)
(* they are.                                                               *)
LEMMA LeavingKept ==
  ASSUME PeersInv, [Next]_vars, NEW id, NEW a
  PROVE  /\ receive'.pc = receive.pc /\ receive'.target = receive.target =>
              (ReceiveLeaving(id, a)' <=> ReceiveLeaving(id, a))
         /\ send'.pc = send.pc /\ send'.target = send.target =>
              (SendLeaving(id, a)' <=> SendLeaving(id, a))
         /\ receive.pc # "removed" => ~ ReceiveLeaving(id, a)
         /\ receive'.pc # "removed" => ~ ReceiveLeaving(id, a)'
         /\ send.pc # "removed" => ~ SendLeaving(id, a)
         /\ send'.pc # "removed" => ~ SendLeaving(id, a)'
         /\ m_peers' = m_peers => (Mapped(id, a)' <=> Mapped(id, a))
<1>1. \A o \in Objects : peers'[o].address = peers[o].address /\ peers'[o].id = peers[o].id
  BY AddressesKept
<1> QED BY <1>1, EventsTyped DEF ReceiveLeaving, SendLeaving, Mapped

-----------------------------------------------------------------------------
(* The steps that tell nothing. *)

Calm ==
    \/ \E a \in Addresses, id \in PeerIds, disco \in BOOLEAN :
          ReceiveDatagram(a, id, disco)
    \/ LookupPeer \/ GetPeer \/ ProcessPacket
    \/ DiscoErase /\ UNCHANGED m_peers
    \/ DiscoDrop \/ LeaveProcessPacket \/ LeaveReceive
    \/ CreatePeer /\ UNCHANGED m_event_queue
    \/ RunTimeouts \/ DisconnectPeerCommand \/ SendPackets
    \/ \E id \in PeerIds : VisitPeer(id)
    \/ \E id \in PeerIds : RemoveDoomed(id) /\ UNCHANGED m_peers
    \/ \E doom \in BOOLEAN : LeavePeer(doom)
    \/ EndPass \/ SendDrop
    \/ UserThreads
    \/ UNCHANGED vars

LEMMA CalmPlaces ==
  ASSUME PeersInv, Calm
  PROVE  /\ UNCHANGED <<m_peers, m_event_queue>>
         /\ (receive' = receive \/ (receive.pc # "removed" /\ receive'.pc # "removed"))
         /\ (send' = send \/ (send.pc # "removed" /\ send'.pc # "removed"))
<1> DEFINE Kept ==
         /\ UNCHANGED <<m_peers, m_event_queue>>
         /\ receive' = receive \/ (receive.pc # "removed" /\ receive'.pc # "removed")
         /\ send' = send \/ (send.pc # "removed" /\ send'.pc # "removed")
<1>1. /\ Waiting.pc = "idle" /\ \A pass : Resting(pass).pc = "idle"
      /\ DOMAIN receive = {"pc", "address", "id", "disco", "target"}
      /\ DOMAIN send = {"pc", "pass", "todo", "doomed", "target"}
      /\ DOMAIN Waiting = {"pc", "address", "id", "disco", "target"}
      /\ \A pass : DOMAIN Resting(pass) = {"pc", "pass", "todo", "doomed", "target"}
  BY DEF Waiting, Resting, PeersInv, TypeOK
<1>2. ASSUME NEW a \in Addresses, NEW id \in PeerIds, NEW disco \in BOOLEAN,
             ReceiveDatagram(a, id, disco)
      PROVE  Kept
  BY <1>1, <1>2 DEF ReceiveDatagram
<1>3. ASSUME LookupPeer \/ GetPeer \/ ProcessPacket
      PROVE  Kept
  BY <1>1, <1>3 DEF LookupPeer, GetPeer, ProcessPacket
<1>4. ASSUME \/ DiscoErase /\ UNCHANGED m_peers
             \/ CreatePeer /\ UNCHANGED m_event_queue
      PROVE  Kept
  <2>1. CASE DiscoErase /\ UNCHANGED m_peers
    <3>1. PICK id : id = peers[helpers["process"]].id
      OBVIOUS
    <3>2. id \notin DOMAIN m_peers
      <4>1. SUFFICES ASSUME id \in DOMAIN m_peers PROVE FALSE
        OBVIOUS
      <4>2. m_peers' = [i \in DOMAIN m_peers \ {id} |-> m_peers[i]]
        BY <2>1, <3>1, <4>1 DEF DiscoErase, Erase
      <4>3. id \notin DOMAIN m_peers'
        BY <4>2
      <4> QED BY <2>1, <4>1, <4>3
    <3> QED BY <1>1, <2>1, <3>1, <3>2 DEF DiscoErase
  <2>2. CASE CreatePeer /\ UNCHANGED m_event_queue
    <3>1. FreeIds = {}
      <4>1. SUFFICES ASSUME FreeIds # {} PROVE FALSE
        OBVIOUS
      <4>2. PICK e : m_event_queue' = Append(m_event_queue, e)
        BY <2>2, <4>1 DEF CreatePeer
      <4>3. Len(m_event_queue') = Len(m_event_queue) + 1 /\ Len(m_event_queue) \in Nat
        BY <4>2, EventsTyped
      <4> QED BY <2>2, <4>3
    <3> QED BY <1>1, <2>2, <3>1 DEF CreatePeer
  <2> QED BY <1>4, <2>1, <2>2
<1>5. ASSUME DiscoDrop \/ LeaveProcessPacket \/ LeaveReceive
      PROVE  Kept
  BY <1>1, <1>5 DEF DiscoDrop, LeaveProcessPacket, LeaveReceive
<1>6. ASSUME RunTimeouts \/ DisconnectPeerCommand \/ SendPackets \/ EndPass \/ SendDrop
      PROVE  Kept
  BY <1>1, <1>6 DEF RunTimeouts, DisconnectPeerCommand, SendPackets, EndPass, SendDrop,
                    StartPass
<1>7. ASSUME NEW id \in PeerIds, VisitPeer(id) \/ (RemoveDoomed(id) /\ UNCHANGED m_peers)
      PROVE  Kept
  <2>1. CASE VisitPeer(id)
    BY <1>1, <2>1 DEF VisitPeer
  <2>2. CASE RemoveDoomed(id) /\ UNCHANGED m_peers
    <3>1. id \notin DOMAIN m_peers
      <4>1. SUFFICES ASSUME id \in DOMAIN m_peers PROVE FALSE
        OBVIOUS
      <4>2. m_peers' = [i \in DOMAIN m_peers \ {id} |-> m_peers[i]]
        BY <2>2, <4>1 DEF RemoveDoomed, Erase
      <4>3. id \notin DOMAIN m_peers'
        BY <4>2
      <4> QED BY <2>2, <4>1, <4>3
    <3> QED BY <1>1, <2>2, <3>1 DEF RemoveDoomed
  <2> QED BY <1>7, <2>1, <2>2
<1>8. ASSUME NEW doom \in BOOLEAN, LeavePeer(doom)
      PROVE  Kept
  BY <1>1, <1>8 DEF LeavePeer
<1>9. ASSUME UserThreads \/ UNCHANGED vars
      PROVE  Kept
  BY <1>9 DEF UserThreads, GetPeerAddress, GotPeerAddress, DisconnectPeer, vars
<1> HIDE DEF Kept
<1>10. Kept
  BY <1>2, <1>3, <1>4, <1>5, <1>6, <1>7, <1>8, <1>9, Zenon DEF Calm
<1> QED BY <1>10 DEF Kept

LEMMA CalmStory ==
  ASSUME PeersInv, StoryInv, Calm, [Next]_vars
  PROVE  EventsTellTheStory' /\ LiveIsTold' /\ ElseGone' /\ LeavingApart'
<1>1. /\ UNCHANGED <<m_peers, m_event_queue>>
      /\ (receive' = receive \/ (receive.pc # "removed" /\ receive'.pc # "removed"))
      /\ (send' = send \/ (send.pc # "removed" /\ send'.pc # "removed"))
  BY CalmPlaces
<1>2. \A id, a : /\ ReceiveLeaving(id, a)' <=> ReceiveLeaving(id, a)
                 /\ SendLeaving(id, a)' <=> SendLeaving(id, a)
                 /\ Mapped(id, a)' <=> Mapped(id, a)
  BY <1>1, LeavingKept
<1>3. \A id \in PeerIds, a \in Addresses : Live(id, a)' <=> Live(id, a)
  BY <1>2 DEF Live
<1>4. LeavingApart'
  BY <1>1, <1>2, Zenon DEF StoryInv, LeavingApart, PeerIds
<1> QED BY <1>1, <1>3, <1>4, NothingTold, EventsTyped

-----------------------------------------------------------------------------
(* A peer that is taken out is live until its event is put. *)

LEMMA EraseStory ==
  ASSUME PeersInv, StoryInv, IdsRestUntilTold, [Next]_vars,
         NEW id \in DOMAIN m_peers,
         \/ DiscoErase /\ id = peers[helpers["process"]].id
         \/ RemoveDoomed(id)
  PROVE  EventsTellTheStory' /\ LiveIsTold' /\ ElseGone' /\ LeavingApart'
<1>1. /\ m_peers' = [i \in DOMAIN m_peers \ {id} |-> m_peers[i]]
      /\ UNCHANGED m_event_queue
  BY DEF DiscoErase, RemoveDoomed, Erase
<1>2. DOMAIN m_peers' = DOMAIN m_peers \ {id}
      /\ \A i \in DOMAIN m_peers' : m_peers'[i] = m_peers[i]
  BY <1>1
<1>3. \A o \in Objects : peers'[o].address = peers[o].address /\ peers'[o].id = peers[o].id
  BY AddressesKept
<1>4. PICK o \in Objects : o = m_peers[id] /\ peers[o].id = id
  BY EventsTyped DEF PeersInv, OneHand
<1>5. \A i, a : Mapped(i, a)' <=> (Mapped(i, a) /\ i # id)
  BY <1>2, <1>3, EventsTyped DEF Mapped
<1>6. DOMAIN receive = {"pc", "address", "id", "disco", "target"}
      /\ DOMAIN send = {"pc", "pass", "todo", "doomed", "target"}
  BY DEF PeersInv, TypeOK
<1>7. CASE DiscoErase /\ id = peers[helpers["process"]].id
  <2>1. /\ receive.pc = "erase" /\ receive'.pc = "removed" /\ receive'.target = o
        /\ send' = send
    BY <1>4, <1>6, <1>7 DEF DiscoErase
  <2>2. \A i, a : /\ ReceiveLeaving(i, a)' <=> (i = id /\ peers[o].address = a)
                  /\ ~ ReceiveLeaving(i, a)
                  /\ SendLeaving(i, a)' <=> SendLeaving(i, a)
    BY <2>1, <1>3, <1>4, LeavingKept DEF ReceiveLeaving
  <2>3. \A i \in PeerIds, a \in Addresses : Live(i, a)' <=> Live(i, a)
    <3> SUFFICES ASSUME NEW i \in PeerIds, NEW a \in Addresses
                 PROVE  Live(i, a)' <=> Live(i, a)
      OBVIOUS
    <3>1. Mapped(id, a) <=> peers[o].address = a
      BY <1>4 DEF Mapped
    <3> QED BY <1>5, <2>2, <3>1 DEF Live
  <2>4. \A a : ~ SendLeaving(id, a)
    BY DEF IdsRestUntilTold, SendLeaving
  <2>5. LeavingApart'
    <3> SUFFICES ASSUME NEW i \in PeerIds, NEW a \in Addresses, NEW b \in Addresses,
                        ReceiveLeaving(i, a)'
                 PROVE  i \notin DOMAIN m_peers' /\ ~ SendLeaving(i, b)'
      BY Zenon DEF LeavingApart, PeerIds
    <3> QED BY <1>2, <2>2, <2>4
  <2> QED BY <1>1, <2>3, <2>5, NothingTold, EventsTyped
<1>8. CASE RemoveDoomed(id)
  <2>1. /\ send.pc = "visit" /\ send'.pc = "removed" /\ send'.target = o
        /\ receive' = receive
    BY <1>4, <1>6, <1>8 DEF RemoveDoomed
  <2>2. \A i, a : /\ SendLeaving(i, a)' <=> (i = id /\ peers[o].address = a)
                  /\ ~ SendLeaving(i, a)
                  /\ ReceiveLeaving(i, a)' <=> ReceiveLeaving(i, a)
    BY <2>1, <1>3, <1>4, LeavingKept DEF SendLeaving
  <2>3. \A i \in PeerIds, a \in Addresses : Live(i, a)' <=> Live(i, a)
    <3> SUFFICES ASSUME NEW i \in PeerIds, NEW a \in Addresses
                 PROVE  Live(i, a)' <=> Live(i, a)
      OBVIOUS
    <3>1. Mapped(id, a) <=> peers[o].address = a
      BY <1>4 DEF Mapped
    <3> QED BY <1>5, <2>2, <3>1 DEF Live
  <2>4. LeavingApart'
    <3> SUFFICES ASSUME NEW i \in PeerIds, NEW a \in Addresses, NEW b \in Addresses,
                        ReceiveLeaving(i, a)'
                 PROVE  i \notin DOMAIN m_peers' /\ ~ SendLeaving(i, b)'
      BY Zenon DEF LeavingApart, PeerIds
    <3>1. i \notin DOMAIN m_peers
      BY <2>2 DEF StoryInv, LeavingApart
    <3> QED BY <1>2, <2>2, <3>1
  <2> QED BY <1>1, <2>3, <2>4, NothingTold, EventsTyped
<1> QED BY <1>7, <1>8

(* The event takes it away from the live, and tells so. *)
LEMMA RemovedStory ==
  ASSUME PeersInv, StoryInv, IdsRestUntilTold, [Next]_vars,
         DiscoPutRemoved \/ SendPutRemoved
  PROVE  EventsTellTheStory' /\ LiveIsTold' /\ ElseGone' /\ LeavingApart'
<1> DEFINE Leaving(i, a) == (DiscoPutRemoved /\ ReceiveLeaving(i, a))
                              \/ (SendPutRemoved /\ SendLeaving(i, a))
<1>1. PICK o \in Objects : /\ PutRemoved(o)
                           /\ \A i, a : Leaving(i, a) => i = peers[o].id
                           /\ Leaving(peers[o].id, peers[o].address)
                           /\ DiscoPutRemoved => o = receive.target
                           /\ SendPutRemoved => o = send.target
  <2>1. DiscoPutRemoved => ~ SendPutRemoved
    BY DEF DiscoPutRemoved, SendPutRemoved, PeersInv, TypeOK
  <2>2. CASE DiscoPutRemoved
    BY <2>1, <2>2, EventsTyped DEF DiscoPutRemoved, ReceiveLeaving
  <2>3. CASE SendPutRemoved
    BY <2>1, <2>3, EventsTyped DEF SendPutRemoved, SendLeaving
  <2> QED BY <2>2, <2>3
<1>2. PICK id \in PeerIds : id = peers[o].id
  BY EventsTyped
<1>3. PICK ad \in Addresses : ad = peers[o].address
  BY EventsTyped
<1>4. PICK e : e = Event("removed", id, ad)
  OBVIOUS
<1>5. /\ e \in EventTypes /\ e.type = "removed" /\ e.id = id /\ e.address = ad
      /\ m_event_queue' = Append(m_event_queue, e)
  BY <1>1, <1>2, <1>3, <1>4 DEF PutRemoved, Event, EventTypes
<1>6. Leaving(id, ad)
  BY <1>1, <1>2, <1>3
<1>7. Told(id, ad)
  <2>1. Live(id, ad)
    BY <1>6 DEF Live
  <2> QED BY <2>1, Zenon DEF StoryInv, LiveIsTold
<1>8. EventsTellTheStory'
  BY <1>5, <1>7, StoryAfter, EventsTyped DEF StoryInv
<1>9. \A i : /\ i = id => Gone(i)'
             /\ i # id => /\ \A a : Told(i, a)' <=> Told(i, a)
                          /\ Gone(i)' <=> Gone(i)
  BY <1>5, ToldAfter, EventsTyped
<1>10. /\ DOMAIN receive = {"pc", "address", "id", "disco", "target"}
       /\ DOMAIN send = {"pc", "pass", "todo", "doomed", "target"}
  BY DEF PeersInv, TypeOK
<1>11. /\ UNCHANGED m_peers
       /\ DiscoPutRemoved => /\ receive'.pc = "drop" /\ send' = send
       /\ SendPutRemoved => /\ send'.pc = "drop" /\ receive' = receive
  BY <1>10 DEF DiscoPutRemoved, SendPutRemoved
<1>12. \A i, a : /\ Mapped(i, a)' <=> Mapped(i, a)
                 /\ DiscoPutRemoved => /\ ~ ReceiveLeaving(i, a)'
                                       /\ SendLeaving(i, a)' <=> SendLeaving(i, a)
                 /\ SendPutRemoved => /\ ~ SendLeaving(i, a)'
                                      /\ ReceiveLeaving(i, a)' <=> ReceiveLeaving(i, a)
  BY <1>11, LeavingKept
<1>13. \A a \in Addresses : ~ Live(id, a)'
  <2> SUFFICES ASSUME NEW a \in Addresses PROVE ~ Live(id, a)'
    OBVIOUS
  <2>1. CASE DiscoPutRemoved
    <3>1. ReceiveLeaving(id, ad)
      BY <1>1, <1>2, <1>3, <2>1 DEF DiscoPutRemoved, ReceiveLeaving
    <3>2. id \notin DOMAIN m_peers /\ ~ SendLeaving(id, a)
      BY <3>1 DEF StoryInv, LeavingApart
    <3> QED BY <1>12, <2>1, <3>2 DEF Live, Mapped
  <2>2. CASE SendPutRemoved
    <3>1. id \notin DOMAIN m_peers
      BY <1>1, <1>2, <2>2 DEF IdsRestUntilTold, SendPutRemoved
    <3>2. SendLeaving(id, ad)
      BY <1>1, <1>2, <1>3, <2>2 DEF SendPutRemoved, SendLeaving
    <3>3. ~ ReceiveLeaving(id, a)
      BY <3>2 DEF StoryInv, LeavingApart
    <3> QED BY <1>12, <2>2, <3>1, <3>3 DEF Live, Mapped
  <2> QED BY <2>1, <2>2
<1>14. \A i \in PeerIds, a \in Addresses : i # id => (Live(i, a)' <=> Live(i, a))
  <2> SUFFICES ASSUME NEW i \in PeerIds, NEW a \in Addresses, i # id
               PROVE  Live(i, a)' <=> Live(i, a)
    OBVIOUS
  <2>1. ~ Leaving(i, a)
    BY <1>1, <1>2
  <2> QED BY <1>12, <2>1 DEF Live
<1>15. LiveIsTold'
  <2>1. \A i \in PeerIds, a \in Addresses : Live(i, a)' => Told(i, a)'
    BY <1>9, <1>13, <1>14 DEF StoryInv, LiveIsTold
  <2> QED BY <2>1, Zenon DEF LiveIsTold, PeerIds
<1>16. ElseGone'
  <2>1. \A i \in PeerIds : (\A a \in Addresses : ~ Live(i, a)') => Gone(i)'
    BY <1>9, <1>14 DEF StoryInv, ElseGone
  <2> QED BY <2>1, Zenon DEF ElseGone, PeerIds
<1>17. LeavingApart'
  <2>1. \A i \in PeerIds, a \in Addresses, b \in Addresses :
           ReceiveLeaving(i, a)' => i \notin DOMAIN m_peers' /\ ~ SendLeaving(i, b)'
    BY <1>11, <1>12 DEF StoryInv, LeavingApart
  <2> QED BY <2>1, Zenon DEF LeavingApart, PeerIds
<1> QED BY <1>8, <1>15, <1>16, <1>17

-----------------------------------------------------------------------------
(* Data changes nobody's state; a creation tells of the new peer.          *)

LEMMA DataStory ==
  ASSUME PeersInv, StoryInv, [Next]_vars, PutData
  PROVE  EventsTellTheStory' /\ LiveIsTold' /\ ElseGone' /\ LeavingApart'
<1>1. PICK e : e = Event("data", receive.id, receive.address)
  OBVIOUS
<1>2. /\ e \in EventTypes /\ e.type = "data"
      /\ e.id = receive.id /\ e.address = receive.address
  BY <1>1, EventsTyped DEF Event, EventTypes
<1>3. m_event_queue' = Append(m_event_queue, e)
  BY <1>1 DEF PutData
<1>4. FromAddress(e.id, e.address)
  BY <1>2, EventsTyped DEF StoryInv, PacketIsFrom, PutData
<1>5. EventsTellTheStory'
  BY <1>2, <1>3, <1>4, StoryAfter, EventsTyped DEF StoryInv
<1>6. \A i : (\A a : Told(i, a)' <=> Told(i, a)) /\ (Gone(i)' <=> Gone(i))
  BY <1>2, <1>3, ToldAfter, EventsTyped
<1>7. /\ UNCHANGED <<m_peers, send>>
      /\ receive.pc # "removed" /\ receive'.pc # "removed"
  BY DEF PutData, PeersInv, TypeOK
<1>8. \A i, a : /\ Mapped(i, a)' <=> Mapped(i, a)
                /\ ~ ReceiveLeaving(i, a) /\ ~ ReceiveLeaving(i, a)'
                /\ SendLeaving(i, a)' <=> SendLeaving(i, a)
  BY <1>7, LeavingKept
<1>9. \A i \in PeerIds, a \in Addresses : Live(i, a)' <=> Live(i, a)
  BY <1>8 DEF Live
<1>10. LiveIsTold'
  BY <1>6, <1>9, Zenon DEF StoryInv, LiveIsTold, PeerIds
<1>11. ElseGone'
  BY <1>6, <1>9, Zenon DEF StoryInv, ElseGone, PeerIds
<1>12. LeavingApart'
  BY <1>8, Zenon DEF LeavingApart
<1> QED BY <1>5, <1>10, <1>11, <1>12

LEMMA CreateStory ==
  ASSUME PeersInv, StoryInv, IdsRestUntilTold', [Next]_vars, CreatePeer,
         FreeIds # {}
  PROVE  EventsTellTheStory' /\ LiveIsTold' /\ ElseGone' /\ LeavingApart'
<1>1. PICK id \in FreeIds :
         /\ peers' = Append(peers, NewPeer(id, receive.address))
         /\ m_peers' = [i \in DOMAIN m_peers \cup {id} |->
                          IF i = id THEN Len(peers) + 1 ELSE m_peers[i]]
         /\ m_event_queue' =
              Append(m_event_queue, Event("added", id, receive.address))
         /\ receive' = [receive EXCEPT !.pc = "get", !.id = id]
  <2>1. FreeIds \subseteq Nat
    BY PeersAssumption DEF FreeIds, PeersInv, TypeOK, PeerIds
  <2>2. PICK k \in FreeIds : \A j \in FreeIds : k =< j
    BY <2>1, SmallestExists
  <2>3. (CHOOSE i \in FreeIds : \A j \in FreeIds : i =< j) \in FreeIds
    BY <2>2
  <2> QED BY <2>3, Zenon DEF CreatePeer
<1>2. id \in PeerIds /\ id \notin DOMAIN m_peers
  BY <1>1, PeersAssumption DEF FreeIds, PeersInv, TypeOK, PeerIds
<1>3. PICK ad \in Addresses : ad = receive.address
  BY EventsTyped
<1>4. PICK e : e = Event("added", id, ad)
  OBVIOUS
<1>5. /\ e \in EventTypes /\ e.type = "added" /\ e.id = id /\ e.address = ad
      /\ m_event_queue' = Append(m_event_queue, e)
  BY <1>1, <1>2, <1>3, <1>4 DEF Event, EventTypes
<1>6. /\ receive.pc # "removed" /\ receive'.pc # "removed" /\ send' = send
  BY <1>1 DEF CreatePeer, PeersInv, TypeOK
<1>7. \A i, a : /\ ~ ReceiveLeaving(i, a) /\ ~ ReceiveLeaving(i, a)'
                /\ SendLeaving(i, a)' <=> SendLeaving(i, a)
  BY <1>6, LeavingKept
<1>8. \A o \in Objects : peers'[o].address = peers[o].address /\ peers'[o].id = peers[o].id
  BY AddressesKept
<1>9. \A a : ~ SendLeaving(id, a)
  <2> SUFFICES ASSUME NEW a, SendLeaving(id, a) PROVE FALSE
    OBVIOUS
  <2>1. send'.pc = "removed" /\ send'.target = send.target /\ send.target \in Objects
    BY <1>6, EventsTyped DEF SendLeaving
  <2>2. peers'[send'.target].id = id
    BY <2>1, <1>8 DEF SendLeaving
  <2>3. id \in DOMAIN m_peers'
    BY <1>1
  <2> QED BY <2>1, <2>2, <2>3 DEF IdsRestUntilTold
<1>10. Gone(id)
  <2>1. \A a \in Addresses : ~ Live(id, a)
    BY <1>2, <1>7, <1>9 DEF Live, Mapped
  <2> QED BY <1>2, <2>1, Zenon DEF StoryInv, ElseGone
<1>11. EventsTellTheStory'
  BY <1>5, <1>10, StoryAfter, EventsTyped DEF StoryInv
<1>12. \A i : /\ i = id => \A a : Told(i, a)' <=> e = Event("added", i, a)
              /\ i # id => /\ \A a : Told(i, a)' <=> Told(i, a)
                           /\ Gone(i)' <=> Gone(i)
  BY <1>5, ToldAfter, EventsTyped
<1>13. /\ DOMAIN m_peers' = DOMAIN m_peers \cup {id}
       /\ \A i \in DOMAIN m_peers : m_peers'[i] = m_peers[i]
       /\ m_peers'[id] = Len(peers) + 1
       /\ peers'[Len(peers) + 1].address = ad
  <2>1. peers \in Seq(Peer)
    BY DEF PeersInv, TypeOK
  <2> QED BY <2>1, <1>1, <1>2, <1>3 DEF NewPeer
<1>14. \A i, a : Mapped(i, a)' <=> (IF i = id THEN a = ad ELSE Mapped(i, a))
  BY <1>8, <1>13, EventsTyped DEF Mapped
<1>15. \A i \in PeerIds, a \in Addresses :
          Live(i, a)' <=> (IF i = id THEN a = ad ELSE Live(i, a))
  BY <1>7, <1>9, <1>14 DEF Live
<1>16. LiveIsTold'
  <2>1. \A i \in PeerIds, a \in Addresses : Live(i, a)' => Told(i, a)'
    BY <1>4, <1>12, <1>15 DEF StoryInv, LiveIsTold
  <2> QED BY <2>1, Zenon DEF LiveIsTold, PeerIds
<1>17. ElseGone'
  <2>1. \A i \in PeerIds : (\A a \in Addresses : ~ Live(i, a)') => Gone(i)'
    BY <1>3, <1>12, <1>15 DEF StoryInv, ElseGone
  <2> QED BY <2>1, Zenon DEF ElseGone, PeerIds
<1>18. LeavingApart'
  BY <1>7, Zenon DEF LeavingApart
<1> QED BY <1>11, <1>16, <1>17, <1>18

-----------------------------------------------------------------------------
(* The packet in hand. *)

LEMMA ToldFromAddress == \A id, a : Told(id, a) => FromAddress(id, a)
BY DEF Told, FromAddress, Event

(* Which events a step may put. *)
LEMMA EventsPut ==
  ASSUME [Next]_vars, ~ CreatePeer
  PROVE  \/ UNCHANGED m_event_queue
         \/ PutData \/ DiscoPutRemoved \/ SendPutRemoved
BY DEF Next, ReceiveThread, ReceiveDatagram, LookupPeer, GetPeer, ProcessPacket,
       DiscoErase, DiscoDrop, LeaveProcessPacket, LeaveReceive, SendThread,
       RunTimeouts, DisconnectPeerCommand, SendPackets, VisitPeer, RemoveDoomed,
       LeavePeer, EndPass, SendDrop, UserThreads, GetPeerAddress,
       GotPeerAddress, DisconnectPeer, vars

(* Only an addition can change where an id comes from. *)
LEMMA FromStays ==
  ASSUME PeersInv, StoryInv, [Next]_vars, ~ CreatePeer,
         NEW id \in PeerIds, NEW a \in Addresses, FromAddress(id, a)
  PROVE  FromAddress(id, a)'
<1>1. CASE UNCHANGED m_event_queue
  BY <1>1 DEF FromAddress, Changes, LastChange
<1>2. CASE PutData
  <2>1. PICK e \in EventTypes : /\ e.type = "data"
                                /\ m_event_queue' = Append(m_event_queue, e)
    BY <1>2, EventsTyped DEF PutData, Event, EventTypes
  <2> QED BY <2>1, ToldAfter, EventsTyped
<1>3. CASE DiscoPutRemoved \/ SendPutRemoved
  <2>1. PICK o \in Objects : PutRemoved(o) /\ Live(peers[o].id, peers[o].address)
    BY <1>3, EventsTyped DEF DiscoPutRemoved, SendPutRemoved, Live, ReceiveLeaving,
                             SendLeaving
  <2>2. PICK e : e = Event("removed", peers[o].id, peers[o].address)
    OBVIOUS
  <2>3. /\ e \in EventTypes /\ e.type = "removed"
        /\ e.id = peers[o].id /\ e.address = peers[o].address
    BY <2>2, EventsTyped DEF Event, EventTypes
  <2>4. FromAddress(e.id, e.address)
    BY <2>1, <2>3, EventsTyped, ToldFromAddress DEF StoryInv, LiveIsTold
  <2>5. e.id = id => e.address = a
    BY <2>4 DEF FromAddress
  <2>6. m_event_queue' = Append(m_event_queue, e)
    BY <2>1, <2>2 DEF PutRemoved
  <2> QED BY <2>3, <2>5, <2>6, ToldAfter, EventsTyped
<1> QED BY <1>1, <1>2, <1>3, EventsPut

(* Where the receive thread may be with a packet whose sender is compared. *)
Compared == {"erase", "removed", "drop", "leave", "data"}

ReceiveMove ==
    \/ receive' = receive /\ helpers'["receive"] = helpers["receive"]
    \/ receive'.pc \notin Compared \cup {"process"}
    \/ /\ receive'.pc = "process" /\ receive'.id = receive.id
       /\ receive.id \in DOMAIN m_peers
       /\ helpers'["receive"] = m_peers[receive.id]
    \/ /\ receive.pc = "process" /\ receive'.pc \in Compared
       /\ receive'.id = receive.id /\ receive'.address = receive.address
       /\ peers[helpers["receive"]].address = receive.address
    \/ /\ receive.pc \in Compared /\ receive'.pc \in Compared
       /\ receive'.id = receive.id /\ receive'.address = receive.address

LEMMA ReceiveMoves == ASSUME PeersInv, [Next]_vars PROVE ReceiveMove
<1>1. /\ Waiting.pc = "idle"
      /\ DOMAIN receive = {"pc", "address", "id", "disco", "target"}
      /\ DOMAIN Waiting = {"pc", "address", "id", "disco", "target"}
      /\ DOMAIN helpers = Helpers
  BY DEF Waiting, PeersInv, TypeOK
<1>2. ASSUME NEW a \in Addresses, NEW id \in PeerIds, NEW disco \in BOOLEAN,
             ReceiveDatagram(a, id, disco)
      PROVE  ReceiveMove
  <2>1. receive'.pc = IF id = PEER_ID_INEXISTENT THEN "lookup" ELSE "get"
    BY <1>1, <1>2 DEF ReceiveDatagram
  <2> QED BY <2>1 DEF ReceiveMove, Compared
<1>3. ASSUME LookupPeer \/ CreatePeer PROVE ReceiveMove
  <2>1. receive'.pc \in {"create", "get"}
    BY <1>1, <1>3 DEF LookupPeer, CreatePeer
  <2> QED BY <2>1 DEF ReceiveMove, Compared
<1>4. ASSUME GetPeer PROVE ReceiveMove
  BY <1>1, <1>4, HelpersAre DEF GetPeer, Hold, ReceiveMove, Compared
<1>5. ASSUME ProcessPacket PROVE ReceiveMove
  BY <1>1, <1>5 DEF ProcessPacket, ReceiveMove, Compared
<1>6. ASSUME DiscoErase \/ DiscoPutRemoved \/ DiscoDrop PROVE ReceiveMove
  BY <1>1, <1>6 DEF DiscoErase, DiscoPutRemoved, DiscoDrop, ReceiveMove, Compared
<1>7. ASSUME LeaveProcessPacket \/ PutData \/ LeaveReceive PROVE ReceiveMove
  BY <1>1, <1>7 DEF LeaveProcessPacket, PutData, LeaveReceive, ReceiveMove, Compared
<1>8. ASSUME SendThread \/ UserThreads \/ UNCHANGED vars
      PROVE  receive' = receive /\ helpers'["receive"] = helpers["receive"]
  BY <1>1, <1>8, HelpersAre
     DEF SendThread, RunTimeouts, DisconnectPeerCommand, SendPackets, VisitPeer,
         RemoveDoomed, LeavePeer, EndPass, SendPutRemoved, SendDrop, UserThreads,
         GetPeerAddress, GotPeerAddress, DisconnectPeer, Hold, Release, vars
<1>9. ReceiveThread => ReceiveMove
  BY <1>2, <1>3, <1>4, <1>5, <1>6, <1>7, Zenon DEF ReceiveThread
<1> QED BY <1>8, <1>9 DEF Next, ReceiveMove

LEMMA PacketNext ==
  ASSUME PeersInv, StoryInv, [Next]_vars
  PROVE  PacketIsFrom'
<1> SUFFICES ASSUME NEW id \in PeerIds, NEW a \in Addresses, receive'.id = id
             PROVE  /\ receive'.pc = "process" /\ peers'[helpers'["receive"]].address = a
                         => FromAddress(id, a)'
                    /\ receive'.pc \in Compared /\ receive'.address = a
                         => FromAddress(id, a)'
  BY Zenon DEF PacketIsFrom, Compared, PeerIds
<1>1. CASE CreatePeer
  <2>1. receive'.pc = "get"
    BY <1>1 DEF CreatePeer, PeersInv, TypeOK
  <2> QED BY <2>1 DEF Compared
<1>2. CASE ~ CreatePeer
  <2>1. \A b \in Addresses : FromAddress(id, b) => FromAddress(id, b)'
    BY <1>2, FromStays
  <2>2. \A o \in Objects : peers'[o].address = peers[o].address
    BY AddressesKept
  <2>3. receive.id = id =>
          /\ \A b \in Addresses : receive.pc = "process"
                /\ peers[helpers["receive"]].address = b => FromAddress(id, b)
          /\ receive.pc \in Compared => FromAddress(id, receive.address)
    BY EventsTyped DEF StoryInv, PacketIsFrom, Compared
  <2>4. CASE receive' = receive /\ helpers'["receive"] = helpers["receive"]
    <3>1. receive.pc = "process" => helpers["receive"] \in Objects
      BY HelpersAre DEF PeersInv, TypeOK, Places
    <3> QED BY <2>1, <2>2, <2>3, <2>4, <3>1
  <2>5. CASE receive'.pc \notin Compared \cup {"process"}
    BY <2>5
  <2>6. CASE /\ receive'.pc = "process" /\ receive'.id = receive.id
             /\ receive.id \in DOMAIN m_peers
             /\ helpers'["receive"] = m_peers[receive.id]
    <3>1. PICK o \in Objects : o = m_peers[id] /\ id \in DOMAIN m_peers
      BY <2>6, EventsTyped
    <3>2. Live(id, peers[o].address)
      BY <3>1 DEF Live, Mapped
    <3>3. FromAddress(id, peers[o].address)
      BY <3>2, EventsTyped, ToldFromAddress DEF StoryInv, LiveIsTold
    <3>4. peers'[helpers'["receive"]].address = peers[o].address
      BY <2>2, <2>6, <3>1
    <3> QED BY <2>1, <2>6, <3>3, <3>4, EventsTyped DEF Compared
  <2>7. CASE /\ receive.pc = "process" /\ receive'.pc \in Compared
             /\ receive'.id = receive.id /\ receive'.address = receive.address
             /\ peers[helpers["receive"]].address = receive.address
    <3>1. FromAddress(id, receive.address)
      BY <2>3, <2>7, EventsTyped
    <3> QED BY <2>1, <2>7, <3>1, EventsTyped DEF Compared
  <2>8. CASE /\ receive.pc \in Compared /\ receive'.pc \in Compared
             /\ receive'.id = receive.id /\ receive'.address = receive.address
    BY <2>1, <2>3, <2>8, EventsTyped DEF Compared
  <2> QED BY <2>4, <2>5, <2>6, <2>7, <2>8, ReceiveMoves DEF ReceiveMove
<1> QED BY <1>1, <1>2

-----------------------------------------------------------------------------
(* Every step continues the story, as long as no id is given to a new peer *)
(* before the removal of the last one has been told.                       *)

LEMMA StoryNext ==
  ASSUME PeersInv, StoryInv, IdsRestUntilTold, IdsRestUntilTold', [Next]_vars
  PROVE  StoryInv'
<1>1. CASE Calm
  BY <1>1, CalmStory, PacketNext DEF StoryInv
<1>2. CASE CreatePeer /\ FreeIds # {}
  BY <1>2, CreateStory, PacketNext DEF StoryInv
<1>3. CASE PutData
  BY <1>3, DataStory, PacketNext DEF StoryInv
<1>4. CASE DiscoPutRemoved \/ SendPutRemoved
  BY <1>4, RemovedStory, PacketNext DEF StoryInv
<1>5. CASE /\ DiscoErase
           /\ peers[helpers["process"]].id \in DOMAIN m_peers
  BY <1>5, EraseStory, PacketNext DEF StoryInv
<1>6. CASE \E id \in PeerIds : RemoveDoomed(id) /\ id \in DOMAIN m_peers
  BY <1>6, EraseStory, PacketNext DEF StoryInv
<1>7. CreatePeer /\ FreeIds = {} => Calm
  <2>1. CreatePeer /\ FreeIds = {} => UNCHANGED m_event_queue
    BY DEF CreatePeer
  <2> QED BY <2>1, Zenon DEF Calm
<1>8. DiscoErase /\ peers[helpers["process"]].id \notin DOMAIN m_peers => Calm
  <2>1. DiscoErase /\ peers[helpers["process"]].id \notin DOMAIN m_peers
          => UNCHANGED m_peers
    BY DEF DiscoErase
  <2> QED BY <2>1, Zenon DEF Calm
<1>9. \A id \in PeerIds : RemoveDoomed(id) /\ id \notin DOMAIN m_peers => Calm
  <2>1. \A id \in PeerIds : RemoveDoomed(id) /\ id \notin DOMAIN m_peers
          => UNCHANGED m_peers
    BY DEF RemoveDoomed
  <2> QED BY <2>1, Zenon DEF Calm
<1>10. ReceiveThread => \/ Calm \/ CreatePeer \/ DiscoErase \/ PutData
                        \/ DiscoPutRemoved
  BY Zenon DEF ReceiveThread, Calm
<1>11. SendThread => \/ Calm \/ SendPutRemoved
                     \/ \E id \in PeerIds : RemoveDoomed(id)
  BY Zenon DEF SendThread, Calm
<1>12. UserThreads \/ UNCHANGED vars => Calm
  BY Zenon DEF Calm
<1> QED BY <1>1, <1>2, <1>3, <1>4, <1>5, <1>6, <1>7, <1>8, <1>9, <1>10, <1>11,
           <1>12 DEF Next

LEMMA StoryInit == Init => StoryInv
<1> SUFFICES ASSUME Init PROVE StoryInv
  OBVIOUS
<1>1. m_event_queue = <<>> /\ m_peers = <<>> /\ receive.pc = "idle" /\ send.pc = "idle"
  BY WaitingType DEF Init
<1>2. \A id : Changes(id, Len(m_event_queue)) = {}
  BY <1>1 DEF Changes
<1>3. EventsTellTheStory
  BY <1>1 DEF EventsTellTheStory
<1>4. LiveIsTold /\ ElseGone /\ LeavingApart
  BY <1>1, <1>2 DEF LiveIsTold, ElseGone, LeavingApart, Live, Mapped, ReceiveLeaving,
                    SendLeaving, Gone
<1> QED BY <1>1, <1>3, <1>4 DEF StoryInv, PacketIsFrom

(* What the user is told makes sense in the order told, in every behaviour *)
(* in which no id is given again before its last removal is told.          *)
THEOREM StoryWhileIdsRest == Spec /\ []IdsRestUntilTold => []EventsTellTheStory
<1>1. PeersInv /\ StoryInv /\ IdsRestUntilTold /\ IdsRestUntilTold' /\ [Next]_vars
        => StoryInv'
  BY StoryNext
<1>2. StoryInv => EventsTellTheStory
  BY DEF StoryInv
<1> QED BY <1>1, <1>2, StoryInit, PeersInvariant, PTL DEF Spec

-----------------------------------------------------------------------------
(* Ids are given in order from 2, and come round only after the largest    *)
(* but one.                                                                *)

IdsInOrder ==
    /\ \A o \in Objects : peers[o].id = o + 1
    /\ Len(peers) =< MaxJoins
    /\ receive.pc \in {"lookup", "create"} => Len(peers) < MaxJoins
    /\ Len(peers) < MaxJoins => m_next_remote_peer_id = Len(peers) + 2

(* No other step makes peers or gives ids. *)
LEMMA NoNewIds ==
  ASSUME PeersInv, IdsInOrder, [Next]_vars, ~ (CreatePeer /\ FreeIds # {})
  PROVE  /\ m_next_remote_peer_id' = m_next_remote_peer_id
         /\ DOMAIN peers' = DOMAIN peers
         /\ receive'.pc \in {"lookup", "create"} =>
              receive.pc \in {"lookup", "create"} \/ Len(peers) < MaxJoins
<1> DEFINE Same == /\ m_next_remote_peer_id' = m_next_remote_peer_id
                   /\ DOMAIN peers' = DOMAIN peers
           Quiet == receive'.pc \notin {"lookup", "create"} \/ receive' = receive
<1>1. /\ Waiting.pc = "idle"
      /\ DOMAIN receive = {"pc", "address", "id", "disco", "target"}
  BY DEF Waiting, PeersInv, TypeOK
<1>2. ASSUME NEW a \in Addresses, NEW id \in PeerIds, NEW disco \in BOOLEAN,
             ReceiveDatagram(a, id, disco)
      PROVE  Same /\ (Quiet \/ Len(peers) < MaxJoins)
  <2>1. receive'.pc = IF id = PEER_ID_INEXISTENT THEN "lookup" ELSE "get"
    BY <1>2 DEF ReceiveDatagram, Waiting
  <2>2. Same /\ (id = PEER_ID_INEXISTENT => Len(peers) < MaxJoins)
    <3>1. id = PEER_ID_INEXISTENT => \A o \in Objects : peers[o].id # id
      BY DEF IdsInOrder, PEER_ID_INEXISTENT, PeersInv, TypeOK
    <3>2. \/ id = PEER_ID_INEXISTENT /\ Len(peers) < MaxJoins
          \/ \E o \in Objects : peers[o].id = id
      BY <1>2 DEF ReceiveDatagram
    <3>3. UNCHANGED <<m_next_remote_peer_id, peers>>
      BY <1>2 DEF ReceiveDatagram
    <3>4. Same
      BY <3>3
    <3> QED BY <3>1, <3>2, <3>4
  <2> QED BY <2>1, <2>2
<1>3. ASSUME LookupPeer PROVE Same /\ receive.pc = "lookup"
  BY <1>3 DEF LookupPeer
<1>4. ASSUME CreatePeer PROVE Same /\ Quiet
  BY <1>1, <1>4 DEF CreatePeer
<1>5. ASSUME GetPeer \/ ProcessPacket PROVE Same /\ Quiet
  BY <1>1, <1>5 DEF GetPeer, ProcessPacket, Hold, IncUseCount
<1>6. ASSUME DiscoErase \/ DiscoPutRemoved \/ DiscoDrop PROVE Same /\ Quiet
  BY <1>1, <1>6 DEF DiscoErase, DiscoPutRemoved, DiscoDrop, Drop
<1>7. ASSUME LeaveProcessPacket \/ PutData \/ LeaveReceive PROVE Same /\ Quiet
  BY <1>1, <1>7 DEF LeaveProcessPacket, PutData, LeaveReceive, Release, DecUseCount
<1>8. ASSUME SendThread PROVE Same /\ Quiet
  BY <1>8 DEF SendThread, RunTimeouts, DisconnectPeerCommand, SendPackets, VisitPeer,
              RemoveDoomed, LeavePeer, EndPass, SendPutRemoved, SendDrop, Hold,
              IncUseCount, DecUseCount, Drop
<1>9. ASSUME UserThreads \/ UNCHANGED vars PROVE Same /\ Quiet
  BY <1>9 DEF UserThreads, GetPeerAddress, GotPeerAddress, DisconnectPeer, Hold, Release,
              IncUseCount, DecUseCount, vars
<1> HIDE DEF Same
<1>10. ReceiveThread => Same /\ (\/ Quiet \/ Len(peers) < MaxJoins
                                 \/ receive.pc = "lookup")
  BY <1>2, <1>3, <1>4, <1>5, <1>6, <1>7, Zenon DEF ReceiveThread
<1>11. Same /\ (Quiet \/ Len(peers) < MaxJoins \/ receive.pc = "lookup")
  BY <1>8, <1>9, <1>10 DEF Next
<1> QED BY <1>11 DEF Same

LEMMA IdsNext ==
  ASSUME PeersInv, IdsInOrder, MaxJoins + 2 =< MaxUdpPeers, [Next]_vars
  PROVE  IdsInOrder'
<1>1. peers \in Seq(Peer) /\ Len(peers) \in Nat /\ Objects = 1 .. Len(peers)
  BY DEF PeersInv, TypeOK
<1>2. CASE CreatePeer /\ FreeIds # {}
  <2>1. Len(peers) < MaxJoins /\ m_next_remote_peer_id = Len(peers) + 2
    BY <1>2 DEF CreatePeer, IdsInOrder
  <2>2. \A i \in DOMAIN m_peers : i =< Len(peers) + 1
    BY <1>1, EventsTyped DEF IdsInOrder, PeersInv, OneHand
  <2>3. FreeIds = (Len(peers) + 2) .. MaxUdpPeers
    BY <1>1, <2>1, <2>2, PeersAssumption DEF FreeIds
  <2>4. (CHOOSE i \in FreeIds : \A j \in FreeIds : i =< j) = Len(peers) + 2
    <3>1. PICK m : m = Len(peers) + 2
      OBVIOUS
    <3>2. m \in FreeIds /\ \A j \in FreeIds : m =< j /\ j \in Nat
      BY <1>1, <2>1, <2>3, <3>1, PeersAssumption
    <3>3. \A c \in FreeIds : (\A j \in FreeIds : c =< j) => c = m
      BY <3>2
    <3>4. (CHOOSE i \in FreeIds : \A j \in FreeIds : i =< j) = m
      BY <3>2, <3>3, Zenon
    <3> QED BY <3>1, <3>4
  <2>5. /\ peers' = Append(peers, NewPeer(Len(peers) + 2, receive.address))
        /\ m_next_remote_peer_id' = (Len(peers) + 3) % MaxUdpPeers
        /\ receive'.pc = "get"
    <3>1. PICK m : m = Len(peers) + 2
      OBVIOUS
    <3>2. /\ peers' = Append(peers, NewPeer(m, receive.address))
          /\ m_next_remote_peer_id' = (m + 1) % MaxUdpPeers
          /\ receive' = [receive EXCEPT !.pc = "get", !.id = m]
      BY <1>2, <2>4, <3>1, Zenon DEF CreatePeer
    <3>3. m + 1 = Len(peers) + 3
      BY <1>1, <3>1
    <3>4. receive'.pc = "get"
      BY <3>2 DEF PeersInv, TypeOK
    <3> QED BY <3>1, <3>2, <3>3, <3>4
  <2>6. /\ Len(peers') = Len(peers) + 1 /\ DOMAIN peers' = 1 .. (Len(peers) + 1)
        /\ \A o \in 1 .. Len(peers) : peers'[o] = peers[o]
        /\ peers'[Len(peers) + 1].id = Len(peers) + 2
    BY <1>1, <2>5 DEF NewPeer
  <2>7. Len(peers) + 1 < MaxJoins =>
          m_next_remote_peer_id' = Len(peers) + 3
    BY <1>1, <2>5, PeersAssumption
  <2> QED BY <1>1, <2>1, <2>5, <2>6, <2>7, PeersAssumption DEF IdsInOrder
<1>3. CASE ~ (CreatePeer /\ FreeIds # {})
  <2>1. \A o \in Objects : peers'[o].id = peers[o].id
    BY AddressesKept
  <2>2. /\ m_next_remote_peer_id' = m_next_remote_peer_id
        /\ DOMAIN peers' = DOMAIN peers
        /\ receive'.pc \in {"lookup", "create"} => Len(peers) < MaxJoins
    BY <1>3, NoNewIds DEF IdsInOrder
  <2>3. Len(peers') = Len(peers)
    BY <1>1, <2>2, PeersNext DEF PeersInv, TypeOK
  <2> QED BY <2>1, <2>2, <2>3 DEF IdsInOrder
<1> QED BY <1>2, <1>3

LEMMA IdsRest ==
  ASSUME PeersInv, IdsInOrder
  PROVE  IdsRestUntilTold
<1> SUFFICES ASSUME send.pc = "removed", peers[send.target].id \in DOMAIN m_peers
             PROVE  FALSE
  BY DEF IdsRestUntilTold
<1>1. PICK id \in DOMAIN m_peers : id = peers[send.target].id
  OBVIOUS
<1>2. send.target \in Objects /\ m_peers[id] \in Objects /\ Objects \subseteq Nat
  BY EventsTyped DEF PeersInv, TypeOK
<1>3. peers[m_peers[id]].id = id
  BY DEF PeersInv, OneHand
<1>4. m_peers[id] = send.target
  BY <1>1, <1>2, <1>3 DEF IdsInOrder
<1> QED BY <1>2, <1>4 DEF PeersInv, OneHand, InMap, TypeOK

(* So the story is right whatever the threads do as long as the peers made *)
(* are fewer than the ids.                                                 *)
THEOREM StoryUntilIdsComeRound ==
  ASSUME MaxJoins + 2 =< MaxUdpPeers
  PROVE  Spec => []EventsTellTheStory
<1>1. Init => IdsInOrder
  BY WaitingType, PeersAssumption DEF Init, IdsInOrder
<1>2. PeersInv /\ IdsInOrder /\ [Next]_vars => IdsInOrder'
  BY IdsNext
<1>3. PeersInv /\ IdsInOrder => IdsRestUntilTold
  BY IdsRest
<1> QED BY <1>1, <1>2, <1>3, PeersInvariant, StoryWhileIdsRest, PTL DEF Spec

=============================================================================
