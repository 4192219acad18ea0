---------------------------- MODULE BlockTransfer ----------------------------
(***************************************************************************)
(* How the server keeps one client's copy of the map up to date: the block *)
(* bookkeeping of RemoteClient (src/src/clientiface.cpp), the steps of     *)
(* Server that feed it (src/src/server.cpp), and the client's side, which  *)
(* acknowledges a block only after its mesh was made.                      *)
(*                                                                         *)
(* The content of a block is the set of changes made to it.  A change is   *)
(* either a node edit, announced to the client as one node (on channel 0)  *)
(* when the client is known to have the block, or a bulk change (liquids,  *)
(* lighting, a freshly generated neighbour), after which the whole block   *)
(* is sent again (on channel 2).  Each channel is first in, first out      *)
(* (module ReliableChannel); nothing orders one channel after another.     *)
(*                                                                         *)
(* The player stands still and looks the same way; all blocks are in sight.*)
(***************************************************************************)
EXTENDS Naturals, FiniteSets, Sequences, SequencesExt

CONSTANTS
    Blocks,          \* the positions around the player
    Dist,            \* Dist[b] is the ring of block b: the largest of the
                     \* differences of its coordinates to the player's block
    EuclidDist,      \* EuclidDist[b] is its distance, rounded down
    FullDMax,        \* min(max_block_send_distance, the client's range)
    MaxGenDistance,  \* max_block_generate_distance
    MaxSimulSends,   \* max_simultaneous_block_sends_per_client
    QueueLimit,      \* the emerge queue's limit for one client
    Generatable,     \* the blocks the map generator can make
    NodeEdits,       \* the node edits that may be made
    BulkChanges,     \* the bulk changes that may be made
    MaxUnloads       \* bound: how often the client unloads a block

ASSUME BlocksAssumption ==
    /\ IsFiniteSet(Blocks) /\ Generatable \subseteq Blocks
    /\ FullDMax \in Nat /\ Dist \in [Blocks -> 0..FullDMax]
    /\ EuclidDist \in [Blocks -> Nat]
    /\ \A b \in Blocks : EuclidDist[b] >= Dist[b]
    /\ MaxGenDistance \in Nat
    /\ MaxSimulSends \in Nat \ {0} /\ QueueLimit \in Nat \ {0}
    /\ MaxUnloads \in Nat
    /\ NodeEdits \cap BulkChanges = {}

(* The scan below visits every ring; a ring without a block would be      *)
(* skipped by the model and not by the code.                              *)
ASSUME NoEmptyRing == \A d \in 0..FullDMax : \E b \in Blocks : Dist[b] = d

VARIABLES
    world,           \* the server's content of each block
    generated,       \* the blocks in the server's memory with data
    enqueued,        \* blocks in the emerge queue
    notifying,       \* emerged blocks not yet announced by the emerge thread
    editQueue,       \* m_unsent_map_edit_queue
    blocks_sending,  \* m_blocks_sending
    blocks_sent,     \* m_blocks_sent
    blocks_modified, \* m_blocks_modified
    nearest_unsent_d,\* m_nearest_unsent_d
    pausing,         \* m_nothing_to_send_pause_timer is running
    chan0, chan2,    \* packets to the client, by channel
    upstream,        \* packets to the server, all of one channel
    loaded,          \* the blocks the client has
    copy,            \* their content at the client
    meshQueue,       \* blocks waiting for their mesh, to be acknowledged
    meshOut,         \* meshes made, acknowledgement not yet sent
    unloads          \* how many blocks the client unloaded (bounded)

server == <<world, generated, enqueued, notifying, editQueue>>
remoteClient == <<blocks_sending, blocks_sent, blocks_modified,
                  nearest_unsent_d, pausing>>
client == <<loaded, copy, meshQueue, meshOut, unloads>>
vars == <<server, remoteClient, client, chan0, chan2, upstream>>

Changes == NodeEdits \cup BulkChanges

Init ==
    /\ world = [b \in Blocks |-> {}]
    /\ generated = {}
    /\ enqueued = {} /\ notifying = {}
    /\ editQueue = <<>>
    /\ blocks_sending = {} /\ blocks_sent = {} /\ blocks_modified = {}
    /\ nearest_unsent_d = 0
    /\ pausing = FALSE
    /\ chan0 = <<>> /\ chan2 = <<>> /\ upstream = <<>>
    /\ loaded = {} /\ copy = [b \in Blocks |-> {}]
    /\ meshQueue = {} /\ meshOut = <<>>
    /\ unloads = 0
-----------------------------------------------------------------------------
(* RemoteClient *)

(* Mutant: a block that is being sent is taken to arrive as it is now.     *)
SetBlocksNotSentIfSent(S) ==
    /\ pausing' = FALSE
    /\ blocks_sending' = blocks_sending
    /\ blocks_sent' = blocks_sent \ S
    /\ blocks_modified' = blocks_modified \cup (S \cap blocks_sent)
    /\ UNCHANGED nearest_unsent_d

SetBlocksNotSent(S) ==
    /\ pausing' = FALSE
    /\ blocks_sending' = blocks_sending \ S
    /\ blocks_sent' = blocks_sent \ S
    /\ blocks_modified' =
         blocks_modified \cup (S \cap (blocks_sending \cup blocks_sent))
    /\ UNCHANGED nearest_unsent_d

ResendBlockIfOnWire(b) ==
    IF b \in blocks_sending THEN SetBlocksNotSent({b})
                            ELSE UNCHANGED remoteClient

(* Mutant: an acknowledgement counts even if b is not being sent.          *)
GotBlockAnyway(b) ==
    /\ blocks_sending' = blocks_sending \ {b}
    /\ blocks_sent' = blocks_sent \cup {b}
    /\ UNCHANGED <<blocks_modified, nearest_unsent_d, pausing>>

(* Any acknowledgement of b counts, also that of an earlier copy of b.     *)
GotBlock(b) ==
    /\ blocks_sending' = blocks_sending \ {b}
    /\ blocks_sent' = IF b \in blocks_sending THEN blocks_sent \cup {b}
                                              ELSE blocks_sent
    /\ UNCHANGED <<blocks_modified, nearest_unsent_d, pausing>>

(* The blocks of S, ring by ring, in any order within a ring.              *)
NearestFirst(S) ==
    {order \in [1..Cardinality(S) -> S] :
        \A i, j \in 1..Cardinality(S) :
            i < j => order[i] # order[j] /\ Dist[order[i]] <= Dist[order[j]]}

Smallest(S) == CHOOSE d \in S : \A e \in S : d <= e

(* The ring the search starts from: the nearest unsent one, or the         *)
(* distance of a block modified since the last search.                     *)
StartRing ==
    Smallest({nearest_unsent_d} \cup {EuclidDist[b] : b \in blocks_modified})
EndRing == Smallest({FullDMax, StartRing + 2})

(* One block of the search.  stop says the search has ended (queue_full_-  *)
(* break) in ring d; sent_d, emerged_d and full_d are the sets of rings    *)
(* where a block was chosen, put in the emerge queue, or refused by it.    *)
Visit(acc, b, building) ==
    LET d == Dist[b]
        count == Cardinality(blocks_sending) + Cardinality(acc.chosen)
        limit == IF building /\ d > 1 THEN 0 ELSE MaxSimulSends
    IN  IF acc.stop \/ d \notin StartRing..EndRing THEN acc
        ELSE IF count >= limit THEN [acc EXCEPT !.stop = TRUE, !.d = d]
        ELSE IF b \in blocks_sending \cup blocks_sent THEN acc
        ELSE IF b \in generated
             THEN [acc EXCEPT !.chosen = @ \cup {b}, !.sent_d = @ \cup {d}]
        ELSE IF d > MaxGenDistance THEN acc
        ELSE IF Cardinality(acc.queue) < QueueLimit
             THEN [acc EXCEPT !.queue = @ \cup {b}, !.emerged_d = @ \cup {d}]
        ELSE [acc EXCEPT !.full_d = {d}, !.stop = TRUE, !.d = d]

SearchStart == [chosen |-> {}, queue |-> enqueued, stop |-> FALSE, d |-> EndRing + 1,
                sent_d |-> {}, emerged_d |-> {}, full_d |-> {}]

(* The search after each of the blocks.                                    *)
SearchSteps(order, building) ==
    LET after[i \in 0..Cardinality(Blocks)] ==
            IF i = 0 THEN SearchStart ELSE Visit(after[i - 1], order[i], building)
    IN  after

Search(order, building) == SearchSteps(order, building)[Cardinality(Blocks)]

(* Mutant: a search that found nothing does not go on to the next ring.    *)
NearestUnsentStuck(found) ==
    CASE found.emerged_d # {} -> Smallest(found.emerged_d)
      [] found.emerged_d = {} /\ found.full_d # {} -> Smallest(found.full_d)
      [] OTHER -> IF found.sent_d # {} THEN Smallest(found.sent_d) ELSE StartRing

(* The ring the next search starts from.                                   *)
NearestUnsent(found) ==
    CASE found.emerged_d # {} -> Smallest(found.emerged_d)
      [] found.emerged_d = {} /\ found.full_d # {} -> Smallest(found.full_d)
      [] OTHER -> IF found.d > FullDMax THEN 0
                  ELSE IF found.sent_d # {} THEN Smallest(found.sent_d)
                  ELSE found.d

(* Server::SendBlocks of the server thread: GetNextBlocks, then the blocks *)
(* found are serialized and sent, nearest first.                           *)
SendBlocks(building) ==
    /\ ~pausing
    /\ Cardinality(blocks_sending) < MaxSimulSends
    /\ \E order \in NearestFirst(Blocks) : \E found \in {Search(order, building)} :
        /\ enqueued' = found.queue
        /\ blocks_sending' = blocks_sending \cup found.chosen
        /\ nearest_unsent_d' = NearestUnsent(found)
        /\ pausing' = (found.emerged_d \cup found.full_d = {}
                         /\ found.d > FullDMax)
        /\ \E queue \in NearestFirst(found.chosen) :
             chan2' = chan2 \o [i \in 1..Cardinality(found.chosen) |->
                          [pos |-> queue[i], data |-> world[queue[i]]]]
    /\ blocks_modified' = {}
    /\ UNCHANGED <<world, generated, notifying, editQueue, blocks_sent,
                   chan0, upstream, client>>

PauseElapses ==
    /\ pausing
    /\ pausing' = FALSE
    /\ UNCHANGED <<server, blocks_sending, blocks_sent, blocks_modified,
                   nearest_unsent_d, client, chan0, chan2, upstream>>
-----------------------------------------------------------------------------
(* Changes of the map *)

Unmade(c) == \A b \in Blocks : c \notin world[b]

(* A node is added or removed: the change waits in the queue of edits.     *)
EditNode(b, e) ==
    /\ b \in generated /\ Unmade(e)
    /\ world' = [world EXCEPT ![b] = @ \cup {e}]
    /\ editQueue' = Append(editQueue, [pos |-> b, edit |-> e])
    /\ UNCHANGED <<generated, enqueued, notifying, remoteClient, client,
                   chan0, chan2, upstream>>

(* The client's own player digs: as above, and the block is sent again if  *)
(* a copy is on its way.                                                   *)
Dig(b, e) ==
    /\ b \in generated /\ Unmade(e)
    /\ world' = [world EXCEPT ![b] = @ \cup {e}]
    /\ editQueue' = Append(editQueue, [pos |-> b, edit |-> e])
    /\ ResendBlockIfOnWire(b)
    /\ UNCHANGED <<generated, enqueued, notifying, client,
                   chan0, chan2, upstream>>

BulkChange(b, e) ==
    /\ b \in generated /\ Unmade(e)
    /\ world' = [world EXCEPT ![b] = @ \cup {e}]
    /\ SetBlocksNotSent({b})
    /\ UNCHANGED <<generated, enqueued, notifying, editQueue, client,
                   chan0, chan2, upstream>>

(* The edits are sent one by one to a client that has the block and is     *)
(* near; otherwise the block is marked as not sent, and so the later edits *)
(* of that block are not sent either.                                      *)
SendMapEdits ==
    /\ editQueue # <<>>
    /\ editQueue' = <<>>
    /\ \E far \in SUBSET DOMAIN editQueue :
         LET Whole(i) == \/ editQueue[i].pos \notin blocks_sent
                         \/ \E j \in far : j =< i /\ editQueue[j].pos = editQueue[i].pos
             whole == {editQueue[i] : i \in {j \in DOMAIN editQueue : Whole(j)}}
         IN  /\ chan0' = chan0 \o SelectSeq(editQueue, LAMBDA ev : ev \notin whole)
             /\ IF whole = {} THEN UNCHANGED remoteClient
                              ELSE SetBlocksNotSent({ev.pos : ev \in whole})
    /\ UNCHANGED <<world, generated, enqueued, notifying, client,
                   chan2, upstream>>

(* An emerge thread takes a block from its queue and has it generated, or  *)
(* cancels it; it marks what it generated as not sent after it has         *)
(* released the environment lock.                                          *)
EmergeFinishes(b) ==
    /\ b \in enqueued
    /\ enqueued' = enqueued \ {b}
    /\ generated' = IF b \in Generatable THEN generated \cup {b} ELSE generated
    /\ notifying' = IF b \in Generatable THEN notifying \cup {b} ELSE notifying
    /\ UNCHANGED <<world, editQueue, remoteClient, client, chan0, chan2, upstream>>

EmergeNotifies(b) ==
    /\ b \in notifying
    /\ notifying' = notifying \ {b}
    /\ SetBlocksNotSent({b})
    /\ UNCHANGED <<world, generated, enqueued, editQueue, client,
                   chan0, chan2, upstream>>
-----------------------------------------------------------------------------
(* The client *)

handleCommand_BlockData ==
    /\ chan2 # <<>>
    /\ loaded' = loaded \cup {Head(chan2).pos}
    /\ copy' = [copy EXCEPT ![Head(chan2).pos] = Head(chan2).data]
    /\ meshQueue' = meshQueue \cup {Head(chan2).pos}
    /\ chan2' = Tail(chan2)
    /\ UNCHANGED <<server, remoteClient, meshOut, unloads, chan0, upstream>>

(* A node of a block the client does not have is ignored.                  *)
handleCommand_AddNode ==
    /\ chan0 # <<>>
    /\ copy' = IF Head(chan0).pos \notin loaded THEN copy
               ELSE [copy EXCEPT ![Head(chan0).pos] = @ \cup {Head(chan0).edit}]
    /\ chan0' = Tail(chan0)
    /\ UNCHANGED <<server, remoteClient, loaded, meshQueue, meshOut,
                   unloads, chan2, upstream>>

(* Mutant: the mesh of a block the client has dropped is thrown away.      *)
MeshUpdateOfLoaded(b) ==
    /\ b \in meshQueue
    /\ meshQueue' = meshQueue \ {b}
    /\ meshOut' = IF b \in loaded THEN Append(meshOut, b) ELSE meshOut
    /\ UNCHANGED <<server, remoteClient, loaded, copy, unloads,
                   chan0, chan2, upstream>>

MeshUpdate(b) ==
    /\ b \in meshQueue
    /\ meshQueue' = meshQueue \ {b}
    /\ meshOut' = Append(meshOut, b)
    /\ UNCHANGED <<server, remoteClient, loaded, copy, unloads,
                   chan0, chan2, upstream>>

(* Client::step replaces the meshes and acknowledges all of them, whether  *)
(* or not the client still has the block.                                  *)
SendGotBlocks ==
    /\ meshOut # <<>>
    /\ upstream' = upstream \o [i \in DOMAIN meshOut |->
                     [type |-> "GOTBLOCKS", pos |-> meshOut[i]]]
    /\ meshOut' = <<>>
    /\ UNCHANGED <<server, remoteClient, loaded, copy, meshQueue, unloads,
                   chan0, chan2>>

(* The client's map drops a block it has not used for long.                *)
ClientUnloads(b) ==
    /\ b \in loaded /\ unloads < MaxUnloads
    /\ loaded' = loaded \ {b}
    /\ copy' = [copy EXCEPT ![b] = {}]
    /\ unloads' = unloads + 1
    /\ upstream' = Append(upstream, [type |-> "DELETEDBLOCKS", pos |-> b])
    /\ UNCHANGED <<server, remoteClient, meshQueue, meshOut, chan0, chan2>>

ServerReceives ==
    /\ upstream # <<>>
    /\ upstream' = Tail(upstream)
    /\ IF Head(upstream).type = "GOTBLOCKS" THEN GotBlock(Head(upstream).pos)
       ELSE SetBlocksNotSent({Head(upstream).pos})
    /\ UNCHANGED <<server, client, chan0, chan2>>
-----------------------------------------------------------------------------
Next ==
    \/ \E building \in BOOLEAN : SendBlocks(building)
    \/ PauseElapses
    \/ \E b \in Blocks, e \in NodeEdits : EditNode(b, e) \/ Dig(b, e)
    \/ \E b \in Blocks, e \in BulkChanges : BulkChange(b, e)
    \/ SendMapEdits
    \/ \E b \in Blocks : EmergeFinishes(b) \/ EmergeNotifies(b)
    \/ handleCommand_BlockData \/ handleCommand_AddNode
    \/ \E b \in Blocks : MeshUpdate(b) \/ ClientUnloads(b)
    \/ SendGotBlocks \/ ServerReceives

Spec == Init /\ [][Next]_vars

(* Every thread keeps running, the channels deliver, the emerge queues are *)
(* first in, first out, and the player does not build all the time.        *)
Fairness ==
    /\ WF_vars(SendBlocks(FALSE)) /\ WF_vars(PauseElapses)
    /\ WF_vars(SendMapEdits) /\ WF_vars(ServerReceives)
    /\ \A b \in Blocks : WF_vars(EmergeFinishes(b))
    /\ WF_vars(\E b \in Blocks : EmergeNotifies(b))
    /\ WF_vars(handleCommand_BlockData) /\ WF_vars(handleCommand_AddNode)
    /\ WF_vars(\E b \in Blocks : MeshUpdate(b)) /\ WF_vars(SendGotBlocks)

FairSpec == Spec /\ Fairness
-----------------------------------------------------------------------------
InSeq(s, P(_)) == \E i \in DOMAIN s : P(s[i])

Deleting(b) == InSeq(upstream, LAMBDA m : m = [type |-> "DELETEDBLOCKS", pos |-> b])
OnWire(b) == InSeq(chan2, LAMBDA m : m.pos = b)

(* The last copy of b on its way.                                          *)
LastOnWire(i, b) ==
    chan2[i].pos = b /\ \A j \in DOMAIN chan2 : j > i => chan2[j].pos # b

(* The newest copy of b that the client has or will get contains S.        *)
NewestCopyHas(b, S) ==
    /\ ~OnWire(b) => S \subseteq copy[b]
    /\ \A i \in DOMAIN chan2 : LastOnWire(i, b) => S \subseteq chan2[i].data

(* A transfer slot is always waiting for something: while b counts against *)
(* max_simultaneous_block_sends_per_client, a copy of b is on its way, is  *)
(* being meshed, or its acknowledgement is on its way back.  The code      *)
(* has no timeout for the slots, so a slot waiting for nothing is lost.    *)
SlotsAreAnswered ==
    \A b \in blocks_sending :
        \/ OnWire(b) \/ b \in meshQueue
        \/ InSeq(meshOut, LAMBDA p : p = b)
        \/ InSeq(upstream, LAMBDA m : m = [type |-> "GOTBLOCKS", pos |-> b])

(* A block is not sent again while the server thinks the client has it: so *)
(* the client has it, or gets it, or has told the server it dropped it.    *)
SentIsThere ==
    \A b \in blocks_sent : b \in loaded \/ OnWire(b) \/ Deleting(b)

(* A bulk change is never forgotten: of a block that will not be sent      *)
(* again, the newest copy has every bulk change, whatever acknowledgements *)
(* of older copies arrive in between.                                      *)
BulkChangesAreKept ==
    \A b \in blocks_sent \cup blocks_sending :
        ~Deleting(b) => NewestCopyHas(b, world[b] \cap BulkChanges)

(* When nothing about b is on its way any more and the server counts b as  *)
(* sent, the client's copy is the server's block ("packets that operate on *)
(* the same objects are required to be in the same channel").              *)
SentMeansCurrent ==
    \A b \in blocks_sent :
        \/ OnWire(b) \/ Deleting(b)
        \/ InSeq(chan0, LAMBDA m : m.pos = b)
        \/ InSeq(editQueue, LAMBDA m : m.pos = b)
        \/ copy[b] = world[b]

(* Every block within max_block_send_distance reaches the client, and so   *)
(* does every bulk change, again and again while the client drops blocks.  *)
ClientCatchesUp ==
    []<>(\A b \in Generatable : Dist[b] <= MaxGenDistance =>
            b \in loaded /\ world[b] \cap BulkChanges \subseteq copy[b])
=============================================================================
