# MultiCraft: verification of the multiplayer core

This directory holds TLA+ models of the concurrent heart of the MultiCraft
engine (a Minetest descendant): the reliable transport, the life of peers and of
client sessions, the transfer of map blocks, the emerge threads that load and
generate them, the server's map with the objects in it, and the client's mesh
updates. TLC checks the models on small instances and TLAPS proves the central
invariants and refinements for every value of the constants.

Source paths below are relative to the engine's `src` directory
(`network/connection.cpp`), except those that begin with `doc/` or `builtin/`.
`PROJECT.json` maps every definition to the lines it stands for, and lists the runs,
one mutant for every property, the theorems, the hazards and the findings; its paths
have the whole repository under `src/`.

To repeat everything:

    tlc -workers 2 -config MCPeers.cfg MCPeers          # one of the runs
    tlapm PeersProofs.tla                               # one of the proofs

## 1. The system

### Threads

| thread | what it does | shares |
| --- | --- | --- |
| send thread of a `Connection` | time-outs, resends, command queues, quota | peers and channels with the receive thread and the users |
| receive thread of a `Connection` | datagrams to packets, acknowledgements, reorder and split buffers, new peers | the same, and the event queue |
| server thread (`ServerThread::run`) | in turn `AsyncRunStep` and `Receive` | the event queue; the emerge queue; the environment lock |
| emerge threads | load or generate blocks, run callbacks, announce blocks | the emerge queue under `m_queue_mutex`, the map under `m_env_mutex`, the clients under `m_clients_mutex` |
| main thread | starts and destroys the `Server` | everything, in `~Server` |
| client main thread and mesh thread | handles packets; makes meshes and acknowledges blocks | the mesh update queue |

### How the parts interact

    Server / Client          Send, DisconnectPeer (commands)     Receive (events)
         |                              |                              ^
    Connection ---------------- command queue ------------------- event queue
         |  Peer objects, reached through PeerHelper (counted)         |
    send thread -- numbered packets, window, resends -->  UDP  --> receive thread
                 <------------- acknowledgements ------------------

    ClientInterface (RemoteClient per peer) <- peer_change_queue <- PEER_ADDED/REMOVED
         | handshake state machine, player        | ring search, sent/sending sets
    ServerEnvironment (players, active objects)   |
         |                                        v
    ServerMap <------ emerge threads <------ EmergeManager (requests, limits)

### Components: state, operations, difficulty, correctness

**Reliable channel** (`network/connection.cpp`, `connectionthreads.cpp`). *State*:
per channel `next_outgoing_seqnum`, `queued_commands`, `queued_reliables`,
`outgoing_reliables_sent`, `window_size`; at the other end
`next_incoming_seqnum`, `incoming_reliables`, `incoming_splits`. *Operations*:
putting a command, turning it into numbered packets, sending within the window,
resending, window adaptation, acknowledging, reordering, gathering splits.
*Hard*: 16-bit numbers that wrap, a network that loses, duplicates and reorders,
numbers taken back when a command is put off. *Correct*: each packet processed
once and in order, commands out as they went in, nothing lost.

**Peers of a connection.** *State*: `m_peers`, `m_next_remote_peer_id`, per `Peer`
the use count and the two pending flags, and every thread's `PeerHelper`.
*Operations*: creation on a datagram from an unknown address, lookup, `deletePeer`
from two threads, deferred deletion, events. *Hard*: three kinds of threads
between whose lock regions anything may happen; the object is deleted by whoever
lets go last. *Correct*: no use after delete, no leak, events that make sense.

**Client sessions** (`clientiface.cpp`, `serverpackethandler.cpp`, `server.cpp`).
*State*: `ClientState` of every `RemoteClient`, the authentication database's
names, `m_peer_change_queue`, players and whether their objects are leaving.
*Operations*: the handshake commands, registration, sudo mode, denial, removal,
kicking. *Hard*: two clients race through the handshake under one name, a peer
vanishes between any two steps, an old removal is handled after a new start.
*Correct*: one account and one player for a name, an active client has its player,
nothing of a vanished peer stays.

**Block transfer** (`clientiface.cpp`, `server.cpp`, `client/`). *State*:
`m_blocks_sent`, `m_blocks_sending`, `m_blocks_modified`, `m_nearest_unsent_d`,
the pause timer, two channels of packets, the client's blocks and its mesh queue.
*Operations*: ring search, sending, `GotBlock`, `DeletedBlocks`, map edits, bulk
changes, mesh updates. *Hard*: acknowledgements name a position, not a version; node
edits and blocks travel on different channels; the search resumes from a cached ring.
*Correct*: the slots are freed, the client catches up, what is counted as sent is there.

**Emerge manager** (`emerge.cpp`, `emerge.h`). *State*: `m_blocks_enqueued`,
`m_peer_queue_count`, a queue and an event for every thread,
`m_chunks_in_progress`, `m_threads_active`. *Operations*: enqueue with limits and
merging, pop, load, generate, cancel, callbacks, start, stop. *Hard*: lost
wake-ups, two threads on one chunk, a cancelled request with a callback, a stop on
the main thread racing a start on the server thread. *Correct*: requests and queues
agree, charges are fair, callbacks come exactly once, a chunk is made once.

**Server map** (`map.cpp`, `mapblock.h`). *State*: blocks in memory with their
modified state, timestamp and usage timer, the map database, chunks in progress.
*Operations*: load, create, start and finish a chunk, edit, save by level, unload,
delete. *Hard*: a chunk is made in a copy while the lock is free; a block is unloaded
under it; what is left unmarked must be on disk when the server dies. *Correct*:
edits survive, what is marked as generated is there.

**Active objects** (`serverenvironment.cpp`, `staticobject.h`, `activeobjectmgr`).
*State*: `m_active_objects`, per block the lists `m_stored` and `m_active`, per object
its static block, the pending flags and whether clients know it. *Operations*: add,
move, remove, activate with a block, deactivate into the same or another block,
removal later, `clearObjects`, shutdown. *Hard*: one object is in three lists of two blocks and on disk,
and moves between them without every block being marked. *Correct*: it is in the world
exactly once.

**Mesh update queue** (`client/mesh_generator_thread.cpp`, `util/thread.h`,
`client/client.cpp`). *State*: `m_queue`, `m_urgents`, `m_cache` with its reference
counts, the semaphore, the results. *Operations*: adding and merging tasks, taking one,
making a mesh, showing it, acknowledging the block, stopping. *Hard*: cached copies are
older than the map; tasks are merged; the semaphore is emptied before the queue.
*Correct*: no stale mesh stays, no acknowledgement is lost.

**Not modelled yet** (see the plan): the send thread's quota and unreliable
packets; the incoming split buffer with unreliable splits; inventory moves; liquids
and lighting; node timers; mod channels; HTTP fetching.
**Out of scope**: map generators (pure functions of seed and position), collision,
raycast and path finding (floating point), SQL and key-value drivers, packet
layouts, scripting bindings, node and craft tables, settings, rendering, sound, GUI,
main program and platform code. `PROJECT.json` gives the reason for each.

## 2. The models

One action is one handler, or that part of a handler that runs under one lock.
Where the code lets go of a lock inside a function, the model has two actions with
a program counter between them. Definitions keep the names of the code.
A definition whose name is another one with a qualifier (`GotBlockAnyway`,
`EraseNothing`, `EnqueueUnsignalled`) and which nothing uses is a plausible slip:
`PROJECT.json` pairs it with a property that breaks once the slip replaces the
definition.

### SeqNum, PacketBuffer, FifoDelivery, ReliableChannel

`SeqNum` has the circle of `2 * HalfMod` numbers (`HalfMod` is 32768 in the code)
with `seqnum_in_window` and `seqnum_higher`; `PacketBuffer` is the set of packets a
`ReliablePacketBuffer` holds, its first packet and what `insert` refuses.

`ReliableChannel` is one direction of one channel. `SendCommand` is `Send` on the
user's thread; `RunCommandQueues` and `SendPackets` are the send thread's, with
`processReliableSendCommand` splitting and numbering. A command that finds too few numbers has
taken some (`NumbersTaken`), which are put back from the last to the first, each only if it is
the one before the next (`PutBackNumbers`, `putBackSequenceNumber`); the command waits.
`Resend` and `UpdateTimers` are `runTimeouts`; `ReceivePacket` is
`handlePacketType_Reliable` with its five outcomes; `checkIncomingBuffers` hands over
buffered packets; `ReceiveAck` is `CONTROLTYPE_ACK`; `Ping` and `CreatePeer` are the
packets that go around the command queue (`rawSendAsPacket`); the network may lose or
repeat what is on the wire at any time. A packet has the number of the code and, for
the properties only, its position in the stream; `log` and `processed` are history.
`Sizes` bounds what is sent: the packets that the n-th command may have.

Abstractions: the quota of an iteration, round-trip estimates and half-open peers
are left out, so a packet may time out at any time (more behaviours than the code).
A command is its number of chunks. No copy older than half a circle arrives
(`FreshPacket`, likewise for acknowledgements): 16-bit numbers cannot tell such a copy
from a new packet, whatever the rest of the code does.

`FifoDelivery` is what a user relies on: commands come out in the order they went in.

### Peers

Objects are numbered as they are made; `m_peers` maps ids to objects; `helpers` says
which object each `PeerHelper` holds. The receive thread runs `ReceiveDatagram`,
`LookupPeer`, `CreatePeer`, `GetPeer`, `ProcessPacket`, then either the three parts
of `deletePeer` on `DISCO` (`DiscoErase`, `DiscoPutRemoved`, `DiscoDrop`) or
`PutData`, and lets go in `LeaveProcessPacket` and `LeaveReceive`. The send thread
passes over the peers in `runTimeouts` and in `sendPackets` (`VisitPeer`,
`LeavePeer`), then removes the doomed ones (`RemoveDoomed`, `SendPutRemoved`,
`SendDrop`). Users look up an address. `deletes` counts deletions of an object so
that a second one shows. The events are kept as a history.

Abstractions: the server's side only; packets from reorder buffers take the same
steps as datagrams; a pending disconnect waits any time.

`EventsTellTheStory` is a promise only while an id rests until its removal was told
(`IdsRestUntilTold`). `createPeer` takes the next free id of the circle, and an id is free
as soon as `deletePeer` took it out of the map, before the event `PEER_REMOVED` is put;
once the ids have come round, the addition of the new peer may be told before the removal
of the old one. TLC finds that with three ids and four joins. The run has two joins and
five ids, so there the ids never come round.

### ClientSession, NameSeats

The server thread alternates between `AsyncRunStep` with `HandlePeerChange`, and
receiving: `ReceivePeerAdded`, `ReceivePeerRemoved`, and one action per command of
the handshake. `CommandClientReady` and `JoinsGame` are the two parts of
`handleCommand_ClientReady` between which the `Connection` may lose the peer
(`StageTwoClientInit` asks for its address). `Transitions` is the table of
`RemoteClient::notifyEvent`. A player is *leaving* once its object was told
`disconnected()`; `StepEnvironment` lets it go when no client knows of it.
`NameSeats` is the abstract promise: a name is registered once and then held by one
player at a time.

Abstractions: a data event needs a peer whose addition was received (the ban
manager's address lookup cancels data of lost peers, and `ClientNotFoundException`
drops commands without a client); SRP is a proof that is right or wrong;
`default_password` is empty; refusals for version, name, mods are `refused`;
privileges that bypass the user limit are left out; ids are not reused.

### BlockTransfer

The content of a block is the set of changes made to it, so "stale" means a missing
change. `SendBlocks` is `Server::SendBlocks` with `GetNextBlocks`: the rings from
`m_nearest_unsent_d`, the limits on slots and on the emerge queue, generation only
within `max_block_generate_distance`, the result for the next search, the
pause. `EditNode`, `Dig` and `BulkChange` put map edits; `SendMapEdits` is that part of
`AsyncRunStep`, going through the edits one by one: a client that has the block, and is near, is sent the node,
otherwise the block counts as not sent, and so do the later edits of it that are still in the
queue. `EmergeFinishes` and `EmergeNotifies` are apart, as in the emerge
thread. `MeshUpdate` and `SendGotBlocks` are the client's mesh thread and step;
`ClientUnloads` drops a block; `ServerReceives` is `GotBlocks` and `DeletedBlocks`.

Abstractions: one client, standing still; all blocks are in sight and none is
occluded; the server keeps loaded blocks; every ring has a block (`NoEmptyRing`), and the
blocks of a ring are tried in any order (`NearestFirst`); a
channel delivers in order (that is `ReliableChannel`'s theorem), nothing orders
two channels. `TypeInv` leaves out the node changes under way (`chan0`, `editQueue`), which no
proved promise is about.

### EmergeQueue

`Request` is `enqueueBlockEmerge` for a client or the server, `EmergeArea` and
`EmergeAreaNext` the Lua call; each puts the entry under the queue lock and signals
the thread afterwards (`Signal`), so a thread may run in between. A thread
is `off`, at the `head` of its loop, or at `wait`, `fetch`, `generate` or `callbacks`; the actions
`PopBlock`, `FindEmpty`, `Wake`, `GetBlock`, `StartGen`, `Cancel`, `LoadFails`,
`FinishGen`, `RunCallback` and `AnnounceBlocks` follow `EmergeThread::run`.
`StartThreads` and `ThreadsStarted` are the two parts of `startThreads` around
`m_threads_active`; `Shutdown` to `DeleteEmergeManager` are the order of `~Server`.

Abstractions: only the server thread enqueues; blocks stay in memory; a chunk is its
own blocks (no border); the mapgen limit is left out; an `emerge_area` call has each position
once (`AreasAssumption`), as `l_emerge_area` goes through the box in three loops. The copy on disk of a block in
`Corrupt` cannot be deserialized: the thread that loads it dies, with its callbacks,
and `fatal` is set.

### ServerMap, ActiveObjects

`ServerMap` has the blocks in memory (`blocks`) and in the database (`disk`); each of
its actions is one critical section of the environment lock. `GetBlockOrStartGen`
loads a block and may begin its chunk (`InitBlockMake`, which copies the nodes of the
area), `FinishBlockMake` writes the copy back over whatever is in memory by then,
`EditNode` is a change of a node, `Save` the periodic save with blocks that fail to be
written, `Unload` the time-out of one block, `DeleteBlock` that of
`minetest.delete_area`. The write of `Unload` may fail too. The code passes over such a block,
but its sector counts as empty and is deleted with the block in it (`map.cpp:392`, `410`, `468`),
unless another block of the sector stays. So the block is either gone, unwritten, and what is
on disk counts again, or nothing has happened; the first is a step of `Unload`, the second is none.
`ActiveObjects` extends it with the environment: `AddObject`,
`MoveObject`, `RemoveObject`, `KnownChanges` (a client gets or forgets the object),
`removeRemovedObjects`, `UpdateActiveBlocks` (the whole of what follows
`ActiveBlockList::update`: far objects are deactivated, blocks that are left
get their timestamp, new ones are activated), `RunNodeTimers` (for the timestamps it
gives), `ClearObjects`, `FinishGen`, `UnloadBlock`, `DeleteArea`, `Crash` and `Shutdown`, which deactivates all objects,
any of which may have changed its data, and writes those blocks that can be written
(`SaveAtEnd`). A timestamp is `Undefined`,
`Outdated` (from before the last `clearObjects`) or `Valid`; `recent` and `fresh` are the
blocks whose timestamp is not older than the clearing: those of the same second, and, as
a crash sets the game time back, those of a future. A crash may forget the clearing
(`meta_saved`).
The operators named after functions thread a record of the blocks, the objects and
their fates through the loops of the code.

*Fates.* `ExactlyOnce` is about objects that are `alive`, `removed` or `cleared` (these may
be stored where the block will forget them). Where the code loses track of an object and
says so, or where the hazards list it, the model gives the object another fate instead: over `max_objects_per_block`, without a timestamp
(finding 4) or with an outdated one, overlooked by `clearObjects`, orphaned by the
unloading of its static data, returned by the shutdown, crashed with blocks that were
marked and not written, or unwritten: its block could not be written when it was unloaded or at
the shutdown, and memory and disk differ in the object (`Unwritten`). The other objects of such a
block keep the promise. A crash leaves the promise in force when nothing was marked
`MOD_STATE_WRITE_NEEDED` and, for cleared objects, the clearing was saved.

Abstractions: a chunk is one block and its border is the whole map; sectors and
dummy blocks are left out, a block that could not be written is lost with its sector or
stays as it is; the writes of `clearObjects` in full mode succeed (it goes through a branch of
`timerUpdate`, from `map.cpp:414`, that keeps a block it cannot write); the usage timer is whether a pass over the active blocks came
since the last use; an edit in a block whose chunk is being made may be lost (that is
what the code does), so `EditsSurvive` is about the others; `on_activate` does not move its
object to another block; a freed id is used again at once, the
worst case for the lists that are keyed by it.

### MeshUpdateQueue

The main thread changes the map (`ReceiveBlock`, `ChangeNode`, `SetCrack`,
`UnloadBlock`) and queues the updates (`NextModified`, `AddTask` with `addBlock`, `Post`);
the mesh thread goes around in `CheckStop`, `Wake`, `BeginUpdate`, `Pop`, `MakeMesh`,
`EndUpdate`; `ReplaceMesh` is a result in `Client::step`. The data of a block is the number
of the change that made it and a mesh is what it was made of, so "stale" can be said.
Whether a copy without an entry has expired is left open (`expired`): the age only
decides that.

Abstractions: acknowledgements go out one by one; posts that were not waited for count as
one, as `UpdateThread` empties the semaphore; the branch for mobile builds that run out of
memory is left out.

## 3. Runs

| run | instance | properties | shows |
| --- | --- | --- | --- |
| `channel` | circle of 10 starting at 8, window 1 to 2, a command of one or two packets and one of three, one control packet; 115 332 states | `TypeOK`, `ProcessedInOrder`, `SpanBelowHalf`, `NothingForgotten`, `ImplementsFifo`, `EveryCommandArrives` | order, completeness and progress under loss, repetition and reordering |
| `channel_oversize` | circle of 4, a command of up to three packets | `NothingForgotten`, violated | finding 1 |
| `peers` | 5 ids, two addresses, one user thread, two joins, three datagrams; 1 252 353 states | `TypeOK`, `NoUseAfterDelete`, `NoLeak`, `EventsTellTheStory`, `OnePeerPerAddress` | deletion by the last user |
| `sessions` | two peers, two names; 24 300 states | `ActiveHasPlayer`, `PlayerHasClient`, `GoneClientIsRemoved`, `RegisteredOnce`, `SeatsSpec`, `DeniedIsDeleted`, `SeatIsFreed` | races for a name, nothing lingers |
| `blocks` | two blocks in rings 0 and 1, one slot, a node edit, a bulk change, an unload; 1 603 733 states | `SlotsAreAnswered`, `SentIsThere`, `BulkChangesAreKept` | bookkeeping against late answers |
| `blocks_far` | four rings, a corner block in ring 2 that is as far away as ring 3, where the limit of generation is; 42 301 states | `ClientCatchesUp` | the search does not stop early |
| `blocks_race` | one block, a node edit and a bulk change | `SentMeansCurrent`, violated | finding 2 |
| `emerge` | two threads, two blocks of one chunk, one of them corrupt, a client, an area, all limits 1, shutdown; 238 243 states | `TypeOK`, `QueuesMatch`, `ChargedFairly`, `CallsRemaining`, `NoLostWakeup`, `ChunkMadeOnce`, `AvailableIsAnnounced`, `EveryRequestIsServed`, `StopComesBack` | queues, wake-ups, chunks, callbacks, progress up to the end |
| `emerge_restart` | two threads, no areas | `StoppedForGood`, violated | finding 3 |
| `world` | two blocks, one chunk at a time, one edit, two objects, one object to a block, one known by clients, `clearObjects`, failing writes; 362 482 states | `ExactlyOnce`, `UnmarkedIsSaved`, `EditsSurvive`, `GeneratedHasTerrain` | map and objects against saving, unloading, failing writes, generation, clearing and crashes |
| `world_fresh` | two blocks, one object | `StoredAreKept`, violated | finding 4 |
| `mesh` | two blocks that share a face, three changes; 408 692 states | `TypeOK`, `QueueIsCoherent`, `SettledIsFresh`, `BlocksAreAcknowledged`, `StopEndsThread` | meshes become fresh, blocks are acknowledged |

### Bounds, and why they are enough

- *Channel.* What matters is the wrap, the two sides of the window and a packet
  retransmitted across a command's end. `SeqInit` puts the wrap between the first and
  the last packet; three packets after two of which one is still unanswered come close
  to the half circle of five; window 1 makes a command wait and be put back. The
  proofs do not depend on these bounds.
- *Peers.* A hazard needs an object that is dropped while held: one object,
  one dropper and two holders. Two joins give a second object under a known address and
  the search for a free id; five ids keep ids from being reused.
- *Sessions.* Two peers are one that plays or leaves and one that joins; with two names
  they may also not compete, and a refused one may come back as the other peer. With
  `MaxUsers = 2` the limit itself is not met; what it leads to, a denial at `INIT`, is
  explored as `refused`. The safety properties are proved for any number of peers,
  names and users.
- *Blocks.* One slot makes the second block wait for the first one's answer; a
  queue limit of 1 stops the search early; one change of each kind is what the
  three sets tell apart. Four rings are one more than a search covers (three).
- *Emerge.* Two threads and two blocks of one chunk are the smallest contention for a chunk;
  limits of 1 refuse, and an area merges with a client's request. `emerge` has no
  position over the map limit: `minetest.emerge_area` counts such a position and never
  calls back for it, so `CallsRemaining` holds for positions within the limit only
  (`doc/lua_api.txt:5287` says nothing of the case).
- *World.* An object needs two blocks to move between, and two objects in one block meet the
  limit of one. `Explored` in `MCServerWorld` says which combinations are followed:
  a chunk with an edit, a chunk with an object no client knows, an edit and such an object
  in one block, two objects in one block without a chunk, an object and `clearObjects`
  without chunk or edit and with at most one active block; a chunk without objects is followed
  while no block is active, a removed object without a chunk and before any clearing; and
  nothing after one of the other fates.
  `Permutations` of the two blocks is sound there: where the model takes its elements in
  the order of `SetToSeq`, the two orders differ only in the free ids that two
  objects get, and two objects are followed only while one block is used.
- *Mesh.* Two blocks with a common face are neighbours in every sense the code tells
  apart (`Faces`, `Leading`, `Around`); three changes are one before an entry is
  taken, one while the mesh is made and one after.
- Counters named `Max...` and `Sizes`, commented "bound", are the only cuts besides
  `Explored`. Where they, or the shutdown, end a behaviour, the configuration says
  `CHECK_DEADLOCK FALSE` (those of the channel, `emerge`, the world, `mesh`); elsewhere
  deadlock is checked.

### Fairness

- `ReliableChannel`: `ConnectionSendThread::run` loops, waking at least every 50 ms, and
  the receive thread loops, so their queue steps and resends are weakly fair. For the
  network, a datagram put on the wire over and over is received in the end (strong
  fairness): without it nothing can be delivered.
- `ClientSession`: `ServerThread::run` alternates `AsyncRunStep` and `Receive`, which
  returns when the event queue is empty or the step is due, so both are taken again and
  again, though enabled only at their place in the loop: strong fairness. A leaving
  player's object is removed by `StepEnvironment` once the clients' known objects are
  updated. `disconnecting` peers leave because the send thread takes
  `CONNCMD_DISCONNECT_PEER`. Players do nothing by obligation: no fairness on commands.
- `BlockTransfer`: every thread's step and both channels are weakly fair; the
  player's building, unloading and the changes of the world are not.
- `EmergeQueue`: emerge threads that hold no lock are weakly fair, those that wait for
  `m_env_mutex` strongly (the server thread lets go of it again and again); the server
  thread's periodic start is strongly fair, the main thread weakly.
- `MeshUpdateQueue`: a handler of the main thread that has begun goes on, and the mesh
  thread is scheduled (weak); `Client::step` comes back to the results again and again,
  between handlers (strong). Nothing obliges the player or the server to change the map.
- `ServerMap` and `ActiveObjects` are safety only.

## 4. Proofs

| module | theorems | assumptions |
| --- | --- | --- |
| `ReliableChannelProofs` | `WindowTellsOldFromNew` and lemmas about the circle of `SeqNum` (`FirstFromProperties`: the first packet is the one behind no other); `TypeCorrect`; `InOrder`, `NeverForgotten`, `ChannelIsFifo` (a refinement); `SpanStaysBelowHalf`, `SmallChannelIsFifo` | `WindowTellsOldFromNew`: `HalfMod` is a positive natural; the others: `ChannelAssumption`; `InOrder` and the next two: `[]SpanBelowHalf`; the last two: what can be under way is less than half the circle |
| `PeersProofs` | `PeersTypeCorrect`, `NeverUsedAfterDelete`, `NeverLeaked`, `OnePeerForAnAddress`; `StoryWhileIdsRest`, `StoryUntilIdsComeRound` | `PeersAssumption`; the last two: `[]IdsRestUntilTold`, or fewer joins than ids |
| `ClientSessionProofs` | `ActiveAlwaysHasPlayer`, `PlayerAlwaysHasClient`, `GoneClientIsAlwaysRemoved`, `RegisteredOnlyOnce`, `SeatsAreRespected` (a refinement) | `SessionAssumption` |
| `BlockTransferProofs` | `SlotsAreAlwaysAnswered`, `SentIsAlwaysThere`, `BulkChangesAreAlwaysKept`, `SlotsStayWithinLimit` | `BlocksAssumption` |
| `EmergeQueueProofs` | `TypeCorrect`, `QueuesMatchAlways`, `NoWakeupIsLost`, `NoChunkIsMadeTwice`, `AlwaysChargedFairly`, `NothingIsKeptSecret`, `CallbacksAreCounted` | `LimitsAssumption`, `AreasAssumption`; the last one: `AreasWithinLimit` |
| `ActiveObjectsProofs` | `TypesAreKept`, `UnmarkedBlocksAreOnDisk`, `EditsAreKept`; `GeneratedBlocksHaveTerrain` | `MapAssumption`, `ObjectsAssumption`; the last one: `EmergeThreads =< 1` |
| `ExactlyOnceProofs` | `ObjectsAreExactlyOnce` | `MapAssumption`, `ObjectsAssumption` |
| `MeshUpdateQueueProofs` | `MeshTypeCorrect`, `QueueAlwaysCoherent`, `SettledAlwaysFresh` | `PositionsAssumption` |

**Channel.** `NumbersMatch` says that the number of every packet, wherever it is, is that
of its stream position, and that `next_outgoing_seqnum` and `next_incoming_seqnum` are
the numbers of the next positions at the two ends. The receiver decides by the number
alone; `WindowTellsOldFromNew` says that this decides by position as long as the
position is within half a circle of the expected one, which `FreshPacket` gives
below and `SpanBelowHalf` above. `StreamInv` adds that buffered packets are ahead
(`BufferAhead`) and that only received packets are acknowledged (`AckedIsReceived`);
with it `ProcessedInOrder` and `NothingForgotten` are inductive. These theorems assume
`SpanBelowHalf`: finding 1 is a behaviour without it.

*First in, first out* (`ChannelIsFifo`) rests on `LineInv`: the numbered commands lie one
after the other in the log, each with its chunks together; the splits the receiver holds
are the processed chunks of the one command that is not complete; and the events are the
commands whose last chunk was processed. The numbers that a command put off gives back
leave no gap, for they are the last ones given: `NumbersPutBack` shows that putting them back
one by one never meets the `FATAL_ERROR_IF` and ends at the number the command began with.

*The span* (`SpanStaysBelowHalf`) rests on `SpanInv`: a packet that waits in the queue is no
further from the end of the log than there are packets queued from it on, plus the control
packets that went past the queue, and a packet in the resend buffer no further than the
window, the queue and the chunks of one command allow. `getOutgoingSequenceNumber` refuses
by the distance to the oldest packet sent, which it measures as it is or one short (the
wrap). So the span stays below half the circle if
`MaxWindow + MaxRequeued + MaxChunks + 2 * MaxControl + 1 < HalfMod`. The engine has
`HalfMod = 32768`, `MaxWindow = 2048` and `MaxRequeued = 256`: commands up to about
30 000 packets are safe, those of 33 894 (finding 1) are not. `MaxControl` bounds all the
pings of a behaviour here, because the model lets any number of them pass before the queue is
looked at; the engine pings once in some seconds and looks at the queue many times a second.
`SmallChannelIsFifo` puts the parts together, with no assumption but on the constants. The
instance of the run `channel` is smaller than this condition asks for, and is below half for its
own sake: TLC checks it there.

**Peers.** `PeersInv` is `TypeOK` with: the use count is the number of helpers that
hold the object (`UseCounts`), an object out of the map is marked or in the hand of the
one thread about to mark it (`MarkedWhenOut`, `OneHand`), it has been deleted exactly
if marked and unused (`DeletedWhenUnused`), and the threads' places go with what
their helpers hold (`Places`). "No use after delete" alone is not inductive: whether
`DecUseCount` may delete depends on the count being exact. `OnePeerPerAddress` is inductive
with "the map has no peer of the sender's address when the receive thread is about to
create one": no other thread adds to the map, and no peer in the map is marked, so the
lookup misses none. *The story*: `StoryInv` says that the peers that live for the user, those
in the map and those whose removal is still to be told, are exactly those whose last event is
an addition, so an addition is told of an id that rests and a removal of one that lives.
Ids are given in order, so none comes back before all were given.

**Sessions.** `SessionInv` has three parts. `ConnectionTypes` gives the shape of the
queues and threads. `SeatInv` says who may have what: a client past the password has a
registered name, and only one that was asked to register has registered it
(`NamesAreRegistered`, `OneRegistered`); a player that stays belongs to a client admitted
under its name (`PlayersHaveClients`), a client that plays, or is in the middle of
`CLIENT_READY`, has its player (`ClientsHavePlayers`), and a name and a peer have one
player each (`OnePlayerEach`). `RemovalsAreComing` says that the removal of a peer that
is gone comes after its addition in the events and peer changes read as one queue; without
the order, a removal handled too early would leave the client for good. `SeatsAreRespected`
is the refinement of `NameSeats`: each step changes at most one name's player, from none
to a peer or from a peer to none.

**Blocks.** `TransferInv` says of each block that is being sent why an answer will come:
its copy, the acknowledgement or the message that it was dropped is under way, or its mesh
update is queued at the client (`SlotsAreAnswered`). `SentIsThere` is not inductive, because an
acknowledgement moves a block from sending to sent whichever copy it is for; `KeptIsThere` is
about both sets. `BulkChangesAreKept` needs that the newest copy, in whatever place, is the
last on its channel. For `SlotsWithinLimit` the result of the search, a recursive function of
the rings and blocks, is shown to fit the free slots: were there a shortest search that takes
too many, it would be one step longer than another (least number, not the induction theorems).

**Emerge.** The invariant is `TypeOK /\ QueuesMatch /\ NoLostWakeup` with `OwnChunk` (a
generating thread's chunk is in progress, its block still missing, and no other thread
generates that chunk) and `WholeChunks` (the blocks of a chunk are generated together:
all of them are still missing or none is). The wake-up argument: a thread waits only
after it found its queue empty under the queue lock; whatever is queued later is
followed by a signal that is still to be given or has set the event's flag.
`AlwaysChargedFairly` follows the sets of entries a peer caused: an entry is added or taken
away with the count of its peer in the same critical section, so each count is a cardinality.
For `NothingIsKeptSecret`, a block that was made available is in hand (`InHand`) until the
thread announces it, also when the thread is told to stop. For `CallbacksAreCounted`,
`CallsInPlace` says where each callback of a call is: still to be queued, in one entry, or in the
hands of one thread, and each in one place once; the reference count is the sum over the places.

**World.** `Inv` relates the blocks in memory, those on disk, the copies in which chunks are
made and the edits. `UnmarkedIsSaved` and `EditsSurvive` are its parts `SavedIn` and `EditsIn`;
it takes two more. `Agree`: an object whose static data is said to be in a block's list is
there under its own id, so that an object that is stored without marking the block adds to
`m_stored` what it took from `m_active`. `EditsCopied`: the copy of a chunk in progress has
every edit that must survive, so that blitting it back loses none; for edits made before the
chunk was begun the copy was taken with them, and of those made later nothing is promised.
When a block leaves memory unwritten, the edits that were only there are not promised any
more (`Unkept`), and those of the other blocks are untouched (`OtherContents`); what is on disk counts
then, so a block that is generated on disk must be so in memory for the terrain to stay (a part
of `TerrainIn`).
What the environment does to a block is summed up by `Derived`: the nodes are the same, a
marked block stays marked, and one that is not marked has no more objects than before. `Keeps`
says this of all blocks in memory, reading those that were not there from the disk, and is
transitive. The loops (`FoldLeft` over objects or blocks) are handled by one lemma on folds: the
library's fold is a recursive function on the subsets of a finite set, which exists (shown by
least number again) and leads from the values allowed after some elements to those allowed
after all. For the loops over objects the values are those that `Keeps` allows and in which the
objects still to come are untouched (`Walk`); each body is a `Step`, which touches its own object
only. `GeneratedHasTerrain` needs `TerrainCopied`: the copy of a chunk has the terrain of all
the *other* generated blocks. With two emerge threads that is not so: both copy the area before
either blits it back, and the second one overwrites the terrain of the first, because a chunk's
area includes its neighbours' borders (a whole block here) and `blitBackAll` overwrites generated
blocks. TLC finds this in four steps with `EmergeThreads = 2`; `num_emerge_threads` is 1 by
default (`defaultsettings.cpp:447`).

**Exactly once.** `ExactlyOnce` counts an object over all the lists of all blocks; the sum alone is
not inductive. `SoundInv` says instead where each object is (`InPlace`): an object that is alive
is active under one id with nothing stored of it anywhere (`OneActive`), or not active and stored once, in one
block (`OneLaid`); one that was removed has nothing stored and only active objects that will not
store it again; and what was cleared is stored only in blocks that will forget it. A block that
is not in memory counts as it would be loaded (`At`), so that loading changes nothing. Four parts
more make this inductive, together with `Inv`:

- `OnDisk`: a block in memory that is not marked has as many copies of the object on disk as in its
  two lists, because it is the copy on disk that counts after it is unloaded;
- `Linked`: every entry of a list `m_active` belongs to an active object whose record says that its
  static data is there. Ids are used again, so an entry left behind would become another object's;
- `ClearedOut`: an active block holds nothing that was cleared. It has its timestamp already or
  gets it when it stops being active, and what it held would be taken for valid then;
- `Unaged`: an active block has been used since the last pass, so it is not unloaded; with
  `ClearedOut` it is in memory or not on disk.

`SoundIsExactlyOnce` derives the counts. The operators of the environment (`saveStaticToBlock`,
`Resave`, `Deactivate`, `addActiveObjectRaw`, ...) are shown to be steps about one object: `Moves`
says that no other object's record, fate, entries or stored data change, hence nobody else's place
(`MovesOthers`), and `Settles` that the object itself is in its place again. Between the parts of an operator it
need not be: `deactivateFarObject` takes the static data out of one list before it puts it into another. The loops
keep `Settled` of the objects already gone through and leave those to come as they were (`Going`),
by the lemma on folds; each action is one loop or one step, with what it does to blocks as wholes:
activating one reads every object stored in it and leaves none, a save writes what `Count` says, a crash
goes back to the disk, where `OnDisk` has the objects of unmarked blocks. A block that leaves memory
unwritten is read from the disk again, or as a blank one (`CopyRead`, `BlankCopy`): an object of
which both copies have the same keeps its place (`UnwrittenOnes`), the others have the fate that says so. TLC finds `SoundInv`
true in every state of the run `world` too.

**Mesh.** The invariant is `TypeOK`, `QueueIsCoherent` and `CopiesOK` (a cached copy is a
record of data and count). A count is the cardinality of the set of queued positions
around a block; a new entry adds one position to that set, a merged entry none, `Pop`
takes one away, and positions in the queue are distinct, which is why the count of
every copy moves by exactly one and never below zero. Clean-up takes only copies whose
set is empty. `SettledAlwaysFresh` needs more (`FreshInv`): a cached copy of a changed block is
renewed by the block's own task, which comes before the tasks of those around it, so an entry
that is complete was made from the copies as they are; and of the entry, the mesh being made,
the last result and the mesh shown, the newest is fresh for every block that is not due an
update. This is why replacing a mesh by a later result never makes it older.

**Only model-checked.** All liveness (`EveryCommandArrives`, `DeniedIsDeleted`,
`SeatIsFreed`, `ClientCatchesUp`, `EveryRequestIsServed`, `StopComesBack`,
`BlocksAreAcknowledged`, `StopEndsThread`): fairness and `ENABLED` are outside of the prover's
reach. Every invariant, action property and refinement of the passing runs is proved. Induction over data: the induction theorems take an operator as a parameter, which
the installed provers cannot instantiate; recursive functions and folds are within reach only
where a least counterexample can be set up by hand, as for the search of `BlockTransfer` and
the loops of the world.

## 5. Findings

1. `channel_oversize`: `processReliableSendCommand` (`network/connection.cpp:1023`) admits
   a command of up to 33 894 packets, more than the half circle of 32 768; the oldest
   are refused by the resend buffer and sent only once, against the promise of
   `mt_connection.h:207-216`.
2. `blocks_race`: whole blocks go on channel 2 and single nodes on channel 0
   (`network/serveropcodes.cpp:158`), although the comment at line 120 asks for one
   channel for one object; and `GotBlock` (`clientiface.cpp:402`) takes the answer to an old
   copy for the answer to a new one. Together, a client may keep a stale block.
3. `emerge_restart`: `~Server` (`server.cpp:328`) stops the emerge threads while
   the server thread may start them again (`server.cpp:982`), although
   `emerge.cpp:147` says that only the server thread starts or stops them; they
   then run while the environment is deleted.
4. `world_fresh`: `activateBlock` (`serverenvironment.cpp:990`) also drops the stored
   objects of a block without a timestamp, which every block made in memory is
   until it is first active, although line 989 says that it removes them "if
   clearObjects was called since block's timestamp".

Noted, without a run of their own (see the hazards of `PROJECT.json`):

- `map.h:213` says of `timerUpdate` "Saves modified blocks before unloading on MAPTYPE_SERVER"
  and `map.cpp:467` "Finally delete the empty sectors". But where a write fails
  (`database/database-leveldb.cpp:68-76` reports it), `map.cpp:392` goes on to the next block
  without noting that this one stays; if no other block of the sector stays, the sector is queued
  (`map.cpp:410`) and deleted, and `~MapSector` deletes the modified block with it
  (`mapsector.cpp:32-49`). Its edits are lost although the server runs on and the next write might
  succeed. The model does the same: an object added in such a block gets the fate "unwritten",
  and the edit is not promised any more (`Unkept`). The branch with a limit on loaded blocks
  (`map.cpp:414-463`) keeps the block. `ServerMap::save` ignores a failing write as well
  (`map.cpp:1660`), which loses the block only at the shutdown.
- `builtin/settingtypes.txt:1079` and `server.cpp:2456` disagree on the formula for the
  total of blocks being sent.
- A modified block lowers the start of the search to its Euclidean distance, rounded
  (`clientiface.cpp:187`), while the search goes by rings of the largest difference, so
  the next search may begin beyond it; `blocks_far` has such a block and shows that a
  later search finds it.
- A block that can never be generated keeps the search from the rings beyond it
  (`clientiface.cpp:348`): `ClientCatchesUp` is claimed for instances in which every
  block can be generated.
- `getOutgoingSequenceNumber` (`network/connection.cpp:576`) counts one packet too few
  when the numbers wrap, so the window is then one larger.
- An object added to a block that is not active keeps its static data there; when that
  block is unloaded the object has lost it (fate "orphaned").
- A shutdown deactivates all objects by force, those that are to be removed included
  (fate "returned"), while `doc/lua_api.txt:6517` promises removal.
- `clearObjects` in full mode goes through the blocks of the database
  (`serverenvironment.cpp:1232`) and leaves out those in memory that were never written; an
  object stored in a block with an outdated timestamp is forgotten although it was added
  after the clearing (fates "overlooked" and "outdated").
- `doc/lua_api.txt:5262` calls "full" the default mode of `minetest.clear_objects`;
  `script/lua_api/l_env.cpp:1116` takes "quick".
- `minetest.delete_area` tells the objects of a deleted block that they have no static data
  (`script/lua_api/l_env.cpp:1271`), but looks for them through the block, which is gone by
  then.
- `~MeshUpdateQueue` asserts that no cached copy is counted
  (`client/mesh_generator_thread.cpp:33`), which fails if entries are still queued.

## 6. Plan

Done, in this order: `SeqNum`, `PacketBuffer`, `ReliableChannel` with
`FifoDelivery`, `Peers`, `ClientSession` with `NameSeats`, `BlockTransfer`,
`EmergeQueue`, `ServerMap` with `ActiveObjects`, `MeshUpdateQueue`, and the proofs above.

Next modules:

1. `SendThread`: the quota of an iteration (with unsigned subtraction), `m_outgoing_queue`,
   disconnects that wait. Composes with `Peers` (pending disconnect).
2. `SplitBuffer`: unreliable splits, split numbers that wrap, time-outs.
3. `InventoryMove`: conservation of items under moves, swaps and callbacks; the hazard is that
   swaps, infinite stacks and move-somewhere restore or replace stacks after the move
   (`inventorymanager.cpp:478`).
4. The borders of chunks, in the world.
5. Liquids, lighting, node timers, mod channels, HTTP fetching: pure algorithms against
   reference definitions and small protocols.

Runs for these share a module where the systems are independent, so that the
number of runs stays the number of questions.

Next proofs: the list of `ReliablePacketBuffer` implements the set of `PacketBuffer`; with each
of the modules above, its safety properties.
