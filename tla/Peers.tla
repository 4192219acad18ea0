-------------------------------- MODULE Peers --------------------------------
(***************************************************************************)
(* The peers of one Connection and the threads that share them             *)
(* (network/connection.cpp, connectionthreads.cpp).                        *)
(*                                                                         *)
(* m_peers maps an id to a Peer object under m_peers_mutex.  A thread uses *)
(* a Peer through a PeerHelper, which counts it in m_usage; deletePeer     *)
(* takes the peer out of the map, reports it with an event and drops the   *)
(* object, which is freed by the last thread to let go of it.  The         *)
(* receive thread creates peers, and removes one on DISCO; the send thread *)
(* removes those that timed out or were told to disconnect; user threads   *)
(* only look.  Every action below is what a thread does under one lock.    *)
(***************************************************************************)
EXTENDS Naturals, Sequences, FiniteSets

CONSTANTS
    MaxUdpPeers,    \* MAX_UDP_PEERS, also the largest u16
    Addresses,      \* the addresses datagrams come from
    Users,          \* the threads that use the Connection
    MaxJoins,       \* bound: peers created
    MaxDatagrams    \* bound: datagrams received

ASSUME PeersAssumption ==
    /\ MaxUdpPeers \in Nat /\ MaxUdpPeers >= 2
    /\ MaxJoins \in Nat /\ MaxDatagrams \in Nat
    /\ IsFiniteSet(Users) /\ Addresses # {}
    /\ Users \cap {"receive", "process", "send"} = {}

VARIABLES
    m_peers,                \* id -> the peer of that id
    m_next_remote_peer_id,
    peers,                  \* every Peer object made, in order
    helpers,                \* the peer each PeerHelper holds, or NoPeer
    receive,                \* where the receive thread is
    send,                   \* where the send thread is
    commands,               \* ids DisconnectPeer was called for
    m_event_queue,          \* history: all events put, in order
    datagrams               \* how many datagrams have been received

vars == <<m_peers, m_next_remote_peer_id, peers, helpers, receive, send,
          commands, m_event_queue, datagrams>>

PeerIds == 0 .. MaxUdpPeers
PEER_ID_INEXISTENT == 0
NoPeer == 0
Objects == DOMAIN peers

(* The helpers of the threads: the receive thread holds one in receive()   *)
(* and one more in processPacket().                                        *)
Helpers == {"receive", "process", "send"} \cup Users

(* A Peer object; deletes counts how often it was deleted. *)
Peer == [id : PeerIds, address : Addresses, usage : Nat,
         pending_disconnect : BOOLEAN, pending_deletion : BOOLEAN,
         deletes : Nat]

Event(type, id, address) == [type |-> type, id |-> id, address |-> address]

NewPeer(id, address) ==
    [id |-> id, address |-> address, usage |-> 0, pending_disconnect |-> FALSE,
     pending_deletion |-> FALSE, deletes |-> 0]

(* The two threads between two of their rounds. *)
Waiting == [pc |-> "idle", address |-> CHOOSE a \in Addresses : TRUE,
            id |-> PEER_ID_INEXISTENT, disco |-> FALSE, target |-> NoPeer]
Resting(pass) == [pc |-> "idle", pass |-> pass, todo |-> {}, doomed |-> {},
                  target |-> NoPeer]

Init ==
    /\ m_peers = <<>>
    /\ m_next_remote_peer_id = 2
    /\ peers = <<>>
    /\ helpers = [h \in Helpers |-> NoPeer]
    /\ receive = Waiting
    /\ send = Resting("timeouts")
    /\ commands = {}
    /\ m_event_queue = <<>>
    /\ datagrams = 0

-----------------------------------------------------------------------------
(* PeerHelper and Peer. *)

IncUseCount(o) == [peers EXCEPT ![o].usage = @ + 1]

(* A slip to be caught: the last user forgets that the peer was dropped.   *)
DecUseCountOnly(o) == [peers EXCEPT ![o].usage = @ - 1]

(* The last user of a dropped peer deletes it. *)
DecUseCount(o) ==
    [peers EXCEPT ![o].usage = @ - 1,
                  ![o].deletes =
                     IF peers[o].pending_deletion /\ peers[o].usage = 1
                     THEN @ + 1 ELSE @]

(* A slip to be caught: freed without asking who uses it. *)
DropAtOnce(o) ==
    [peers EXCEPT ![o].pending_deletion = TRUE, ![o].deletes = @ + 1]

Drop(o) ==
    [peers EXCEPT ![o].pending_deletion = TRUE,
                  ![o].deletes = IF peers[o].usage = 0 THEN @ + 1 ELSE @]

(* h takes the peer of this id; there must be one. *)
Hold(h, id) ==
    /\ id \in DOMAIN m_peers
    /\ ~ peers[m_peers[id]].pending_deletion
    /\ helpers' = [helpers EXCEPT ![h] = m_peers[id]]
    /\ peers' = IncUseCount(m_peers[id])

(* A slip to be caught: the helper still points to the peer it let go of.  *)
ReleaseKeeping(h) ==
    /\ peers' = DecUseCount(helpers[h])
    /\ UNCHANGED helpers

Release(h) ==
    /\ helpers' = [helpers EXCEPT ![h] = NoPeer]
    /\ peers' = DecUseCount(helpers[h])

-----------------------------------------------------------------------------
(* deletePeer: under the lock the peer leaves the map; the event is put    *)
(* and the object dropped after the lock is given back.                    *)

(* A slip to be caught: the peer stays in the map. *)
EraseNothing(id) == m_peers' = m_peers

Erase(id) ==
    m_peers' = [i \in DOMAIN m_peers \ {id} |-> m_peers[i]]

PutRemoved(o) ==
    m_event_queue' = Append(m_event_queue,
                            Event("removed", peers[o].id, peers[o].address))

-----------------------------------------------------------------------------
(* The receive thread. *)

(* A datagram from `address` names no peer, or an id given to a client of  *)
(* that address before: it may have been on its way for long.              *)
ReceiveDatagram(address, id, disco) ==
    /\ receive.pc = "idle"
    /\ datagrams < MaxDatagrams
    /\ \/ id = PEER_ID_INEXISTENT /\ Len(peers) < MaxJoins
       \/ \E o \in Objects : peers[o].address = address /\ peers[o].id = id
    /\ receive' = [Waiting EXCEPT
                      !.pc = IF id = PEER_ID_INEXISTENT THEN "lookup" ELSE "get",
                      !.address = address, !.id = id, !.disco = disco]
    /\ datagrams' = datagrams + 1
    /\ UNCHANGED <<m_peers, m_next_remote_peer_id, peers, helpers, send,
                   commands, m_event_queue>>

(* A slip to be caught: who sent it is not looked up. *)
KnownIdsNone(address) == {}

(* lookupPeer goes through the map in the order of the ids. *)
KnownIds(address) ==
    {i \in DOMAIN m_peers : /\ ~ peers[m_peers[i]].pending_deletion
                            /\ peers[m_peers[i]].address = address}

LookupPeer ==
    /\ receive.pc = "lookup"
    /\ LET known == KnownIds(receive.address) IN
       receive' = IF known = {}
                  THEN [receive EXCEPT !.pc = "create"]
                  ELSE [receive EXCEPT !.pc = "get",
                          !.id = CHOOSE i \in known : \A j \in known : i =< j]
    /\ UNCHANGED <<m_peers, m_next_remote_peer_id, peers, helpers, send,
                   commands, m_event_queue, datagrams>>

FreeIds == {i \in m_next_remote_peer_id .. MaxUdpPeers : i \notin DOMAIN m_peers}

CreatePeer ==
    /\ receive.pc = "create"
    /\ IF FreeIds = {}
       THEN /\ receive' = [receive EXCEPT !.pc = "get"]
            /\ UNCHANGED <<m_peers, peers, m_next_remote_peer_id, m_event_queue>>
       ELSE LET id == CHOOSE i \in FreeIds : \A j \in FreeIds : i =< j IN
            /\ peers' = Append(peers, NewPeer(id, receive.address))
            /\ m_peers' = [i \in DOMAIN m_peers \cup {id} |->
                             IF i = id THEN Len(peers) + 1 ELSE m_peers[i]]
            /\ m_next_remote_peer_id' = (id + 1) % MaxUdpPeers
            /\ m_event_queue' =
                 Append(m_event_queue, Event("added", id, receive.address))
            /\ receive' = [receive EXCEPT !.pc = "get", !.id = id]
    /\ UNCHANGED <<helpers, send, commands, datagrams>>

GetPeer ==
    /\ receive.pc = "get"
    /\ IF receive.id \in DOMAIN m_peers
       THEN /\ Hold("receive", receive.id)
            /\ receive' = [receive EXCEPT !.pc = "process"]
       ELSE /\ receive' = Waiting
            /\ UNCHANGED <<helpers, peers>>
    /\ UNCHANGED <<m_peers, m_next_remote_peer_id, send, commands,
                   m_event_queue, datagrams>>

(* The address is compared, then processPacket looks the id up once more.  *)
ProcessPacket ==
    /\ receive.pc = "process"
    /\ IF /\ peers[helpers["receive"]].address = receive.address
          /\ receive.id \in DOMAIN m_peers
       THEN /\ Hold("process", receive.id)
            /\ receive' = [receive EXCEPT !.pc =
                 IF receive.disco /\ receive.id < MaxUdpPeers
                 THEN "erase" ELSE "leave"]
       ELSE /\ receive' = [receive EXCEPT !.pc = "release"]
            /\ UNCHANGED <<helpers, peers>>
    /\ UNCHANGED <<m_peers, m_next_remote_peer_id, send, commands,
                   m_event_queue, datagrams>>

(* DISCO: deletePeer(peer->id), with both helpers held. *)
DiscoErase ==
    /\ receive.pc = "erase"
    /\ LET id == peers[helpers["process"]].id IN
       IF id \in DOMAIN m_peers
       THEN /\ Erase(id)
            /\ receive' = [receive EXCEPT !.pc = "removed",
                                          !.target = m_peers[id]]
       ELSE /\ receive' = [receive EXCEPT !.pc = "leave"]
            /\ UNCHANGED m_peers
    /\ UNCHANGED <<m_next_remote_peer_id, peers, helpers, send, commands,
                   m_event_queue, datagrams>>

DiscoPutRemoved ==
    /\ receive.pc = "removed"
    /\ PutRemoved(receive.target)
    /\ receive' = [receive EXCEPT !.pc = "drop"]
    /\ UNCHANGED <<m_peers, m_next_remote_peer_id, peers, helpers, send,
                   commands, datagrams>>

DiscoDrop ==
    /\ receive.pc = "drop"
    /\ peers' = Drop(receive.target)
    /\ receive' = [receive EXCEPT !.pc = "leave", !.target = NoPeer]
    /\ UNCHANGED <<m_peers, m_next_remote_peer_id, helpers, send, commands,
                   m_event_queue, datagrams>>

LeaveProcessPacket ==
    /\ receive.pc = "leave"
    /\ Release("process")
    /\ receive' = [receive EXCEPT !.pc =
         IF receive.disco \/ receive.id >= MaxUdpPeers
         THEN "release" ELSE "data"]
    /\ UNCHANGED <<m_peers, m_next_remote_peer_id, send, commands,
                   m_event_queue, datagrams>>

PutData ==
    /\ receive.pc = "data"
    /\ m_event_queue' = Append(m_event_queue,
                               Event("data", receive.id, receive.address))
    /\ receive' = [receive EXCEPT !.pc = "release"]
    /\ UNCHANGED <<m_peers, m_next_remote_peer_id, peers, helpers, send,
                   commands, datagrams>>

LeaveReceive ==
    /\ receive.pc = "release"
    /\ Release("receive")
    /\ receive' = Waiting
    /\ UNCHANGED <<m_peers, m_next_remote_peer_id, send, commands,
                   m_event_queue, datagrams>>

-----------------------------------------------------------------------------
(* The send thread goes over the peers three times in each round: for the  *)
(* timeouts, for the commands, and to send packets.  Every pass starts     *)
(* from a copy of the ids, looks each up, and removes the doomed by id at  *)
(* its end.                                                                *)

StartPass(pass, ids) ==
    send' = [Resting(pass) EXCEPT !.pc = "visit", !.todo = ids]

RunTimeouts ==
    /\ send.pc = "idle" /\ send.pass = "timeouts"
    /\ StartPass("timeouts", DOMAIN m_peers)
    /\ UNCHANGED <<m_peers, m_next_remote_peer_id, peers, helpers, receive,
                   commands, m_event_queue, datagrams>>

DisconnectPeerCommand ==
    /\ send.pc = "idle" /\ send.pass = "commands"
    /\ IF commands = {}
       THEN /\ send' = [send EXCEPT !.pass = "packets"]
            /\ UNCHANGED commands
       ELSE \E id \in commands :
            /\ commands' = commands \ {id}
            /\ StartPass("commands", {id})
    /\ UNCHANGED <<m_peers, m_next_remote_peer_id, peers, helpers, receive,
                   m_event_queue, datagrams>>

SendPackets ==
    /\ send.pc = "idle" /\ send.pass = "packets"
    /\ StartPass("packets", DOMAIN m_peers)
    /\ UNCHANGED <<m_peers, m_next_remote_peer_id, peers, helpers, receive,
                   commands, m_event_queue, datagrams>>

VisitPeer(id) ==
    /\ send.pc = "visit" /\ id \in send.todo
    /\ send' = [send EXCEPT !.todo = @ \ {id},
                            !.pc = IF id \in DOMAIN m_peers
                                   THEN "visiting" ELSE "visit"]
    /\ IF id \in DOMAIN m_peers
       THEN Hold("send", id)
       ELSE UNCHANGED <<helpers, peers>>
    /\ UNCHANGED <<m_peers, m_next_remote_peer_id, receive, commands,
                   m_event_queue, datagrams>>

(* In each pass the peer may be one to remove: it has timed out, or it is  *)
(* to be disconnected and no unreliable packet waits for it any more.      *)
MayDoom(o) ==
    CASE send.pass = "timeouts" -> {TRUE, FALSE}
      [] send.pass = "commands" -> {FALSE}
      [] send.pass = "packets"  -> IF peers[o].pending_disconnect
                                   THEN {TRUE, FALSE} ELSE {FALSE}

LeavePeer(doom) ==
    /\ send.pc = "visiting"
    /\ doom \in MayDoom(helpers["send"])
    /\ send' = [send EXCEPT !.pc = "visit",
                  !.doomed = IF doom THEN @ \cup {peers[helpers["send"]].id}
                             ELSE @]
    /\ helpers' = [helpers EXCEPT !["send"] = NoPeer]
    /\ peers' = [DecUseCount(helpers["send"])
                   EXCEPT ![helpers["send"]].pending_disconnect =
                            @ \/ send.pass = "commands"]
    /\ UNCHANGED <<m_peers, m_next_remote_peer_id, receive, commands,
                   m_event_queue, datagrams>>

NextPass ==
    CASE send.pass = "timeouts" -> "commands"
      [] send.pass = "commands" -> "commands"
      [] send.pass = "packets"  -> "timeouts"

EndPass ==
    /\ send.pc = "visit" /\ send.todo = {} /\ send.doomed = {}
    /\ send' = Resting(NextPass)
    /\ UNCHANGED <<m_peers, m_next_remote_peer_id, peers, helpers, receive,
                   commands, m_event_queue, datagrams>>

RemoveDoomed(id) ==
    /\ send.pc = "visit" /\ send.todo = {} /\ id \in send.doomed
    /\ IF id \in DOMAIN m_peers
       THEN /\ Erase(id)
            /\ send' = [send EXCEPT !.doomed = @ \ {id}, !.pc = "removed",
                                    !.target = m_peers[id]]
       ELSE /\ send' = [send EXCEPT !.doomed = @ \ {id}]
            /\ UNCHANGED m_peers
    /\ UNCHANGED <<m_next_remote_peer_id, peers, helpers, receive, commands,
                   m_event_queue, datagrams>>

SendPutRemoved ==
    /\ send.pc = "removed"
    /\ PutRemoved(send.target)
    /\ send' = [send EXCEPT !.pc = "drop"]
    /\ UNCHANGED <<m_peers, m_next_remote_peer_id, peers, helpers, receive,
                   commands, datagrams>>

SendDrop ==
    /\ send.pc = "drop"
    /\ peers' = Drop(send.target)
    /\ send' = [send EXCEPT !.pc = "visit", !.target = NoPeer]
    /\ UNCHANGED <<m_peers, m_next_remote_peer_id, helpers, receive, commands,
                   m_event_queue, datagrams>>

-----------------------------------------------------------------------------
(* The users of the Connection: GetPeerAddress and getPeerStat hold a      *)
(* helper for a while; DisconnectPeer queues a command.                    *)

GetPeerAddress(u, id) ==
    /\ helpers[u] = NoPeer /\ id \in DOMAIN m_peers
    /\ Hold(u, id)
    /\ UNCHANGED <<m_peers, m_next_remote_peer_id, receive, send, commands,
                   m_event_queue, datagrams>>

GotPeerAddress(u) ==
    /\ helpers[u] # NoPeer
    /\ Release(u)
    /\ UNCHANGED <<m_peers, m_next_remote_peer_id, receive, send, commands,
                   m_event_queue, datagrams>>

(* Called for a peer the user was told of; at most once for each here.     *)
DisconnectPeer(o) ==
    /\ ~ peers[o].pending_disconnect /\ peers[o].id \notin commands
    /\ commands' = commands \cup {peers[o].id}
    /\ UNCHANGED <<m_peers, m_next_remote_peer_id, peers, helpers, receive,
                   send, m_event_queue, datagrams>>

ReceiveThread ==
    \/ \E a \in Addresses, id \in PeerIds, disco \in BOOLEAN :
          ReceiveDatagram(a, id, disco)
    \/ LookupPeer \/ CreatePeer \/ GetPeer \/ ProcessPacket
    \/ DiscoErase \/ DiscoPutRemoved \/ DiscoDrop
    \/ LeaveProcessPacket \/ PutData \/ LeaveReceive

SendThread ==
    \/ RunTimeouts \/ DisconnectPeerCommand \/ SendPackets
    \/ \E id \in PeerIds : VisitPeer(id) \/ RemoveDoomed(id)
    \/ \E doom \in BOOLEAN : LeavePeer(doom)
    \/ EndPass \/ SendPutRemoved \/ SendDrop

UserThreads ==
    \/ \E u \in Users, id \in PeerIds : GetPeerAddress(u, id)
    \/ \E u \in Users : GotPeerAddress(u)
    \/ \E o \in Objects : DisconnectPeer(o)

Next == ReceiveThread \/ SendThread \/ UserThreads

Spec == Init /\ [][Next]_vars

-----------------------------------------------------------------------------
(* Properties. *)

(* Every variable has its type. *)
TypeOK ==
    /\ DOMAIN m_peers \subseteq PeerIds
    /\ \A id \in DOMAIN m_peers : m_peers[id] \in Objects
    /\ m_next_remote_peer_id \in PeerIds
    /\ peers \in Seq(Peer)
    /\ helpers \in [Helpers -> Objects \cup {NoPeer}]
    /\ receive \in [pc : {"idle", "lookup", "create", "get", "process",
                          "erase", "removed", "drop", "leave", "data",
                          "release"},
                    address : Addresses, id : PeerIds, disco : BOOLEAN,
                    target : Objects \cup {NoPeer}]
    /\ send \in [pc : {"idle", "visit", "visiting", "removed", "drop"},
                 pass : {"timeouts", "commands", "packets"},
                 todo : SUBSET PeerIds, doomed : SUBSET PeerIds,
                 target : Objects \cup {NoPeer}]
    /\ commands \subseteq PeerIds
    /\ m_event_queue \in Seq([type : {"added", "data", "removed"},
                              id : PeerIds, address : Addresses])
    /\ datagrams \in Nat

(* The peers some thread may still touch: those in the map, those held by  *)
(* a helper, and those deletePeer is about to report and drop.             *)
InMap(o)     == \E id \in DOMAIN m_peers : m_peers[id] = o
Held(o)      == \E h \in Helpers : helpers[h] = o
Removing(o)  == o \in {receive.target, send.target}

(* Peer::Drop and DecUseCount: no thread ever reaches a peer that has been *)
(* deleted, and none is deleted twice, whichever of the send thread's      *)
(* timeout, its pending disconnect and the other side's DISCO comes first. *)
NoUseAfterDelete ==
    \A o \in Objects : /\ InMap(o) \/ Held(o) \/ Removing(o)
                            => peers[o].deletes = 0
                       /\ peers[o].deletes =< 1

(* A peer nobody can reach any more has been deleted: it never stays       *)
(* behind because the last helper was let go before the drop.              *)
NoLeak ==
    \A o \in Objects : InMap(o) \/ Held(o) \/ Removing(o)
                          \/ peers[o].deletes = 1

(* Where the events up to i, and including i, leave a peer of this id: the *)
(* last addition or removal of it.                                         *)
Changes(id, i) == {j \in 1 .. i : /\ m_event_queue[j].id = id
                                  /\ m_event_queue[j].type # "data"}
LastChange(id, i) ==
    m_event_queue[CHOOSE j \in Changes(id, i) :
                     \A k \in Changes(id, i) : k =< j]

(* What the user of the Connection is told makes sense in the order told:  *)
(* a peer is added only while there is none of its id, it is removed once, *)
(* and data comes from the address of the peer that was added last under   *)
(* the id, never before its addition.  (Data may follow the removal.)      *)
(* This needs IdsRestUntilTold.                                            *)
EventsTellTheStory ==
    \A i \in 1 .. Len(m_event_queue) :
       LET e == m_event_queue[i] IN
       CASE e.type = "added" ->
              Changes(e.id, i - 1) # {} =>
                 LastChange(e.id, i - 1).type = "removed"
         [] e.type = "removed" ->
              /\ Changes(e.id, i - 1) # {}
              /\ LastChange(e.id, i - 1) = Event("added", e.id, e.address)
         [] e.type = "data" ->
              /\ Changes(e.id, i - 1) # {}
              /\ LastChange(e.id, i - 1).address = e.address

(* The send thread puts the event of a removal after it has given the lock *)
(* back: meanwhile the id must not come round to a new peer.               *)
IdsRestUntilTold ==
    send.pc = "removed" => peers[send.target].id \notin DOMAIN m_peers

(* receive(): the sender of a datagram without an id is looked up and only *)
(* then created, in two steps; no address ever gets a second peer.         *)
OnePeerPerAddress ==
    \A i, j \in DOMAIN m_peers :
       peers[m_peers[i]].address = peers[m_peers[j]].address => i = j

=============================================================================
