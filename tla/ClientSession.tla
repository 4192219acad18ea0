----------------------------- MODULE ClientSession -----------------------------
(***************************************************************************)
(* Clients joining and leaving a server: the states of RemoteClient        *)
(* (clientiface.cpp), the handshake commands (serverpackethandler.cpp) and *)
(* the server thread that runs them (server.cpp).                          *)
(*                                                                         *)
(* The Connection tells the server of peers that come and go; the server   *)
(* thread passes the news on through m_peer_change_queue, so that clients  *)
(* are created and deleted in a step, while a removal disconnects the      *)
(* client at once.  A client that is through with the handshake gets a     *)
(* player, which stays until its object is forgotten by all other clients. *)
(* Peers come and go while the server thread is anywhere.                  *)
(***************************************************************************)
EXTENDS Naturals, Sequences, FiniteSets

CONSTANTS
    Peers,          \* peer ids; none is used twice
    Names,          \* player names
    MaxUsers        \* the setting max_users

ASSUME SessionAssumption ==
    /\ MaxUsers \in Nat
    /\ IsFiniteSet(Peers) /\ "nobody" \notin Peers

VARIABLES
    joined,                 \* peers created so far
    connected,              \* peers the Connection has now
    m_event_queue,          \* peer additions and removals to be received
    told,                   \* peers whose addition has been received
    disconnecting,          \* peers DisconnectPeer was called for
    m_peer_change_queue,
    m_clients,              \* peer -> its RemoteClient
    m_players,              \* name, peer, and leaving: disconnected() was called
    accounts,               \* names with an entry in the auth database
    server                  \* where the server thread is

connection == <<joined, connected, m_event_queue>>
vars == <<joined, connected, m_event_queue, told, disconnecting,
          m_peer_change_queue, m_clients, m_players, accounts, server>>

(* ClientState, in the order of the enumeration, and its comparison. *)
ClientStates == <<"Invalid", "Disconnecting", "Denied", "Created",
                  "AwaitingInit2", "HelloSent", "InitDone",
                  "DefinitionsSent", "Active", "SudoMode">>
Rank(state) == CHOOSE r \in 1 .. Len(ClientStates) : ClientStates[r] = state
AtLeast(p, state) ==
    p \in DOMAIN m_clients /\ Rank(m_clients[p].state) >= Rank(state)
InState(p, state) == p \in DOMAIN m_clients /\ m_clients[p].state = state

NoName == "no name"

(* A client: its state, its name, the mechanism it is offered and the one  *)
(* it chose.                                                               *)
NewClient == [state |-> "Created", name |-> NoName,
              allowed |-> "NONE", chosen |-> "NONE"]

PeerChange(type, p) == [type |-> type, peer |-> p]

(* The server thread is in Receive, in handlePeerChanges, or in the middle *)
(* of a client's CLIENT_READY.                                             *)
Receiving == [pc |-> "receive"]
Stepping  == [pc |-> "changes"]
Joining(p, form) == [pc |-> "joining", peer |-> p, form |-> form]

(* What a CLIENT_READY carries: all of it, less than 8 bytes, or less than *)
(* its version string promises.                                            *)
ReadyForms == {"complete", "short", "truncated"}

Init ==
    /\ joined = {} /\ connected = {} /\ told = {} /\ disconnecting = {}
    /\ m_event_queue = <<>> /\ m_peer_change_queue = <<>>
    /\ m_clients = <<>> /\ m_players = {} /\ accounts = {}
    /\ server = Receiving

-----------------------------------------------------------------------------
(* The Connection. *)

PeerJoins(p) ==
    /\ p \notin joined
    /\ joined' = joined \cup {p} /\ connected' = connected \cup {p}
    /\ m_event_queue' = Append(m_event_queue, PeerChange("added", p))
    /\ UNCHANGED <<told, disconnecting, m_peer_change_queue, m_clients,
                   m_players, accounts, server>>

(* The peer times out, says DISCO or was told to disconnect. *)
PeerLeaves(p) ==
    /\ p \in connected
    /\ connected' = connected \ {p}
    /\ m_event_queue' = Append(m_event_queue, PeerChange("removed", p))
    /\ UNCHANGED <<joined, told, disconnecting, m_peer_change_queue, m_clients,
                   m_players, accounts, server>>

-----------------------------------------------------------------------------
(* RemoteClient::notifyEvent. *)

Transitions ==
    { <<"Created", "Hello", "HelloSent">>,
      <<"HelloSent", "AuthAccept", "AwaitingInit2">>,
      <<"AwaitingInit2", "GotInit2", "InitDone">>,
      <<"InitDone", "SetDefinitionsSent", "DefinitionsSent">>,
      <<"DefinitionsSent", "SetClientReady", "Active">>,
      <<"Active", "SudoSuccess", "SudoMode">>,
      <<"SudoMode", "SudoLeave", "Active">> }

Deaf == {"Denied", "Disconnecting"}

(* Any other event in a state that is not deaf is a ClientStateError. *)
Accepts(p, event) ==
    p \in DOMAIN m_clients =>
       \/ m_clients[p].state \in Deaf
       \/ \E t \in Transitions : t[1] = m_clients[p].state /\ t[2] = event

NextState(state, event) ==
    IF state \in Deaf THEN state
    ELSE IF event = "Disconnect" THEN "Disconnecting"
    ELSE IF event = "SetDenied" THEN "Denied"
    ELSE (CHOOSE t \in Transitions : t[1] = state /\ t[2] = event)[3]

(* The events that end an authentication forget its mechanism. *)
Resets(state, event) ==
    \/ event \in {"AuthAccept", "SudoSuccess"} /\ state \notin Deaf
    \/ event = "SetDenied" /\ state = "HelloSent"

Notified(client, event) ==
    [client EXCEPT !.state = NextState(@, event),
                   !.chosen = IF Resets(client.state, event) THEN "NONE" ELSE @]

(* ClientInterface::event: no client, nothing to notify. *)
Event(p, event) ==
    m_clients' = IF p \in DOMAIN m_clients
                 THEN [m_clients EXCEPT ![p] = Notified(@, event)]
                 ELSE m_clients

(* A slip to be caught: told, but not disconnected. *)
DenyAccessOnly(p) == Event(p, "SetDenied") /\ UNCHANGED disconnecting

DenyAccess(p) ==
    /\ Event(p, "SetDenied")
    /\ disconnecting' = disconnecting \cup {p}

-----------------------------------------------------------------------------
(* The server thread: Receive. *)

ReceivePeerAdded ==
    /\ server = Receiving
    /\ m_event_queue # <<>> /\ Head(m_event_queue).type = "added"
    /\ m_event_queue' = Tail(m_event_queue)
    /\ told' = told \cup {Head(m_event_queue).peer}
    /\ m_peer_change_queue' = Append(m_peer_change_queue, Head(m_event_queue))
    /\ UNCHANGED <<joined, connected, disconnecting, m_clients, m_players,
                   accounts, server>>

(* A slip to be caught: the removal of a client that was denied is taken   *)
(* for done.                                                               *)
ReceivePeerRemovedUnlessDenied ==
    /\ server = Receiving
    /\ m_event_queue # <<>> /\ Head(m_event_queue).type = "removed"
    /\ m_event_queue' = Tail(m_event_queue)
    /\ Event(Head(m_event_queue).peer, "Disconnect")
    /\ m_peer_change_queue' =
         IF InState(Head(m_event_queue).peer, "Denied")
         THEN m_peer_change_queue
         ELSE Append(m_peer_change_queue, Head(m_event_queue))
    /\ UNCHANGED <<joined, connected, told, disconnecting, m_players, accounts,
                   server>>

(* deletingPeer: the client is disconnected before the change is handled.  *)
ReceivePeerRemoved ==
    /\ server = Receiving
    /\ m_event_queue # <<>> /\ Head(m_event_queue).type = "removed"
    /\ m_event_queue' = Tail(m_event_queue)
    /\ Event(Head(m_event_queue).peer, "Disconnect")
    /\ m_peer_change_queue' = Append(m_peer_change_queue, Head(m_event_queue))
    /\ UNCHANGED <<joined, connected, told, disconnecting, m_players, accounts,
                   server>>

(* ProcessData: data of p is received after the addition of p, and only    *)
(* handled while the Connection has the peer.                              *)
Handles(p) ==
    /\ server = Receiving
    /\ p \in told \cap connected
    /\ UNCHANGED <<connection, told, m_peer_change_queue>>

(* isUserLimitReached *)
UserLimitReached ==
    Cardinality({p \in DOMAIN m_clients : AtLeast(p, "HelloSent")}) >= MaxUsers

(* Refused for a reason this model leaves out: versions, the name's form,  *)
(* a mod.                                                                  *)
CommandInit(p, name, refused) ==
    /\ Handles(p)
    /\ InState(p, "Created")
    /\ IF refused \/ UserLimitReached
       THEN DenyAccess(p)
       ELSE /\ m_clients' = [m_clients EXCEPT
                  ![p].state = NextState(@, "Hello"), ![p].name = name,
                  ![p].allowed = IF name \in accounts THEN "SRP" ELSE "FIRST_SRP",
                  ![p].chosen = "NONE"]
            /\ UNCHANGED disconnecting
    /\ UNCHANGED <<m_players, accounts, server>>

(* A slip to be caught: nobody can have registered the name meanwhile. *)
MayRegisterUnasked(p) == m_clients[p].allowed = "FIRST_SRP"

MayRegister(p) ==
    /\ m_clients[p].allowed = "FIRST_SRP"
    /\ m_clients[p].name \notin accounts

FirstSrpRegisters(p) ==
    /\ Handles(p) /\ InState(p, "HelloSent")
    /\ IF MayRegister(p)
       THEN /\ accounts' = accounts \cup {m_clients[p].name}
            /\ Event(p, "AuthAccept")
            /\ UNCHANGED disconnecting
       ELSE DenyAccess(p) /\ UNCHANGED accounts
    /\ UNCHANGED <<m_players, server>>

FirstSrpChangesPassword(p) ==
    /\ Handles(p) /\ InState(p, "SudoMode")
    /\ Event(p, "SudoLeave")
    /\ UNCHANGED <<m_players, accounts, server, disconnecting>>

(* SRP_A for a login or for sudo mode; one at a time.  Bytes that fail the *)
(* safety check leave nothing behind.                                      *)
SrpBytesA(p, mech, safe) ==
    /\ Handles(p)
    /\ InState(p, "HelloSent") \/ InState(p, "Active")
    /\ IF /\ m_clients[p].chosen = "NONE"
          /\ m_clients[p].allowed = mech
          /\ safe
       THEN /\ m_clients' = [m_clients EXCEPT ![p].chosen = "SRP"]
            /\ UNCHANGED disconnecting
       ELSE IF m_clients[p].state = "Active"
            THEN UNCHANGED <<m_clients, disconnecting>>
            ELSE DenyAccess(p)
    /\ UNCHANGED <<m_players, accounts, server>>

SrpBytesM(p, proof) ==
    /\ Handles(p)
    /\ InState(p, "HelloSent") \/ InState(p, "Active")
    /\ LET sudo == m_clients[p].state = "Active" IN
       CASE m_clients[p].chosen = "NONE" ->
              IF sudo THEN UNCHANGED <<m_clients, disconnecting>>
                      ELSE DenyAccess(p)
         [] m_clients[p].chosen # "NONE" /\ proof = "of wrong length" ->
              DenyAccess(p)
         [] m_clients[p].chosen # "NONE" /\ proof = "wrong" ->
              IF sudo THEN /\ m_clients' = [m_clients EXCEPT ![p].chosen = "NONE"]
                           /\ UNCHANGED disconnecting
                      ELSE DenyAccess(p)
         [] m_clients[p].chosen # "NONE" /\ proof = "right" ->
              /\ Event(p, IF sudo THEN "SudoSuccess" ELSE "AuthAccept")
              /\ UNCHANGED disconnecting
    /\ UNCHANGED <<m_players, accounts, server>>

(* Definitions are sent and the client is told so in the same handler,     *)
(* unless the packet ends too early.                                       *)
CommandInit2(p, complete) ==
    /\ Handles(p) /\ p \in DOMAIN m_clients
    /\ IF Accepts(p, "GotInit2")
       THEN /\ m_clients' = [m_clients EXCEPT ![p] =
                  LET got == Notified(@, "GotInit2") IN
                  IF complete THEN Notified(got, "SetDefinitionsSent") ELSE got]
            /\ UNCHANGED disconnecting
       ELSE DenyAccess(p)
    /\ UNCHANGED <<m_players, accounts, server>>

(* A slip to be caught: a player that is leaving counts as gone. *)
TakenUnlessLeaving(p) == \E player \in m_players :
    ~ player.leaving /\ (player.name = m_clients[p].name \/ player.peer = p)

(* emergePlayer finds the name or the peer taken as long as the player is  *)
(* in the environment.                                                     *)
Taken(p) == \E player \in m_players :
               player.name = m_clients[p].name \/ player.peer = p

(* CLIENT_READY, up to the player: StageTwoClientInit. *)
CommandClientReady(p, form) ==
    /\ Handles(p)
    /\ AtLeast(p, "InitDone")
    /\ IF Taken(p)
       THEN /\ DenyAccess(p)
            /\ UNCHANGED <<m_players, server>>
       ELSE /\ m_players' = m_players \cup
                 {[name |-> m_clients[p].name, peer |-> p, leaving |-> FALSE]}
            /\ server' = Joining(p, form)
            /\ UNCHANGED <<m_clients, disconnecting>>
    /\ UNCHANGED accounts

(* ... and from there: the peer may have gone meanwhile, or the packet may *)
(* be no good; then the player is there but the client is not active.      *)
JoinsGame ==
    /\ server.pc = "joining"
    /\ LET p == server.peer IN
       CASE p \notin connected \/ server.form = "truncated" ->
              UNCHANGED <<m_clients, disconnecting>>
         [] p \in connected /\ server.form = "short" ->
              disconnecting' = disconnecting \cup {p} /\ UNCHANGED m_clients
         [] p \in connected /\ server.form = "complete" ->
              IF Accepts(p, "SetClientReady")
              THEN Event(p, "SetClientReady") /\ UNCHANGED disconnecting
              ELSE DenyAccess(p)
    /\ server' = Receiving
    /\ UNCHANGED <<connection, told, m_peer_change_queue, m_players, accounts>>

(* A mod, a flood of chat messages or a ban ends an active session. *)
Kick(p) ==
    /\ Handles(p) /\ AtLeast(p, "Active")
    /\ DenyAccess(p)
    /\ UNCHANGED <<m_players, accounts, server>>

-----------------------------------------------------------------------------
(* The server thread: AsyncRunStep. *)

AsyncRunStep ==
    /\ server = Receiving
    /\ server' = Stepping
    /\ UNCHANGED <<connection, told, disconnecting, m_peer_change_queue,
                   m_clients, m_players, accounts>>

CreateClient(p) ==
    m_clients' = [q \in DOMAIN m_clients \cup {p} |->
                    IF q \in DOMAIN m_clients THEN m_clients[q] ELSE NewClient]

(* A slip to be caught: the player of a deleted client stays. *)
DeleteClientOnly(p) ==
    /\ m_clients' = [q \in DOMAIN m_clients \ {p} |-> m_clients[q]]
    /\ UNCHANGED m_players

(* A slip to be caught: the player is found by its name. *)
DeleteClientByName(p) ==
    /\ m_players' = {IF player.name = m_clients[p].name
                     THEN [player EXCEPT !.leaving = TRUE]
                     ELSE player : player \in m_players}
    /\ m_clients' = [q \in DOMAIN m_clients \ {p} |-> m_clients[q]]

DeleteClient(p) ==
    /\ m_players' = {IF player.peer = p THEN [player EXCEPT !.leaving = TRUE]
                     ELSE player : player \in m_players}
    /\ m_clients' = [q \in DOMAIN m_clients \ {p} |-> m_clients[q]]

HandlePeerChange ==
    /\ server = Stepping /\ m_peer_change_queue # <<>>
    /\ m_peer_change_queue' = Tail(m_peer_change_queue)
    /\ LET change == Head(m_peer_change_queue) IN
       \/ /\ change.type = "added"
          /\ CreateClient(change.peer) /\ UNCHANGED m_players
       \/ change.type = "removed" /\ DeleteClient(change.peer)
    /\ UNCHANGED <<connection, told, disconnecting, accounts, server>>

(* removeRemovedObjects: the players whose objects nobody knows any more.  *)
StepEnvironment(gone) ==
    /\ server = Stepping /\ m_peer_change_queue = <<>>
    /\ \A player \in gone : player.leaving
    /\ m_players' = m_players \ gone
    /\ server' = Receiving
    /\ UNCHANGED <<connection, told, disconnecting, m_peer_change_queue,
                   m_clients, accounts>>

-----------------------------------------------------------------------------
Commands ==
    \E p \in Peers :
       \/ \E name \in Names, refused \in BOOLEAN : CommandInit(p, name, refused)
       \/ FirstSrpRegisters(p) \/ FirstSrpChangesPassword(p)
       \/ \E mech \in {"SRP", "LEGACY_PASSWORD"}, safe \in BOOLEAN :
             SrpBytesA(p, mech, safe)
       \/ \E proof \in {"right", "wrong", "of wrong length"} : SrpBytesM(p, proof)
       \/ \E complete \in BOOLEAN : CommandInit2(p, complete)
       \/ \E form \in ReadyForms : CommandClientReady(p, form)
       \/ Kick(p)

ServerThread ==
    \/ ReceivePeerAdded \/ ReceivePeerRemoved
    \/ JoinsGame
    \/ AsyncRunStep \/ HandlePeerChange
    \/ \E gone \in SUBSET m_players : StepEnvironment(gone)

Next ==
    \/ \E p \in Peers : PeerJoins(p) \/ PeerLeaves(p)
    \/ Commands
    \/ ServerThread

Spec == Init /\ [][Next]_vars

(* The threads of the Connection carry out what DisconnectPeer asked for,  *)
(* or the peer times out; Receive returns when the queue is empty, and the *)
(* objects of leaving players are forgotten by the other clients.          *)
Fairness ==
    /\ \A p \in Peers : WF_vars(p \in disconnecting /\ PeerLeaves(p))
    /\ SF_vars(ReceivePeerAdded) /\ SF_vars(ReceivePeerRemoved)
    /\ WF_vars(JoinsGame)
    /\ SF_vars(AsyncRunStep) /\ WF_vars(HandlePeerChange)
    /\ SF_vars(StepEnvironment({player \in m_players : player.leaving}))
    /\ WF_vars(StepEnvironment({}))

FairSpec == Spec /\ Fairness

-----------------------------------------------------------------------------
(* Properties. *)

(* ServerEnvironment::addPlayer dies of a second player of a name or of a  *)
(* peer.  However clients of one name race through the handshake, and      *)
(* however late the player of a client that left is forgotten, the name    *)
(* has one player at a time, which goes before the next one comes.         *)
Seats == INSTANCE NameSeats WITH
    seat <- [name \in Names |->
               IF \E player \in m_players : player.name = name
               THEN (CHOOSE player \in m_players : player.name = name).peer
               ELSE "nobody"]
SeatsSpec == Seats!Spec

(* Everything the server does for an active client looks its player up by  *)
(* the peer: an active client has a player, of its own name, whatever is   *)
(* in the queues.                                                          *)
ActiveHasPlayer ==
    \A p \in DOMAIN m_clients : AtLeast(p, "Active") =>
       \E player \in m_players :
          /\ player.peer = p /\ player.name = m_clients[p].name
          /\ ~ player.leaving

(* No ghosts: a player that is not leaving belongs to a client, so that    *)
(* the removal of the peer will find it, even when the client left in the  *)
(* middle of its CLIENT_READY.                                             *)
PlayerHasClient ==
    \A player \in m_players : ~ player.leaving =>
       /\ player.peer \in DOMAIN m_clients
       /\ m_clients[player.peer].name = player.name

(* A client whose peer is gone is about to be deleted: its removal is in   *)
(* one of the two queues, however late its data was handled.               *)
GoneClientIsRemoved ==
    \A p \in DOMAIN m_clients \ connected :
       \E i \in 1 .. Len(m_peer_change_queue \o m_event_queue) :
          (m_peer_change_queue \o m_event_queue)[i] = PeerChange("removed", p)

(* FIRST_SRP: "It is possible for multiple connections to get this far     *)
(* with the same player name": of those only one registers it, and none    *)
(* plays without an account.                                               *)
LoggedIn(p) == \/ InState(p, "AwaitingInit2")
               \/ AtLeast(p, "InitDone")
RegisteredOnce ==
    /\ \A p, q \in DOMAIN m_clients :
          /\ LoggedIn(p) /\ m_clients[p].allowed = "FIRST_SRP"
          /\ LoggedIn(q) /\ m_clients[q].allowed = "FIRST_SRP"
          /\ m_clients[p].name = m_clients[q].name
          => p = q
    /\ \A player \in m_players : player.name \in accounts

(* DenyAccess: a client that was denied does not stay. *)
DeniedIsDeleted ==
    \A p \in Peers : InState(p, "Denied") ~> p \notin DOMAIN m_clients

(* The seat of a peer that is gone becomes free: its player is removed, at *)
(* whatever point of the handshake the peer left.                          *)
SeatIsFreed ==
    \A p \in Peers :
       (p \in joined \ connected /\ \E player \in m_players : player.peer = p)
          ~> ~ \E player \in m_players : player.peer = p

=============================================================================
