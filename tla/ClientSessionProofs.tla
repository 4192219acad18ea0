-------------------------- MODULE ClientSessionProofs --------------------------
(***************************************************************************)
(* What ClientSession promises of clients and their players, proved for    *)
(* any number of peers, names and users.                                   *)
(*                                                                         *)
(* The invariant has a part for the handshake (who is where in it, with    *)
(* which name, and which of the names are registered), one for the players *)
(* and the clients they belong to, and one for the removals that are still *)
(* to be handled.  A client gets past HelloSent only with a registered     *)
(* name, and only one that was asked to register gets there by             *)
(* registering.                                                            *)
(***************************************************************************)
EXTENDS ClientSession, TLAPS

States == {"Disconnecting", "Denied", "Created", "AwaitingInit2", "HelloSent",
           "InitDone", "DefinitionsSent", "Active", "SudoMode"}
Playing == {"Active", "SudoMode"}
Admitted == {"InitDone", "DefinitionsSent"} \cup Playing
Authenticated == {"AwaitingInit2"} \cup Admitted

Clients == [state : States, name : Names \cup {NoName},
            allowed : {"NONE", "SRP", "FIRST_SRP"}, chosen : {"NONE", "SRP"}]
Players == [name : Names, peer : Peers, leaving : BOOLEAN]
Changes == [type : {"added", "removed"}, peer : Peers]

StateOf(p) == m_clients[p].state
NameOf(p) == m_clients[p].name

-----------------------------------------------------------------------------
(* The invariant. *)

ConnectionTypes ==
    /\ connected \subseteq Peers /\ told \subseteq Peers
    /\ m_event_queue \in Seq(Changes) /\ m_peer_change_queue \in Seq(Changes)

ClientTypes ==
    /\ DOMAIN m_clients \subseteq Peers
    /\ \A p \in DOMAIN m_clients :
          /\ m_clients[p] \in Clients
          /\ StateOf(p) = "HelloSent" => NameOf(p) \in Names
    /\ m_players \subseteq Players
    /\ accounts \subseteq Names
    /\ \/ server \in {Receiving, Stepping}
       \/ server \in [pc : {"joining"}, peer : Peers, form : ReadyForms]

(* Who is past the proof of a password has a registered name, and so has   *)
(* who was asked for a password; nobody else has begun to prove one.       *)
NamesAreRegistered ==
    /\ \A p \in DOMAIN m_clients :
          /\ StateOf(p) \in Authenticated => NameOf(p) \in accounts
          /\ m_clients[p].allowed = "SRP" => NameOf(p) \in accounts
          /\ m_clients[p].chosen # "NONE" => m_clients[p].allowed = "SRP"
    /\ \A player \in m_players : player.name \in accounts

(* Of those who were asked to register a name, one did. *)
Registered(p) == StateOf(p) \in Authenticated /\ m_clients[p].allowed = "FIRST_SRP"
OneRegistered ==
    \A p, q \in DOMAIN m_clients :
       Registered(p) /\ Registered(q) /\ NameOf(p) = NameOf(q) => p = q

(* A player that stays has its client, which was admitted before. *)
PlayersHaveClients ==
    \A player \in m_players : ~ player.leaving =>
       /\ player.peer \in DOMAIN m_clients
       /\ NameOf(player.peer) = player.name
       /\ StateOf(player.peer) \in Admitted \cup Deaf

HasPlayer(p) == \E player \in m_players :
    player.peer = p /\ player.name = NameOf(p) /\ ~ player.leaving

ClientsHavePlayers ==
    /\ \A p \in DOMAIN m_clients : StateOf(p) \in Playing => HasPlayer(p)
    /\ server.pc = "joining" => HasPlayer(server.peer)

OnePlayerEach ==
    \A a, b \in m_players : a.name = b.name \/ a.peer = b.peer => a = b

SeatInv == /\ ClientTypes
           /\ NamesAreRegistered /\ OneRegistered
           /\ PlayersHaveClients /\ ClientsHavePlayers /\ OnePlayerEach

(* The news that the server has not handled yet, in order; a client, or    *)
(* one to be created, whose peer is gone is to be removed after that.      *)
News == m_peer_change_queue \o m_event_queue
RemovedAfter(p, i) == \E j \in 1 .. Len(News) :
    j > i /\ News[j] = PeerChange("removed", p)
RemovalsAreComing ==
    /\ \A p \in DOMAIN m_clients \ connected : RemovedAfter(p, 0)
    /\ \A i \in 1 .. Len(News) : \A p \in Peers \ connected :
          News[i] = PeerChange("added", p) => RemovedAfter(p, i)

SessionInv == ConnectionTypes /\ SeatInv /\ RemovalsAreComing

-----------------------------------------------------------------------------
(* Facts about the states of a client. *)

LEMMA RankOf ==
  ASSUME NEW s \in States
  PROVE  Rank(s) \in 1 .. 10 /\ ClientStates[Rank(s)] = s
<1>1. Len(ClientStates) = 10
  BY DEF ClientStates
<1>2. \E r \in 1 .. 10 : ClientStates[r] = s
  <2>1. \E r \in 1 .. 10 : r = 2 \/ r = 3 \/ r = 4 \/ r = 5 \/ r = 6 \/ r = 7
                             \/ r = 8 \/ r = 9 \/ r = 10
    OBVIOUS
  <2>. QED  BY DEF ClientStates, States
<1>. QED  BY <1>1, <1>2 DEF Rank

LEMMA AtLeastFacts ==
  ASSUME ClientTypes, NEW p \in DOMAIN m_clients
  PROVE  /\ AtLeast(p, "InitDone") <=> StateOf(p) \in Admitted
         /\ AtLeast(p, "Active") <=> StateOf(p) \in Playing
<1>1. StateOf(p) \in States
  BY DEF ClientTypes, Clients, StateOf
<1>2. /\ Rank(StateOf(p)) \in 1 .. 10 /\ ClientStates[Rank(StateOf(p))] = StateOf(p)
      /\ Rank("InitDone") \in 1 .. 10 /\ ClientStates[Rank("InitDone")] = "InitDone"
      /\ Rank("Active") \in 1 .. 10 /\ ClientStates[Rank("Active")] = "Active"
  BY <1>1, RankOf DEF States
<1>3. Rank("InitDone") = 7 /\ Rank("Active") = 9
  BY <1>2 DEF ClientStates
<1>4. /\ Rank(StateOf(p)) >= 7 <=> StateOf(p) \in Admitted
      /\ Rank(StateOf(p)) >= 9 <=> StateOf(p) \in Playing
  BY <1>2 DEF ClientStates, Admitted, Playing
<1>. QED  BY <1>3, <1>4 DEF AtLeast, StateOf

LEMMA NextStateFacts ==
  /\ \A s \in Deaf : \A e : NextState(s, e) = s
  /\ \A s \in States \ Deaf : NextState(s, "Disconnect") = "Disconnecting"
  /\ \A s \in States \ Deaf : NextState(s, "SetDenied") = "Denied"
  /\ \A t \in Transitions : NextState(t[1], t[2]) = t[3]
<1>1. ASSUME NEW t \in Transitions PROVE NextState(t[1], t[2]) = t[3]
  <2>1. t[1] \notin Deaf /\ t[2] # "Disconnect" /\ t[2] # "SetDenied"
    BY DEF Transitions, Deaf
  <2>2. NextState(t[1], t[2]) =
          (CHOOSE u \in Transitions : u[1] = t[1] /\ u[2] = t[2])[3]
    BY <2>1 DEF NextState
  <2>3. \A u \in Transitions : u[1] = t[1] /\ u[2] = t[2] => u = t
    BY DEF Transitions
  <2>. QED  BY <2>2, <2>3
<1>. QED  BY <1>1 DEF NextState, Deaf

(* An event changes the state of a client; it may forget the mechanism.    *)
LEMMA NotifiedFacts ==
  ASSUME NEW c \in Clients, NEW e, NextState(c.state, e) \in States
  PROVE  /\ Notified(c, e) \in Clients
         /\ Notified(c, e).state = NextState(c.state, e)
         /\ Notified(c, e).name = c.name /\ Notified(c, e).allowed = c.allowed
         /\ Notified(c, e).chosen \in {"NONE", c.chosen}
BY DEF Notified, Clients

-----------------------------------------------------------------------------
(* Most handlers change one client.  What they may do to it without an     *)
(* effect on the others: keep its name; let it in with a password, or      *)
(* once it has a player; never take it back behind its admission.          *)

MayMove(p, state) ==
    /\ state \in States
    /\ state = "HelloSent" => StateOf(p) = "HelloSent"
    /\ state \in Authenticated =>
          StateOf(p) \in Authenticated \/ m_clients[p].allowed = "SRP"
    /\ state \in Playing => HasPlayer(p)
    /\ StateOf(p) \in Admitted \cup Deaf => state \in Admitted \cup Deaf

Conforms(p, c) ==
    /\ c \in Clients
    /\ c.name = NameOf(p) /\ c.allowed = m_clients[p].allowed
    /\ c.chosen # "NONE" => c.allowed = "SRP"
    /\ MayMove(p, c.state)

LEMMA ClientChanges ==
  ASSUME SeatInv, NEW p \in DOMAIN m_clients, NEW c, Conforms(p, c),
         m_clients' = [m_clients EXCEPT ![p] = c],
         UNCHANGED <<m_players, accounts>>,
         server' = server \/ server' = Receiving
  PROVE  SeatInv' /\ DOMAIN m_clients' = DOMAIN m_clients
<1>1. /\ DOMAIN m_clients' = DOMAIN m_clients
      /\ m_clients'[p] = c
      /\ \A q \in DOMAIN m_clients : q # p => m_clients'[q] = m_clients[q]
  OBVIOUS
<1>2. /\ \A q \in DOMAIN m_clients :
            /\ NameOf(q)' = NameOf(q)
            /\ m_clients'[q].allowed = m_clients[q].allowed
      /\ c \in Clients /\ StateOf(p)' = c.state
      /\ \A q \in DOMAIN m_clients : q # p => StateOf(q)' = StateOf(q)
  BY <1>1 DEF NameOf, StateOf, Conforms
<1>3. ClientTypes'
  BY <1>1, <1>2 DEF SeatInv, ClientTypes, Receiving, Conforms, MayMove
<1>4. \A q \in DOMAIN m_clients : StateOf(q)' \in Authenticated =>
         StateOf(q) \in Authenticated \/ (q = p /\ m_clients[q].allowed = "SRP")
  BY <1>1, <1>2 DEF Conforms, MayMove
<1>5. NamesAreRegistered'
  <2>1. ASSUME NEW q \in DOMAIN m_clients
        PROVE  /\ StateOf(q)' \in Authenticated => NameOf(q)' \in accounts'
               /\ m_clients'[q].allowed = "SRP" => NameOf(q)' \in accounts'
               /\ m_clients'[q].chosen # "NONE" => m_clients'[q].allowed = "SRP"
    BY <1>1, <1>2, <1>4 DEF SeatInv, NamesAreRegistered, Conforms
  <2>. QED  BY <1>1, <2>1 DEF SeatInv, NamesAreRegistered
<1>6. OneRegistered'
  <2>1. \A q \in DOMAIN m_clients : Registered(q)' => Registered(q)
    BY <1>1, <1>2, <1>4 DEF Registered
  <2>. QED  BY <1>1, <1>2, <2>1 DEF SeatInv, OneRegistered
<1>7. PlayersHaveClients'
  BY <1>1, <1>2 DEF SeatInv, PlayersHaveClients, Conforms, MayMove
<1>8. ClientsHavePlayers'
  <2>1. \A q \in DOMAIN m_clients : HasPlayer(q) => HasPlayer(q)'
    BY <1>2 DEF HasPlayer
  <2>2. ASSUME NEW q \in DOMAIN m_clients, StateOf(q)' \in Playing
        PROVE  HasPlayer(q)'
    BY <1>1, <1>2, <2>1, <2>2 DEF SeatInv, ClientsHavePlayers, Conforms, MayMove
  <2>3. ASSUME server'.pc = "joining" PROVE HasPlayer(server.peer)'
    <3>1. server' = server /\ HasPlayer(server.peer)
      BY <2>3 DEF Receiving, SeatInv, ClientsHavePlayers
    <3>2. server.peer \in DOMAIN m_clients
      BY <3>1 DEF HasPlayer, SeatInv, PlayersHaveClients
    <3>. QED  BY <3>1, <3>2, <2>1
  <2>. QED
    BY <1>1, <2>2, <2>3 DEF ClientsHavePlayers, Receiving
<1>9. OnePlayerEach'
  BY DEF SeatInv, OnePlayerEach
<1>. QED  BY <1>1, <1>3, <1>5, <1>6, <1>7, <1>8, <1>9 DEF SeatInv

(* An event, to a client or to none. *)
LEMMA EventChanges ==
  ASSUME SeatInv, NEW p, NEW e, Event(p, e),
         p \in DOMAIN m_clients => MayMove(p, NextState(StateOf(p), e)),
         UNCHANGED <<m_players, accounts>>,
         server' = server \/ server' = Receiving
  PROVE  SeatInv' /\ DOMAIN m_clients' = DOMAIN m_clients
<1>1. CASE p \in DOMAIN m_clients
  <2>. DEFINE c == Notified(m_clients[p], e)
  <2>1. m_clients' = [m_clients EXCEPT ![p] = c]
    BY <1>1 DEF Event
  <2>2. m_clients[p] \in Clients
    BY <1>1 DEF SeatInv, ClientTypes
  <2>3. NextState(m_clients[p].state, e) \in States
    BY <1>1 DEF MayMove, StateOf
  <2>4. /\ c \in Clients /\ c.state = NextState(StateOf(p), e)
        /\ c.name = NameOf(p) /\ c.allowed = m_clients[p].allowed
        /\ c.chosen \in {"NONE", m_clients[p].chosen}
    BY <2>2, <2>3, NotifiedFacts DEF StateOf, NameOf
  <2>5. Conforms(p, c)
    BY <1>1, <2>4 DEF Conforms, SeatInv, NamesAreRegistered
  <2>. QED  BY <1>1, <2>1, <2>5, ClientChanges
<1>2. CASE p \notin DOMAIN m_clients
  <2>1. m_clients' = m_clients
    BY <1>2 DEF Event
  <2>2. ClientsHavePlayers'
    BY <2>1 DEF SeatInv, ClientsHavePlayers, HasPlayer, NameOf, StateOf, Receiving
  <2>. QED  BY <2>1, <2>2 DEF SeatInv, ClientTypes, NamesAreRegistered,
              OneRegistered, Registered, PlayersHaveClients, OnePlayerEach,
              StateOf, NameOf, Receiving
<1>. QED  BY <1>1, <1>2

(* A client that is denied or disconnected. *)
LEMMA EndsQuietly ==
  ASSUME SeatInv, NEW p, NEW e \in {"SetDenied", "Disconnect"}, Event(p, e),
         UNCHANGED <<m_players, accounts>>,
         server' = server \/ server' = Receiving
  PROVE  SeatInv' /\ DOMAIN m_clients' = DOMAIN m_clients
<1>1. ASSUME p \in DOMAIN m_clients PROVE MayMove(p, NextState(StateOf(p), e))
  <2>1. StateOf(p) \in States
    BY <1>1 DEF SeatInv, ClientTypes, Clients, StateOf
  <2>2. NextState(StateOf(p), e) \in Deaf
    BY <2>1, NextStateFacts DEF Deaf
  <2>. QED  BY <2>2 DEF MayMove, Deaf, States, Authenticated, Admitted, Playing
<1>. QED  BY <1>1, EventChanges

(* The news that is left as it is. *)
LEMMA NewsFrame ==
  ASSUME ConnectionTypes, RemovalsAreComing,
         DOMAIN m_clients' \subseteq DOMAIN m_clients,
         UNCHANGED <<connected, told, m_event_queue, m_peer_change_queue>>
  PROVE  ConnectionTypes' /\ RemovalsAreComing'
BY DEF ConnectionTypes, RemovalsAreComing, RemovedAfter, News

-----------------------------------------------------------------------------
(* The queues: news at their end, from one to the other, and handled. *)

LEMMA NewsAppended ==
  ASSUME NEW S, NEW a \in Seq(S), NEW b \in Seq(S), NEW x \in S
  PROVE  /\ Append(b, x) \in Seq(S)
         /\ Len(a \o Append(b, x)) = Len(a \o b) + 1 /\ Len(a \o b) \in Nat
         /\ (a \o Append(b, x))[Len(a \o b) + 1] = x
         /\ \A i \in 1 .. Len(a \o b) : (a \o Append(b, x))[i] = (a \o b)[i]
OBVIOUS

LEMMA NewsMoved ==
  ASSUME NEW S, NEW a \in Seq(S), NEW b \in Seq(S), b # <<>>
  PROVE  /\ Append(a, Head(b)) \in Seq(S) /\ Tail(b) \in Seq(S) /\ Head(b) \in S
         /\ Append(a, Head(b)) \o Tail(b) = a \o b
<1>. DEFINE c == Append(a, Head(b)) \o Tail(b)
<1>1. Append(a, Head(b)) \in Seq(S) /\ Tail(b) \in Seq(S) /\ Head(b) \in S
  OBVIOUS
<1>2. c \in Seq(S) /\ a \o b \in Seq(S) /\ Len(c) = Len(a \o b)
  BY <1>1
<1>3. \A i \in 1 .. Len(c) : c[i] = (a \o b)[i]
  BY <1>1
<1>. QED  BY <1>1, <1>2, <1>3

LEMMA NewsHandled ==
  ASSUME NEW S, NEW a \in Seq(S), NEW b \in Seq(S), a # <<>>
  PROVE  /\ Tail(a) \in Seq(S) /\ Head(a) \in S
         /\ Len(Tail(a) \o b) = Len(a \o b) - 1 /\ Len(a \o b) \in Nat \ {0}
         /\ (a \o b)[1] = Head(a)
         /\ \A i \in 1 .. Len(a \o b) - 1 : (Tail(a) \o b)[i] = (a \o b)[i + 1]
<1>1. Tail(a) \in Seq(S) /\ Head(a) \in S /\ Len(a) \in Nat \ {0}
      /\ Len(Tail(a)) = Len(a) - 1 /\ Len(b) \in Nat
  OBVIOUS
<1>2. \A i \in 1 .. Len(a) - 1 : Tail(a)[i] = a[i + 1]
  OBVIOUS
<1>. QED  BY <1>1, <1>2

-----------------------------------------------------------------------------
(* The steps. *)

(* Those that leave clients, players and accounts alone. *)
LEMMA SeatFrame ==
  ASSUME SeatInv, UNCHANGED <<m_clients, m_players, accounts>>,
         server' = server \/ server' \in {Receiving, Stepping}
  PROVE  SeatInv'
<1>1. ClientsHavePlayers'
  BY DEF SeatInv, ClientsHavePlayers, HasPlayer, NameOf, StateOf, Receiving, Stepping
<1>. QED  BY <1>1 DEF SeatInv, ClientTypes, NamesAreRegistered, OneRegistered,
            Registered, PlayersHaveClients, OnePlayerEach, StateOf, NameOf,
            Receiving, Stepping

LEMMA InitInv == Init => SessionInv
<1>. SUFFICES ASSUME Init PROVE SessionInv
  OBVIOUS
<1>1. /\ DOMAIN m_clients = {} /\ m_players = {} /\ accounts = {}
      /\ server = Receiving /\ connected = {} /\ told = {}
      /\ m_event_queue = <<>> /\ m_peer_change_queue = <<>> /\ Len(News) = 0
  BY DEF Init, News
<1>2. ConnectionTypes
  BY <1>1 DEF ConnectionTypes
<1>3. SeatInv
  BY <1>1 DEF SeatInv, ClientTypes, NamesAreRegistered, OneRegistered,
     PlayersHaveClients, ClientsHavePlayers, OnePlayerEach, Receiving
<1>4. RemovalsAreComing
  BY <1>1 DEF RemovalsAreComing
<1>. QED  BY <1>2, <1>3, <1>4 DEF SessionInv

(* A peer joins or leaves. *)
LEMMA ConnectionStep ==
  ASSUME SessionInv, NEW p \in Peers, PeerJoins(p) \/ PeerLeaves(p)
  PROVE  SessionInv'
<1>. USE DEF SessionInv
<1>1. PICK type \in {"added", "removed"} :
        /\ m_event_queue' = Append(m_event_queue, PeerChange(type, p))
        /\ type = "added" => connected' = connected \cup {p}
        /\ type = "removed" => connected' = connected \ {p}
  BY DEF PeerJoins, PeerLeaves
<1>2. /\ m_peer_change_queue' = m_peer_change_queue
      /\ UNCHANGED <<m_clients, m_players, accounts, server, told>>
  BY DEF PeerJoins, PeerLeaves
<1>3. PeerChange(type, p) \in Changes
  BY DEF PeerChange, Changes
<1>4. /\ m_event_queue' \in Seq(Changes)
      /\ Len(News)' = Len(News) + 1 /\ Len(News) \in Nat
      /\ News'[Len(News) + 1] = PeerChange(type, p)
      /\ \A i \in 1 .. Len(News) : News'[i] = News[i]
  BY <1>1, <1>2, <1>3, NewsAppended DEF ConnectionTypes, News
<1>5. ConnectionTypes'
  BY <1>1, <1>2, <1>4 DEF ConnectionTypes
<1>6. \A q \in Peers, i \in 0 .. Len(News) : RemovedAfter(q, i) => RemovedAfter(q, i)'
  BY <1>4 DEF RemovedAfter
<1>7. \A i \in 0 .. Len(News) : type = "removed" => RemovedAfter(p, i)'
  BY <1>4 DEF RemovedAfter
<1>8. DOMAIN m_clients \subseteq Peers
  BY DEF SeatInv, ClientTypes
<1>9. ASSUME NEW q \in DOMAIN m_clients' \ connected'
      PROVE  RemovedAfter(q, 0)'
  BY <1>1, <1>2, <1>4, <1>6, <1>7, <1>8 DEF RemovalsAreComing
<1>10. ASSUME NEW i \in 1 .. Len(News)', NEW q \in Peers \ connected',
              News'[i] = PeerChange("added", q)
       PROVE  RemovedAfter(q, i)'
  <2>1. CASE i = Len(News) + 1
    <3>1. type = "added" /\ q = p
      BY <1>4, <1>10, <2>1 DEF PeerChange
    <3>. QED  BY <1>1, <3>1
  <2>2. CASE i # Len(News) + 1
    <3>1. i \in 1 .. Len(News) /\ News[i] = PeerChange("added", q)
      BY <1>4, <1>10, <2>2
    <3>. QED  BY <1>1, <1>6, <1>7, <3>1 DEF RemovalsAreComing
  <2>. QED  BY <2>1, <2>2
<1>11. RemovalsAreComing'
  BY <1>9, <1>10 DEF RemovalsAreComing
<1>. QED  BY <1>2, <1>5, <1>11, SeatFrame

(* The server receives an addition or a removal. *)
LEMMA ReceiveStep ==
  ASSUME SessionInv, ReceivePeerAdded \/ ReceivePeerRemoved
  PROVE  SessionInv'
<1>. USE DEF SessionInv
<1>1. /\ m_event_queue # <<>> /\ m_event_queue' = Tail(m_event_queue)
      /\ m_peer_change_queue' = Append(m_peer_change_queue, Head(m_event_queue))
      /\ UNCHANGED <<connected, m_players, accounts, server>>
      /\ told' \in {told, told \cup {Head(m_event_queue).peer}}
  BY DEF ReceivePeerAdded, ReceivePeerRemoved
<1>2. /\ m_event_queue' \in Seq(Changes) /\ m_peer_change_queue' \in Seq(Changes)
      /\ Head(m_event_queue) \in Changes /\ News' = News
  BY <1>1, NewsMoved DEF ConnectionTypes, News
<1>3. ConnectionTypes'
  BY <1>1, <1>2 DEF ConnectionTypes, Changes
<1>4. SeatInv' /\ DOMAIN m_clients' = DOMAIN m_clients
  <2>1. CASE ReceivePeerAdded
    <3>1. m_clients' = m_clients
      BY <2>1 DEF ReceivePeerAdded
    <3>. QED  BY <1>1, <3>1, SeatFrame
  <2>2. CASE ReceivePeerRemoved
    <3>1. Event(Head(m_event_queue).peer, "Disconnect")
      BY <2>2 DEF ReceivePeerRemoved
    <3>. QED  BY <1>1, <3>1, EndsQuietly
  <2>. QED  BY <2>1, <2>2
<1>5. RemovalsAreComing'
  BY <1>1, <1>2, <1>4 DEF RemovalsAreComing, RemovedAfter
<1>. QED  BY <1>3, <1>4, <1>5

(* A client is created when its addition is handled, without a name. *)
LEMMA ClientIsCreated ==
  ASSUME SeatInv, NEW p \in Peers, CreateClient(p),
         UNCHANGED <<m_players, accounts, server>>, server = Stepping
  PROVE  SeatInv' /\ DOMAIN m_clients' = DOMAIN m_clients \cup {p}
<1>1. /\ DOMAIN m_clients' = DOMAIN m_clients \cup {p}
      /\ \A q \in DOMAIN m_clients : m_clients'[q] = m_clients[q]
      /\ p \notin DOMAIN m_clients => m_clients'[p] = NewClient
  BY DEF CreateClient
<1>2. /\ \A q \in DOMAIN m_clients :
            StateOf(q)' = StateOf(q) /\ NameOf(q)' = NameOf(q)
      /\ p \notin DOMAIN m_clients => StateOf(p)' = "Created"
  BY <1>1 DEF StateOf, NameOf, NewClient
<1>3. NewClient \in Clients
  BY DEF NewClient, Clients, States
<1>4. ClientTypes'
  BY <1>1, <1>2, <1>3 DEF SeatInv, ClientTypes
<1>5. NamesAreRegistered'
  <2>1. ASSUME NEW q \in DOMAIN m_clients'
        PROVE  /\ StateOf(q)' \in Authenticated => NameOf(q)' \in accounts'
               /\ m_clients'[q].allowed = "SRP" => NameOf(q)' \in accounts'
               /\ m_clients'[q].chosen # "NONE" => m_clients'[q].allowed = "SRP"
    BY <1>1, <1>2 DEF SeatInv, NamesAreRegistered, NewClient,
       Authenticated, Admitted, Playing
  <2>. QED  BY <2>1 DEF SeatInv, NamesAreRegistered
<1>6. OneRegistered'
  <2>1. \A q \in DOMAIN m_clients' : Registered(q)' => q \in DOMAIN m_clients /\ Registered(q)
    BY <1>1, <1>2 DEF Registered, NewClient, Authenticated, Admitted, Playing
  <2>. QED  BY <1>2, <2>1 DEF SeatInv, OneRegistered
<1>7. PlayersHaveClients'
  BY <1>1, <1>2 DEF SeatInv, PlayersHaveClients
<1>8. ClientsHavePlayers'
  <2>1. \A q \in DOMAIN m_clients' : StateOf(q)' \in Playing =>
           q \in DOMAIN m_clients /\ StateOf(q) \in Playing
    BY <1>1, <1>2 DEF Playing
  <2>. QED  BY <1>2, <2>1 DEF SeatInv, ClientsHavePlayers, HasPlayer, Stepping
<1>9. OnePlayerEach'
  BY DEF SeatInv, OnePlayerEach
<1>. QED  BY <1>1, <1>4, <1>5, <1>6, <1>7, <1>8, <1>9 DEF SeatInv

(* A client is deleted; its player, if it has one, begins to leave. *)
LEMMA ClientIsDeleted ==
  ASSUME SeatInv, NEW p, DeleteClient(p),
         UNCHANGED <<accounts, server>>, server = Stepping
  PROVE  SeatInv' /\ DOMAIN m_clients' = DOMAIN m_clients \ {p}
<1>. DEFINE Left(player) == IF player.peer = p THEN [player EXCEPT !.leaving = TRUE]
                            ELSE player
<1>1. /\ DOMAIN m_clients' = DOMAIN m_clients \ {p}
      /\ \A q \in DOMAIN m_clients' : m_clients'[q] = m_clients[q]
  BY DEF DeleteClient
<1>2. \A q \in DOMAIN m_clients' : StateOf(q)' = StateOf(q) /\ NameOf(q)' = NameOf(q)
  BY <1>1 DEF StateOf, NameOf
<1>3. m_players' = {Left(player) : player \in m_players}
  BY DEF DeleteClient
<1>4. \A player \in m_players :
         /\ Left(player) \in Players
         /\ Left(player).name = player.name /\ Left(player).peer = player.peer
         /\ ~ Left(player).leaving => Left(player) = player /\ player.peer # p
         /\ player.peer # p => Left(player) = player
  BY DEF SeatInv, ClientTypes, Players
<1>. HIDE DEF Left
<1>5. ClientTypes'
  BY <1>1, <1>2, <1>3, <1>4 DEF SeatInv, ClientTypes
<1>6. NamesAreRegistered'
  <2>1. \A q \in DOMAIN m_clients' :
           /\ StateOf(q)' \in Authenticated => NameOf(q)' \in accounts'
           /\ m_clients'[q].allowed = "SRP" => NameOf(q)' \in accounts'
           /\ m_clients'[q].chosen # "NONE" => m_clients'[q].allowed = "SRP"
    BY <1>1, <1>2 DEF SeatInv, NamesAreRegistered
  <2>. QED  BY <1>3, <1>4, <2>1 DEF SeatInv, NamesAreRegistered
<1>7. OneRegistered'
  BY <1>1, <1>2 DEF SeatInv, OneRegistered, Registered
<1>8. PlayersHaveClients'
  BY <1>1, <1>2, <1>3, <1>4 DEF SeatInv, PlayersHaveClients
<1>9. ClientsHavePlayers'
  <2>1. ASSUME NEW q \in DOMAIN m_clients', HasPlayer(q) PROVE HasPlayer(q)'
    <3>1. PICK player \in m_players :
             player.peer = q /\ player.name = NameOf(q) /\ ~ player.leaving
      BY <2>1 DEF HasPlayer
    <3>2. player \in m_players'
      BY <1>1, <1>3, <1>4, <3>1
    <3>. QED  BY <1>2, <3>1, <3>2 DEF HasPlayer
  <2>. QED  BY <1>1, <1>2, <2>1 DEF SeatInv, ClientsHavePlayers, Stepping
<1>10. OnePlayerEach'
  BY <1>3, <1>4 DEF SeatInv, OnePlayerEach
<1>. QED  BY <1>1, <1>5, <1>6, <1>7, <1>8, <1>9, <1>10 DEF SeatInv

LEMMA PeerChangeStep == ASSUME SessionInv, HandlePeerChange PROVE SessionInv'
<1>. USE DEF SessionInv
<1>. DEFINE change == Head(m_peer_change_queue)
            p == change.peer
<1>1. /\ server = Stepping /\ m_peer_change_queue # <<>>
      /\ m_peer_change_queue' = Tail(m_peer_change_queue)
      /\ UNCHANGED <<connected, m_event_queue, told, accounts, server>>
  BY DEF HandlePeerChange, connection
<1>2. \/ change.type = "added" /\ CreateClient(p) /\ UNCHANGED m_players
      \/ change.type = "removed" /\ DeleteClient(p)
  BY DEF HandlePeerChange
<1>3. /\ m_peer_change_queue' \in Seq(Changes) /\ change \in Changes
      /\ Len(News)' = Len(News) - 1 /\ Len(News) \in Nat \ {0}
      /\ News[1] = change
      /\ \A i \in 1 .. Len(News) - 1 : News'[i] = News[i + 1]
  BY <1>1, NewsHandled DEF ConnectionTypes, News
<1>4. p \in Peers /\ change.type \in {"added", "removed"}
      /\ change = PeerChange(change.type, p)
  BY <1>3 DEF Changes, PeerChange
<1>5. ConnectionTypes'
  BY <1>1, <1>3 DEF ConnectionTypes
<1>6. ASSUME NEW q, NEW k \in 0 .. Len(News) - 1, NEW i, i = k + 1, RemovedAfter(q, i)
      PROVE  RemovedAfter(q, k)'
  <2>1. PICK j \in 1 .. Len(News) : j > i /\ News[j] = PeerChange("removed", q)
    BY <1>6 DEF RemovedAfter
  <2>2. j - 1 \in 1 .. Len(News) - 1 /\ j - 1 > k /\ j - 1 + 1 = j
    BY <1>3, <1>6, <2>1
  <2>3. News'[j - 1] = PeerChange("removed", q)
    BY <1>3, <2>1, <2>2
  <2>. QED  BY <1>3, <2>2, <2>3 DEF RemovedAfter, PeerChange
<1>7. ASSUME NEW q, RemovedAfter(q, 0), change # PeerChange("removed", q)
      PROVE  RemovedAfter(q, 0)'
  <2>1. PICK j \in 1 .. Len(News) : j > 0 /\ News[j] = PeerChange("removed", q)
    BY <1>7 DEF RemovedAfter
  <2>2. j # 1
    BY <1>3, <1>7, <2>1
  <2>3. 0 \in 0 .. Len(News) - 1 /\ 1 = 0 + 1 /\ RemovedAfter(q, 1)
    BY <1>3, <2>1, <2>2 DEF RemovedAfter
  <2>. QED  BY <1>6, <2>3
<1>8. \A i \in 1 .. Len(News)' : \A q \in Peers \ connected' :
         News'[i] = PeerChange("added", q) => RemovedAfter(q, i)'
  <2>1. SUFFICES ASSUME NEW i \in 1 .. Len(News)', NEW q \in Peers \ connected',
                        News'[i] = PeerChange("added", q)
                 PROVE  RemovedAfter(q, i)'
    OBVIOUS
  <2>2. /\ i \in 0 .. Len(News) - 1 /\ i + 1 \in 1 .. Len(News)
        /\ News[i + 1] = PeerChange("added", q)
    BY <1>3, <2>1
  <2>3. RemovedAfter(q, i + 1)
    BY <1>1, <2>2 DEF RemovalsAreComing
  <2>. QED  BY <1>6, <2>2, <2>3
<1>9. CASE change.type = "added"
  <2>1. CreateClient(p) /\ UNCHANGED m_players
    BY <1>2, <1>9
  <2>2. SeatInv' /\ DOMAIN m_clients' = DOMAIN m_clients \cup {p}
    BY <1>1, <1>4, <2>1, ClientIsCreated
  <2>3. ASSUME NEW q \in DOMAIN m_clients' \ connected' PROVE RemovedAfter(q, 0)'
    <3>1. CASE q = p
      <4>1. 1 \in 1 .. Len(News) /\ News[1] = PeerChange("added", p)
        BY <1>3, <1>4, <1>9
      <4>2. RemovedAfter(p, 1)
        BY <1>1, <1>4, <2>3, <3>1, <4>1 DEF RemovalsAreComing
      <4>3. 0 \in 0 .. Len(News) - 1 /\ 1 = 0 + 1
        BY <1>3
      <4>. QED  BY <1>6, <3>1, <4>2, <4>3
    <3>2. CASE q # p
      <4>1. RemovedAfter(q, 0)
        BY <1>1, <2>2, <2>3, <3>2 DEF RemovalsAreComing
      <4>2. change # PeerChange("removed", q)
        BY <1>9 DEF PeerChange
      <4>. QED  BY <1>7, <4>1, <4>2
    <3>. QED  BY <3>1, <3>2
  <2>. QED  BY <1>5, <1>8, <2>2, <2>3 DEF RemovalsAreComing
<1>10. CASE change.type = "removed"
  <2>1. DeleteClient(p)
    BY <1>2, <1>10
  <2>2. SeatInv' /\ DOMAIN m_clients' = DOMAIN m_clients \ {p}
    BY <1>1, <2>1, ClientIsDeleted
  <2>3. ASSUME NEW q \in DOMAIN m_clients' \ connected' PROVE RemovedAfter(q, 0)'
    <3>1. RemovedAfter(q, 0) /\ q # p
      BY <1>1, <2>2, <2>3 DEF RemovalsAreComing
    <3>2. change # PeerChange("removed", q)
      BY <3>1 DEF PeerChange
    <3>. QED  BY <1>7, <3>1, <3>2
  <2>. QED  BY <1>5, <1>8, <2>2, <2>3 DEF RemovalsAreComing
<1>. QED  BY <1>4, <1>9, <1>10

(* Players that are leaving are let go. *)
LEMMA EnvironmentStep ==
  ASSUME SessionInv, NEW gone \in SUBSET m_players, StepEnvironment(gone)
  PROVE  SessionInv'
<1>. USE DEF SessionInv
<1>1. /\ m_players' = m_players \ gone /\ \A player \in gone : player.leaving
      /\ server' = Receiving
      /\ UNCHANGED <<connected, m_event_queue, told, m_peer_change_queue,
                     m_clients, accounts>>
  BY DEF StepEnvironment, connection
<1>2. \A p : HasPlayer(p) => HasPlayer(p)'
  BY <1>1 DEF HasPlayer, NameOf
<1>3. ClientsHavePlayers'
  BY <1>1, <1>2 DEF SeatInv, ClientsHavePlayers, StateOf, Receiving
<1>4. SeatInv'
  BY <1>1, <1>3 DEF SeatInv, ClientTypes, NamesAreRegistered, OneRegistered,
     Registered, PlayersHaveClients, OnePlayerEach, StateOf, NameOf
<1>. QED  BY <1>1, <1>4, NewsFrame

-----------------------------------------------------------------------------
(* The commands of the handshake, and the start of the game. *)

LEMMA TransitionFacts ==
  /\ NextState("Created", "Hello") = "HelloSent"
  /\ NextState("HelloSent", "AuthAccept") = "AwaitingInit2"
  /\ NextState("AwaitingInit2", "GotInit2") = "InitDone"
  /\ NextState("InitDone", "SetDefinitionsSent") = "DefinitionsSent"
  /\ NextState("DefinitionsSent", "SetClientReady") = "Active"
  /\ NextState("Active", "SudoSuccess") = "SudoMode"
  /\ NextState("SudoMode", "SudoLeave") = "Active"
<1>1. \A a, b, c : <<a, b, c>> \in Transitions => NextState(a, b) = c
  <2>1. ASSUME NEW a, NEW b, NEW c, <<a, b, c>> \in Transitions
        PROVE  NextState(a, b) = c
    <3>1. NextState(<<a, b, c>>[1], <<a, b, c>>[2]) = <<a, b, c>>[3]
      BY <2>1, NextStateFacts
    <3>. QED  BY <3>1
  <2>. QED  BY <2>1
<1>. QED  BY <1>1 DEF Transitions

(* Where an accepted event leads from. *)
LEMMA AcceptedFacts ==
  ASSUME NEW p \in DOMAIN m_clients, StateOf(p) \notin Deaf
  PROVE  /\ Accepts(p, "GotInit2") => StateOf(p) = "AwaitingInit2"
         /\ Accepts(p, "SetClientReady") => StateOf(p) = "DefinitionsSent"
BY DEF Accepts, Transitions, StateOf

LEMMA StaysPut ==
  ASSUME SeatInv, NEW p \in DOMAIN m_clients
  PROVE  MayMove(p, StateOf(p)) /\ m_clients[p] \in Clients
BY DEF SeatInv, ClientTypes, ClientsHavePlayers, MayMove, StateOf, Clients

(* A handler that does nothing. *)
LEMMA NothingDone ==
  ASSUME SeatInv, UNCHANGED <<m_clients, m_players, accounts, server>>
  PROVE  SeatInv' /\ DOMAIN m_clients' = DOMAIN m_clients
BY SeatFrame

LEMMA InitStep ==
  ASSUME SeatInv, NEW p \in Peers, NEW name \in Names, NEW refused,
         CommandInit(p, name, refused)
  PROVE  SeatInv' /\ DOMAIN m_clients' = DOMAIN m_clients
<1>1. /\ p \in DOMAIN m_clients /\ StateOf(p) = "Created"
      /\ server = Receiving /\ UNCHANGED <<m_players, accounts, server>>
  BY DEF CommandInit, InState, Handles, StateOf
<1>2. CASE DenyAccess(p)
  BY <1>1, <1>2, EndsQuietly DEF DenyAccess
<1>3. CASE ~ DenyAccess(p)
  <2>. DEFINE c == [m_clients[p] EXCEPT
                      !.state = "HelloSent", !.name = name,
                      !.allowed = IF name \in accounts THEN "SRP" ELSE "FIRST_SRP",
                      !.chosen = "NONE"]
  <2>1. m_clients[p] \in Clients
    BY <1>1, StaysPut
  <2>2. /\ c \in Clients /\ c.state = "HelloSent" /\ c.name = name
        /\ c.allowed = IF name \in accounts THEN "SRP" ELSE "FIRST_SRP"
        /\ c.chosen = "NONE"
    BY <2>1 DEF Clients, States
  <2>3. m_clients' = [m_clients EXCEPT ![p] = c]
    <3>1. NextState(m_clients[p].state, "Hello") = "HelloSent"
      BY <1>1, TransitionFacts DEF StateOf
    <3>. QED  BY <1>1, <1>3, <2>1, <3>1 DEF CommandInit, Clients
  <2>. HIDE DEF c
  <2>4. /\ DOMAIN m_clients' = DOMAIN m_clients /\ m_clients'[p] = c
        /\ \A q \in DOMAIN m_clients : q # p =>
              /\ m_clients'[q] = m_clients[q]
              /\ StateOf(q)' = StateOf(q) /\ NameOf(q)' = NameOf(q)
        /\ StateOf(p)' = "HelloSent"
    BY <1>1, <2>2, <2>3 DEF StateOf, NameOf
  <2>5. ClientTypes'
    <3>1. NameOf(p)' \in Names
      BY <2>2, <2>4 DEF NameOf
    <3>. QED  BY <1>1, <2>2, <2>4, <3>1 DEF SeatInv, ClientTypes
  <2>6. NamesAreRegistered'
    <3>1. "HelloSent" \notin Authenticated
      BY DEF Authenticated, Admitted, Playing
    <3>2. ASSUME NEW q \in DOMAIN m_clients
          PROVE  /\ StateOf(q)' \in Authenticated => NameOf(q)' \in accounts'
                 /\ m_clients'[q].allowed = "SRP" => NameOf(q)' \in accounts'
                 /\ m_clients'[q].chosen # "NONE" => m_clients'[q].allowed = "SRP"
      <4>1. CASE q = p
        BY <1>1, <2>2, <2>4, <3>1, <4>1 DEF NameOf
      <4>2. CASE q # p
        BY <1>1, <2>4, <4>2 DEF SeatInv, NamesAreRegistered
      <4>. QED  BY <4>1, <4>2
    <3>. QED  BY <1>1, <2>4, <3>2 DEF SeatInv, NamesAreRegistered
  <2>7. OneRegistered'
    <3>1. \A q \in DOMAIN m_clients : Registered(q)' => q # p /\ Registered(q)
      BY <2>4 DEF Registered, Authenticated, Admitted, Playing
    <3>. QED  BY <2>4, <3>1 DEF SeatInv, OneRegistered
  <2>8. \A player \in m_players : ~ player.leaving => player.peer # p
    BY <1>1 DEF SeatInv, PlayersHaveClients, Admitted, Playing, Deaf
  <2>9. PlayersHaveClients'
    BY <1>1, <2>4, <2>8 DEF SeatInv, PlayersHaveClients
  <2>10. ClientsHavePlayers'
    <3>1. \A q \in DOMAIN m_clients : q # p /\ HasPlayer(q) => HasPlayer(q)'
      BY <1>1, <2>4 DEF HasPlayer
    <3>. QED  BY <1>1, <2>4, <3>1 DEF SeatInv, ClientsHavePlayers, Playing, Receiving
  <2>11. OnePlayerEach'
    BY <1>1 DEF SeatInv, OnePlayerEach
  <2>. QED  BY <2>4, <2>5, <2>6, <2>7, <2>9, <2>10, <2>11 DEF SeatInv
<1>. QED  BY <1>2, <1>3

LEMMA RegisterStep ==
  ASSUME SeatInv, NEW p \in Peers, FirstSrpRegisters(p)
  PROVE  SeatInv' /\ DOMAIN m_clients' = DOMAIN m_clients
<1>1. /\ p \in DOMAIN m_clients /\ StateOf(p) = "HelloSent"
      /\ server = Receiving /\ UNCHANGED <<m_players, server>>
  BY DEF FirstSrpRegisters, InState, Handles, StateOf
<1>2. CASE ~ MayRegister(p)
  BY <1>1, <1>2, EndsQuietly DEF FirstSrpRegisters, DenyAccess
<1>3. CASE MayRegister(p)
  <2>. DEFINE c == Notified(m_clients[p], "AuthAccept")
  <2>1. /\ accounts' = accounts \cup {NameOf(p)} /\ NameOf(p) \notin accounts
        /\ m_clients' = [m_clients EXCEPT ![p] = c]
        /\ m_clients[p].allowed = "FIRST_SRP"
    BY <1>1, <1>3 DEF FirstSrpRegisters, MayRegister, Event, NameOf
  <2>2. m_clients[p] \in Clients
    BY <1>1, StaysPut
  <2>3. /\ c \in Clients /\ c.state = "AwaitingInit2" /\ c.name = NameOf(p)
        /\ c.allowed = "FIRST_SRP" /\ c.chosen \in {"NONE", m_clients[p].chosen}
    BY <1>1, <2>1, <2>2, NotifiedFacts, TransitionFacts DEF StateOf, NameOf, States
  <2>. HIDE DEF c
  <2>4. /\ DOMAIN m_clients' = DOMAIN m_clients /\ m_clients'[p] = c
        /\ StateOf(p)' = "AwaitingInit2"
        /\ \A q \in DOMAIN m_clients : NameOf(q)' = NameOf(q)
        /\ \A q \in DOMAIN m_clients : q # p =>
              m_clients'[q] = m_clients[q] /\ StateOf(q)' = StateOf(q)
    BY <1>1, <2>1, <2>3 DEF StateOf, NameOf
  <2>5. ClientTypes'
    <3>1. NameOf(p) \in Names
      BY <1>1 DEF SeatInv, ClientTypes
    <3>. QED  BY <1>1, <2>1, <2>3, <2>4, <3>1 DEF SeatInv, ClientTypes
  <2>6. NamesAreRegistered'
    BY <1>1, <2>1, <2>3, <2>4 DEF SeatInv, NamesAreRegistered
  <2>7. OneRegistered'
    <3>1. \A q \in DOMAIN m_clients : q # p /\ Registered(q)' =>
             Registered(q) /\ NameOf(q) # NameOf(p)
      BY <1>1, <2>1, <2>4 DEF Registered, SeatInv, NamesAreRegistered
    <3>. QED  BY <2>4, <3>1 DEF SeatInv, OneRegistered
  <2>8. PlayersHaveClients'
    BY <1>1, <2>4 DEF SeatInv, PlayersHaveClients, Admitted, Playing, Deaf
  <2>9. ClientsHavePlayers'
    <3>1. \A q \in DOMAIN m_clients : HasPlayer(q) => HasPlayer(q)'
      BY <1>1, <2>4 DEF HasPlayer
    <3>. QED  BY <1>1, <2>4, <3>1 DEF SeatInv, ClientsHavePlayers, Playing, Receiving
  <2>10. OnePlayerEach'
    BY <1>1 DEF SeatInv, OnePlayerEach
  <2>. QED  BY <2>4, <2>5, <2>6, <2>7, <2>8, <2>9, <2>10 DEF SeatInv
<1>. QED  BY <1>2, <1>3

LEMMA PasswordStep ==
  ASSUME SeatInv, NEW p \in Peers, FirstSrpChangesPassword(p)
  PROVE  SeatInv' /\ DOMAIN m_clients' = DOMAIN m_clients
<1>1. /\ p \in DOMAIN m_clients /\ StateOf(p) = "SudoMode"
      /\ Event(p, "SudoLeave") /\ UNCHANGED <<m_players, accounts, server>>
  BY DEF FirstSrpChangesPassword, InState, StateOf
<1>2. NextState(StateOf(p), "SudoLeave") = "Active" /\ HasPlayer(p)
  BY <1>1, TransitionFacts DEF SeatInv, ClientsHavePlayers, Playing
<1>3. MayMove(p, "Active")
  BY <1>1, <1>2 DEF MayMove, States, Authenticated, Admitted, Playing
<1>. QED  BY <1>1, <1>2, <1>3, EventChanges

LEMMA SrpBytesAStep ==
  ASSUME SeatInv, NEW p \in Peers, NEW mech \in {"SRP", "LEGACY_PASSWORD"},
         NEW safe, SrpBytesA(p, mech, safe)
  PROVE  SeatInv' /\ DOMAIN m_clients' = DOMAIN m_clients
<1>1. p \in DOMAIN m_clients /\ UNCHANGED <<m_players, accounts, server>>
  BY DEF SrpBytesA, InState
<1>2. \/ DenyAccess(p) \/ UNCHANGED m_clients
      \/ /\ m_clients[p].allowed = mech
         /\ m_clients' = [m_clients EXCEPT ![p].chosen = "SRP"]
  BY DEF SrpBytesA
<1>3. CASE DenyAccess(p)
  BY <1>1, <1>3, EndsQuietly DEF DenyAccess
<1>4. CASE UNCHANGED m_clients
  BY <1>1, <1>4, NothingDone
<1>5. CASE /\ m_clients[p].allowed = mech
           /\ m_clients' = [m_clients EXCEPT ![p].chosen = "SRP"]
  <2>. DEFINE c == [m_clients[p] EXCEPT !.chosen = "SRP"]
  <2>1. m_clients[p] \in Clients /\ MayMove(p, StateOf(p))
    BY <1>1, StaysPut
  <2>2. c.allowed = "SRP"
    BY <1>5, <2>1 DEF Clients
  <2>3. Conforms(p, c)
    BY <2>1, <2>2 DEF Conforms, Clients, NameOf, StateOf
  <2>4. m_clients' = [m_clients EXCEPT ![p] = c]
    BY <1>5
  <2>. QED  BY <1>1, <2>3, <2>4, ClientChanges
<1>. QED  BY <1>2, <1>3, <1>4, <1>5

LEMMA SrpBytesMStep ==
  ASSUME SeatInv, NEW p \in Peers, NEW proof \in {"right", "wrong", "of wrong length"},
         SrpBytesM(p, proof)
  PROVE  SeatInv' /\ DOMAIN m_clients' = DOMAIN m_clients
<1>1. /\ p \in DOMAIN m_clients /\ UNCHANGED <<m_players, accounts, server>>
      /\ StateOf(p) = "HelloSent" \/ StateOf(p) = "Active"
  BY DEF SrpBytesM, InState, StateOf
<1>2. m_clients[p] \in Clients /\ MayMove(p, StateOf(p))
  BY <1>1, StaysPut
<1>3. \/ DenyAccess(p) \/ UNCHANGED m_clients
      \/ m_clients' = [m_clients EXCEPT ![p].chosen = "NONE"]
      \/ /\ m_clients[p].chosen # "NONE"
         /\ Event(p, IF StateOf(p) = "Active" THEN "SudoSuccess" ELSE "AuthAccept")
  <2>1. CASE m_clients[p].chosen = "NONE"
    BY <2>1 DEF SrpBytesM
  <2>2. CASE m_clients[p].chosen # "NONE" /\ proof = "of wrong length"
    BY <2>2 DEF SrpBytesM
  <2>3. CASE m_clients[p].chosen # "NONE" /\ proof = "wrong"
    BY <2>3 DEF SrpBytesM
  <2>4. CASE m_clients[p].chosen # "NONE" /\ proof = "right"
    BY <2>4 DEF SrpBytesM, StateOf
  <2>. QED  BY <2>1, <2>2, <2>3, <2>4
<1>4. CASE DenyAccess(p)
  BY <1>1, <1>4, EndsQuietly DEF DenyAccess
<1>5. CASE UNCHANGED m_clients
  BY <1>1, <1>5, NothingDone
<1>6. CASE m_clients' = [m_clients EXCEPT ![p].chosen = "NONE"]
  <2>. DEFINE c == [m_clients[p] EXCEPT !.chosen = "NONE"]
  <2>1. Conforms(p, c)
    BY <1>2 DEF Conforms, Clients, NameOf, StateOf
  <2>2. m_clients' = [m_clients EXCEPT ![p] = c]
    BY <1>6
  <2>. QED  BY <1>1, <2>1, <2>2, ClientChanges
<1>7. CASE /\ m_clients[p].chosen # "NONE"
           /\ Event(p, IF StateOf(p) = "Active" THEN "SudoSuccess" ELSE "AuthAccept")
  <2>1. CASE StateOf(p) = "Active"
    <3>1. NextState(StateOf(p), "SudoSuccess") = "SudoMode" /\ HasPlayer(p)
      BY <1>1, <2>1, TransitionFacts DEF SeatInv, ClientsHavePlayers, Playing
    <3>2. MayMove(p, "SudoMode")
      BY <2>1, <3>1 DEF MayMove, States, Authenticated, Admitted, Playing
    <3>. QED  BY <1>1, <1>7, <2>1, <3>1, <3>2, EventChanges
  <2>2. CASE StateOf(p) = "HelloSent"
    <3>1. NextState(StateOf(p), "AuthAccept") = "AwaitingInit2"
      BY <2>2, TransitionFacts
    <3>2. m_clients[p].allowed = "SRP"
      BY <1>1, <1>7 DEF SeatInv, NamesAreRegistered
    <3>3. MayMove(p, "AwaitingInit2")
      BY <2>2, <3>2 DEF MayMove, States, Authenticated, Admitted, Playing, Deaf
    <3>4. Event(p, "AuthAccept")
      BY <1>7, <2>2
    <3>. QED  BY <1>1, <3>1, <3>3, <3>4, EventChanges
  <2>. QED  BY <1>1, <2>1, <2>2
<1>. QED  BY <1>3, <1>4, <1>5, <1>6, <1>7

LEMMA Init2Step ==
  ASSUME SeatInv, NEW p \in Peers, NEW complete, CommandInit2(p, complete)
  PROVE  SeatInv' /\ DOMAIN m_clients' = DOMAIN m_clients
<1>1. p \in DOMAIN m_clients /\ UNCHANGED <<m_players, accounts, server>>
  BY DEF CommandInit2
<1>2. CASE ~ Accepts(p, "GotInit2")
  BY <1>1, <1>2, EndsQuietly DEF CommandInit2, DenyAccess
<1>3. CASE Accepts(p, "GotInit2")
  <2>. DEFINE got == Notified(m_clients[p], "GotInit2")
              done == Notified(got, "SetDefinitionsSent")
              c == IF complete THEN done ELSE got
  <2>1. m_clients' = [m_clients EXCEPT ![p] = c]
    BY <1>1, <1>3 DEF CommandInit2
  <2>2. m_clients[p] \in Clients /\ MayMove(p, StateOf(p))
    BY <1>1, StaysPut
  <2>3. CASE StateOf(p) \in Deaf
    <3>1. got.state = StateOf(p) /\ got \in Clients
          /\ got.name = NameOf(p) /\ got.allowed = m_clients[p].allowed
          /\ got.chosen \in {"NONE", m_clients[p].chosen}
      BY <2>2, <2>3, NextStateFacts, NotifiedFacts DEF StateOf, NameOf, MayMove
    <3>2. done.state = StateOf(p) /\ done \in Clients
          /\ done.name = NameOf(p) /\ done.allowed = m_clients[p].allowed
          /\ done.chosen \in {"NONE", m_clients[p].chosen}
      <4>1. NextState(got.state, "SetDefinitionsSent") = StateOf(p)
        BY <2>3, <3>1, NextStateFacts
      <4>2. NextState(got.state, "SetDefinitionsSent") \in States
        BY <4>1, <2>2 DEF MayMove
      <4>. HIDE DEF got
      <4>. QED  BY <3>1, <4>1, <4>2, NotifiedFacts
    <3>. HIDE DEF got, done
    <3>3. Conforms(p, c)
      BY <1>1, <2>2, <3>1, <3>2 DEF Conforms, SeatInv, NamesAreRegistered
    <3>. QED  BY <1>1, <2>1, <3>3, ClientChanges
  <2>4. CASE StateOf(p) \notin Deaf
    <3>1. StateOf(p) = "AwaitingInit2"
      BY <1>1, <1>3, <2>4, AcceptedFacts
    <3>2. got.state = "InitDone" /\ got \in Clients
          /\ got.name = NameOf(p) /\ got.allowed = m_clients[p].allowed
          /\ got.chosen \in {"NONE", m_clients[p].chosen}
      BY <2>2, <3>1, TransitionFacts, NotifiedFacts DEF StateOf, NameOf, States
    <3>3. done.state = "DefinitionsSent" /\ done \in Clients
          /\ done.name = NameOf(p) /\ done.allowed = m_clients[p].allowed
          /\ done.chosen \in {"NONE", m_clients[p].chosen}
      <4>1. NextState(got.state, "SetDefinitionsSent") = "DefinitionsSent"
        BY <3>2, TransitionFacts
      <4>. HIDE DEF got
      <4>. QED  BY <3>2, <4>1, NotifiedFacts DEF States
    <3>. HIDE DEF got, done
    <3>4. \A state \in {"InitDone", "DefinitionsSent"} : MayMove(p, state)
      BY <3>1 DEF MayMove, States, Authenticated, Admitted, Playing
    <3>5. Conforms(p, c)
      BY <1>1, <3>2, <3>3, <3>4 DEF Conforms, SeatInv, NamesAreRegistered
    <3>. QED  BY <1>1, <2>1, <3>5, ClientChanges
  <2>. QED  BY <2>3, <2>4
<1>. QED  BY <1>2, <1>3

LEMMA KickStep ==
  ASSUME SeatInv, NEW p \in Peers, Kick(p)
  PROVE  SeatInv' /\ DOMAIN m_clients' = DOMAIN m_clients
BY EndsQuietly DEF Kick, DenyAccess

(* CLIENT_READY makes the player: the name and the peer are free. *)
LEMMA ClientReadyStep ==
  ASSUME SeatInv, NEW p \in Peers, NEW form \in ReadyForms,
         CommandClientReady(p, form)
  PROVE  SeatInv' /\ DOMAIN m_clients' = DOMAIN m_clients
<1>1. /\ p \in DOMAIN m_clients /\ StateOf(p) \in Admitted
      /\ UNCHANGED accounts
  <2>1. p \in DOMAIN m_clients /\ AtLeast(p, "InitDone") /\ UNCHANGED accounts
    BY DEF CommandClientReady, AtLeast
  <2>. QED  BY <2>1, AtLeastFacts DEF SeatInv
<1>2. CASE Taken(p)
  BY <1>1, <1>2, EndsQuietly DEF CommandClientReady, DenyAccess
<1>3. CASE ~ Taken(p)
  <2>. DEFINE new == [name |-> NameOf(p), peer |-> p, leaving |-> FALSE]
  <2>1. /\ m_players' = m_players \cup {new} /\ m_clients' = m_clients
        /\ server' = Joining(p, form)
    BY <1>3 DEF CommandClientReady, NameOf
  <2>2. NameOf(p) \in accounts /\ accounts \subseteq Names
    BY <1>1 DEF SeatInv, NamesAreRegistered, ClientTypes, Authenticated
  <2>3. /\ new \in Players /\ new.name = NameOf(p) /\ new.peer = p
        /\ ~ new.leaving
        /\ \A player \in m_players : player.name # NameOf(p) /\ player.peer # p
    BY <1>3, <2>2 DEF Players, Taken, NameOf
  <2>. HIDE DEF new
  <2>4. ClientTypes'
    BY <1>1, <2>1, <2>3 DEF SeatInv, ClientTypes, Joining, StateOf, NameOf
  <2>5. NamesAreRegistered' /\ OneRegistered'
    BY <1>1, <2>1, <2>2, <2>3
       DEF SeatInv, NamesAreRegistered, OneRegistered, Registered, StateOf, NameOf
  <2>6. PlayersHaveClients'
    BY <1>1, <2>1, <2>3 DEF SeatInv, PlayersHaveClients, StateOf, NameOf
  <2>7. HasPlayer(p)' /\ \A q : HasPlayer(q) => HasPlayer(q)'
    BY <2>1, <2>3 DEF HasPlayer, NameOf
  <2>8. ClientsHavePlayers'
    BY <2>1, <2>7 DEF SeatInv, ClientsHavePlayers, StateOf, Joining
  <2>9. OnePlayerEach'
    BY <2>1, <2>3 DEF SeatInv, OnePlayerEach
  <2>. QED  BY <2>1, <2>4, <2>5, <2>6, <2>8, <2>9 DEF SeatInv
<1>. QED  BY <1>2, <1>3

(* The player is there when the client becomes active. *)
LEMMA JoinsGameStep ==
  ASSUME SeatInv, JoinsGame
  PROVE  SeatInv' /\ DOMAIN m_clients' = DOMAIN m_clients
<1>. DEFINE p == server.peer
<1>1. /\ server.pc = "joining" /\ server' = Receiving
      /\ UNCHANGED <<m_players, accounts>>
  BY DEF JoinsGame
<1>2. HasPlayer(p) /\ p \in DOMAIN m_clients
  BY <1>1 DEF SeatInv, ClientsHavePlayers, PlayersHaveClients, HasPlayer
<1>3. \/ UNCHANGED m_clients \/ DenyAccess(p)
      \/ Accepts(p, "SetClientReady") /\ Event(p, "SetClientReady")
  <2>1. server.form \in ReadyForms
    BY <1>1 DEF SeatInv, ClientTypes, Receiving, Stepping
  <2>2. CASE p \notin connected \/ server.form = "truncated"
    BY <2>2 DEF JoinsGame
  <2>3. CASE p \in connected /\ server.form = "short"
    BY <2>3 DEF JoinsGame
  <2>4. CASE p \in connected /\ server.form = "complete"
    BY <2>4 DEF JoinsGame
  <2>. QED  BY <2>1, <2>2, <2>3, <2>4 DEF ReadyForms
<1>4. CASE UNCHANGED m_clients
  BY <1>1, <1>4, SeatFrame
<1>5. CASE DenyAccess(p)
  BY <1>1, <1>5, EndsQuietly DEF DenyAccess
<1>6. CASE Accepts(p, "SetClientReady") /\ Event(p, "SetClientReady")
  <2>1. MayMove(p, StateOf(p))
    BY <1>2, StaysPut
  <2>2. MayMove(p, NextState(StateOf(p), "SetClientReady"))
    <3>1. CASE StateOf(p) \in Deaf
      BY <2>1, <3>1, NextStateFacts
    <3>2. CASE StateOf(p) \notin Deaf
      <4>1. StateOf(p) = "DefinitionsSent"
        BY <1>2, <1>6, <3>2, AcceptedFacts
      <4>2. NextState(StateOf(p), "SetClientReady") = "Active"
        BY <4>1, TransitionFacts
      <4>. QED  BY <1>2, <4>1, <4>2
                DEF MayMove, States, Authenticated, Admitted, Playing
    <3>. QED  BY <3>1, <3>2
  <2>. QED  BY <1>1, <1>6, <2>2, EventChanges
<1>. QED  BY <1>3, <1>4, <1>5, <1>6

LEMMA SessionStep == SessionInv /\ [Next]_vars => SessionInv'
<1>. SUFFICES ASSUME SessionInv, [Next]_vars PROVE SessionInv'
  OBVIOUS
<1>. USE DEF SessionInv
<1>1. CASE \E p \in Peers : PeerJoins(p) \/ PeerLeaves(p)
  BY <1>1, ConnectionStep
<1>2. CASE Commands
  <2>1. PICK p \in Peers :
          \/ \E name \in Names, refused \in BOOLEAN : CommandInit(p, name, refused)
          \/ FirstSrpRegisters(p) \/ FirstSrpChangesPassword(p)
          \/ \E mech \in {"SRP", "LEGACY_PASSWORD"}, safe \in BOOLEAN :
                SrpBytesA(p, mech, safe)
          \/ \E proof \in {"right", "wrong", "of wrong length"} : SrpBytesM(p, proof)
          \/ \E complete \in BOOLEAN : CommandInit2(p, complete)
          \/ \E form \in ReadyForms : CommandClientReady(p, form)
          \/ Kick(p)
    BY <1>2 DEF Commands
  <2>2. SeatInv' /\ DOMAIN m_clients' = DOMAIN m_clients
    BY <2>1, InitStep, RegisterStep, PasswordStep, SrpBytesAStep, SrpBytesMStep,
       Init2Step, ClientReadyStep, KickStep
  <2>3. UNCHANGED <<connected, told, m_event_queue, m_peer_change_queue>>
    <3>1. Handles(p)
      BY <2>1 DEF CommandInit, FirstSrpRegisters, FirstSrpChangesPassword,
         SrpBytesA, SrpBytesM, CommandInit2, CommandClientReady, Kick
    <3>. QED  BY <3>1 DEF Handles, connection
  <2>. QED  BY <2>2, <2>3, NewsFrame
<1>3. CASE ReceivePeerAdded \/ ReceivePeerRemoved
  BY <1>3, ReceiveStep
<1>4. CASE JoinsGame
  <2>1. UNCHANGED <<connected, told, m_event_queue, m_peer_change_queue>>
    BY <1>4 DEF JoinsGame, connection
  <2>. QED  BY <1>4, <2>1, JoinsGameStep, NewsFrame
<1>5. CASE AsyncRunStep
  <2>1. /\ UNCHANGED <<connected, told, m_event_queue, m_peer_change_queue,
                       m_clients, m_players, accounts>>
        /\ server' = Stepping
    BY <1>5 DEF AsyncRunStep, connection
  <2>. QED  BY <2>1, SeatFrame, NewsFrame
<1>6. CASE HandlePeerChange
  BY <1>6, PeerChangeStep
<1>7. CASE \E gone \in SUBSET m_players : StepEnvironment(gone)
  BY <1>7, EnvironmentStep
<1>8. CASE UNCHANGED vars
  BY <1>8, SeatFrame, NewsFrame DEF vars
<1>. QED
  BY <1>1, <1>2, <1>3, <1>4, <1>5, <1>6, <1>7, <1>8 DEF Next, ServerThread

LEMMA InvAlways == Spec => []SessionInv
BY InitInv, SessionStep, PTL DEF Spec

-----------------------------------------------------------------------------
(* The theorems. *)

(* An active client has a player, of its own name, that is not leaving.    *)
THEOREM ActiveAlwaysHasPlayer == Spec => []ActiveHasPlayer
<1>1. SessionInv => ActiveHasPlayer
  <2>. SUFFICES ASSUME SessionInv, NEW p \in DOMAIN m_clients, AtLeast(p, "Active")
                PROVE  HasPlayer(p)
    BY DEF ActiveHasPlayer, HasPlayer, NameOf
  <2>. QED  BY AtLeastFacts DEF SessionInv, SeatInv, ClientsHavePlayers
<1>. QED  BY <1>1, InvAlways, PTL

(* A player that is not leaving belongs to a client of its name.           *)
THEOREM PlayerAlwaysHasClient == Spec => []PlayerHasClient
<1>1. SessionInv => PlayerHasClient
  BY DEF SessionInv, SeatInv, PlayersHaveClients, PlayerHasClient, NameOf
<1>. QED  BY <1>1, InvAlways, PTL

(* The removal of a client whose peer is gone is still to be handled.      *)
THEOREM GoneClientIsAlwaysRemoved == Spec => []GoneClientIsRemoved
<1>1. SessionInv => GoneClientIsRemoved
  BY DEF SessionInv, RemovalsAreComing, RemovedAfter, News, GoneClientIsRemoved
<1>. QED  BY <1>1, InvAlways, PTL

(* One of the clients that were asked to register a name did, and nobody   *)
(* plays without an account.                                               *)
THEOREM RegisteredOnlyOnce == Spec => []RegisteredOnce
<1>1. SessionInv => RegisteredOnce
  <2>. SUFFICES ASSUME SessionInv PROVE RegisteredOnce
    OBVIOUS
  <2>1. \A p \in DOMAIN m_clients : LoggedIn(p) => StateOf(p) \in Authenticated
    BY AtLeastFacts DEF SessionInv, SeatInv, LoggedIn, InState, StateOf, Authenticated
  <2>. QED  BY <2>1 DEF SessionInv, SeatInv, NamesAreRegistered, OneRegistered,
              Registered, RegisteredOnce, NameOf
<1>. QED  BY <1>1, InvAlways, PTL

-----------------------------------------------------------------------------
(* The players are seats of NameSeats. *)

SeatOf(players, name) ==
    IF \E player \in players : player.name = name
    THEN (CHOOSE player \in players : player.name = name).peer
    ELSE "nobody"

seat == [name \in Names |-> SeatOf(m_players, name)]

LEMMA SeatFacts ==
  ASSUME NEW players,
         \A a, b \in players : a.name = b.name \/ a.peer = b.peer => a = b,
         NEW name
  PROVE  /\ \A player \in players :
               player.name = name => SeatOf(players, name) = player.peer
         /\ (\A player \in players : player.name # name)
               => SeatOf(players, name) = "nobody"
BY DEF SeatOf

LEMMA SeatsInit == Init => Seats!Init
<1>1. ASSUME Init, NEW name PROVE SeatOf(m_players, name) = "nobody"
  BY <1>1 DEF Init, SeatOf
<1>. QED  BY <1>1 DEF Seats!Init, SeatOf

(* What becomes of the players. *)
LEMMA PlayersChange ==
  ASSUME SessionInv, [Next]_vars
  PROVE  \/ UNCHANGED m_players
         \/ \E p \in Peers : /\ p \in DOMAIN m_clients /\ NameOf(p) \in Names
                             /\ ~ Taken(p)
                             /\ m_players' = m_players \cup
                                  {[name |-> NameOf(p), peer |-> p, leaving |-> FALSE]}
         \/ \E gone \in SUBSET m_players : m_players' = m_players \ gone
         \/ \E p : DeleteClient(p)
<1>1. CASE \E p \in Peers, form \in ReadyForms : CommandClientReady(p, form)
  <2>1. PICK p \in Peers, form \in ReadyForms : CommandClientReady(p, form)
    BY <1>1
  <2>2. p \in DOMAIN m_clients /\ AtLeast(p, "InitDone")
    BY <2>1 DEF CommandClientReady, AtLeast
  <2>3. NameOf(p) \in Names
    BY <2>2, AtLeastFacts DEF SessionInv, SeatInv, NamesAreRegistered, ClientTypes,
       Authenticated
  <2>. QED  BY <2>1, <2>2, <2>3 DEF CommandClientReady, NameOf
<1>2. CASE HandlePeerChange
  BY <1>2 DEF HandlePeerChange
<1>3. CASE \E gone \in SUBSET m_players : StepEnvironment(gone)
  BY <1>3 DEF StepEnvironment
<1>4. CASE \/ \E p \in Peers : PeerJoins(p) \/ PeerLeaves(p)
           \/ ReceivePeerAdded \/ ReceivePeerRemoved \/ JoinsGame \/ AsyncRunStep
           \/ UNCHANGED vars
  BY <1>4 DEF PeerJoins, PeerLeaves, ReceivePeerAdded, ReceivePeerRemoved,
     JoinsGame, AsyncRunStep, vars
<1>5. CASE /\ Commands
           /\ ~ \E p \in Peers, form \in ReadyForms : CommandClientReady(p, form)
  BY <1>5 DEF Commands, CommandInit, FirstSrpRegisters, FirstSrpChangesPassword,
     SrpBytesA, SrpBytesM, CommandInit2, Kick
<1>. QED  BY <1>1, <1>2, <1>3, <1>4, <1>5 DEF Next, ServerThread

LEMMA SeatsStep ==
  ASSUME SessionInv, SessionInv', [Next]_vars
  PROVE  [Seats!Next]_seat
<1>1. /\ \A a, b \in m_players : a.name = b.name \/ a.peer = b.peer => a = b
      /\ \A a, b \in m_players' : a.name = b.name \/ a.peer = b.peer => a = b
      /\ m_players \subseteq Players
  BY DEF SessionInv, SeatInv, OnePlayerEach, ClientTypes
<1>2. /\ seat = [name \in Names |-> SeatOf(m_players, name)]
      /\ seat' = [name \in Names |-> SeatOf(m_players', name)]
  BY DEF seat, SeatOf
<1>3. /\ \A player \in m_players : SeatOf(m_players, player.name) = player.peer
      /\ \A name : (\A player \in m_players : player.name # name)
                      => SeatOf(m_players, name) = "nobody"
  BY <1>1, SeatFacts
<1>4. /\ \A player \in m_players' : SeatOf(m_players', player.name) = player.peer
      /\ \A name : (\A player \in m_players' : player.name # name)
                      => SeatOf(m_players', name) = "nobody"
  BY <1>1, SeatFacts
<1>5. CASE UNCHANGED m_players
  BY <1>2, <1>5
<1>6. CASE \E p \in Peers : /\ p \in DOMAIN m_clients /\ NameOf(p) \in Names
                            /\ ~ Taken(p)
                            /\ m_players' = m_players \cup
                                 {[name |-> NameOf(p), peer |-> p, leaving |-> FALSE]}
  <2>1. PICK p \in Peers : /\ NameOf(p) \in Names /\ ~ Taken(p)
                           /\ m_players' = m_players \cup
                                {[name |-> NameOf(p), peer |-> p, leaving |-> FALSE]}
    BY <1>6
  <2>2. \A player \in m_players : player.name # NameOf(p) /\ player.peer # p
    BY <2>1 DEF Taken, NameOf
  <2>3. SeatOf(m_players, NameOf(p)) = "nobody" /\ SeatOf(m_players', NameOf(p)) = p
    BY <1>3, <1>4, <2>1, <2>2
  <2>4. ASSUME NEW name \in Names, name # NameOf(p)
        PROVE  /\ SeatOf(m_players', name) = SeatOf(m_players, name)
               /\ SeatOf(m_players, name) # p
    <3>1. CASE \E player \in m_players : player.name = name
      BY <1>3, <1>4, <2>1, <2>2, <3>1
    <3>2. CASE \A player \in m_players : player.name # name
      <4>1. \A player \in m_players' : player.name # name
        BY <2>1, <2>4, <3>2
      <4>. QED  BY <1>3, <1>4, <3>2, <4>1, SessionAssumption
    <3>. QED  BY <3>1, <3>2
  <2>5. \A name \in Names : SeatOf(m_players, name) # p
    BY <2>3, <2>4, SessionAssumption
  <2>6. /\ seat[NameOf(p)] = "nobody"
        /\ \A other \in Names : seat[other] # p
        /\ seat' = [seat EXCEPT ![NameOf(p)] = p]
    BY <1>2, <2>1, <2>3, <2>4, <2>5
  <2>7. \E name \in Names, q \in Peers :
           /\ seat[name] = "nobody"
           /\ \A other \in Names : seat[other] # q
           /\ seat' = [seat EXCEPT ![name] = q]
    BY <2>1, <2>6
  <2>. QED  BY <2>7 DEF Seats!Next, Seats!Take, seat, SeatOf
<1>7. CASE \E gone \in SUBSET m_players : m_players' = m_players \ gone
  <2>1. PICK gone \in SUBSET m_players : m_players' = m_players \ gone
    BY <1>7
  <2>. DEFINE names == {player.name : player \in gone}
  <2>2. names \in SUBSET Names
    BY <1>1, <2>1 DEF Players
  <2>3. ASSUME NEW name \in Names
        PROVE  SeatOf(m_players', name) = IF name \in names THEN "nobody"
                                          ELSE SeatOf(m_players, name)
    <3>1. CASE name \in names
      <4>1. \A player \in m_players' : player.name # name
        BY <1>1, <2>1, <3>1
      <4>. QED  BY <1>4, <3>1, <4>1
    <3>2. CASE name \notin names /\ \E player \in m_players : player.name = name
      BY <1>3, <1>4, <2>1, <3>2
    <3>3. CASE \A player \in m_players : player.name # name
      BY <1>3, <1>4, <2>1, <3>3
    <3>. QED  BY <3>1, <3>2, <3>3
  <2>4. seat' = [name \in Names |-> IF name \in names THEN "nobody" ELSE seat[name]]
    BY <1>2, <2>3
  <2>5. Seats!Leave(names)
    BY <2>4 DEF Seats!Leave, seat, SeatOf
  <2>. QED  BY <2>2, <2>5 DEF Seats!Next
<1>8. CASE \E p : DeleteClient(p)
  <2>1. PICK p : DeleteClient(p)
    BY <1>8
  <2>2. m_players' = {IF player.peer = p THEN [player EXCEPT !.leaving = TRUE]
                      ELSE player : player \in m_players}
    BY <2>1 DEF DeleteClient
  <2>3. /\ \A player \in m_players : \E left \in m_players' :
              left.name = player.name /\ left.peer = player.peer
        /\ \A left \in m_players' : \E player \in m_players :
              left.name = player.name /\ left.peer = player.peer
    <3>1. \A player \in m_players :
             LET left == IF player.peer = p THEN [player EXCEPT !.leaving = TRUE]
                         ELSE player
             IN  /\ left \in m_players'
                 /\ left.name = player.name /\ left.peer = player.peer
      BY <1>1, <2>2 DEF Players
    <3>. QED  BY <2>2, <3>1
  <2>4. \A name \in Names : SeatOf(m_players', name) = SeatOf(m_players, name)
    <3>1. SUFFICES ASSUME NEW name \in Names
                   PROVE  SeatOf(m_players', name) = SeatOf(m_players, name)
      OBVIOUS
    <3>2. CASE \E player \in m_players : player.name = name
      BY <1>3, <1>4, <2>3, <3>2
    <3>3. CASE \A player \in m_players : player.name # name
      BY <1>3, <1>4, <2>3, <3>3
    <3>. QED  BY <3>2, <3>3
  <2>. QED  BY <1>2, <2>4
<1>. QED  BY <1>5, <1>6, <1>7, <1>8, PlayersChange

(* A name is a seat that one peer takes when it is free: ClientSession     *)
(* implements NameSeats.                                                   *)
THEOREM SeatsAreRespected == Spec => SeatsSpec
<1>1. SessionInv /\ SessionInv' /\ [Next]_vars =>
        [Seats!Next]_[name \in Names |->
                        IF \E player \in m_players : player.name = name
                        THEN (CHOOSE player \in m_players : player.name = name).peer
                        ELSE "nobody"]
  BY SeatsStep DEF seat, SeatOf
<1>. QED
  BY <1>1, SeatsInit, InvAlways, PTL DEF Spec, SeatsSpec, Seats!Spec

=============================================================================
