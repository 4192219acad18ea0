--------------------------- MODULE ReliableChannel ---------------------------
(***************************************************************************)
(* One direction of one reliable channel between two peers: the Channel of *)
(* the sending UDPPeer, the datagrams in flight, and the Channel of the    *)
(* receiving UDPPeer (network/connection.cpp, connectionthreads.cpp).      *)
(*                                                                         *)
(* The user thread submits commands; the send thread turns a command into  *)
(* numbered packets, sends them while the window allows and sends again    *)
(* those that time out; the receive threads of the two ends take datagrams *)
(* from the socket, acknowledge, reorder and hand over.  UDP loses,        *)
(* duplicates and reorders.                                                *)
(*                                                                         *)
(* A packet carries the sequence number of the code (seq) and, for the     *)
(* properties only, its unbounded position in the stream (id).  Its        *)
(* payload is log[id + 1]: a chunk of a command, or a control packet.      *)
(***************************************************************************)
EXTENDS PacketBuffer, Sequences, FiniteSets

CONSTANTS
    MinWindow, MaxWindow,   \* MIN_RELIABLE_WINDOW_SIZE, ..._WINDOW_SIZE_SEND
    StartWindow,            \* START_RELIABLE_WINDOW_SIZE
    WindowSteps,            \* the changes UpdateTimers makes to the window
    MaxRequeued,            \* m_max_packets_requeued
    MaxChunks,              \* bound: packets of a command
    MaxCommands,            \* bound: commands submitted
    Sizes,                  \* bound: the packets the n-th command may have
    MaxControl              \* bound: pings and SET_PEER_IDs sent

ASSUME ChannelAssumption ==
    /\ MinWindow \in Nat \ {0} /\ MaxWindow \in Nat
    /\ StartWindow \in MinWindow .. MaxWindow
    /\ WindowSteps \subseteq Int
    /\ MaxRequeued \in Nat /\ MaxChunks \in Nat \ {0}
    /\ MaxCommands \in Nat /\ MaxControl \in Nat
    /\ Sizes \in [1 .. MaxCommands -> SUBSET (1 .. MaxChunks)]

VARIABLES
    \* the sending side
    submitted,               \* how many commands the user has submitted
    queued_commands,         \* commands without sequence numbers yet
    queued_reliables,        \* numbered packets not yet sent
    outgoing_reliables_sent, \* packets sent and not acknowledged
    next_outgoing_seqnum,
    window_size,
    log,                     \* history: the payload of every number taken
    \* the network
    wire,                    \* reliable datagrams in flight
    acks,                    \* acknowledgements in flight
    \* the receiving side
    next_incoming_seqnum,
    incoming_reliables,      \* packets received ahead of their turn
    incoming_splits,         \* chunks of a command not yet complete
    processed,               \* history: the ids processed, in order
    events                   \* the commands handed to the user, in order

sendVars == <<submitted, queued_commands, queued_reliables,
              outgoing_reliables_sent, next_outgoing_seqnum, window_size, log>>
netVars  == <<wire, acks>>
recvVars == <<next_incoming_seqnum, incoming_reliables, incoming_splits,
              processed, events>>
vars == <<sendVars, netVars, recvVars>>

Packet == [seq : SeqNums, id : Nat]

(* The payload of a packet: chunk number `chunk` of the `count` chunks of  *)
(* command cmd.  Control packets carry no command.                         *)
Payload == [cmd : Nat, chunk : Nat, count : Nat \ {0}]
Control == [cmd |-> 0, chunk |-> 0, count |-> 1]
Command == [cmd : Nat, count : Nat \ {0}]

(* makeAutoSplitPacket: the chunks a command is cut into. *)
Chunks(c) == [i \in 1 .. c.count |->
                [cmd |-> c.cmd, chunk |-> i - 1, count |-> c.count]]

Init ==
    /\ submitted = 0
    /\ queued_commands = <<>>
    /\ queued_reliables = <<>>
    /\ outgoing_reliables_sent = {}
    /\ next_outgoing_seqnum = SeqInit
    /\ window_size = StartWindow
    /\ log = <<>>
    /\ wire = {}
    /\ acks = {}
    /\ next_incoming_seqnum = SeqInit
    /\ incoming_reliables = {}
    /\ incoming_splits = {}
    /\ processed = <<>>
    /\ events = <<>>

-----------------------------------------------------------------------------
(* The send thread. *)

(* insert() on the outgoing side counts the window back from the number    *)
(* that will be used next.                                                 *)
OutgoingBase == ToSeq(next_outgoing_seqnum - HalfMod)

(* A slip to be caught: the distance is measured without regard to wrapping. *)
SeqAvailableUnwrapped(seq) ==
    outgoing_reliables_sent # {} =>
       seq - FirstFrom(outgoing_reliables_sent, OutgoingBase).seq =< window_size

(* getOutgoingSequenceNumber: seq may be taken if nothing is unanswered,   *)
(* or the first unanswered number is not further than the window behind.   *)
SeqAvailable(seq) ==
    outgoing_reliables_sent # {} =>
       LET lowest == FirstFrom(outgoing_reliables_sent, OutgoingBase).seq IN
       IF lowest < seq
       THEN seq - lowest =< window_size
       ELSE seq + (SeqMod - 1 - lowest) =< window_size

(* The numbers of a command are taken one by one until one is refused      *)
(* (acknowledgements that come in between only make more available).  If   *)
(* not all can be had, those taken are put back and the command waits.     *)
CanProcess(c) ==
    \A k \in 0 .. c.count - 1 : SeqAvailable(ToSeq(next_outgoing_seqnum + k))

NumbersTaken(c) ==
    Cardinality({k \in 0 .. c.count - 1 :
        \A j \in 0 .. k : SeqAvailable(ToSeq(next_outgoing_seqnum + j))})

(* A slip to be caught: the first of the numbers taken is not put back. *)
PutBackAllButFirst(c) ==
    next_outgoing_seqnum' =
        IF NumbersTaken(c) = 0 THEN next_outgoing_seqnum
                               ELSE ToSeq(next_outgoing_seqnum + 1)

(* putBackSequenceNumber, from the last number taken to the first: each    *)
(* has to be the one before next_outgoing_seqnum, which it becomes; if it  *)
(* were not, the program would end (FATAL_ERROR_IF).                       *)
PutBackNumbers(c) ==
    LET taken == NumbersTaken(c)
        Back(i) == ToSeq(next_outgoing_seqnum + (taken - i))
    IN  /\ \A i \in 1 .. taken : ToSeq(Back(i) + 1) = Back(i - 1)
        /\ next_outgoing_seqnum' = Back(taken)

Numbered(c) == [i \in 1 .. c.count |->
                  [seq |-> ToSeq(next_outgoing_seqnum + i - 1),
                   id  |-> Len(log) + i - 1]]

processReliableSendCommand(c) ==
    /\ queued_reliables' = queued_reliables \o Numbered(c)
    /\ log' = log \o Chunks(c)
    /\ next_outgoing_seqnum' = ToSeq(next_outgoing_seqnum + c.count)

PutReliableSendCommand(c) ==
    LET direct == /\ queued_commands = <<>>
                  /\ Len(queued_reliables) < window_size \div 2
    IN  \/ /\ direct /\ CanProcess(c)
           /\ processReliableSendCommand(c)
           /\ UNCHANGED queued_commands
        \/ /\ ~(direct /\ CanProcess(c))
           /\ IF direct THEN PutBackNumbers(c) ELSE UNCHANGED next_outgoing_seqnum
           /\ queued_commands' = Append(queued_commands, c)
           /\ UNCHANGED <<queued_reliables, log>>

ControlsTaken == Cardinality({n \in DOMAIN log : log[n] = Control})

(* Connection::Send, and the send thread taking the command. *)
SendCommand(count) ==
    /\ submitted + ControlsTaken < MaxCommands
    /\ count \in Sizes[submitted + 1]
    /\ submitted' = submitted + 1
    /\ PutReliableSendCommand([cmd |-> submitted + 1, count |-> count])
    /\ UNCHANGED <<outgoing_reliables_sent, window_size, netVars, recvVars>>

RunCommandQueues ==
    LET c == Head(queued_commands)
    IN  /\ queued_commands # <<>>
        /\ Len(queued_reliables) < MaxRequeued
        /\ \/ /\ CanProcess(c)
              /\ processReliableSendCommand(c)
              /\ queued_commands' = Tail(queued_commands)
           \/ /\ ~CanProcess(c)
              /\ PutBackNumbers(c)
              /\ UNCHANGED <<queued_commands, queued_reliables, log>>
        /\ UNCHANGED <<submitted, outgoing_reliables_sent, window_size,
                       netVars, recvVars>>

(* sendAsPacketReliable: p is buffered for resending, then sent. *)
sendAsPacketReliable(p, base) ==
    /\ outgoing_reliables_sent' = Insert(outgoing_reliables_sent, p, base)
    /\ wire' = wire \union {p}

(* sendPackets, one packet of its loop. *)
SendPackets ==
    /\ queued_reliables # <<>>
    /\ Cardinality(outgoing_reliables_sent) < window_size
    /\ sendAsPacketReliable(Head(queued_reliables), OutgoingBase)
    /\ queued_reliables' = Tail(queued_reliables)
    /\ UNCHANGED <<submitted, queued_commands, next_outgoing_seqnum,
                   window_size, log, acks, recvVars>>

(* rawSendAsPacket of a reliable control packet: it takes a number past    *)
(* the queues, and is queued behind them only if the window is full.       *)
RawSent == Cardinality(outgoing_reliables_sent) < window_size

rawSendAsPacket(p) ==
    /\ log' = Append(log, Control)
    /\ next_outgoing_seqnum' = ToSeq(next_outgoing_seqnum + 1)
    /\ IF RawSent
       THEN /\ sendAsPacketReliable(p, ToSeq(next_outgoing_seqnum + 1 - HalfMod))
            /\ UNCHANGED queued_reliables
       ELSE /\ queued_reliables' = Append(queued_reliables, p)
            /\ UNCHANGED <<outgoing_reliables_sent, wire>>

NextPacket == [seq |-> next_outgoing_seqnum, id |-> Len(log)]

(* UDPPeer::Ping.  Without a free number the ping is tried again later. *)
Ping ==
    /\ ControlsTaken < MaxControl
    /\ submitted + ControlsTaken < MaxCommands
    /\ SeqAvailable(next_outgoing_seqnum)
    /\ rawSendAsPacket(NextPacket)
    /\ UNCHANGED <<submitted, queued_commands, window_size, acks, recvVars>>

(* CONCMD_CREATE_PEER is the first command of a server's channel 0: the     *)
(* packet that tells the client its peer id.  The window is empty then, so *)
(* the fallback through sendReliable is never taken.                       *)
CreatePeer ==
    /\ submitted = 0 /\ log = <<>>
    /\ ControlsTaken < MaxControl
    /\ submitted + ControlsTaken < MaxCommands
    /\ rawSendAsPacket(NextPacket)
    /\ UNCHANGED <<submitted, queued_commands, window_size, acks, recvVars>>

(* getTimedOuts and the resending of one packet it returns. *)
Resend(p) ==
    /\ p \in outgoing_reliables_sent
    /\ wire' = wire \union {p}
    /\ UNCHANGED <<sendVars, acks, recvVars>>

(* A slip to be caught: setWindowSize without its limits. *)
UpdateTimersUnclamped(d) ==
    /\ window_size' = window_size + d
    /\ UNCHANGED <<submitted, queued_commands, queued_reliables, log,
                   outgoing_reliables_sent, next_outgoing_seqnum,
                   netVars, recvVars>>

(* UpdateTimers adapts the window to the loss it has counted. *)
UpdateTimers(d) ==
    LET size == window_size + d IN
    /\ window_size' = IF size < MinWindow THEN MinWindow
                      ELSE IF size > MaxWindow THEN MaxWindow ELSE size
    /\ UNCHANGED <<submitted, queued_commands, queued_reliables, log,
                   outgoing_reliables_sent, next_outgoing_seqnum,
                   netVars, recvVars>>

-----------------------------------------------------------------------------
(* The receive threads. *)

(* The network delivers no copy from more than half a circle ago: the      *)
(* sequence numbers cannot tell such a copy from a new packet.             *)
FreshPacket(p) == Len(processed) =< p.id + HalfMod
FreshAck(a)    == Len(log) < a.id + SeqMod

(* A slip to be caught: any chunk of a command completes it. *)
CompletesAtFirst(b) == TRUE

(* What the payload of packet p adds to the incomplete chunks, and whether *)
(* it completes its command.                                               *)
Gathered(b)  == {s \in incoming_splits : s.cmd = b.cmd} \union {b}
Completes(b) == Cardinality(Gathered(b)) = b.count

(* processPacket of the packet whose turn it is: the payload goes to the   *)
(* user at once, or when the last chunk of its command is in.              *)
processPacket(p) ==
    LET b == log[p.id + 1] IN
    /\ next_incoming_seqnum' = ToSeq(next_incoming_seqnum + 1)
    /\ processed' = Append(processed, p.id)
    /\ \/ /\ b = Control
          /\ UNCHANGED <<incoming_splits, events>>
       \/ /\ b # Control /\ Completes(b)
          /\ incoming_splits' = incoming_splits \ Gathered(b)
          /\ events' = Append(events, b.cmd)
       \/ /\ b # Control /\ ~Completes(b)
          /\ incoming_splits' = incoming_splits \union {b}
          /\ UNCHANGED events

(* receive() empties the buffer of what is due before it reads the socket. *)
BufferedIsDue ==
    /\ incoming_reliables # {}
    /\ FirstFrom(incoming_reliables, next_incoming_seqnum).seq
         = next_incoming_seqnum

checkIncomingBuffers ==
    /\ BufferedIsDue
    /\ LET p == FirstFrom(incoming_reliables, next_incoming_seqnum) IN
       /\ incoming_reliables' = incoming_reliables \ {p}
       /\ processPacket(p)
    /\ UNCHANGED <<sendVars, netVars>>

(* handlePacketType_Reliable, by where the number lies. *)
InWindow(p) == seqnum_in_window(p.seq, next_incoming_seqnum, HalfMod)

BufferFuturePacket(p) ==
    /\ InWindow(p) /\ p.seq # next_incoming_seqnum
    /\ acks' = acks \union {p}
    /\ incoming_reliables' =
         Insert(incoming_reliables, p, next_incoming_seqnum)
    /\ UNCHANGED <<next_incoming_seqnum, incoming_splits, processed, events>>

\* a slip to be caught: the number is not compared with the one expected
ProcessAnyPacket(p) ==
    /\ InWindow(p)
    /\ acks' = acks \union {p}
    /\ incoming_reliables' = RemoveSeq(incoming_reliables, p.seq)
    /\ processPacket(p)

ProcessExpectedPacket(p) ==
    /\ InWindow(p) /\ p.seq = next_incoming_seqnum
    /\ acks' = acks \union {p}
    /\ incoming_reliables' = RemoveSeq(incoming_reliables, p.seq)
    /\ processPacket(p)

IgnoreFuturePacket(p) ==
    /\ ~InWindow(p) /\ seqnum_higher(p.seq, next_incoming_seqnum)
    /\ UNCHANGED <<acks, recvVars>>

AcknowledgeOldPacket(p) ==
    /\ ~InWindow(p) /\ seqnum_higher(next_incoming_seqnum, p.seq)
    /\ acks' = acks \union {p}
    /\ UNCHANGED recvVars

(* The network hands over one datagram; another copy may stay behind. *)
ReceivePacket(p, duplicated) ==
    /\ p \in wire /\ FreshPacket(p) /\ ~BufferedIsDue
    /\ wire' = IF duplicated THEN wire ELSE wire \ {p}
    /\ \/ BufferFuturePacket(p)
       \/ ProcessExpectedPacket(p)
       \/ IgnoreFuturePacket(p)
       \/ AcknowledgeOldPacket(p)
    /\ UNCHANGED sendVars

(* A slip to be caught: whatever packet an ACK names, the oldest is taken off. *)
ReceiveAckOfOldest(a, duplicated) ==
    /\ a \in acks /\ FreshAck(a)
    /\ acks' = IF duplicated THEN acks ELSE acks \ {a}
    /\ outgoing_reliables_sent' =
         RemoveSeq(outgoing_reliables_sent,
                   FirstFrom(outgoing_reliables_sent \union {a}, OutgoingBase).seq)
    /\ UNCHANGED <<submitted, queued_commands, queued_reliables, log,
                   next_outgoing_seqnum, window_size, wire, recvVars>>

(* handlePacketType_Control, CONTROLTYPE_ACK. *)
ReceiveAck(a, duplicated) ==
    /\ a \in acks /\ FreshAck(a)
    /\ acks' = IF duplicated THEN acks ELSE acks \ {a}
    /\ outgoing_reliables_sent' = RemoveSeq(outgoing_reliables_sent, a.seq)
    /\ UNCHANGED <<submitted, queued_commands, queued_reliables, log,
                   next_outgoing_seqnum, window_size, wire, recvVars>>

LosePacket(p) == p \in wire /\ wire' = wire \ {p} /\ UNCHANGED <<sendVars, acks, recvVars>>
LoseAck(a)    == a \in acks /\ acks' = acks \ {a} /\ UNCHANGED <<sendVars, wire, recvVars>>

-----------------------------------------------------------------------------

Next ==
    \/ \E count \in 1 .. MaxChunks : SendCommand(count)
    \/ RunCommandQueues
    \/ SendPackets
    \/ CreatePeer
    \/ Ping
    \/ \E p \in outgoing_reliables_sent : Resend(p)
    \/ \E d \in WindowSteps : UpdateTimers(d)
    \/ checkIncomingBuffers
    \/ \E p \in wire, duplicated \in BOOLEAN : ReceivePacket(p, duplicated)
    \/ \E a \in acks, duplicated \in BOOLEAN : ReceiveAck(a, duplicated)
    \/ \E p \in wire : LosePacket(p)
    \/ \E a \in acks : LoseAck(a)

Spec == Init /\ [][Next]_vars

(***************************************************************************)
(* Both threads of a Connection loop until shutdown (run()), the send      *)
(* thread at least every 50 ms, and a packet that stays unanswered times   *)
(* out again and again.  Of the network it is assumed that a datagram that *)
(* is sent over and over gets through: the packet the receiver waits for,  *)
(* and the oldest one unanswered with its acknowledgement.                 *)
(***************************************************************************)
Copies(set, id) == {p \in set : p.id = id}
Oldest == CHOOSE p \in outgoing_reliables_sent :
            \A q \in outgoing_reliables_sent : p.id =< q.id

ResendOldest == outgoing_reliables_sent # {} /\ Resend(Oldest)
ReceiveAwaited ==
    \E p \in Copies(wire, Len(processed)) : ReceivePacket(p, FALSE)
ReceiveOldest ==
    /\ outgoing_reliables_sent # {}
    /\ \E p \in Copies(wire, Oldest.id) : ReceivePacket(p, FALSE)
ReceiveOldestAck ==
    /\ outgoing_reliables_sent # {}
    /\ \E a \in Copies(acks, Oldest.id) : ReceiveAck(a, FALSE)

Fairness ==
    /\ WF_vars(RunCommandQueues)
    /\ WF_vars(SendPackets)
    /\ WF_vars(checkIncomingBuffers)
    /\ WF_vars(ResendOldest)
    /\ SF_vars(ReceiveAwaited)
    /\ SF_vars(ReceiveOldest)
    /\ SF_vars(ReceiveOldestAck)

FairSpec == Spec /\ Fairness

-----------------------------------------------------------------------------
(* Properties. *)

Queued == {queued_reliables[i] : i \in DOMAIN queued_reliables}
Unanswered == outgoing_reliables_sent \union Queued
Ids(set) == {p.id : p \in set}

TypeOK ==
    /\ submitted \in Nat
    /\ queued_commands \in Seq(Command)
    /\ queued_reliables \in Seq(Packet)
    /\ outgoing_reliables_sent \subseteq Packet
    /\ next_outgoing_seqnum \in SeqNums
    /\ window_size \in MinWindow .. MaxWindow
    /\ log \in Seq(Payload)
    /\ wire \subseteq Packet
    /\ acks \subseteq Packet
    /\ next_incoming_seqnum \in SeqNums
    /\ incoming_reliables \subseteq Packet
    /\ incoming_splits \subseteq Payload
    /\ processed \in Seq(Nat)
    /\ events \in Seq(Nat)

(* "They shall be delivered in the same order as sent" (mt_connection.h):  *)
(* whatever the network loses, repeats or reorders, and however the 16-bit *)
(* numbers wrap, the packets are processed in stream order, each of them   *)
(* exactly once.                                                           *)
ProcessedInOrder ==
    /\ Len(processed) =< Len(log)
    /\ \A i \in DOMAIN processed : processed[i] = i - 1

(* "Delivery of all RELIABLE packets shall be forced by ACKs": a packet    *)
(* the sender no longer holds, in the queue or for resending, has reached  *)
(* the receiver.                                                           *)
NothingForgotten ==
    \A n \in 0 .. Len(log) - 1 :
        \/ n < Len(processed)
        \/ n \in Ids(incoming_reliables)
        \/ n \in Ids(Unanswered)

(* Everything unanswered lies in the half of the circle behind the next    *)
(* number, so that both ends can tell old from new by the number alone.    *)
(* The checks of getOutgoingSequenceNumber look at the packets sent only,  *)
(* not at those still queued.                                              *)
SpanBelowHalf == \A p \in Unanswered : Len(log) - p.id < HalfMod

(* The channel implements FifoDelivery: the commands come out in the order *)
(* they went in, whether they waited as commands, as packets or as chunks. *)
Fifo == INSTANCE FifoDelivery WITH
            pending   <- [i \in 1 .. submitted - Len(events) |-> Len(events) + i],
            delivered <- events

ImplementsFifo == Fifo!FifoSpec

(* Every command submitted reaches the user at the other end. *)
EveryCommandArrives ==
    \A c \in 1 .. MaxCommands : submitted >= c ~> Len(events) >= c

=============================================================================
