------------------------- MODULE ReliableChannelProofs -------------------------
(***************************************************************************)
(* Theorems about ReliableChannel, for every size of the circle of         *)
(* sequence numbers, every window and every bound: packets are processed   *)
(* in order and none is forgotten, commands come out as they went in (the  *)
(* refinement of FifoDelivery), both while the unanswered packets span     *)
(* less than half the circle; and they do so for commands that fit.        *)
(***************************************************************************)
EXTENDS ReliableChannel, SequenceTheorems, FiniteSetTheorems,
        FunctionTheorems, WellFoundedInduction, TLAPS

(***************************************************************************)
(* What the circular sequence numbers of SeqNum can and cannot tell, for   *)
(* every size of the circle, and lemmas about the operators of             *)
(* PacketBuffer.  The positions of a stream are unbounded integers n; the  *)
(* number sent for position n is ToSeq(n).                                 *)
(***************************************************************************)
(* Reduction yields a u16 and is the only r with n = k * SeqMod + r. *)
LEMMA ToSeqType == \A n \in Int : ToSeq(n) \in SeqNums
BY SeqNumAssumption DEF ToSeq, SeqNums, SeqMod

LEMMA ToSeqExact == \A n \in SeqNums : ToSeq(n) = n
BY SeqNumAssumption DEF ToSeq, SeqNums, SeqMod

LEMMA ToSeqUnique ==
    ASSUME NEW n \in Int, NEW r \in SeqNums, NEW k \in Int, n = k * SeqMod + r
    PROVE  ToSeq(n) = r
BY SeqNumAssumption DEF ToSeq, SeqNums, SeqMod

LEMMA ToSeqDecompose ==
    ASSUME NEW n \in Int
    PROVE  \E k \in Int : n = k * SeqMod + ToSeq(n)
<1>1. SeqMod \in Nat \ {0}
    BY SeqNumAssumption DEF SeqMod
<1>2. \A M \in Nat \ {0} : /\ n \div M \in Int
                          /\ n = (n \div M) * M + (n % M)
    OBVIOUS
<1>. QED  BY <1>1, <1>2 DEF ToSeq

(* Whole turns of the circle do not change a number. *)
LEMMA ToSeqTurn ==
    ASSUME NEW n \in Int, NEW j \in Int
    PROVE  ToSeq(n + j * SeqMod) = ToSeq(n)
<1>1. PICK k \in Int : n = k * SeqMod + ToSeq(n)
    BY ToSeqDecompose
<1>2. SeqMod \in Int /\ ToSeq(n) \in SeqNums /\ ToSeq(n) \in Int
    BY ToSeqType, SeqNumAssumption DEF SeqMod, SeqNums
<1>3. n + j * SeqMod = (k + j) * SeqMod + ToSeq(n)
    BY <1>1, <1>2
<1>. QED  BY <1>2, <1>3, ToSeqUnique, k + j \in Int, n + j * SeqMod \in Int

(* Sums and differences may be reduced at any point. *)
LEMMA ToSeqAdd ==
    ASSUME NEW m \in Int, NEW n \in Int
    PROVE  ToSeq(ToSeq(m) + n) = ToSeq(m + n)
<1>1. PICK k \in Int : m = k * SeqMod + ToSeq(m)
    BY ToSeqDecompose
<1>2. SeqMod \in Int /\ ToSeq(m) \in Int
    BY ToSeqType, SeqNumAssumption DEF SeqMod, SeqNums
<1>3. m + n = (ToSeq(m) + n) + k * SeqMod
    BY <1>1, <1>2
<1>4. ToSeq(m) + n \in Int
    BY <1>2
<1>. QED  BY <1>3, <1>4, ToSeqTurn

LEMMA ToSeqDifference ==
    ASSUME NEW m \in Int, NEW n \in Int
    PROVE  ToSeq(ToSeq(m) - ToSeq(n)) = ToSeq(m - n)
<1>1. PICK k \in Int : m = k * SeqMod + ToSeq(m)
    BY ToSeqDecompose
<1>2. PICK l \in Int : n = l * SeqMod + ToSeq(n)
    BY ToSeqDecompose
<1>3. SeqMod \in Int /\ ToSeq(m) \in Int /\ ToSeq(n) \in Int
    BY ToSeqType, SeqNumAssumption DEF SeqMod, SeqNums
<1>4. m - n = (ToSeq(m) - ToSeq(n)) + (k - l) * SeqMod
    BY <1>1, <1>2, <1>3
<1>5. ToSeq(m) - ToSeq(n) \in Int /\ k - l \in Int
    BY <1>3
<1>. QED  BY <1>4, <1>5, ToSeqTurn

(* What a difference of numbers says of two positions that are near. *)
LEMMA ToSeqSmall ==
    ASSUME NEW n \in Int, -SeqMod =< n, n < SeqMod
    PROVE  ToSeq(n) = IF n >= 0 THEN n ELSE n + SeqMod
<1>1. SeqMod \in Int
    BY SeqNumAssumption DEF SeqMod
<1>2. CASE n >= 0
    BY <1>1, <1>2, n \in SeqNums, n = 0 * SeqMod + n, ToSeqUnique DEF SeqNums
<1>3. CASE n < 0
    <2>1. n + SeqMod \in SeqNums /\ n = (-1) * SeqMod + (n + SeqMod)
        BY <1>1, <1>3 DEF SeqNums
    <2>. QED  BY <1>3, <2>1, ToSeqUnique
<1>. QED  BY <1>2, <1>3

(* Positions less than a circle apart have different numbers. *)
LEMMA ToSeqInjective ==
    ASSUME NEW m \in Int, NEW n \in Int, ToSeq(m) = ToSeq(n),
           m - n < SeqMod, n - m < SeqMod
    PROVE  m = n
<1>1. SeqMod \in Int /\ SeqMod > 0 /\ ToSeq(m) \in Int
    BY SeqNumAssumption, ToSeqType DEF SeqMod, SeqNums
<1>2. ToSeq(m - n) = ToSeq(0)
    BY <1>1, ToSeqDifference
<1>3. ToSeq(0) = 0
    BY <1>1, ToSeqSmall
<1>4. ToSeq(m - n) = IF m - n >= 0 THEN m - n ELSE m - n + SeqMod
    BY <1>1, ToSeqSmall, m - n \in Int
<1>. QED  BY <1>1, <1>2, <1>3, <1>4

(* seqnum_in_window is a test of the distance walked from next. *)
LEMMA InWindowIsDistance ==
    ASSUME NEW s \in SeqNums, NEW next \in SeqNums, NEW w \in 1 .. SeqMod - 1
    PROVE  seqnum_in_window(s, next, w) <=> ToSeq(s - next) < w
<1>1. SeqMod \in Nat /\ s \in Int /\ next \in Int /\ w \in Int
    BY SeqNumAssumption DEF SeqMod, SeqNums
<1>2. ToSeq(s - next) = IF s >= next THEN s - next ELSE s - next + SeqMod
    BY <1>1, ToSeqSmall, s - next \in Int DEF SeqNums
<1>3. ToSeq(next + w) = IF next + w < SeqMod THEN next + w ELSE next + w - SeqMod
    <2>1. CASE next + w < SeqMod
        BY <1>1, <2>1, ToSeqSmall DEF SeqNums
    <2>2. CASE next + w >= SeqMod
        <3>1. next + w - SeqMod \in SeqNums /\ next + w = 1 * SeqMod + (next + w - SeqMod)
            BY <1>1, <2>2 DEF SeqNums
        <3>. QED  BY <1>1, <2>2, <3>1, ToSeqUnique
    <2>. QED  BY <1>1, <2>1, <2>2
<1>. QED  BY <1>1, <1>2, <1>3 DEF seqnum_in_window, SeqNums

(* A position at most half a circle behind next, or less than half a       *)
(* circle ahead of it, is in the window exactly if it is not behind.       *)
THEOREM WindowTellsOldFromNew ==
    ASSUME NEW n \in Int, NEW next \in Int,
           -HalfMod =< n - next, n - next < HalfMod
    PROVE  /\ seqnum_in_window(ToSeq(n), ToSeq(next), HalfMod) <=> n >= next
           /\ ToSeq(n) = ToSeq(next) <=> n = next
<1>1. HalfMod \in 1 .. SeqMod - 1 /\ SeqMod = 2 * HalfMod /\ HalfMod \in Nat
    BY SeqNumAssumption DEF SeqMod
<1>2. seqnum_in_window(ToSeq(n), ToSeq(next), HalfMod) <=> ToSeq(n - next) < HalfMod
    BY <1>1, ToSeqType, InWindowIsDistance, ToSeqDifference
<1>3. ToSeq(n - next) = IF n - next >= 0 THEN n - next ELSE n - next + SeqMod
    BY <1>1, ToSeqSmall, n - next \in Int
<1>4. ToSeq(n) = ToSeq(next) => n = next
    BY <1>1, ToSeqInjective
<1>. QED  BY <1>1, <1>2, <1>3, <1>4

-----------------------------------------------------------------------------
LEMMA NonEmptySetHasMinimum ==
    ASSUME NEW T \in SUBSET Nat, T # {}
    PROVE  \E x \in T : \A y \in T : x =< y
<1>1. IsWellFoundedOn(OpToRel(<, Nat), Nat)
    BY NatLessThanWellFounded
<1>2. PICK x \in T : \A y \in T : ~ (<<y, x>> \in OpToRel(<, Nat))
    BY <1>1, WFMin
<1>3. \A y \in T : ~ (y < x)
    BY <1>2 DEF OpToRel
<1>. QED  BY <1>3

(* FirstFrom finds a packet, and none comes before it. *)
LEMMA FirstFromProperties ==
    ASSUME NEW buffer, buffer # {}, \A p \in buffer : p.seq \in SeqNums,
           NEW base \in SeqNums
    PROVE  /\ FirstFrom(buffer, base) \in buffer
           /\ \A q \in buffer :
                 ToSeq(FirstFrom(buffer, base).seq - base) =< ToSeq(q.seq - base)
<1>. DEFINE T == {ToSeq(p.seq - base) : p \in buffer}
<1>1. T \in SUBSET Nat /\ T # {}
    BY ToSeqType DEF SeqNums
<1>2. PICK x \in T : \A y \in T : x =< y
    BY <1>1, NonEmptySetHasMinimum
<1>3. PICK p \in buffer : x = ToSeq(p.seq - base)
    BY <1>2
<1>4. \A q \in buffer : ToSeq(p.seq - base) =< ToSeq(q.seq - base)
    BY <1>2, <1>3
<1>. QED  BY <1>3, <1>4 DEF FirstFrom


(***************************************************************************)
(* The inductive invariant, first part: every number is the one its        *)
(* position in the stream has, at both ends and on every packet.           *)
(***************************************************************************)
Packets == Unanswered \union incoming_reliables \union wire \union acks

NumberMatches(p) == p.id < Len(log) /\ p.seq = ToSeq(SeqInit + p.id)

NumbersMatch ==
    /\ next_outgoing_seqnum = ToSeq(SeqInit + Len(log))
    /\ next_incoming_seqnum = ToSeq(SeqInit + Len(processed))
    /\ \A p \in Packets : NumberMatches(p)

(***************************************************************************)
(* Second part, as long as the unanswered packets fit in half the circle:  *)
(* the receiver keeps nothing it has processed and nothing out of reach,   *)
(* and what it has acknowledged it has.                                    *)
(***************************************************************************)
Received(n) == n < Len(processed) \/ n \in Ids(incoming_reliables)

BufferAhead ==
    \A p \in incoming_reliables :
        Len(processed) =< p.id /\ p.id < Len(processed) + HalfMod

AckedIsReceived == \A a \in acks : Received(a.id)

StreamInv == ProcessedInOrder /\ NothingForgotten /\ BufferAhead /\ AckedIsReceived

(* The numbered packets of a command. *)
LEMMA NumberedType ==
    ASSUME TypeOK, NEW c \in Command
    PROVE  /\ Numbered(c) \in Seq(Packet)
           /\ Len(Numbered(c)) = c.count
           /\ Chunks(c) \in Seq(Payload)
           /\ Len(Chunks(c)) = c.count
<1>1. c.count \in Nat /\ c.cmd \in Nat /\ c.count # 0
    BY DEF Command
<1>2. next_outgoing_seqnum \in Int /\ Len(log) \in Nat
    BY DEF TypeOK, SeqNums
<1>3. \A i \in 1 .. c.count :
         [seq |-> ToSeq(next_outgoing_seqnum + i - 1), id |-> Len(log) + i - 1] \in Packet
    <2>. TAKE i \in 1 .. c.count
    <2>1. ToSeq(next_outgoing_seqnum + i - 1) \in SeqNums
        BY <1>2, ToSeqType, next_outgoing_seqnum + i - 1 \in Int
    <2>2. Len(log) + i - 1 \in Nat
        BY <1>2
    <2>. QED  BY <2>1, <2>2 DEF Packet
<1>4. \A i \in 1 .. c.count :
         [cmd |-> c.cmd, chunk |-> i - 1, count |-> c.count] \in Payload
    BY <1>1 DEF Payload
<1>5. Numbered(c) \in [1 .. c.count -> Packet]
    BY <1>3 DEF Numbered
<1>6. Chunks(c) \in [1 .. c.count -> Payload]
    BY <1>4 DEF Chunks
<1>. QED  BY <1>1, <1>5, <1>6

LEMMA ControlType == Control \in Payload
BY DEF Control, Payload

LEMMA PacketSeqType == \A p \in Packet : p.seq \in SeqNums /\ p.id \in Nat
BY DEF Packet

(* The effect of taking numbers for a command. *)
LEMMA ProcessCommandType ==
    ASSUME TypeOK, NEW c \in Command, processReliableSendCommand(c)
    PROVE  /\ queued_reliables' \in Seq(Packet)
           /\ log' \in Seq(Payload)
           /\ next_outgoing_seqnum' \in SeqNums
<1>1. c.count \in Nat /\ next_outgoing_seqnum + c.count \in Int
    BY DEF Command, TypeOK, SeqNums
<1>. QED  BY <1>1, NumberedType, ConcatProperties, ToSeqType
          DEF processReliableSendCommand, TypeOK

(* What is put back was taken: the next number is the one it was.          *)
LEMMA NumbersPutBack ==
    ASSUME TypeOK, NEW c \in Command, PutBackNumbers(c)
    PROVE  UNCHANGED next_outgoing_seqnum
<1>1. PICK taken : taken = NumbersTaken(c)
    OBVIOUS
<1>2. taken \in Nat
    <2>1. c.count - 1 \in Int
        BY DEF Command
    <2>2. IsFiniteSet(0 .. c.count - 1)
        BY <2>1, FS_Interval
    <2>3. \A S \in SUBSET (0 .. c.count - 1) : Cardinality(S) \in Nat
        BY <2>2, FS_Subset, FS_CardinalityType
    <2>. QED  BY <1>1, <2>3 DEF NumbersTaken
<1>3. next_outgoing_seqnum' = ToSeq(next_outgoing_seqnum + (taken - taken))
    BY <1>1, Zenon DEF PutBackNumbers
<1>4. PICK M \in Nat \ {0} : M = SeqMod
    BY SeqNumAssumption DEF SeqMod
<1>5. PICK n \in 0 .. M - 1 : n = next_outgoing_seqnum
    BY <1>4 DEF TypeOK, SeqNums
<1>6. n + (taken - taken) = n /\ n % M = n
    BY <1>2
<1>. QED  BY <1>3, <1>4, <1>5, <1>6 DEF ToSeq

(* A command takes its numbers, or waits and leaves the numbers alone.     *)
PutsCommand(c) ==
    \/ /\ queued_commands = <<>> /\ Len(queued_reliables) < window_size \div 2
       /\ CanProcess(c)
       /\ processReliableSendCommand(c)
       /\ UNCHANGED queued_commands
    \/ /\ queued_commands' = Append(queued_commands, c)
       /\ UNCHANGED <<queued_reliables, log, next_outgoing_seqnum>>

LEMMA PutCases ==
    ASSUME TypeOK, NEW c \in Command, PutReliableSendCommand(c)
    PROVE  PutsCommand(c)
<1>1. PutBackNumbers(c) => UNCHANGED next_outgoing_seqnum
    BY NumbersPutBack
<1>. QED  BY <1>1, Zenon DEF PutReliableSendCommand, PutsCommand

RunsCommand ==
    /\ queued_commands # <<>>
    /\ Len(queued_reliables) < MaxRequeued
    /\ CanProcess(Head(queued_commands))
    /\ processReliableSendCommand(Head(queued_commands))
    /\ queued_commands' = Tail(queued_commands)
    /\ UNCHANGED <<submitted, outgoing_reliables_sent, window_size,
                   netVars, recvVars>>

LEMMA RunCases ==
    ASSUME TypeOK, RunCommandQueues
    PROVE  RunsCommand \/ UNCHANGED vars
<1>1. PICK c : c = Head(queued_commands)
    OBVIOUS
<1>2. c \in Command
    BY <1>1, HeadTailProperties DEF RunCommandQueues, TypeOK
<1>3. PutBackNumbers(c) => UNCHANGED next_outgoing_seqnum
    BY <1>2, NumbersPutBack
<1>4. \/ RunsCommand
      \/ /\ PutBackNumbers(c) /\ UNCHANGED <<queued_commands, queued_reliables, log>>
         /\ UNCHANGED <<submitted, outgoing_reliables_sent, window_size, netVars, recvVars>>
    BY <1>1, Zenon DEF RunCommandQueues, RunsCommand
<1>. QED  BY <1>3, <1>4 DEF vars, sendVars

LEMMA InsertType ==
    ASSUME NEW buffer \in SUBSET Packet, NEW p \in Packet, NEW base
    PROVE  Insert(buffer, p, base) \in SUBSET Packet
BY DEF Insert

(* A control packet sent past the queues. *)
LEMMA RawSendType ==
    ASSUME TypeOK, rawSendAsPacket(NextPacket)
    PROVE  /\ log' \in Seq(Payload)
           /\ next_outgoing_seqnum' \in SeqNums
           /\ outgoing_reliables_sent' \in SUBSET Packet
           /\ wire' \in SUBSET Packet
           /\ queued_reliables' \in Seq(Packet)
<1>1. NextPacket \in Packet
    BY DEF NextPacket, Packet, TypeOK
<1>2. log' \in Seq(Payload)
    BY ControlType, AppendProperties DEF rawSendAsPacket, TypeOK
<1>3. next_outgoing_seqnum' \in SeqNums
    BY ToSeqType, next_outgoing_seqnum + 1 \in Int DEF rawSendAsPacket, TypeOK, SeqNums
<1>4. CASE RawSent
    <2>1. /\ outgoing_reliables_sent' =
               Insert(outgoing_reliables_sent, NextPacket,
                      ToSeq(next_outgoing_seqnum + 1 - HalfMod))
          /\ wire' = wire \union {NextPacket}
          /\ queued_reliables' = queued_reliables
        BY <1>4 DEF rawSendAsPacket, sendAsPacketReliable
    <2>. QED  BY <1>1, <1>2, <1>3, <2>1, InsertType DEF TypeOK
<1>5. CASE ~RawSent
    <2>1. /\ queued_reliables' = Append(queued_reliables, NextPacket)
          /\ UNCHANGED <<outgoing_reliables_sent, wire>>
        BY <1>5 DEF rawSendAsPacket
    <2>. QED  BY <1>1, <1>2, <1>3, <2>1, AppendProperties DEF TypeOK
<1>. QED  BY <1>4, <1>5

(* Processing the packet whose turn it is. *)
LEMMA ProcessPacketType ==
    ASSUME TypeOK, NEW p \in Packet, NumberMatches(p), processPacket(p)
    PROVE  /\ next_incoming_seqnum' \in SeqNums
           /\ processed' \in Seq(Nat)
           /\ incoming_splits' \subseteq Payload
           /\ events' \in Seq(Nat)
<1>. DEFINE b == log[p.id + 1]
<1>1. b \in Payload
    <2>1. p.id + 1 \in 1 .. Len(log)
        BY PacketSeqType, LenProperties DEF NumberMatches, TypeOK
    <2>. QED  BY <2>1, ElementOfSeq DEF TypeOK
<1>2. b.cmd \in Nat
    BY <1>1 DEF Payload
<1>3. next_incoming_seqnum' \in SeqNums
    BY ToSeqType, next_incoming_seqnum + 1 \in Int DEF processPacket, TypeOK, SeqNums
<1>4. processed' \in Seq(Nat)
    BY PacketSeqType, AppendProperties DEF processPacket, TypeOK
<1>5. CASE b = Control /\ UNCHANGED <<incoming_splits, events>>
    BY <1>3, <1>4, <1>5 DEF TypeOK
<1>6. CASE incoming_splits' = incoming_splits \ Gathered(b) /\ events' = Append(events, b.cmd)
    BY <1>2, <1>3, <1>4, <1>6, AppendProperties DEF TypeOK
<1>7. CASE incoming_splits' = incoming_splits \union {b} /\ UNCHANGED events
    BY <1>1, <1>3, <1>4, <1>7 DEF TypeOK
<1>. QED  BY <1>5, <1>6, <1>7 DEF processPacket

LEMMA FirstFromType ==
    ASSUME TypeOK, BufferedIsDue
    PROVE  FirstFrom(incoming_reliables, next_incoming_seqnum) \in incoming_reliables
BY PacketSeqType, FirstFromProperties DEF TypeOK, BufferedIsDue

LEMMA TypeInit == Init => TypeOK
BY ChannelAssumption, SeqNumAssumption
   DEF Init, TypeOK, SeqNums

(* Every step keeps the variables in their types. *)
LEMMA TypeStep == TypeOK /\ NumbersMatch /\ [Next]_vars => TypeOK'
<1>. SUFFICES ASSUME TypeOK, NumbersMatch, [Next]_vars
              PROVE  TypeOK'
    OBVIOUS
<1>. USE DEF sendVars, netVars, recvVars
<1>1. ASSUME NEW count \in 1 .. MaxChunks, SendCommand(count)
      PROVE  TypeOK'
    <2>. DEFINE c == [cmd |-> submitted + 1, count |-> count]
    <2>1. c \in Command
        BY ChannelAssumption DEF Command, TypeOK
    <2>2. /\ submitted' \in Nat
          /\ UNCHANGED <<outgoing_reliables_sent, window_size, netVars, recvVars>>
          /\ PutReliableSendCommand(c)
        BY <1>1 DEF SendCommand, TypeOK
    <2>3. CASE /\ processReliableSendCommand(c)
               /\ UNCHANGED queued_commands
        BY <2>1, <2>2, <2>3, ProcessCommandType DEF TypeOK
    <2>4. CASE /\ queued_commands' = Append(queued_commands, c)
               /\ UNCHANGED <<queued_reliables, log, next_outgoing_seqnum>>
        BY <2>1, <2>2, <2>4, AppendProperties DEF TypeOK
    <2>. QED  BY <2>1, <2>2, <2>3, <2>4, PutCases DEF PutsCommand
<1>2. ASSUME RunsCommand
      PROVE  TypeOK'
    <2>1. /\ Head(queued_commands) \in Command
          /\ Tail(queued_commands) \in Seq(Command)
        BY <1>2, HeadTailProperties DEF RunsCommand, TypeOK
    <2>2. processReliableSendCommand(Head(queued_commands))
        BY <1>2 DEF RunsCommand
    <2>. QED  BY <1>2, <2>1, <2>2, ProcessCommandType DEF RunsCommand, TypeOK
<1>3. ASSUME SendPackets
      PROVE  TypeOK'
    <2>1. /\ Head(queued_reliables) \in Packet
          /\ Tail(queued_reliables) \in Seq(Packet)
        BY <1>3, HeadTailProperties DEF SendPackets, TypeOK
    <2>2. outgoing_reliables_sent' \subseteq Packet
        BY <1>3, <2>1, InsertType DEF SendPackets, sendAsPacketReliable, TypeOK
    <2>3. wire' \subseteq Packet
        BY <1>3, <2>1 DEF SendPackets, sendAsPacketReliable, TypeOK
    <2>. QED  BY <1>3, <2>1, <2>2, <2>3 DEF SendPackets, TypeOK
<1>4. ASSUME CreatePeer \/ Ping
      PROVE  TypeOK'
    <2>1. /\ rawSendAsPacket(NextPacket)
          /\ UNCHANGED <<submitted, queued_commands, window_size, acks, recvVars>>
        BY <1>4 DEF CreatePeer, Ping
    <2>. QED  BY <2>1, RawSendType DEF TypeOK
<1>5. ASSUME NEW p \in outgoing_reliables_sent, Resend(p)
      PROVE  TypeOK'
    BY <1>5 DEF Resend, TypeOK
<1>6. ASSUME NEW d \in WindowSteps, UpdateTimers(d)
      PROVE  TypeOK'
    <2>1. window_size' \in MinWindow .. MaxWindow
        BY <1>6, ChannelAssumption DEF UpdateTimers, TypeOK
    <2>. QED  BY <1>6, <2>1 DEF UpdateTimers, TypeOK
<1>7. ASSUME checkIncomingBuffers
      PROVE  TypeOK'
    <2>. DEFINE p == FirstFrom(incoming_reliables, next_incoming_seqnum)
    <2>1. p \in incoming_reliables
        BY <1>7, FirstFromType DEF checkIncomingBuffers
    <2>2. p \in Packet /\ NumberMatches(p)
        BY <2>1 DEF TypeOK, NumbersMatch, Packets
    <2>3. /\ processPacket(p)
          /\ incoming_reliables' = incoming_reliables \ {p}
          /\ UNCHANGED <<sendVars, netVars>>
        BY <1>7 DEF checkIncomingBuffers
    <2>. QED  BY <2>2, <2>3, ProcessPacketType DEF TypeOK
<1>8. ASSUME NEW p \in wire, NEW duplicated \in BOOLEAN, ReceivePacket(p, duplicated)
      PROVE  TypeOK'
    <2>1. p \in Packet /\ NumberMatches(p)
        BY DEF TypeOK, NumbersMatch, Packets
    <2>2. UNCHANGED sendVars /\ wire' \subseteq Packet
        BY <1>8 DEF ReceivePacket, TypeOK
    <2>3. CASE BufferFuturePacket(p)
        BY <2>1, <2>2, <2>3, InsertType DEF BufferFuturePacket, TypeOK
    <2>4. CASE ProcessExpectedPacket(p)
        BY <2>1, <2>2, <2>4, ProcessPacketType DEF ProcessExpectedPacket, RemoveSeq, TypeOK
    <2>5. CASE IgnoreFuturePacket(p)
        BY <2>2, <2>5 DEF IgnoreFuturePacket, TypeOK
    <2>6. CASE AcknowledgeOldPacket(p)
        BY <2>1, <2>2, <2>6 DEF AcknowledgeOldPacket, TypeOK
    <2>. QED  BY <1>8, <2>3, <2>4, <2>5, <2>6 DEF ReceivePacket
<1>9. ASSUME NEW a \in acks, NEW duplicated \in BOOLEAN, ReceiveAck(a, duplicated)
      PROVE  TypeOK'
    BY <1>9 DEF ReceiveAck, RemoveSeq, TypeOK
<1>10. ASSUME NEW p, LosePacket(p) \/ LoseAck(p)
       PROVE  TypeOK'
    BY <1>10 DEF LosePacket, LoseAck, TypeOK
<1>11. CASE UNCHANGED vars
    BY <1>11 DEF vars, TypeOK
<1>. QED
    BY <1>1, <1>2, <1>3, <1>4, <1>5, <1>6, <1>7, <1>8, <1>9, <1>10, <1>11, RunCases DEF Next

-----------------------------------------------------------------------------
(* Numbers and positions. *)

LEMMA NumbersInit == Init => NumbersMatch
<1>. SUFFICES ASSUME Init PROVE NumbersMatch
    OBVIOUS
<1>1. SeqInit \in Int /\ SeqInit \in SeqNums
    BY SeqNumAssumption DEF SeqNums
<1>2. Packets = {}
    BY DEF Init, Packets, Unanswered, Queued
<1>. QED  BY <1>1, <1>2, ToSeqExact DEF Init, NumbersMatch

(* Appending to a queue adds only what is appended. *)
LEMMA QueuedOfConcat ==
    ASSUME NEW s \in Seq(Packet), NEW t \in Seq(Packet)
    PROVE  {(s \o t)[i] : i \in DOMAIN (s \o t)}
             = {s[i] : i \in DOMAIN s} \union {t[i] : i \in DOMAIN t}
<1>1. /\ DOMAIN s = 1 .. Len(s) /\ DOMAIN t = 1 .. Len(t)
      /\ DOMAIN (s \o t) = 1 .. Len(s) + Len(t)
      /\ Len(s) \in Nat /\ Len(t) \in Nat
    BY ConcatProperties, LenProperties
<1>2. \A i \in DOMAIN (s \o t) :
         \/ i \in DOMAIN s /\ (s \o t)[i] = s[i]
         \/ i - Len(s) \in DOMAIN t /\ (s \o t)[i] = t[i - Len(s)]
    BY <1>1, ConcatProperties
<1>3. \A i \in DOMAIN s : i \in DOMAIN (s \o t) /\ (s \o t)[i] = s[i]
    BY <1>1, ConcatProperties
<1>4. \A i \in DOMAIN t : /\ i + Len(s) \in DOMAIN (s \o t)
                          /\ (s \o t)[i + Len(s)] = t[i]
    BY <1>1, ConcatProperties
<1>. DEFINE S == {s[i] : i \in DOMAIN s}
            T == {t[i] : i \in DOMAIN t}
            U == {(s \o t)[i] : i \in DOMAIN (s \o t)}
<1>5. \A x \in U : x \in S \union T
    BY <1>2
<1>6. \A x \in S : x \in U
    BY <1>3
<1>7. \A x \in T : x \in U
    BY <1>4
<1>. QED  BY <1>5, <1>6, <1>7

(* The numbers a command takes are those of the positions that follow. *)
LEMMA NumberedMatches ==
    ASSUME TypeOK, NumbersMatch, NEW c \in Command, NEW i \in 1 .. c.count
    PROVE  Numbered(c)[i].seq = ToSeq(SeqInit + Numbered(c)[i].id)
<1>1. /\ Numbered(c)[i].seq = ToSeq(next_outgoing_seqnum + i - 1)
      /\ Numbered(c)[i].id = Len(log) + i - 1
    BY DEF Numbered
<1>2. /\ Len(log) \in Nat /\ SeqInit \in Int
    BY SeqNumAssumption DEF TypeOK
<1>3. ToSeq(ToSeq(SeqInit + Len(log)) + (i - 1)) = ToSeq((SeqInit + Len(log)) + (i - 1))
    BY <1>2, ToSeqAdd, SeqInit + Len(log) \in Int, i - 1 \in Int
<1>4. ToSeq(SeqInit + Len(log)) \in Int
    BY <1>2, ToSeqType, SeqInit + Len(log) \in Int DEF SeqNums
<1>5. /\ ToSeq(SeqInit + Len(log)) + (i - 1) = next_outgoing_seqnum + i - 1
      /\ (SeqInit + Len(log)) + (i - 1) = SeqInit + (Len(log) + i - 1)
    BY <1>2, <1>4 DEF NumbersMatch
<1>. QED  BY <1>1, <1>3, <1>5

LEMMA ProcessCommandNumbers ==
    ASSUME TypeOK, NumbersMatch, NEW c \in Command, processReliableSendCommand(c)
    PROVE  /\ next_outgoing_seqnum' = ToSeq(SeqInit + Len(log'))
           /\ Len(log') = Len(log) + c.count
           /\ \A p \in Queued' : p \in Queued \/ (p.id < Len(log') /\ p.seq = ToSeq(SeqInit + p.id))
<1>1. /\ Len(log) \in Nat /\ SeqInit \in Int /\ c.count \in Nat
    BY SeqNumAssumption DEF TypeOK, Command
<1>2. Len(log') = Len(log) + c.count
    BY NumberedType, ConcatProperties DEF processReliableSendCommand, TypeOK
<1>3. next_outgoing_seqnum' = ToSeq(SeqInit + Len(log'))
    <2>1. \A k \in Nat : ToSeq(ToSeq(SeqInit + Len(log)) + k) = ToSeq((SeqInit + Len(log)) + k)
        BY <1>1, ToSeqAdd, SeqInit + Len(log) \in Int
    <2>2. ToSeq(ToSeq(SeqInit + Len(log)) + c.count) = ToSeq((SeqInit + Len(log)) + c.count)
        BY <1>1, <2>1
    <2>3. (SeqInit + Len(log)) + c.count = SeqInit + Len(log')
        BY <1>1, <1>2
    <2>. QED  BY <2>2, <2>3 DEF processReliableSendCommand, NumbersMatch
<1>4. Queued' = Queued \union {Numbered(c)[i] : i \in 1 .. c.count}
    <2>1. /\ Numbered(c) \in Seq(Packet) /\ queued_reliables \in Seq(Packet)
          /\ DOMAIN Numbered(c) = 1 .. c.count
        BY NumberedType DEF Numbered, TypeOK
    <2>2. queued_reliables' = queued_reliables \o Numbered(c)
        BY DEF processReliableSendCommand
    <2>3. {(queued_reliables \o Numbered(c))[i] : i \in DOMAIN (queued_reliables \o Numbered(c))}
            = Queued \union {Numbered(c)[i] : i \in 1 .. c.count}
        BY <2>1, QueuedOfConcat DEF Queued
    <2>. QED  BY <2>2, <2>3 DEF Queued
<1>5. \A i \in 1 .. c.count : Numbered(c)[i].id < Len(log')
    BY <1>1, <1>2 DEF Numbered
<1>. QED  BY <1>2, <1>3, <1>4, <1>5, NumberedMatches

LEMMA QueuedOfAppend ==
    ASSUME NEW s \in Seq(Packet), NEW p \in Packet
    PROVE  {Append(s, p)[i] : i \in DOMAIN Append(s, p)} = {s[i] : i \in DOMAIN s} \union {p}
<1>1. /\ DOMAIN s = 1 .. Len(s) /\ DOMAIN Append(s, p) = 1 .. Len(s) + 1 /\ Len(s) \in Nat
    BY AppendProperties, LenProperties
<1>2. /\ \A i \in DOMAIN Append(s, p) : IF i =< Len(s) THEN Append(s, p)[i] = s[i]
                                                      ELSE Append(s, p)[i] = p
      /\ Append(s, p)[Len(s) + 1] = p
    BY <1>1, AppendProperties
<1>. DEFINE S == {s[i] : i \in DOMAIN s}
            U == {Append(s, p)[i] : i \in DOMAIN Append(s, p)}
<1>3. \A x \in U : x \in S \/ x = p
    BY <1>1, <1>2
<1>4. \A x \in S : x \in U
    BY <1>1, <1>2
<1>5. p \in U
    BY <1>1, <1>2
<1>. QED  BY <1>3, <1>4, <1>5

LEMMA QueuedOfTail ==
    ASSUME NEW s \in Seq(Packet), s # <<>>
    PROVE  {s[i] : i \in DOMAIN s} = {Head(s)} \union {Tail(s)[i] : i \in DOMAIN Tail(s)}
<1>1. /\ DOMAIN s = 1 .. Len(s) /\ DOMAIN Tail(s) = 1 .. Len(s) - 1
      /\ Len(s) \in Nat /\ Len(s) > 0
      /\ Head(s) = s[1] /\ \A i \in 1 .. Len(s) - 1 : Tail(s)[i] = s[i + 1]
    BY HeadTailProperties, LenProperties, EmptySeq
<1>2. \A i \in DOMAIN s : \/ s[i] = Head(s)
                          \/ i - 1 \in DOMAIN Tail(s) /\ s[i] = Tail(s)[i - 1]
    BY <1>1
<1>3. \A i \in DOMAIN Tail(s) : i + 1 \in DOMAIN s /\ Tail(s)[i] = s[i + 1]
    BY <1>1
<1>4. 1 \in DOMAIN s
    BY <1>1
<1>. DEFINE S == {s[i] : i \in DOMAIN s}
            T == {Tail(s)[i] : i \in DOMAIN Tail(s)}
<1>5. \A x \in S : x = Head(s) \/ x \in T
    BY <1>2
<1>6. \A x \in T : x \in S
    BY <1>3
<1>7. Head(s) \in S
    BY <1>1, <1>4
<1>. QED  BY <1>5, <1>6, <1>7

LEMMA RawSendNumbers ==
    ASSUME TypeOK, NumbersMatch, rawSendAsPacket(NextPacket)
    PROVE  /\ NextPacket \in Packet
           /\ NextPacket.id = Len(log)
           /\ NextPacket.seq = ToSeq(SeqInit + Len(log))
           /\ Len(log') = Len(log) + 1
           /\ next_outgoing_seqnum' = ToSeq(SeqInit + Len(log'))
           /\ outgoing_reliables_sent' \subseteq outgoing_reliables_sent \union {NextPacket}
           /\ wire' \subseteq wire \union {NextPacket}
           /\ Queued' = IF RawSent THEN Queued ELSE Queued \union {NextPacket}
<1>1. /\ NextPacket \in Packet /\ NextPacket.id = Len(log)
      /\ NextPacket.seq = ToSeq(SeqInit + Len(log))
    BY DEF NextPacket, Packet, TypeOK, NumbersMatch
<1>2. Len(log') = Len(log) + 1
    BY ControlType, AppendProperties DEF rawSendAsPacket, TypeOK
<1>3. next_outgoing_seqnum' = ToSeq(SeqInit + Len(log'))
    <2>1. SeqInit + Len(log) \in Int /\ SeqInit \in Int /\ Len(log) \in Int
        BY SeqNumAssumption DEF TypeOK
    <2>2. ToSeq(ToSeq(SeqInit + Len(log)) + 1) = ToSeq((SeqInit + Len(log)) + 1)
        BY <2>1, ToSeqAdd
    <2>3. (SeqInit + Len(log)) + 1 = SeqInit + Len(log')
        BY <1>2, <2>1
    <2>. QED  BY <2>2, <2>3 DEF rawSendAsPacket, NumbersMatch
<1>4. CASE RawSent
    <2>1. /\ outgoing_reliables_sent' =
               Insert(outgoing_reliables_sent, NextPacket,
                      ToSeq(next_outgoing_seqnum + 1 - HalfMod))
          /\ wire' = wire \union {NextPacket}
          /\ queued_reliables' = queued_reliables
        BY <1>4 DEF rawSendAsPacket, sendAsPacketReliable
    <2>2. outgoing_reliables_sent' \subseteq outgoing_reliables_sent \union {NextPacket}
        BY <2>1 DEF Insert
    <2>. QED  BY <1>1, <1>2, <1>3, <1>4, <2>1, <2>2 DEF Queued
<1>5. CASE ~RawSent
    <2>1. /\ queued_reliables' = Append(queued_reliables, NextPacket)
          /\ UNCHANGED <<outgoing_reliables_sent, wire>>
        BY <1>5 DEF rawSendAsPacket
    <2>2. {Append(queued_reliables, NextPacket)[i] :
              i \in DOMAIN Append(queued_reliables, NextPacket)} = Queued \union {NextPacket}
        BY <1>1, QueuedOfAppend DEF TypeOK, Queued
    <2>3. Queued' = Queued \union {NextPacket}
        BY <2>1, <2>2 DEF Queued
    <2>. QED  BY <1>1, <1>2, <1>3, <1>5, <2>1, <2>3
<1>. QED  BY <1>4, <1>5

LEMMA ProcessPacketNumbers ==
    ASSUME TypeOK, NumbersMatch, NEW p \in Packet, processPacket(p)
    PROVE  /\ processed' = Append(processed, p.id)
           /\ Len(processed') = Len(processed) + 1
           /\ next_incoming_seqnum' = ToSeq(SeqInit + Len(processed'))
<1>1. processed' = Append(processed, p.id) /\ Len(processed') = Len(processed) + 1
    BY PacketSeqType, AppendProperties DEF processPacket, TypeOK
<1>2. /\ SeqInit + Len(processed) \in Int /\ SeqInit \in Int /\ Len(processed) \in Int
    BY SeqNumAssumption DEF TypeOK
<1>3. ToSeq(ToSeq(SeqInit + Len(processed)) + 1) = ToSeq((SeqInit + Len(processed)) + 1)
    BY <1>2, ToSeqAdd
<1>4. (SeqInit + Len(processed)) + 1 = SeqInit + Len(processed')
    BY <1>1, <1>2
<1>. QED  BY <1>1, <1>3, <1>4 DEF processPacket, NumbersMatch

(* A step leaves every number as it was and gives new packets theirs. *)
LEMMA NumbersStep == TypeOK /\ NumbersMatch /\ [Next]_vars => NumbersMatch'
<1>. SUFFICES ASSUME TypeOK, NumbersMatch, [Next]_vars
              PROVE  NumbersMatch'
    OBVIOUS
<1>. USE DEF sendVars, netVars, recvVars
<1>a. Len(log) \in Nat /\ \A p \in Packets : NumberMatches(p)
    BY DEF TypeOK, NumbersMatch
\* packets that are held in another place keep their numbers
<1>b. ASSUME Packets' \subseteq Packets, UNCHANGED <<log, next_outgoing_seqnum>>,
             UNCHANGED <<processed, next_incoming_seqnum>>
      PROVE  NumbersMatch'
    BY <1>b DEF NumbersMatch, NumberMatches
<1>1. ASSUME NEW c \in Command, processReliableSendCommand(c),
             UNCHANGED <<outgoing_reliables_sent, netVars, recvVars>>
      PROVE  NumbersMatch'
    <2>1. /\ next_outgoing_seqnum' = ToSeq(SeqInit + Len(log'))
          /\ Len(log') > Len(log)
          /\ \A p \in Queued' : p \in Queued \/ (p.id < Len(log') /\ p.seq = ToSeq(SeqInit + p.id))
        BY <1>a, <1>1, ProcessCommandNumbers DEF Command
    <2>2. \A p \in Packets' : p \in Packets \/ p \in Queued'
        BY <1>1 DEF Packets, Unanswered
    <2>3. \A p \in Packets : p.id \in Nat
        BY PacketSeqType DEF Packets, Unanswered, Queued, TypeOK
    <2>4. Len(log') \in Nat
        BY <1>1, ProcessCommandNumbers, <1>a DEF Command
    <2>5. \A p \in Packets' : NumberMatches(p)'
        BY <1>a, <2>1, <2>2, <2>3, <2>4 DEF NumberMatches, Packets, Unanswered
    <2>. QED  BY <1>1, <2>1, <2>5 DEF NumbersMatch
<1>2. ASSUME NEW count \in 1 .. MaxChunks, SendCommand(count)
      PROVE  NumbersMatch'
    <2>. DEFINE c == [cmd |-> submitted + 1, count |-> count]
    <2>1. c \in Command
        BY ChannelAssumption DEF Command, TypeOK
    <2>2. /\ UNCHANGED <<outgoing_reliables_sent, window_size, netVars, recvVars>>
          /\ PutReliableSendCommand(c)
        BY <1>2 DEF SendCommand
    <2>3. CASE processReliableSendCommand(c)
        BY <1>1, <2>1, <2>2, <2>3
    <2>4. CASE UNCHANGED <<queued_reliables, log, next_outgoing_seqnum>>
        BY <1>b, <2>2, <2>4 DEF Packets, Unanswered, Queued
    <2>. QED  BY <2>1, <2>2, <2>3, <2>4, PutCases DEF PutsCommand
<1>3. ASSUME RunsCommand
      PROVE  NumbersMatch'
    <2>1. Head(queued_commands) \in Command
        BY <1>3, HeadTailProperties DEF RunsCommand, TypeOK
    <2>. QED  BY <1>1, <1>3, <2>1 DEF RunsCommand
<1>4. ASSUME SendPackets
      PROVE  NumbersMatch'
    <2>1. /\ queued_reliables \in Seq(Packet) /\ queued_reliables # <<>>
          /\ queued_reliables' = Tail(queued_reliables)
        BY <1>4 DEF SendPackets, TypeOK
    <2>2. Queued = {Head(queued_reliables)} \union Queued'
        BY <2>1, QueuedOfTail DEF Queued
    <2>3. Packets' \subseteq Packets
        BY <1>4, <2>2 DEF SendPackets, sendAsPacketReliable, Insert, Packets, Unanswered
    <2>. QED  BY <1>4, <1>b, <2>3 DEF SendPackets
<1>5. ASSUME CreatePeer \/ Ping
      PROVE  NumbersMatch'
    <2>1. /\ rawSendAsPacket(NextPacket)
          /\ UNCHANGED <<acks, recvVars>>
        BY <1>5 DEF CreatePeer, Ping
    <2>2. /\ next_outgoing_seqnum' = ToSeq(SeqInit + Len(log'))
          /\ Len(log') = Len(log) + 1
          /\ NextPacket.id < Len(log') /\ NextPacket.seq = ToSeq(SeqInit + NextPacket.id)
        BY <1>a, <2>1, RawSendNumbers
    <2>3. Packets' \subseteq Packets \union {NextPacket}
        BY <2>1, RawSendNumbers DEF Packets, Unanswered
    <2>4. \A p \in Packets : p.id \in Nat
        BY PacketSeqType DEF Packets, Unanswered, Queued, TypeOK
    <2>5. \A p \in Packets' : NumberMatches(p)'
        BY <1>a, <2>2, <2>3, <2>4 DEF NumberMatches
    <2>. QED  BY <2>1, <2>2, <2>5 DEF NumbersMatch
<1>6. ASSUME NEW p \in outgoing_reliables_sent, Resend(p)
      PROVE  NumbersMatch'
    BY <1>6, <1>b DEF Resend, Packets, Unanswered, Queued
<1>7. ASSUME NEW d \in WindowSteps, UpdateTimers(d)
      PROVE  NumbersMatch'
    BY <1>7, <1>b DEF UpdateTimers, Packets, Unanswered, Queued
\* a packet is processed, and no other is added
<1>8. ASSUME NEW p \in Packets, p \in Packet, processPacket(p),
             Packets' \subseteq Packets, UNCHANGED sendVars
      PROVE  NumbersMatch'
    BY <1>8, ProcessPacketNumbers DEF NumbersMatch, NumberMatches
<1>9. ASSUME checkIncomingBuffers
      PROVE  NumbersMatch'
    <2>. DEFINE p == FirstFrom(incoming_reliables, next_incoming_seqnum)
    <2>1. p \in Packets /\ p \in Packet
        BY <1>9, FirstFromType DEF checkIncomingBuffers, Packets, TypeOK
    <2>2. /\ processPacket(p) /\ UNCHANGED sendVars
          /\ Packets' \subseteq Packets
        BY <1>9 DEF checkIncomingBuffers, Packets, Unanswered, Queued
    <2>. QED  BY <1>8, <2>1, <2>2
<1>10. ASSUME NEW p \in wire, NEW duplicated \in BOOLEAN, ReceivePacket(p, duplicated)
       PROVE  NumbersMatch'
    <2>1. p \in Packets /\ p \in Packet
        BY DEF Packets, TypeOK
    <2>2. UNCHANGED sendVars /\ wire' \subseteq wire
        BY <1>10 DEF ReceivePacket
    <2>3. CASE BufferFuturePacket(p)
        BY <1>b, <2>2, <2>3 DEF BufferFuturePacket, Insert, Packets, Unanswered, Queued
    <2>4. CASE ProcessExpectedPacket(p)
        BY <1>8, <2>1, <2>2, <2>4
           DEF ProcessExpectedPacket, RemoveSeq, Packets, Unanswered, Queued
    <2>5. CASE IgnoreFuturePacket(p) \/ AcknowledgeOldPacket(p)
        BY <1>b, <2>2, <2>5
           DEF IgnoreFuturePacket, AcknowledgeOldPacket, Packets, Unanswered, Queued
    <2>. QED  BY <1>10, <2>3, <2>4, <2>5 DEF ReceivePacket
<1>11. ASSUME NEW a \in acks, NEW duplicated \in BOOLEAN, ReceiveAck(a, duplicated)
       PROVE  NumbersMatch'
    BY <1>11, <1>b DEF ReceiveAck, RemoveSeq, Packets, Unanswered, Queued
<1>12. ASSUME NEW p, LosePacket(p) \/ LoseAck(p)
       PROVE  NumbersMatch'
    BY <1>12, <1>b DEF LosePacket, LoseAck, Packets, Unanswered, Queued
<1>13. CASE UNCHANGED vars
    BY <1>13, <1>b DEF vars, Packets, Unanswered, Queued
<1>. QED
    BY <1>2, <1>3, <1>4, <1>5, <1>6, <1>7, <1>9, <1>10, <1>11, <1>12, <1>13, RunCases
       DEF Next

(* The variables have their types in every state, whatever the network     *)
(* does and however long the channel lives.                                *)
THEOREM TypeCorrect == Spec => []TypeOK
<1>1. Init => TypeOK /\ NumbersMatch
    BY TypeInit, NumbersInit
<1>2. TypeOK /\ NumbersMatch /\ [Next]_vars => (TypeOK /\ NumbersMatch)'
    BY TypeStep, NumbersStep
<1>. QED  BY <1>1, <1>2, PTL DEF Spec

-----------------------------------------------------------------------------
(* Order and delivery, as long as the unanswered packets fit in half the   *)
(* circle.                                                                 *)

(* Two packets less than a circle apart that have the same number are one. *)
LEMMA SameNumberSamePacket ==
    ASSUME NEW p \in Packet, NEW q \in Packet,
           p.seq = ToSeq(SeqInit + p.id), q.seq = ToSeq(SeqInit + q.id),
           p.seq = q.seq, p.id - q.id < SeqMod, q.id - p.id < SeqMod
    PROVE  p = q
<1>1. /\ SeqInit + p.id \in Int /\ SeqInit + q.id \in Int /\ SeqMod \in Int
      /\ p.id \in Int /\ q.id \in Int /\ SeqInit \in Int
    BY SeqNumAssumption DEF Packet, SeqMod
<1>2. SeqInit + p.id = SeqInit + q.id
    BY <1>1, ToSeqInjective
<1>3. p.id = q.id
    BY <1>1, <1>2
<1>. QED  BY <1>3 DEF Packet

(* insert() keeps a packet whose position lies in the window that starts   *)
(* at position b, if all those buffered lie there too.                     *)
LEMMA InsertOfPosition ==
    ASSUME NEW buffer \in SUBSET Packet, NEW p \in Packet, NEW b \in Int,
           \A q \in buffer \union {p} :
               /\ q.seq = ToSeq(SeqInit + q.id)
               /\ b =< q.id /\ q.id < b + HalfMod,
           p.id # b
    PROVE  Insert(buffer, p, ToSeq(SeqInit + b)) = buffer \union {p}
<1>1. /\ HalfMod \in Nat /\ SeqMod = 2 * HalfMod /\ SeqInit \in Int /\ p.id \in Int
      /\ SeqInit + p.id \in Int /\ SeqInit + b \in Int
    BY SeqNumAssumption DEF SeqMod, Packet
<1>2. /\ seqnum_in_window(p.seq, ToSeq(SeqInit + b), HalfMod)
      /\ p.seq # ToSeq(SeqInit + b)
    <2>1. /\ -HalfMod =< (SeqInit + p.id) - (SeqInit + b)
          /\ (SeqInit + p.id) - (SeqInit + b) < HalfMod
          /\ SeqInit + p.id >= SeqInit + b /\ SeqInit + p.id # SeqInit + b
        BY <1>1
    <2>. QED  BY <1>1, <2>1, WindowTellsOldFromNew
<1>3. \A q \in buffer : q.seq = p.seq => q = p
    <2>. SUFFICES ASSUME NEW q \in buffer, q.seq = p.seq PROVE q = p
        OBVIOUS
    <2>1. q.id \in Int /\ p.id - q.id < SeqMod /\ q.id - p.id < SeqMod
        BY <1>1 DEF Packet
    <2>. QED  BY <2>1, SameNumberSamePacket
<1>. QED  BY <1>2, <1>3 DEF Insert, Bufferable

(* What the receiver finds in its buffer. *)
LEMMA DueIsNext ==
    ASSUME TypeOK, NumbersMatch, BufferAhead, NEW q \in incoming_reliables,
           q.seq = next_incoming_seqnum
    PROVE  q.id = Len(processed)
<1>1. /\ q.id \in Int /\ Len(processed) \in Int /\ SeqInit \in Int /\ HalfMod \in Int
      /\ SeqMod = 2 * HalfMod /\ HalfMod > 0
      /\ SeqInit + q.id \in Int /\ SeqInit + Len(processed) \in Int
    BY PacketSeqType, SeqNumAssumption DEF TypeOK, SeqMod
<1>2. ToSeq(SeqInit + q.id) = ToSeq(SeqInit + Len(processed))
    BY DEF NumbersMatch, Packets, NumberMatches
<1>3. Len(processed) =< q.id /\ q.id < Len(processed) + HalfMod
    BY DEF BufferAhead
<1>4. SeqInit + q.id = SeqInit + Len(processed)
    BY <1>1, <1>2, <1>3, ToSeqInjective
<1>. QED  BY <1>1, <1>4

LEMMA NotDueNotBuffered ==
    ASSUME TypeOK, NumbersMatch, BufferAhead, ~BufferedIsDue
    PROVE  \A q \in incoming_reliables : q.id # Len(processed)
<1>. SUFFICES ASSUME NEW q \in incoming_reliables, q.id = Len(processed)
              PROVE  FALSE
    OBVIOUS
<1>. DEFINE f == FirstFrom(incoming_reliables, next_incoming_seqnum)
<1>1. next_incoming_seqnum \in SeqNums /\ \A p \in incoming_reliables : p.seq \in SeqNums
    BY PacketSeqType DEF TypeOK
<1>2. /\ f \in incoming_reliables
      /\ ToSeq(f.seq - next_incoming_seqnum) =< ToSeq(q.seq - next_incoming_seqnum)
    BY <1>1, FirstFromProperties
<1>3. q.seq = next_incoming_seqnum
    BY DEF NumbersMatch, Packets, NumberMatches
<1>4. ToSeq(q.seq - next_incoming_seqnum) = 0
    BY <1>1, <1>3, ToSeqExact, SeqNumAssumption DEF SeqNums, SeqMod
<1>5. ToSeq(f.seq - next_incoming_seqnum) =
         IF f.seq >= next_incoming_seqnum THEN f.seq - next_incoming_seqnum
         ELSE f.seq - next_incoming_seqnum + SeqMod
    <2>1. /\ f.seq \in Int /\ next_incoming_seqnum \in Int /\ SeqMod \in Int
          /\ -SeqMod =< f.seq - next_incoming_seqnum
          /\ f.seq - next_incoming_seqnum < SeqMod
        BY <1>1, <1>2, SeqNumAssumption DEF SeqNums, SeqMod
    <2>2. f.seq - next_incoming_seqnum \in Int
        BY <2>1
    <2>. QED  BY <2>1, <2>2, ToSeqSmall
<1>6. f.seq = next_incoming_seqnum
    BY <1>1, <1>2, <1>4, <1>5, SeqNumAssumption DEF SeqNums, SeqMod
<1>. QED  BY <1>2, <1>6 DEF BufferedIsDue

(* Nothing the receiver can be sent is half a circle ahead of it. *)
LEMMA PacketInReach ==
    ASSUME TypeOK, NumbersMatch, StreamInv, SpanBelowHalf, ~BufferedIsDue,
           NEW p \in Packets
    PROVE  p.id < Len(processed) + HalfMod
<1>1. /\ p.id \in Nat /\ p.id < Len(log) /\ Len(processed) \in Nat /\ Len(log) \in Nat
      /\ HalfMod \in Nat /\ HalfMod > 0
    BY PacketSeqType, SeqNumAssumption
       DEF Packets, Unanswered, Queued, TypeOK, NumbersMatch, NumberMatches
<1>2. CASE Len(processed) >= Len(log)
    BY <1>1, <1>2
<1>3. CASE Len(processed) < Len(log)
    <2>1. Len(processed) \in Ids(Unanswered)
        BY <1>1, <1>3, NotDueNotBuffered DEF StreamInv, NothingForgotten, Ids
    <2>2. Len(log) - Len(processed) < HalfMod
        BY <2>1 DEF SpanBelowHalf, Ids
    <2>. QED  BY <1>1, <2>2
<1>. QED  BY <1>1, <1>2, <1>3

LEMMA StreamInit == Init => StreamInv
<1>. SUFFICES ASSUME Init PROVE StreamInv
    OBVIOUS
<1>. QED  BY DEF Init, StreamInv, ProcessedInOrder, NothingForgotten, BufferAhead, AckedIsReceived

(* A step of the sender that forgets nothing.                              *)
LEMMA SenderForgetsNothing ==
    ASSUME TypeOK, StreamInv, UNCHANGED <<processed, incoming_reliables>>,
           acks' \subseteq acks, Len(log') \in Nat, Len(log') >= Len(log),
           \A n \in 0 .. Len(log) - 1 :
               n \in Ids(Unanswered) => Received(n) \/ n \in Ids(Unanswered'),
           \A n \in Len(log) .. Len(log') - 1 : n \in Ids(Unanswered')
    PROVE  StreamInv'
<1>1. Len(log) \in Nat /\ Len(processed) \in Nat
    BY DEF TypeOK
<1>2. ProcessedInOrder' /\ BufferAhead' /\ AckedIsReceived'
    BY <1>1 DEF StreamInv, ProcessedInOrder, BufferAhead, AckedIsReceived, Received
<1>3. NothingForgotten'
    <2>. SUFFICES ASSUME NEW n \in 0 .. Len(log') - 1
                  PROVE  Received(n) \/ n \in Ids(Unanswered')
        BY DEF NothingForgotten, Received, Ids
    <2>1. CASE n < Len(log)
        BY <1>1, <2>1 DEF StreamInv, NothingForgotten, Received
    <2>2. CASE n >= Len(log)
        BY <1>1, <2>2
    <2>. QED  BY <1>1, <2>1, <2>2
<1>. QED  BY <1>2, <1>3 DEF StreamInv

(* The packets taken for a command are all queued. *)
LEMMA ProcessCommandKeeps ==
    ASSUME TypeOK, NumbersMatch, StreamInv, NEW c \in Command, processReliableSendCommand(c),
           UNCHANGED <<outgoing_reliables_sent, netVars, recvVars>>
    PROVE  StreamInv'
<1>1. /\ Len(log) \in Nat /\ c.count \in Nat /\ Len(log') = Len(log) + c.count
    BY ProcessCommandNumbers DEF TypeOK, Command
<1>2. Queued' = Queued \union {Numbered(c)[i] : i \in 1 .. c.count}
    <2>1. /\ Numbered(c) \in Seq(Packet) /\ DOMAIN Numbered(c) = 1 .. c.count
        BY NumberedType DEF Numbered
    <2>2. {(queued_reliables \o Numbered(c))[i] : i \in DOMAIN (queued_reliables \o Numbered(c))}
            = Queued \union {Numbered(c)[i] : i \in 1 .. c.count}
        BY <2>1, QueuedOfConcat DEF Queued, TypeOK
    <2>. QED  BY <2>2 DEF Queued, processReliableSendCommand
<1>3. \A n \in Len(log) .. Len(log') - 1 : n \in Ids(Unanswered')
    <2>. TAKE n \in Len(log) .. Len(log') - 1
    <2>1. /\ n - Len(log) + 1 \in 1 .. c.count
          /\ Numbered(c)[n - Len(log) + 1].id = n
        BY <1>1 DEF Numbered
    <2>2. Numbered(c)[n - Len(log) + 1] \in Unanswered'
        BY <1>2, <2>1 DEF Unanswered
    <2>. QED  BY <2>1, <2>2 DEF Ids
<1>4. \A n \in Ids(Unanswered) : n \in Ids(Unanswered')
    BY <1>2 DEF Ids, Unanswered
<1>. QED  BY <1>1, <1>3, <1>4, SenderForgetsNothing DEF netVars, recvVars

(* A packet put into the resend buffer stays there. *)
LEMMA SentPositions ==
    ASSUME TypeOK, NumbersMatch, SpanBelowHalf
    PROVE  /\ \A q \in Unanswered : /\ q.seq = ToSeq(SeqInit + q.id)
                                     /\ Len(log) - HalfMod < q.id /\ q.id < Len(log)
           /\ \A k \in Int : ToSeq(next_outgoing_seqnum + k) = ToSeq(SeqInit + (Len(log) + k))
<1>1. /\ Len(log) \in Nat /\ SeqInit \in Int /\ HalfMod \in Int
      /\ \A q \in Unanswered : q.id \in Nat
    BY PacketSeqType, SeqNumAssumption DEF TypeOK, Unanswered, Queued
<1>2. \A k \in Int : ToSeq(next_outgoing_seqnum + k) = ToSeq(SeqInit + (Len(log) + k))
    <2>. TAKE k \in Int
    <2>1. ToSeq(ToSeq(SeqInit + Len(log)) + k) = ToSeq((SeqInit + Len(log)) + k)
        BY <1>1, ToSeqAdd, SeqInit + Len(log) \in Int
    <2>2. (SeqInit + Len(log)) + k = SeqInit + (Len(log) + k)
        BY <1>1
    <2>. QED  BY <2>1, <2>2 DEF NumbersMatch
<1>3. \A q \in Unanswered : /\ q.seq = ToSeq(SeqInit + q.id)
                           /\ Len(log) - HalfMod < q.id /\ q.id < Len(log)
    <2>. TAKE q \in Unanswered
    <2>1. q.seq = ToSeq(SeqInit + q.id) /\ q.id < Len(log)
        BY DEF NumbersMatch, Packets, NumberMatches
    <2>2. Len(log) - q.id < HalfMod
        BY DEF SpanBelowHalf
    <2>. QED  BY <1>1, <2>1, <2>2
<1>. QED  BY <1>2, <1>3

LEMMA RawSendKeeps ==
    ASSUME TypeOK, NumbersMatch, StreamInv, SpanBelowHalf, rawSendAsPacket(NextPacket),
           UNCHANGED <<acks, recvVars>>
    PROVE  StreamInv'
<1>1. /\ Len(log) \in Nat /\ Len(log') = Len(log) + 1 /\ HalfMod \in Nat /\ HalfMod >= 2
      /\ NextPacket \in Packet /\ NextPacket.id = Len(log)
      /\ NextPacket.seq = ToSeq(SeqInit + Len(log))
    BY RawSendNumbers, SeqNumAssumption DEF TypeOK
<1>2. Unanswered' = Unanswered \union {NextPacket}
    <2>1. CASE RawSent
        <3>1. outgoing_reliables_sent' =
                Insert(outgoing_reliables_sent, NextPacket, ToSeq(next_outgoing_seqnum + 1 - HalfMod))
            BY <2>1 DEF rawSendAsPacket, sendAsPacketReliable
        <3>2. ToSeq(next_outgoing_seqnum + 1 - HalfMod) = ToSeq(SeqInit + (Len(log) + 1 - HalfMod))
            <4>1. next_outgoing_seqnum + 1 - HalfMod = next_outgoing_seqnum + (1 - HalfMod)
                BY <1>1 DEF TypeOK, SeqNums
            <4>2. Len(log) + 1 - HalfMod = Len(log) + (1 - HalfMod) /\ 1 - HalfMod \in Int
                BY <1>1
            <4>. QED  BY <4>1, <4>2, SentPositions
        <3>. DEFINE b == Len(log) + 1 - HalfMod
        <3>3. /\ b \in Int /\ NextPacket.id # b
              /\ outgoing_reliables_sent \in SUBSET Packet
            BY <1>1 DEF TypeOK
        <3>4. \A q \in outgoing_reliables_sent \union {NextPacket} :
                 /\ q.seq = ToSeq(SeqInit + q.id)
                 /\ b =< q.id /\ q.id < b + HalfMod
            <4>1. \A q \in outgoing_reliables_sent : q.id \in Nat
                BY PacketSeqType DEF TypeOK
            <4>2. \A q \in outgoing_reliables_sent :
                     /\ q.seq = ToSeq(SeqInit + q.id)
                     /\ Len(log) - HalfMod < q.id /\ q.id < Len(log)
                BY SentPositions DEF Unanswered
            <4>3. \A q \in outgoing_reliables_sent : b =< q.id /\ q.id < b + HalfMod
                BY <1>1, <4>1, <4>2
            <4>4. b =< NextPacket.id /\ NextPacket.id < b + HalfMod
                BY <1>1
            <4>. QED  BY <1>1, <4>2, <4>3, <4>4
        <3>5. Insert(outgoing_reliables_sent, NextPacket, ToSeq(SeqInit + b))
                 = outgoing_reliables_sent \union {NextPacket}
            BY <1>1, <3>3, <3>4, InsertOfPosition
        <3>6. Queued' = Queued
            BY <2>1, RawSendNumbers
        <3>. QED  BY <3>1, <3>2, <3>5, <3>6 DEF Unanswered
    <2>2. CASE ~RawSent
        BY <2>2, RawSendNumbers DEF Unanswered, rawSendAsPacket
    <2>. QED  BY <2>1, <2>2
<1>3. \A n \in Ids(Unanswered) : n \in Ids(Unanswered')
    BY <1>2 DEF Ids
<1>4. \A n \in Len(log) .. Len(log') - 1 : n \in Ids(Unanswered')
    BY <1>1, <1>2 DEF Ids
<1>. QED  BY <1>1, <1>3, <1>4, SenderForgetsNothing DEF recvVars

LEMMA SendPacketsKeeps ==
    ASSUME TypeOK, NumbersMatch, StreamInv, SpanBelowHalf, SendPackets
    PROVE  StreamInv'
<1>. DEFINE p == Head(queued_reliables)
<1>1. /\ p \in Packet /\ Queued = {p} \union Queued' /\ p \in Unanswered
    <2>1. /\ queued_reliables \in Seq(Packet) /\ queued_reliables # <<>>
          /\ queued_reliables' = Tail(queued_reliables)
        BY DEF SendPackets, TypeOK
    <2>2. p \in Packet
        BY <2>1, HeadTailProperties
    <2>3. Queued = {p} \union Queued'
        BY <2>1, QueuedOfTail DEF Queued
    <2>. QED  BY <2>2, <2>3 DEF Unanswered
<1>2. outgoing_reliables_sent' = Insert(outgoing_reliables_sent, p, OutgoingBase)
    BY DEF SendPackets, sendAsPacketReliable
<1>3. /\ Len(log) \in Nat /\ HalfMod \in Nat /\ HalfMod >= 2
      /\ outgoing_reliables_sent \in SUBSET Packet
    BY SeqNumAssumption DEF TypeOK
<1>. DEFINE b == Len(log) - HalfMod
<1>4. OutgoingBase = ToSeq(SeqInit + b)
    <2>1. next_outgoing_seqnum - HalfMod = next_outgoing_seqnum + (-HalfMod)
        BY <1>3 DEF TypeOK, SeqNums
    <2>2. b = Len(log) + (-HalfMod) /\ -HalfMod \in Int
        BY <1>3
    <2>. QED  BY <2>1, <2>2, SentPositions DEF OutgoingBase
<1>5. \A q \in outgoing_reliables_sent \union {p} :
         /\ q.seq = ToSeq(SeqInit + q.id)
         /\ b < q.id /\ q.id < b + HalfMod
    <2>1. \A q \in outgoing_reliables_sent \union {p} : q \in Unanswered /\ q.id \in Nat
        BY <1>1, PacketSeqType DEF TypeOK, Unanswered
    <2>. QED  BY <1>3, <2>1, SentPositions
<1>6. /\ b \in Int /\ p.id # b /\ \A q \in outgoing_reliables_sent \union {p} : b =< q.id
    BY <1>1, <1>3, <1>5, PacketSeqType
<1>7. Insert(outgoing_reliables_sent, p, ToSeq(SeqInit + b)) = outgoing_reliables_sent \union {p}
    BY <1>1, <1>3, <1>5, <1>6, InsertOfPosition
<1>8. Unanswered' = Unanswered
    BY <1>1, <1>2, <1>4, <1>7 DEF Unanswered
<1>9. UNCHANGED <<log, processed, incoming_reliables, acks>>
    BY DEF SendPackets, recvVars
<1>. QED  BY <1>3, <1>8, <1>9, SenderForgetsNothing

(* The receiver moves on by one packet, the next of the stream. *)
LEMMA ProcessKeeps ==
    ASSUME TypeOK, NumbersMatch, StreamInv, NEW p \in Packets, p.id = Len(processed),
           p \in Packet, processPacket(p), UNCHANGED sendVars,
           acks' \subseteq acks \union {p},
           incoming_reliables' \subseteq incoming_reliables,
           \A q \in incoming_reliables : q \in incoming_reliables' \/ q.id = Len(processed),
           \A q \in incoming_reliables' : q.id # Len(processed)
    PROVE  StreamInv'
<1>1. /\ processed \in Seq(Nat) /\ Len(processed) \in Nat /\ Len(log) \in Nat
      /\ processed' = Append(processed, p.id) /\ Len(processed') = Len(processed) + 1
      /\ p.id \in Nat /\ p.id < Len(log) /\ log' = log /\ HalfMod \in Nat
      /\ \A q \in incoming_reliables : q.id \in Nat
      /\ \A a \in acks : a.id \in Nat
    BY ProcessPacketNumbers, PacketSeqType, SeqNumAssumption
       DEF TypeOK, NumbersMatch, NumberMatches, sendVars
<1>2. ProcessedInOrder'
    <2>1. \A i \in 1 .. Len(processed') :
             processed'[i] = IF i =< Len(processed) THEN processed[i] ELSE p.id
        BY <1>1, AppendProperties
    <2>2. \A i \in 1 .. Len(processed') : processed'[i] = i - 1
        BY <1>1, <2>1 DEF StreamInv, ProcessedInOrder
    <2>3. DOMAIN processed' = 1 .. Len(processed')
        BY <1>1, AppendProperties
    <2>. QED  BY <1>1, <2>2, <2>3 DEF ProcessedInOrder
<1>3. \A n \in Nat : Received(n) \/ n = p.id => Received(n)'
    BY <1>1 DEF Received, Ids
<1>4. NothingForgotten'
    <2>1. UNCHANGED Unanswered
        BY DEF sendVars, Unanswered, Queued
    <2>2. \A n \in 0 .. Len(log) - 1 : Received(n) \/ n \in Ids(Unanswered)
        BY DEF StreamInv, NothingForgotten, Received
    <2>3. \A n \in 0 .. Len(log) - 1 : Received(n)' \/ n \in Ids(Unanswered')
        BY <1>3, <2>1, <2>2
    <2>. QED  BY <1>1, <2>3 DEF NothingForgotten, Received, Ids
<1>5. BufferAhead'
    BY <1>1 DEF StreamInv, BufferAhead
<1>6. AckedIsReceived'
    BY <1>1, <1>3 DEF StreamInv, AckedIsReceived
<1>. QED  BY <1>2, <1>4, <1>5, <1>6 DEF StreamInv

LEMMA checkIncomingBuffersKeeps ==
    ASSUME TypeOK, NumbersMatch, StreamInv, checkIncomingBuffers
    PROVE  StreamInv'
<1>. DEFINE p == FirstFrom(incoming_reliables, next_incoming_seqnum)
<1>1. /\ p \in incoming_reliables /\ p \in Packets /\ p \in Packet
      /\ p.seq = next_incoming_seqnum
    BY FirstFromType DEF checkIncomingBuffers, Packets, TypeOK, BufferedIsDue
<1>2. p.id = Len(processed)
    BY <1>1, DueIsNext DEF StreamInv
<1>3. \A q \in incoming_reliables : q.id = Len(processed) => q = p
    <2>1. \A q \in incoming_reliables : q \in Packet /\ q.seq = ToSeq(SeqInit + q.id)
        BY DEF NumbersMatch, NumberMatches, Packets, TypeOK
    <2>2. \A q \in Packet : q.seq = p.seq /\ q.id = p.id => q = p
        BY <1>1 DEF Packet
    <2>. QED  BY <1>1, <1>2, <2>1, <2>2
<1>4. /\ processPacket(p) /\ UNCHANGED sendVars /\ acks' = acks
      /\ incoming_reliables' = incoming_reliables \ {p}
    BY DEF checkIncomingBuffers, netVars
<1>5. /\ acks' \subseteq acks \union {p}
      /\ incoming_reliables' \subseteq incoming_reliables
      /\ \A q \in incoming_reliables : q \in incoming_reliables' \/ q.id = Len(processed)
      /\ \A q \in incoming_reliables' : q.id # Len(processed)
    BY <1>2, <1>3, <1>4
<1>. QED  BY <1>1, <1>2, <1>4, <1>5, ProcessKeeps

(* The receiver tells by the number alone whether a packet is the one it   *)
(* waits for, an older one or one of those to come.                        *)
LEMMA NumbersTell ==
    ASSUME TypeOK, NumbersMatch, StreamInv, SpanBelowHalf,
           NEW p \in wire, NEW duplicated \in BOOLEAN, ReceivePacket(p, duplicated)
    PROVE  /\ -HalfMod =< p.id - Len(processed) /\ p.id - Len(processed) < HalfMod
           /\ InWindow(p) <=> p.id >= Len(processed)
           /\ p.seq = next_incoming_seqnum <=> p.id = Len(processed)
<1>1. /\ p \in Packets /\ p \in Packet /\ p.id \in Int /\ p.seq = ToSeq(SeqInit + p.id)
      /\ p.id < Len(log)
    BY DEF Packets, TypeOK, Packet, NumbersMatch, NumberMatches
<1>2. /\ ~BufferedIsDue /\ FreshPacket(p) /\ UNCHANGED sendVars
    BY DEF ReceivePacket
<1>3. /\ Len(processed) \in Int /\ Len(log) \in Nat /\ HalfMod \in Nat /\ SeqMod = 2 * HalfMod
      /\ SeqInit \in Int
    BY SeqNumAssumption DEF TypeOK, SeqMod
<1>4. -HalfMod =< p.id - Len(processed) /\ p.id - Len(processed) < HalfMod
    BY <1>1, <1>2, <1>3, PacketInReach DEF FreshPacket
<1>5. /\ InWindow(p) <=> p.id >= Len(processed)
      /\ p.seq = next_incoming_seqnum <=> p.id = Len(processed)
    <2>1. /\ -HalfMod =< (SeqInit + p.id) - (SeqInit + Len(processed))
          /\ (SeqInit + p.id) - (SeqInit + Len(processed)) < HalfMod
          /\ SeqInit + p.id \in Int /\ SeqInit + Len(processed) \in Int
        BY <1>1, <1>3, <1>4
    <2>2. /\ seqnum_in_window(ToSeq(SeqInit + p.id), ToSeq(SeqInit + Len(processed)), HalfMod)
                <=> SeqInit + p.id >= SeqInit + Len(processed)
          /\ ToSeq(SeqInit + p.id) = ToSeq(SeqInit + Len(processed))
                <=> SeqInit + p.id = SeqInit + Len(processed)
        BY <2>1, WindowTellsOldFromNew
    <2>. QED  BY <1>1, <1>3, <2>2 DEF InWindow, NumbersMatch
<1>. QED  BY <1>4, <1>5

LEMMA ReceivePacketKeeps ==
    ASSUME TypeOK, NumbersMatch, StreamInv, SpanBelowHalf,
           NEW p \in wire, NEW duplicated \in BOOLEAN, ReceivePacket(p, duplicated)
    PROVE  StreamInv'
<1>1. /\ p \in Packets /\ p \in Packet /\ p.id \in Int /\ p.seq = ToSeq(SeqInit + p.id)
      /\ p.id < Len(log)
    BY DEF Packets, TypeOK, Packet, NumbersMatch, NumberMatches
<1>2. /\ ~BufferedIsDue /\ FreshPacket(p) /\ UNCHANGED sendVars
    BY DEF ReceivePacket
<1>3. /\ Len(processed) \in Int /\ Len(log) \in Nat /\ HalfMod \in Nat /\ SeqMod = 2 * HalfMod
      /\ SeqInit \in Int
    BY SeqNumAssumption DEF TypeOK, SeqMod
<1>4. -HalfMod =< p.id - Len(processed) /\ p.id - Len(processed) < HalfMod
    BY NumbersTell
<1>5. /\ InWindow(p) <=> p.id >= Len(processed)
      /\ p.seq = next_incoming_seqnum <=> p.id = Len(processed)
    BY NumbersTell
<1>6. CASE BufferFuturePacket(p)
    <2>1. p.id > Len(processed) /\ acks' = acks \union {p}
        BY <1>1, <1>3, <1>5, <1>6 DEF BufferFuturePacket
    <2>2. /\ next_incoming_seqnum = ToSeq(SeqInit + Len(processed))
          /\ incoming_reliables \in SUBSET Packet
        BY DEF NumbersMatch, TypeOK
    <2>3. \A q \in incoming_reliables \union {p} :
             /\ q.seq = ToSeq(SeqInit + q.id)
             /\ Len(processed) =< q.id /\ q.id < Len(processed) + HalfMod
        BY <1>1, <1>3, <1>4, <2>1
           DEF StreamInv, BufferAhead, NumbersMatch, NumberMatches, Packets
    <2>4. Insert(incoming_reliables, p, ToSeq(SeqInit + Len(processed))) = incoming_reliables \union {p}
        <3>1. p.id # Len(processed)
            BY <1>1, <1>3, <2>1
        <3>. QED  BY <1>1, <1>3, <2>2, <2>3, <3>1, InsertOfPosition
    <2>5. incoming_reliables' = incoming_reliables \union {p} /\ processed' = processed
        BY <1>6, <2>2, <2>4 DEF BufferFuturePacket
    <2>6. \A n \in Nat : Received(n) \/ n = p.id => Received(n)'
        BY <2>5 DEF Received, Ids
    <2>7. UNCHANGED <<log, Unanswered>>
        BY <1>2 DEF sendVars, Unanswered, Queued
    <2>8. ProcessedInOrder' /\ BufferAhead'
        BY <2>3, <2>5, <2>7 DEF StreamInv, ProcessedInOrder, BufferAhead
    <2>9. NothingForgotten'
        BY <2>6, <2>7 DEF StreamInv, NothingForgotten, Received, Ids
    <2>10. AckedIsReceived'
        <3>1. \A a \in acks \union {p} : a.id \in Nat
            BY <1>1, PacketSeqType DEF TypeOK
        <3>. QED  BY <2>1, <2>6, <3>1 DEF StreamInv, AckedIsReceived
    <2>. QED  BY <2>8, <2>9, <2>10 DEF StreamInv
<1>7. CASE ProcessExpectedPacket(p)
    <2>1. /\ p.id = Len(processed) /\ processPacket(p) /\ acks' = acks \union {p}
          /\ incoming_reliables' = RemoveSeq(incoming_reliables, p.seq)
        BY <1>5, <1>7 DEF ProcessExpectedPacket
    <2>2. \A q \in incoming_reliables : q.id # Len(processed)
        BY <1>2, NotDueNotBuffered DEF StreamInv
    <2>3. \A q \in incoming_reliables : q.seq = p.seq => q.id = Len(processed)
        BY <1>5, <2>1, DueIsNext DEF StreamInv
    <2>4. /\ incoming_reliables' \subseteq incoming_reliables
          /\ \A q \in incoming_reliables : q \in incoming_reliables' \/ q.id = Len(processed)
          /\ \A q \in incoming_reliables' : q.id # Len(processed)
        BY <2>1, <2>2, <2>3 DEF RemoveSeq
    <2>. QED  BY <1>1, <1>2, <2>1, <2>4, ProcessKeeps
<1>8. CASE IgnoreFuturePacket(p)
    BY <1>2, <1>3, <1>8, SenderForgetsNothing DEF IgnoreFuturePacket, recvVars, sendVars, Unanswered, Queued
<1>9. CASE AcknowledgeOldPacket(p)
    <2>1. p.id < Len(processed)
        BY <1>1, <1>3, <1>5, <1>9 DEF AcknowledgeOldPacket
    <2>2. /\ acks' = acks \union {p}
          /\ UNCHANGED <<log, processed, incoming_reliables, Unanswered>>
        BY <1>2, <1>9 DEF AcknowledgeOldPacket, recvVars, sendVars, Unanswered, Queued
    <2>3. AckedIsReceived'
        BY <2>1, <2>2 DEF StreamInv, AckedIsReceived, Received
    <2>. QED  BY <2>2, <2>3 DEF StreamInv, ProcessedInOrder, NothingForgotten, BufferAhead, Ids
<1>. QED  BY <1>6, <1>7, <1>8, <1>9 DEF ReceivePacket

(* An acknowledgement takes off only the packet it acknowledges. *)
LEMMA ReceiveAckKeeps ==
    ASSUME TypeOK, NumbersMatch, StreamInv, SpanBelowHalf,
           NEW a \in acks, NEW duplicated \in BOOLEAN, ReceiveAck(a, duplicated)
    PROVE  StreamInv'
<1>1. /\ a \in Packet /\ a.seq = ToSeq(SeqInit + a.id) /\ a.id < Len(log)
      /\ Len(log) < a.id + SeqMod
    BY DEF ReceiveAck, FreshAck, TypeOK, NumbersMatch, NumberMatches, Packets
<1>2. /\ Len(log) \in Nat /\ HalfMod \in Nat /\ SeqMod = 2 * HalfMod /\ a.id \in Nat
    BY <1>1, SeqNumAssumption DEF TypeOK, SeqMod, Packet
<1>3. \A q \in outgoing_reliables_sent : q.seq = a.seq => q = a
    <2>. SUFFICES ASSUME NEW q \in outgoing_reliables_sent, q.seq = a.seq PROVE q = a
        OBVIOUS
    <2>1. /\ q \in Unanswered /\ q \in Packet /\ q.id \in Nat
        BY PacketSeqType DEF Unanswered, TypeOK
    <2>2. /\ q.seq = ToSeq(SeqInit + q.id) /\ Len(log) - HalfMod < q.id /\ q.id < Len(log)
        BY <2>1, SentPositions
    <2>3. a.id - q.id < SeqMod /\ q.id - a.id < SeqMod
        BY <1>1, <1>2, <2>1, <2>2
    <2>. QED  BY <1>1, <2>1, <2>2, <2>3, SameNumberSamePacket
<1>4. /\ outgoing_reliables_sent' = RemoveSeq(outgoing_reliables_sent, a.seq)
      /\ UNCHANGED <<log, queued_reliables, processed, incoming_reliables>>
      /\ acks' \subseteq acks
    BY DEF ReceiveAck, recvVars
<1>5. \A n \in Ids(Unanswered) : n = a.id \/ n \in Ids(Unanswered')
    BY <1>3, <1>4 DEF Ids, Unanswered, Queued, RemoveSeq
<1>6. Received(a.id)
    BY DEF StreamInv, AckedIsReceived
<1>. QED  BY <1>2, <1>4, <1>5, <1>6, SenderForgetsNothing

(* No step breaks order or loses a packet, as long as the span is small.   *)
LEMMA StreamStep ==
    TypeOK /\ NumbersMatch /\ StreamInv /\ SpanBelowHalf /\ [Next]_vars => StreamInv'
<1>. SUFFICES ASSUME TypeOK, NumbersMatch, StreamInv, SpanBelowHalf, [Next]_vars
              PROVE  StreamInv'
    OBVIOUS
<1>. USE DEF sendVars, netVars, recvVars
<1>a. Len(log) \in Nat
    BY DEF TypeOK
\* the stream and what is held of it stay as they are
<1>b. ASSUME UNCHANGED <<log, queued_reliables, outgoing_reliables_sent>>,
             UNCHANGED <<processed, incoming_reliables>>, acks' \subseteq acks
      PROVE  StreamInv'
    BY <1>a, <1>b, SenderForgetsNothing DEF Unanswered, Queued
<1>1. ASSUME NEW count \in 1 .. MaxChunks, SendCommand(count)
      PROVE  StreamInv'
    <2>. DEFINE c == [cmd |-> submitted + 1, count |-> count]
    <2>1. c \in Command
        BY ChannelAssumption DEF Command, TypeOK
    <2>2. /\ UNCHANGED <<outgoing_reliables_sent, window_size, netVars, recvVars>>
          /\ PutReliableSendCommand(c)
        BY <1>1 DEF SendCommand
    <2>3. CASE processReliableSendCommand(c)
        BY <2>1, <2>2, <2>3, ProcessCommandKeeps
    <2>4. CASE UNCHANGED <<queued_reliables, log, next_outgoing_seqnum>>
        BY <1>b, <2>2, <2>4
    <2>. QED  BY <2>1, <2>2, <2>3, <2>4, PutCases DEF PutsCommand
<1>2. ASSUME RunsCommand
      PROVE  StreamInv'
    <2>1. Head(queued_commands) \in Command
        BY <1>2, HeadTailProperties DEF RunsCommand, TypeOK
    <2>. QED  BY <1>2, <2>1, ProcessCommandKeeps DEF RunsCommand
<1>3. ASSUME SendPackets
      PROVE  StreamInv'
    BY <1>3, SendPacketsKeeps
<1>4. ASSUME CreatePeer \/ Ping
      PROVE  StreamInv'
    BY <1>4, RawSendKeeps DEF CreatePeer, Ping
<1>5. ASSUME NEW p \in outgoing_reliables_sent, Resend(p)
      PROVE  StreamInv'
    BY <1>5, <1>b DEF Resend
<1>6. ASSUME NEW d \in WindowSteps, UpdateTimers(d)
      PROVE  StreamInv'
    BY <1>6, <1>b DEF UpdateTimers
<1>7. ASSUME checkIncomingBuffers
      PROVE  StreamInv'
    BY <1>7, checkIncomingBuffersKeeps
<1>8. ASSUME NEW p \in wire, NEW duplicated \in BOOLEAN, ReceivePacket(p, duplicated)
      PROVE  StreamInv'
    BY <1>8, ReceivePacketKeeps
<1>9. ASSUME NEW a \in acks, NEW duplicated \in BOOLEAN, ReceiveAck(a, duplicated)
      PROVE  StreamInv'
    BY <1>9, ReceiveAckKeeps
<1>10. ASSUME NEW p, LosePacket(p) \/ LoseAck(p)
       PROVE  StreamInv'
    BY <1>10, <1>b DEF LosePacket, LoseAck
<1>11. CASE UNCHANGED vars
    BY <1>11, <1>b DEF vars
<1>. QED
    BY <1>1, <1>2, <1>3, <1>4, <1>5, <1>6, <1>7, <1>8, <1>9, <1>10, <1>11, RunCases DEF Next

(* "They shall be delivered in the same order as sent": as long as what is *)
(* unanswered fits in half the circle, the receive thread processes the    *)
(* packets in stream order and each of them once.                          *)
THEOREM InOrder == Spec /\ []SpanBelowHalf => []ProcessedInOrder
<1>1. Init => TypeOK /\ NumbersMatch /\ StreamInv
    BY TypeInit, NumbersInit, StreamInit
<1>2. /\ TypeOK /\ NumbersMatch /\ StreamInv
      /\ SpanBelowHalf /\ [Next]_vars
      => (TypeOK /\ NumbersMatch /\ StreamInv)'
    BY TypeStep, NumbersStep, StreamStep
<1>3. StreamInv => ProcessedInOrder
    BY DEF StreamInv
<1>. QED  BY <1>1, <1>2, <1>3, PTL DEF Spec

(* "Delivery of all RELIABLE packets shall be forced by ACKs": under the   *)
(* same condition, a packet the sender has let go of has arrived.          *)
THEOREM NeverForgotten == Spec /\ []SpanBelowHalf => []NothingForgotten
<1>1. Init => TypeOK /\ NumbersMatch /\ StreamInv
    BY TypeInit, NumbersInit, StreamInit
<1>2. /\ TypeOK /\ NumbersMatch /\ StreamInv
      /\ SpanBelowHalf /\ [Next]_vars
      => (TypeOK /\ NumbersMatch /\ StreamInv)'
    BY TypeStep, NumbersStep, StreamStep
<1>3. StreamInv => NothingForgotten
    BY DEF StreamInv
<1>. QED  BY <1>1, <1>2, <1>3, PTL DEF Spec

-----------------------------------------------------------------------------
(***************************************************************************)
(* The commands on their way.  Those that have numbers lie in the log one  *)
(* after the other, each with all its chunks together; the others wait in  *)
(* line behind them.                                                       *)
(***************************************************************************)
Taken == submitted - Len(queued_commands)
ChunksAt == {n \in DOMAIN log : log[n] # Control}

(* Where in the log the command of this chunk begins and ends. *)
FirstPos(n) == n - log[n].chunk
LastPos(n)  == FirstPos(n) + log[n].count - 1

CommandsInLine ==
    /\ Len(queued_commands) =< submitted
    /\ \A i \in DOMAIN queued_commands : queued_commands[i].cmd = Taken + i

ChunksTogether ==
    \A n \in ChunksAt :
       /\ log[n].cmd \in 1 .. Taken /\ log[n].chunk < log[n].count
       /\ \A k \in 0 .. log[n].count - 1 :
             /\ FirstPos(n) + k \in DOMAIN log
             /\ log[FirstPos(n) + k] =
                  [cmd |-> log[n].cmd, chunk |-> k, count |-> log[n].count]

CommandsInOrder ==
    \A m, n \in ChunksAt :
       /\ m < n => log[m].cmd =< log[n].cmd
       /\ log[m].cmd = log[n].cmd => FirstPos(m) = FirstPos(n)

AllTaken == \A c \in 1 .. Taken : \E n \in ChunksAt : log[n].cmd = c

(* The receiver holds the chunks it has processed of the one command that  *)
(* is not complete, and has handed over the commands that are.             *)
Incomplete ==
    {n \in ChunksAt : n =< Len(processed) /\ Len(processed) < LastPos(n)}
SplitsAreIncomplete == incoming_splits = {log[n] : n \in Incomplete}

EventsInOrder ==
    /\ Len(events) =< Taken
    /\ \A i \in DOMAIN events : events[i] = i
    /\ \A n \in ChunksAt : LastPos(n) =< Len(processed) <=> log[n].cmd =< Len(events)

LogPart == ChunksTogether /\ CommandsInOrder /\ AllTaken
HandedPart == SplitsAreIncomplete /\ EventsInOrder
LineInv == CommandsInLine /\ LogPart /\ HandedPart

LEMMA LineInit == Init => LineInv
BY DEF Init, LineInv, CommandsInLine, LogPart, ChunksTogether, CommandsInOrder, AllTaken,
       HandedPart, SplitsAreIncomplete, EventsInOrder, Incomplete, ChunksAt, Taken

LEMMA LineTypes ==
    ASSUME TypeOK
    PROVE  /\ submitted \in Nat /\ Len(queued_commands) \in Nat /\ Taken \in Int
           /\ log \in Seq(Payload) /\ Len(log) \in Nat /\ DOMAIN log = 1 .. Len(log)
           /\ Len(processed) \in Nat /\ events \in Seq(Nat) /\ Len(events) \in Nat
           /\ \A n \in DOMAIN log :
                 /\ log[n].cmd \in Nat /\ log[n].chunk \in Nat /\ log[n].count \in Nat \ {0}
                 /\ FirstPos(n) \in Int /\ LastPos(n) \in Int
<1>1. /\ submitted \in Nat /\ Len(queued_commands) \in Nat /\ Taken \in Int
      /\ log \in Seq(Payload) /\ Len(log) \in Nat /\ DOMAIN log = 1 .. Len(log)
      /\ Len(processed) \in Nat /\ events \in Seq(Nat) /\ Len(events) \in Nat
    BY DEF TypeOK, Taken
<1>2. \A n \in DOMAIN log : log[n] \in Payload
    BY <1>1
<1>3. \A n \in DOMAIN log :
         /\ log[n].cmd \in Nat /\ log[n].chunk \in Nat /\ log[n].count \in Nat \ {0}
    BY <1>2 DEF Payload
<1>. QED  BY <1>1, <1>3 DEF FirstPos, LastPos

(* What is longer at its end is the same before it. *)
LEMMA LogKept ==
    ASSUME TypeOK, \A n \in DOMAIN log : n \in DOMAIN log' /\ log'[n] = log[n]
    PROVE  \A n \in DOMAIN log : /\ n \in ChunksAt' <=> n \in ChunksAt
                                 /\ FirstPos(n)' = FirstPos(n)
                                 /\ LastPos(n)' = LastPos(n)
BY DEF ChunksAt, FirstPos, LastPos, Control

(* A control packet in the stream is no part of any command. *)
LEMMA ControlTaken ==
    ASSUME TypeOK, LineInv, rawSendAsPacket(NextPacket), Taken' = Taken,
           UNCHANGED <<processed, incoming_splits, events>>
    PROVE  LogPart' /\ HandedPart'
<1>1. /\ DOMAIN log' = 1 .. Len(log) + 1 /\ log'[Len(log) + 1] = Control
      /\ \A n \in DOMAIN log : n \in DOMAIN log' /\ log'[n] = log[n]
    BY LineTypes DEF rawSendAsPacket
<1>2. ChunksAt' = ChunksAt
    BY <1>1, LineTypes DEF ChunksAt, Control
<1>3. \A n \in ChunksAt : /\ n \in DOMAIN log /\ log'[n] = log[n]
                          /\ FirstPos(n)' = FirstPos(n) /\ LastPos(n)' = LastPos(n)
    BY <1>1, LogKept DEF ChunksAt
<1>4. ChunksTogether'
    <2>. SUFFICES ASSUME NEW n \in ChunksAt
                  PROVE  /\ log'[n].cmd \in 1 .. Taken /\ log'[n].chunk < log'[n].count
                         /\ \A k \in 0 .. log'[n].count - 1 :
                               /\ FirstPos(n) + k \in DOMAIN log'
                               /\ log'[FirstPos(n) + k] =
                                    [cmd |-> log'[n].cmd, chunk |-> k,
                                     count |-> log'[n].count]
        BY <1>2, <1>3 DEF ChunksTogether
    <2>. QED  BY <1>1, <1>3 DEF LineInv, LogPart, ChunksTogether
<1>5. CommandsInOrder'
    BY <1>2, <1>3 DEF LineInv, LogPart, CommandsInOrder
<1>6. AllTaken'
    BY <1>2, <1>3 DEF LineInv, LogPart, AllTaken
<1>7. SplitsAreIncomplete'
    <2>1. Incomplete' = Incomplete
        BY <1>2, <1>3 DEF Incomplete
    <2>2. \A n \in Incomplete : log'[n] = log[n]
        BY <1>3 DEF Incomplete
    <2>3. {log'[n] : n \in Incomplete'} = {log[n] : n \in Incomplete}
        BY <2>1, <2>2
    <2>. QED  BY <2>3 DEF LineInv, HandedPart, SplitsAreIncomplete
<1>8. EventsInOrder'
    BY <1>2, <1>3 DEF LineInv, HandedPart, EventsInOrder
<1>. QED  BY <1>4, <1>5, <1>6, <1>7, <1>8 DEF LogPart, HandedPart

(* Where the elements of two sequences are when one is put behind the other. *)
LEMMA ConcatPositions ==
    ASSUME NEW S, NEW s \in Seq(S), NEW t \in Seq(S), NEW u, u = s \o t
    PROVE  /\ DOMAIN u = 1 .. Len(s) + Len(t)
           /\ \A n \in 1 .. Len(s) : u[n] = s[n]
           /\ \A i \in 1 .. Len(t) : u[Len(s) + i] = t[i]
<1>1. Len(s) \in Nat /\ Len(t) \in Nat
    BY LenProperties
<1>2. /\ u \in Seq(S) /\ Len(u) = Len(s) + Len(t)
      /\ \A i \in 1 .. Len(s) + Len(t) :
            u[i] = IF i =< Len(s) THEN s[i] ELSE t[i - Len(s)]
    BY ConcatProperties
<1>3. DOMAIN u = 1 .. Len(s) + Len(t)
    BY <1>2, LenProperties
<1>. QED  BY <1>1, <1>2, <1>3

(* The next command in line takes the numbers that follow. *)
LEMMA CommandTaken ==
    ASSUME TypeOK, LineInv, Len(processed) =< Len(log),
           NEW c \in Command, c.cmd = Taken + 1, processReliableSendCommand(c),
           Taken' = Taken + 1, UNCHANGED <<processed, incoming_splits, events>>
    PROVE  LogPart' /\ HandedPart'
<1>. DEFINE L == Len(log)
<1>1. PICK cmd \in Nat, count \in Nat \ {0} : cmd = c.cmd /\ count = c.count
    BY DEF Command
<1>2. /\ L \in Nat /\ Taken \in Int /\ DOMAIN log = 1 .. L
      /\ DOMAIN log' = 1 .. L + count
      /\ \A n \in DOMAIN log : n \in DOMAIN log' /\ log'[n] = log[n]
      /\ \A i \in 1 .. count : log'[L + i] = [cmd |-> cmd, chunk |-> i - 1, count |-> count]
    <2>1. /\ log \in Seq(Payload) /\ Chunks(c) \in Seq(Payload) /\ Len(Chunks(c)) = count
        BY <1>1, NumberedType, LineTypes
    <2>2. /\ DOMAIN log' = 1 .. L + count
          /\ \A n \in 1 .. L : log'[n] = log[n]
          /\ \A i \in 1 .. count : log'[L + i] = Chunks(c)[i]
        <3>1. PICK s \in Seq(Payload) : s = Chunks(c) /\ Len(s) = count
            BY <2>1
        <3>2. log' = log \o s
            BY <3>1 DEF processReliableSendCommand
        <3>3. PICK u : u = log'
            OBVIOUS
        <3>4. u = log \o s
            BY <3>2, <3>3
        <3>5. /\ DOMAIN u = 1 .. Len(log) + Len(s)
              /\ \A n \in 1 .. Len(log) : u[n] = log[n]
              /\ \A i \in 1 .. Len(s) : u[Len(log) + i] = s[i]
            BY <2>1, <3>1, <3>4, ConcatPositions
        <3>. QED  BY <3>1, <3>3, <3>5
    <2>3. \A i \in 1 .. count :
             Chunks(c)[i] = [cmd |-> cmd, chunk |-> i - 1, count |-> count]
        BY <1>1 DEF Chunks
    <2>4. \A n \in 1 .. L : n \in 1 .. L + count
        BY LineTypes
    <2>. QED  BY <2>2, <2>3, <2>4, LineTypes
<1>3. Taken \in Nat /\ cmd = Taken + 1 /\ cmd # 0
    BY <1>1, <1>2, LineTypes DEF LineInv, CommandsInLine, Taken
<1>4. \A n \in ChunksAt : /\ n \in ChunksAt' /\ n \in 1 .. L /\ log'[n] = log[n]
                          /\ FirstPos(n)' = FirstPos(n) /\ LastPos(n)' = LastPos(n)
    BY <1>2, LogKept DEF ChunksAt
<1>5. \A n \in (L + 1) .. (L + count) :
         /\ log'[n].cmd = cmd /\ log'[n].chunk = n - (L + 1) /\ log'[n].count = count
         /\ n \in ChunksAt'
         /\ FirstPos(n)' = L + 1 /\ LastPos(n)' = L + count
    <2>. SUFFICES ASSUME NEW n \in (L + 1) .. (L + count)
                  PROVE  /\ log'[n].cmd = cmd /\ log'[n].chunk = n - (L + 1)
                         /\ log'[n].count = count
                         /\ n \in ChunksAt'
                         /\ FirstPos(n)' = L + 1 /\ LastPos(n)' = L + count
        OBVIOUS
    <2>1. log'[n] = [cmd |-> cmd, chunk |-> n - (L + 1), count |-> count]
        <3>1. /\ n - L \in 1 .. count /\ n = L + (n - L)
              /\ (n - L) - 1 = n - (L + 1)
            BY <1>2
        <3>2. log'[L + (n - L)] = [cmd |-> cmd, chunk |-> (n - L) - 1, count |-> count]
            BY <1>2, <3>1
        <3>. QED  BY <3>1, <3>2
    <2>2. n \in DOMAIN log' /\ log'[n] # Control
        BY <1>2, <1>3, <2>1 DEF Control
    <2>. QED  BY <1>2, <2>1, <2>2 DEF ChunksAt, FirstPos, LastPos
<1>6. \A n \in ChunksAt' : n \in ChunksAt \/ n \in (L + 1) .. (L + count)
    BY <1>2 DEF ChunksAt, Control
<1>7. ChunksTogether'
    <2>. SUFFICES ASSUME NEW n \in ChunksAt'
                  PROVE  /\ log'[n].cmd \in 1 .. Taken + 1 /\ log'[n].chunk < log'[n].count
                         /\ \A k \in 0 .. log'[n].count - 1 :
                               /\ FirstPos(n)' + k \in DOMAIN log'
                               /\ log'[FirstPos(n)' + k] =
                                    [cmd |-> log'[n].cmd, chunk |-> k,
                                     count |-> log'[n].count]
        BY DEF ChunksTogether, FirstPos
    <2>1. CASE n \in ChunksAt
        BY <1>2, <1>3, <1>4, <2>1 DEF LineInv, LogPart, ChunksTogether
    <2>2. CASE n \in (L + 1) .. (L + count)
        <3>1. /\ log'[n].cmd = cmd /\ log'[n].chunk = n - (L + 1)
              /\ log'[n].count = count /\ FirstPos(n)' = L + 1
            BY <1>5, <2>2
        <3>2. \A k \in 0 .. count - 1 :
                 /\ L + 1 + k \in DOMAIN log'
                 /\ log'[L + 1 + k] = [cmd |-> cmd, chunk |-> k, count |-> count]
            <4>. SUFFICES ASSUME NEW k \in 0 .. count - 1
                          PROVE  /\ L + 1 + k \in DOMAIN log'
                                 /\ log'[L + 1 + k] =
                                      [cmd |-> cmd, chunk |-> k, count |-> count]
                OBVIOUS
            <4>1. /\ k + 1 \in 1 .. count /\ L + 1 + k = L + (k + 1) /\ (k + 1) - 1 = k
                  /\ L + 1 + k \in 1 .. L + count
                BY <1>2
            <4>2. log'[L + (k + 1)] = [cmd |-> cmd, chunk |-> (k + 1) - 1, count |-> count]
                BY <1>2, <4>1
            <4>. QED  BY <1>2, <4>1, <4>2
        <3>3. PICK f : f = FirstPos(n)'
            OBVIOUS
        <3>4. \A k \in 0 .. count - 1 :
                 /\ f + k \in DOMAIN log'
                 /\ log'[f + k] = [cmd |-> cmd, chunk |-> k, count |-> count]
            BY <3>1, <3>2, <3>3
        <3>5. cmd \in 1 .. Taken + 1 /\ n - (L + 1) < count
            BY <1>2, <1>3, <2>2
        <3>. QED  BY <3>1, <3>3, <3>4, <3>5
    <2>. QED  BY <1>6, <2>1, <2>2
<1>8. \A n \in ChunksAt : log[n].cmd < cmd
    BY <1>3, LineTypes DEF LineInv, LogPart, ChunksTogether, ChunksAt
<1>9. CommandsInOrder'
    <2>. SUFFICES ASSUME NEW m \in ChunksAt', NEW n \in ChunksAt'
                  PROVE  /\ m < n => log'[m].cmd =< log'[n].cmd
                         /\ log'[m].cmd = log'[n].cmd => FirstPos(m)' = FirstPos(n)'
        BY DEF CommandsInOrder, FirstPos
    <2>1. CASE m \in ChunksAt /\ n \in ChunksAt
        BY <1>4, <2>1 DEF LineInv, LogPart, CommandsInOrder
    <2>2. CASE m \in ChunksAt /\ n \in (L + 1) .. (L + count)
        BY <1>2, <1>4, <1>5, <1>8, <2>2, LineTypes DEF ChunksAt
    <2>3. CASE m \in (L + 1) .. (L + count) /\ n \in ChunksAt
        <3>1. log'[m].cmd = cmd /\ log'[n].cmd < cmd /\ log'[n].cmd \in Nat
            BY <1>4, <1>5, <1>8, <2>3, LineTypes DEF ChunksAt
        <3>2. ~ (m < n)
            BY <1>2, <1>4, <2>3
        <3>. QED  BY <3>1, <3>2
    <2>4. CASE m \in (L + 1) .. (L + count) /\ n \in (L + 1) .. (L + count)
        <3>1. /\ log'[m].cmd = cmd /\ FirstPos(m)' = L + 1
              /\ log'[n].cmd = cmd /\ FirstPos(n)' = L + 1
            BY <1>5, <2>4
        <3>. QED  BY <3>1
    <2>. QED  BY <1>6, <2>1, <2>2, <2>3, <2>4
<1>10. AllTaken'
    <2>. SUFFICES ASSUME NEW d \in 1 .. Taken + 1
                  PROVE  \E n \in ChunksAt' : log'[n].cmd = d
        BY DEF AllTaken
    <2>1. CASE d \in 1 .. Taken
        BY <1>4, <2>1 DEF LineInv, LogPart, AllTaken
    <2>2. CASE d = cmd
        <3>1. L + 1 \in (L + 1) .. (L + count)
            BY <1>2
        <3>. QED  BY <1>5, <2>2, <3>1
    <2>3. d \in 1 .. Taken \/ d = cmd
        BY <1>3
    <2>. QED  BY <2>1, <2>2, <2>3
<1>11. SplitsAreIncomplete'
    <2>1. \A n : n \in Incomplete' <=> n \in Incomplete
        BY <1>2, <1>4, <1>6, LineTypes DEF Incomplete
    <2>2. \A n \in Incomplete : log'[n] = log[n]
        BY <1>4 DEF Incomplete
    <2>3. {log'[n] : n \in Incomplete'} = {log[n] : n \in Incomplete}
        BY <2>1, <2>2
    <2>. QED  BY <2>3 DEF LineInv, HandedPart, SplitsAreIncomplete
<1>12. EventsInOrder'
    <2>1. Len(events) =< Taken /\ Len(events) =< Taken + 1 /\ Len(events) < cmd
        BY <1>3, LineTypes DEF LineInv, HandedPart, EventsInOrder
    <2>2. \A n \in ChunksAt' : LastPos(n)' =< Len(processed) <=> log'[n].cmd =< Len(events)
        <3>. SUFFICES ASSUME NEW n \in ChunksAt'
                      PROVE  LastPos(n)' =< Len(processed) <=> log'[n].cmd =< Len(events)
            OBVIOUS
        <3>1. CASE n \in ChunksAt
            BY <1>4, <3>1 DEF LineInv, HandedPart, EventsInOrder
        <3>2. CASE n \in (L + 1) .. (L + count)
            BY <1>2, <1>5, <2>1, <3>2, LineTypes
        <3>. QED  BY <1>6, <3>1, <3>2
    <2>. QED  BY <2>1, <2>2 DEF LineInv, HandedPart, EventsInOrder, LastPos, FirstPos
<1>. QED  BY <1>7, <1>9, <1>10, <1>11, <1>12 DEF LogPart, HandedPart

(* What lies between a chunk and the end of its command belongs to it. *)
LEMMA SameRun ==
    ASSUME TypeOK, LineInv, NEW n \in ChunksAt, NEW m \in Int,
           FirstPos(n) =< m, m =< LastPos(n)
    PROVE  /\ m \in ChunksAt /\ log[m].cmd = log[n].cmd
           /\ log[m].chunk = m - FirstPos(n) /\ log[m].count = log[n].count
           /\ FirstPos(m) = FirstPos(n) /\ LastPos(m) = LastPos(n)
<1>1. /\ n \in DOMAIN log /\ log[n].count \in Nat /\ log[n].cmd \in Nat
      /\ log[n].cmd # 0 /\ FirstPos(n) \in Int
    BY LineTypes DEF ChunksAt, LineInv, LogPart, ChunksTogether
<1>2. PICK k \in 0 .. log[n].count - 1 : k = m - FirstPos(n) /\ FirstPos(n) + k = m
    BY <1>1 DEF LastPos
<1>3. /\ m \in DOMAIN log
      /\ log[m] = [cmd |-> log[n].cmd, chunk |-> k, count |-> log[n].count]
    BY <1>2 DEF LineInv, LogPart, ChunksTogether
<1>4. log[m] # Control
    BY <1>1, <1>3 DEF Control
<1>5. m - k = FirstPos(n)
    BY <1>1, <1>2
<1>. QED  BY <1>2, <1>3, <1>4, <1>5 DEF ChunksAt, FirstPos, LastPos

(* The chunks of a command up to one of them, and how many they are. *)
ChunksUpTo(b) == {[cmd |-> b.cmd, chunk |-> i, count |-> b.count] : i \in 0 .. b.chunk}

LEMMA ChunksCounted ==
    ASSUME NEW b \in Payload
    PROVE  Cardinality(ChunksUpTo(b)) = b.chunk + 1
<1>. DEFINE k == b.chunk  cmd == b.cmd  count == b.count
            T == {[cmd |-> cmd, chunk |-> i, count |-> count] : i \in 0 .. k}
            f == [i \in 0 .. k |-> [cmd |-> cmd, chunk |-> i, count |-> count]]
<1>. k \in Nat
    BY DEF Payload
<1>. HIDE DEF k, cmd, count
<1>1. IsFiniteSet(0 .. k) /\ Cardinality(0 .. k) = k + 1
    BY FS_Interval
<1>2. f \in Bijection(0 .. k, T)
    <2>1. f \in [0 .. k -> T]
        OBVIOUS
    <2>2. \A i, j \in 0 .. k : f[i] = f[j] => i = j
        <3>. SUFFICES ASSUME NEW i \in 0 .. k, NEW j \in 0 .. k, f[i] = f[j] PROVE i = j
            OBVIOUS
        <3>1. f[i].chunk = i /\ f[j].chunk = j
            OBVIOUS
        <3>. QED  BY <3>1
    <2>3. \A x \in T : \E i \in 0 .. k : f[i] = x
        OBVIOUS
    <2>. QED  BY <2>1, <2>2, <2>3, Fun_IsBij
<1>3. IsFiniteSet(T) /\ Cardinality(T) = Cardinality(0 .. k)
    BY <1>1, <1>2, FS_Bijection DEF ExistsBijection
<1>. QED  BY <1>1, <1>3 DEF ChunksUpTo, k, cmd, count

LEMMA BetweenEnds ==
    ASSUME NEW m \in Int, NEW c \in Int, NEW k \in 0 .. c
    PROVE  \E n \in Int : m - c =< n /\ n =< m /\ n - (m - c) = k
<1>1. /\ (m - c) + k \in Int /\ m - c =< (m - c) + k /\ (m - c) + k =< m
      /\ ((m - c) + k) - (m - c) = k
    OBVIOUS
<1>. QED  BY <1>1

(* Processing the next packet gathers its chunk, and hands its command     *)
(* over when it was the last: it is the next command of the stream.        *)
LEMMA ProcessLine ==
    ASSUME TypeOK, LineInv, NEW p \in Packet, p.id = Len(processed),
           p.id < Len(log), processPacket(p), UNCHANGED sendVars
    PROVE  /\ HandedPart'
           /\ \/ UNCHANGED events
              \/ events' = Append(events, Len(events) + 1) /\ Len(events) < Taken
<1>1. PICK P \in Nat : P = Len(processed)
    BY LineTypes
<1>2. PICK pos \in DOMAIN log : pos = P + 1 /\ pos = p.id + 1
    BY <1>1, LineTypes
<1>3. PICK b \in Payload : b = log[pos]
    BY DEF TypeOK
<1>4. /\ Len(processed') = P + 1 /\ log' = log /\ Taken' = Taken
      /\ ChunksAt' = ChunksAt /\ pos \in Nat
      /\ \A n : FirstPos(n)' = FirstPos(n) /\ LastPos(n)' = LastPos(n)
    <2>1. processed' = Append(processed, p.id) /\ processed \in Seq(Nat) /\ p.id \in Nat
        BY DEF processPacket, TypeOK, Packet
    <2>. QED  BY <1>1, <1>2, <2>1, LineTypes
              DEF sendVars, Taken, ChunksAt, FirstPos, LastPos, Control
<1>5. \A n \in ChunksAt :
         /\ n \in Nat /\ LastPos(n) \in Int /\ FirstPos(n) \in Int
         /\ FirstPos(n) =< n /\ n =< LastPos(n) /\ log[n].cmd \in Nat
    <2>. SUFFICES ASSUME NEW n \in ChunksAt
                  PROVE  /\ n \in Nat /\ LastPos(n) \in Int /\ FirstPos(n) \in Int
                         /\ FirstPos(n) =< n /\ n =< LastPos(n) /\ log[n].cmd \in Nat
        OBVIOUS
    <2>1. /\ n \in DOMAIN log /\ log[n].chunk < log[n].count
        BY DEF ChunksAt, LineInv, LogPart, ChunksTogether
    <2>2. /\ n \in Nat /\ log[n].chunk \in Nat /\ log[n].count \in Nat /\ log[n].cmd \in Nat
        BY <2>1, LineTypes
    <2>. QED  BY <2>1, <2>2 DEF FirstPos, LastPos
\* the commands this packet is a chunk of
<1>6. \A n \in ChunksAt : (n =< pos /\ pos =< LastPos(n)) =>
         /\ pos \in ChunksAt /\ log[n].cmd = log[pos].cmd
         /\ FirstPos(n) = FirstPos(pos) /\ LastPos(n) = LastPos(pos)
    <2>. SUFFICES ASSUME NEW n \in ChunksAt, n =< pos, pos =< LastPos(n)
                  PROVE  /\ pos \in ChunksAt /\ log[n].cmd = log[pos].cmd
                         /\ FirstPos(n) = FirstPos(pos) /\ LastPos(n) = LastPos(pos)
        OBVIOUS
    <2>1. FirstPos(n) =< pos /\ pos \in Int
        BY <1>4, <1>5
    <2>. QED  BY <2>1, SameRun
<1>7. CASE b = Control
    <2>1. UNCHANGED <<incoming_splits, events>> /\ pos \notin ChunksAt
        BY <1>2, <1>3, <1>7 DEF processPacket, ChunksAt
    <2>2. \A n \in ChunksAt : /\ n =< P + 1 <=> n =< P
                              /\ LastPos(n) =< P + 1 <=>
                                   (LastPos(n) =< P \/ (LastPos(n) = pos /\ n =< pos))
        BY <1>2, <1>5, <2>1
    <2>3. \A n \in ChunksAt : /\ n =< P + 1 <=> n =< P
                              /\ LastPos(n) =< P + 1 <=> LastPos(n) =< P
        BY <1>2, <1>4, <1>5, <1>6, <2>1, <2>2
    <2>4. Incomplete' = Incomplete
        <3>1. \A n \in ChunksAt : n \in Incomplete' <=> n \in Incomplete
            BY <1>1, <1>4, <1>5, <2>3 DEF Incomplete
        <3>. QED  BY <1>4, <3>1 DEF Incomplete
    <2>5. SplitsAreIncomplete'
        BY <1>4, <2>1, <2>4 DEF LineInv, HandedPart, SplitsAreIncomplete
    <2>6. EventsInOrder'
        BY <1>1, <1>4, <2>1, <2>3 DEF LineInv, HandedPart, EventsInOrder
    <2>. QED  BY <2>1, <2>5, <2>6 DEF HandedPart
<1>8. CASE b # Control
    <2>1. /\ pos \in ChunksAt /\ b.chunk < b.count /\ b.chunk \in Nat /\ b.count \in Nat
          /\ b.cmd \in 1 .. Taken /\ b.cmd \in Nat
          /\ FirstPos(pos) = pos - b.chunk /\ LastPos(pos) = FirstPos(pos) + b.count - 1
        BY <1>3, <1>8 DEF ChunksAt, LineInv, LogPart, ChunksTogether, FirstPos, LastPos, Payload
    <2>2. \A n \in ChunksAt : (n =< pos /\ pos =< LastPos(n)) <=>
             (FirstPos(pos) =< n /\ n =< pos)
        <3>. SUFFICES ASSUME NEW n \in ChunksAt, n =< pos
                      PROVE  pos =< LastPos(n) <=> FirstPos(pos) =< n
            OBVIOUS
        <3>1. ASSUME FirstPos(pos) =< n PROVE pos =< LastPos(n)
            <4>1. n \in Int /\ n =< LastPos(pos)
                BY <1>4, <1>5, <2>1
            <4>2. LastPos(n) = LastPos(pos)
                BY <2>1, <3>1, <4>1, SameRun
            <4>. QED  BY <1>5, <2>1, <4>2
        <3>2. ASSUME pos =< LastPos(n) PROVE FirstPos(pos) =< n
            <4>1. FirstPos(n) = FirstPos(pos) /\ FirstPos(n) =< n
                BY <1>5, <1>6, <3>2
            <4>. QED  BY <4>1
        <3>. QED  BY <3>1, <3>2
    <2>3. Incomplete = {n \in ChunksAt : FirstPos(pos) =< n /\ n =< P}
        <3>1. \A n \in ChunksAt :
                 (n =< P /\ P < LastPos(n)) <=> ((n =< pos /\ pos =< LastPos(n)) /\ n # pos)
            BY <1>2, <1>5
        <3>2. \A n \in ChunksAt :
                 (n =< P /\ P < LastPos(n)) <=> (FirstPos(pos) =< n /\ n =< P)
            BY <1>2, <1>5, <2>2, <3>1
        <3>. QED  BY <1>1, <3>2 DEF Incomplete
    <2>4. {log[n] : n \in Incomplete} \union {b} = ChunksUpTo(b)
        <3>1. \A n \in Int : (FirstPos(pos) =< n /\ n =< pos) =>
                 /\ n \in ChunksAt /\ n - FirstPos(pos) \in 0 .. b.chunk
                 /\ log[n] = [cmd |-> b.cmd, chunk |-> n - FirstPos(pos), count |-> b.count]
            <4>. SUFFICES ASSUME NEW n \in Int, FirstPos(pos) =< n, n =< pos
                          PROVE  /\ n \in ChunksAt /\ n - FirstPos(pos) \in 0 .. b.chunk
                                 /\ log[n] = [cmd |-> b.cmd, chunk |-> n - FirstPos(pos),
                                              count |-> b.count]
                OBVIOUS
            <4>1. n =< LastPos(pos)
                BY <1>4, <1>5, <2>1
            <4>2. /\ n \in ChunksAt /\ log[n].cmd = log[pos].cmd
                  /\ log[n].chunk = n - FirstPos(pos) /\ log[n].count = log[pos].count
                BY <2>1, <4>1, SameRun
            <4>3. log[n] \in Payload
                BY <4>2 DEF ChunksAt, TypeOK
            <4>4. log[n] = [cmd |-> b.cmd, chunk |-> n - FirstPos(pos), count |-> b.count]
                BY <1>3, <4>2, <4>3 DEF Payload
            <4>5. n - FirstPos(pos) \in 0 .. b.chunk
                <5>1. PICK f \in Int : f = FirstPos(pos) /\ f = pos - b.chunk
                    BY <1>4, <2>1
                <5>. QED  BY <1>4, <2>1, <5>1
            <4>. QED  BY <4>2, <4>4, <4>5
        <3>. DEFINE R(i) == [cmd |-> b.cmd, chunk |-> i, count |-> b.count]
                    A == {log[n] : n \in Incomplete} \union {b}
                    B == {R(k) : k \in 0 .. b.chunk}
        <3>2. \A k \in 0 .. b.chunk : R(k) \in A
            <4>. SUFFICES ASSUME NEW k \in 0 .. b.chunk PROVE R(k) \in A
                OBVIOUS
            <4>1. PICK n \in Int : FirstPos(pos) =< n /\ n =< pos /\ n - FirstPos(pos) = k
                <5>1. pos \in Int /\ b.chunk \in Int
                    BY <1>4, <2>1
                <5>2. \E n \in Int : pos - b.chunk =< n /\ n =< pos /\ n - (pos - b.chunk) = k
                    BY <5>1, BetweenEnds
                <5>. QED  BY <2>1, <5>2
            <4>2. n \in ChunksAt /\ log[n] = R(k)
                <5>1. log[n] = R(n - FirstPos(pos)) /\ n \in ChunksAt
                    BY <3>1, <4>1
                <5>. QED  BY <4>1, <5>1
            <4>3. CASE n = pos
                BY <1>3, <4>2, <4>3
            <4>4. CASE n # pos
                <5>1. n \in Incomplete
                    BY <1>2, <1>4, <2>3, <4>1, <4>2, <4>4
                <5>. QED  BY <4>2, <5>1
            <4>. QED  BY <4>3, <4>4
        <3>3. \A n \in Incomplete : log[n] \in B
            <4>. SUFFICES ASSUME NEW n \in Incomplete PROVE log[n] \in B
                OBVIOUS
            <4>1. n \in Int /\ FirstPos(pos) =< n /\ n =< pos
                BY <1>2, <1>5, <2>3
            <4>2. n - FirstPos(pos) \in 0 .. b.chunk /\ log[n] = R(n - FirstPos(pos))
                BY <3>1, <4>1
            <4>. QED  BY <4>2
        <3>4. b \in B
            <4>1. b.chunk \in 0 .. b.chunk /\ b = R(b.chunk)
                BY <2>1 DEF Payload
            <4>. QED  BY <4>1
        <3>. HIDE DEF R
        <3>5. \A x : x \in A <=> x \in B
            BY <3>2, <3>3, <3>4
        <3>6. A = B
            BY <3>5
        <3>. QED  BY <3>6 DEF R, ChunksUpTo
    <2>5. Gathered(b) = {log[n] : n \in Incomplete} \union {b}
        <3>1. \A n \in Incomplete : log[n].cmd = b.cmd
            BY <1>2, <1>3, <1>5, <1>6, <2>3, <2>2 DEF Incomplete
        <3>2. incoming_splits = {log[n] : n \in Incomplete}
            BY DEF LineInv, HandedPart, SplitsAreIncomplete
        <3>. QED  BY <3>1, <3>2 DEF Gathered
    <2>6. Completes(b) <=> LastPos(pos) = pos
        <3>1. Cardinality(Gathered(b)) = b.chunk + 1
            BY <2>4, <2>5, ChunksCounted
        <3>2. LastPos(pos) = pos <=> b.chunk + 1 = b.count
            BY <1>4, <2>1
        <3>. QED  BY <3>1, <3>2 DEF Completes
    <2>7. \A n \in ChunksAt : /\ n =< P => n < pos
                              /\ n =< P + 1 <=> n =< pos
                              /\ P + 1 < LastPos(n) <=> pos < LastPos(n)
                              /\ LastPos(n) =< P + 1 <=> (LastPos(n) =< P \/ LastPos(n) = pos)
        BY <1>2, <1>5
    <2>8. \A n \in ChunksAt : n \in Incomplete' <=> (n =< pos /\ pos < LastPos(n))
        BY <1>4, <2>7 DEF Incomplete
    <2>9. CASE Completes(b)
        <3>1. /\ incoming_splits' = incoming_splits \ Gathered(b)
              /\ events' = Append(events, b.cmd)
            BY <1>2, <1>3, <1>8, <2>9 DEF processPacket
        <3>2. Incomplete' = {}
            <4>1. \A n \in ChunksAt : ~ (n =< pos /\ pos < LastPos(n))
                BY <1>5, <1>6, <2>6, <2>9
            <4>. QED  BY <1>4, <2>8, <4>1 DEF Incomplete
        <3>3. SplitsAreIncomplete'
            <4>1. incoming_splits' = {}
                BY <2>5, <3>1 DEF LineInv, HandedPart, SplitsAreIncomplete
            <4>. QED  BY <3>2, <4>1 DEF SplitsAreIncomplete
        <3>4. b.cmd = Len(events) + 1
            <4>1. ~ (b.cmd =< Len(events))
                BY <1>1, <1>2, <1>3, <1>4, <2>1, <2>6, <2>9
                   DEF LineInv, HandedPart, EventsInOrder
            <4>2. ASSUME b.cmd # 1 PROVE b.cmd - 1 =< Len(events)
                <5>1. b.cmd - 1 \in 1 .. Taken
                    <6>1. PICK taken \in Int : taken = Taken
                        BY LineTypes
                    <6>2. b.cmd \in 1 .. taken
                        BY <2>1, <6>1
                    <6>3. b.cmd - 1 \in 1 .. taken
                        BY <4>2, <6>1, <6>2
                    <6>. QED  BY <6>1, <6>3
                <5>2. PICK n \in ChunksAt : log[n].cmd = b.cmd - 1
                    BY <5>1 DEF LineInv, LogPart, AllTaken
                <5>3. n < pos
                    <6>1. pos < n => log[pos].cmd =< log[n].cmd
                        BY <2>1 DEF LineInv, LogPart, CommandsInOrder
                    <6>2. log[pos].cmd = b.cmd /\ b.cmd \in Nat /\ n \in Nat /\ pos \in Nat
                        BY <1>3, <1>4, <1>5, <2>1
                    <6>3. ~ (log[pos].cmd =< log[n].cmd) /\ n # pos
                        BY <5>2, <6>2
                    <6>. QED  BY <6>1, <6>2, <6>3
                <5>4. ~ (pos =< LastPos(n))
                    <6>1. log[n].cmd # log[pos].cmd
                        BY <1>3, <2>1, <5>2
                    <6>2. n =< pos
                        BY <1>4, <1>5, <5>3
                    <6>. QED  BY <1>6, <6>1, <6>2
                <5>5. LastPos(n) =< P
                    BY <1>2, <1>5, <5>4
                <5>. QED  BY <1>1, <5>2, <5>5 DEF LineInv, HandedPart, EventsInOrder
            <4>3. PICK E \in Nat : E = Len(events)
                BY LineTypes
            <4>4. b.cmd \in Nat /\ b.cmd >= 1
                BY <2>1, LineTypes
            <4>. QED  BY <4>1, <4>2, <4>3, <4>4
        <3>5. /\ Len(events') = Len(events) + 1 /\ DOMAIN events' = 1 .. Len(events) + 1
              /\ \A i \in 1 .. Len(events) : events'[i] = events[i]
              /\ events'[Len(events) + 1] = b.cmd
            BY <3>1, LineTypes
        <3>6. \A n \in ChunksAt : LastPos(n) = pos => log[n].cmd = b.cmd
            BY <1>3, <1>5, <1>6
        <3>7. \A n \in ChunksAt : LastPos(n) =< P + 1 <=> log[n].cmd =< Len(events) + 1
            <4>. SUFFICES ASSUME NEW n \in ChunksAt
                          PROVE  LastPos(n) =< P + 1 <=> log[n].cmd =< Len(events) + 1
                OBVIOUS
            <4>1. LastPos(n) =< P <=> log[n].cmd =< Len(events)
                BY <1>1 DEF LineInv, HandedPart, EventsInOrder
            <4>2. ASSUME log[n].cmd = b.cmd PROVE LastPos(n) = pos
                <5>1. FirstPos(n) = FirstPos(pos)
                    BY <1>3, <2>1, <4>2 DEF LineInv, LogPart, CommandsInOrder
                <5>2. FirstPos(n) =< n /\ n =< LastPos(n)
                    BY <1>5
                <5>3. CASE n =< pos
                    <6>1. pos =< LastPos(n)
                        BY <2>2, <5>1, <5>2, <5>3
                    <6>. QED  BY <1>6, <2>6, <2>9, <5>3, <6>1
                <5>4. CASE pos =< n
                    <6>1. FirstPos(n) =< pos
                        BY <1>5, <2>1, <5>1
                    <6>2. pos =< LastPos(n)
                        BY <1>4, <1>5, <5>4
                    <6>. QED  BY <1>4, <2>6, <2>9, <6>1, <6>2, SameRun
                <5>. QED  BY <1>4, <1>5, <5>3, <5>4
            <4>3. log[n].cmd =< Len(events) + 1 <=>
                     (log[n].cmd =< Len(events) \/ log[n].cmd = b.cmd)
                BY <1>5, <3>4, LineTypes
            <4>. QED  BY <2>7, <3>6, <4>1, <4>2, <4>3
        <3>8. EventsInOrder'
            <4>1. Len(events') =< Taken
                BY <2>1, <3>4, <3>5, LineTypes
            <4>2. \A i \in DOMAIN events' : events'[i] = i
                <5>1. PICK E \in Nat : E = Len(events)
                    BY LineTypes
                <5>2. \A i \in 1 .. E : events[i] = i
                    BY <5>1, LineTypes DEF LineInv, HandedPart, EventsInOrder
                <5>3. SUFFICES ASSUME NEW i \in 1 .. E + 1 PROVE events'[i] = i
                    BY <3>5, <5>1
                <5>4. CASE i \in 1 .. E
                    BY <3>5, <5>1, <5>2, <5>4
                <5>5. CASE i = E + 1
                    BY <3>4, <3>5, <5>1, <5>5
                <5>. QED  BY <5>1, <5>4, <5>5
            <4>. QED  BY <1>4, <3>5, <3>7, <4>1, <4>2 DEF EventsInOrder
        <3>. QED  BY <2>1, <3>1, <3>3, <3>4, <3>8, LineTypes DEF HandedPart
    <2>10. CASE ~ Completes(b)
        <3>1. /\ incoming_splits' = incoming_splits \union {b} /\ UNCHANGED events
            BY <1>2, <1>3, <1>8, <2>10 DEF processPacket
        <3>2. Incomplete' = Incomplete \union {pos}
            <4>1. pos < LastPos(pos)
                BY <1>4, <1>5, <2>1, <2>6, <2>10
            <4>2. \A n \in ChunksAt : (n =< pos /\ pos < LastPos(n)) <=>
                     (FirstPos(pos) =< n /\ n =< pos)
                BY <1>4, <1>5, <1>6, <2>2, <4>1
            <4>3. \A n \in ChunksAt : n \in Incomplete' <=> (n \in Incomplete \/ n = pos)
                BY <1>2, <1>4, <1>5, <2>1, <2>3, <2>8, <4>2
            <4>. QED  BY <1>4, <2>1, <2>3, <4>3 DEF Incomplete
        <3>3. SplitsAreIncomplete'
            <4>1. incoming_splits = {log[n] : n \in Incomplete}
                BY DEF LineInv, HandedPart, SplitsAreIncomplete
            <4>2. incoming_splits' = {log[n] : n \in Incomplete \union {pos}}
                BY <1>3, <3>1, <4>1
            <4>. QED  BY <1>4, <3>2, <4>2 DEF SplitsAreIncomplete
        <3>4. \A n \in ChunksAt : LastPos(n) # pos
            BY <1>5, <1>6, <2>6, <2>10
        <3>5. EventsInOrder'
            BY <1>1, <1>4, <2>7, <3>1, <3>4 DEF LineInv, HandedPart, EventsInOrder
        <3>. QED  BY <3>1, <3>3, <3>5 DEF HandedPart
    <2>. QED  BY <2>9, <2>10
<1>. QED  BY <1>7, <1>8

-----------------------------------------------------------------------------
(* What a step shows of itself to the users of the channel.                *)
FifoStep ==
    \/ UNCHANGED <<submitted, events>>
    \/ submitted' = submitted + 1 /\ UNCHANGED events
    \/ /\ Len(events) < submitted
       /\ events' = Append(events, Len(events) + 1)
       /\ UNCHANGED submitted

LEMMA PartsKept ==
    ASSUME LineInv, Taken' = Taken, UNCHANGED <<log, processed, incoming_splits, events>>
    PROVE  LogPart' /\ HandedPart'
<1>1. ChunksAt' = ChunksAt /\ \A n : FirstPos(n)' = FirstPos(n) /\ LastPos(n)' = LastPos(n)
    BY DEF ChunksAt, FirstPos, LastPos, Control
<1>2. LogPart'
    BY <1>1 DEF LineInv, LogPart, ChunksTogether, CommandsInOrder, AllTaken
<1>3. Incomplete' = Incomplete
    BY <1>1 DEF Incomplete
<1>. QED  BY <1>1, <1>2, <1>3
          DEF LineInv, HandedPart, SplitsAreIncomplete, EventsInOrder

LEMMA LineKept ==
    ASSUME LineInv,
           UNCHANGED <<submitted, queued_commands, log, processed, incoming_splits, events>>
    PROVE  LineInv' /\ FifoStep
<1>1. Taken' = Taken
    BY DEF Taken
<1>2. CommandsInLine'
    BY <1>1 DEF LineInv, CommandsInLine
<1>. QED  BY <1>1, <1>2, PartsKept DEF LineInv, FifoStep

(* A command that is submitted joins the end of the line, or takes its     *)
(* numbers at once if nothing is waiting.                                  *)
LEMMA SendCommandInLine ==
    ASSUME TypeOK, LineInv, Len(processed) =< Len(log),
           NEW count \in 1 .. MaxChunks, SendCommand(count)
    PROVE  LineInv' /\ FifoStep
<1>1. /\ submitted \in Nat /\ queued_commands \in Seq(Command) /\ Taken \in Int
      /\ count \in Nat \ {0} /\ Len(queued_commands) \in Nat
    BY ChannelAssumption, LineTypes DEF TypeOK
<1>2. PICK c \in Command : c = [cmd |-> submitted + 1, count |-> count] /\ c.cmd = submitted + 1
    <2>1. [cmd |-> submitted + 1, count |-> count] \in Command
        BY <1>1 DEF Command
    <2>. QED  BY <2>1
<1>3. /\ submitted' = submitted + 1 /\ PutReliableSendCommand(c)
      /\ UNCHANGED <<processed, incoming_splits, events>>
    BY <1>2 DEF SendCommand, recvVars
<1>4. CASE queued_commands = <<>> /\ processReliableSendCommand(c) /\ UNCHANGED queued_commands
    <2>1. Taken' = Taken + 1 /\ c.cmd = Taken + 1
        BY <1>1, <1>2, <1>3, <1>4 DEF Taken
    <2>2. LogPart' /\ HandedPart'
        BY <1>3, <1>4, <2>1, CommandTaken
    <2>3. CommandsInLine'
        BY <1>1, <1>3, <1>4 DEF CommandsInLine
    <2>. QED  BY <1>3, <2>2, <2>3 DEF LineInv, FifoStep
<1>5. CASE queued_commands' = Append(queued_commands, c) /\ UNCHANGED log
    <2>1. /\ Len(queued_commands') = Len(queued_commands) + 1
          /\ DOMAIN queued_commands' = 1 .. Len(queued_commands) + 1
          /\ \A i \in 1 .. Len(queued_commands) : queued_commands'[i] = queued_commands[i]
          /\ queued_commands'[Len(queued_commands) + 1] = c
        BY <1>1, <1>5
    <2>2. Taken' = Taken /\ c.cmd = Taken + (Len(queued_commands) + 1)
        BY <1>1, <1>2, <1>3, <2>1 DEF Taken
    <2>3. CommandsInLine'
        <3>1. Len(queued_commands') =< submitted'
            BY <1>1, <1>3, <2>1 DEF LineInv, CommandsInLine
        <3>2. \A i \in 1 .. Len(queued_commands) : queued_commands[i].cmd = Taken + i
            BY <1>1 DEF LineInv, CommandsInLine
        <3>3. \A i \in DOMAIN queued_commands' : queued_commands'[i].cmd = Taken + i
            <4>. SUFFICES ASSUME NEW i \in 1 .. Len(queued_commands) + 1
                          PROVE  queued_commands'[i].cmd = Taken + i
                BY <2>1
            <4>1. CASE i \in 1 .. Len(queued_commands)
                BY <2>1, <3>2, <4>1
            <4>2. CASE i = Len(queued_commands) + 1
                BY <2>1, <2>2, <4>2
            <4>. QED  BY <1>1, <4>1, <4>2
        <3>. QED  BY <2>2, <3>1, <3>3 DEF CommandsInLine
    <2>4. LogPart' /\ HandedPart'
        BY <1>3, <1>5, <2>2, PartsKept
    <2>. QED  BY <1>3, <2>3, <2>4 DEF LineInv, FifoStep
<1>. QED  BY <1>2, <1>3, <1>4, <1>5, PutCases DEF PutsCommand

LEMMA CommandQueuesInLine ==
    ASSUME TypeOK, LineInv, Len(processed) =< Len(log), RunsCommand
    PROVE  LineInv' /\ FifoStep
<1>1. /\ submitted \in Nat /\ queued_commands \in Seq(Command) /\ Taken \in Int
      /\ Len(queued_commands) \in Nat /\ queued_commands # <<>>
    BY LineTypes DEF TypeOK, RunsCommand
<1>2. PICK c \in Command : c = Head(queued_commands) /\ c = queued_commands[1]
    BY <1>1, HeadTailProperties
<1>3. /\ processReliableSendCommand(c) /\ queued_commands' = Tail(queued_commands)
      /\ UNCHANGED <<submitted, processed, incoming_splits, events>>
    BY <1>2 DEF RunsCommand, recvVars
<1>4. PICK l \in Nat \ {0} :
        /\ Len(queued_commands) = l /\ DOMAIN queued_commands = 1 .. l
        /\ Len(queued_commands') = l - 1 /\ DOMAIN queued_commands' = 1 .. l - 1
        /\ \A i \in 1 .. l - 1 : queued_commands'[i] = queued_commands[i + 1]
    BY <1>1, <1>3, HeadTailProperties
<1>5. /\ l =< submitted /\ \A i \in 1 .. l : queued_commands[i].cmd = Taken + i
    BY <1>4 DEF LineInv, CommandsInLine
<1>6. Taken' = Taken + 1 /\ c.cmd = Taken + 1
    <2>1. Taken' = submitted - (l - 1) /\ Taken = submitted - l
        BY <1>3, <1>4 DEF Taken
    <2>2. 1 \in 1 .. l
        BY <1>4
    <2>3. c.cmd = Taken + 1
        BY <1>2, <1>5, <2>2
    <2>. QED  BY <1>1, <1>4, <2>1, <2>3
<1>7. LogPart' /\ HandedPart'
    BY <1>3, <1>6, CommandTaken
<1>8. CommandsInLine'
    <2>1. \A i \in 1 .. l - 1 : queued_commands'[i].cmd = Taken' + i
        <3>. SUFFICES ASSUME NEW i \in 1 .. l - 1
                      PROVE  queued_commands'[i].cmd = Taken' + i
            OBVIOUS
        <3>1. i + 1 \in 1 .. l
            BY <1>4
        <3>2. queued_commands'[i].cmd = Taken + (i + 1)
            BY <1>4, <1>5, <3>1
        <3>. QED  BY <1>1, <1>6, <3>2
    <2>. QED  BY <1>1, <1>3, <1>4, <1>5, <2>1 DEF CommandsInLine
<1>. QED  BY <1>3, <1>7, <1>8 DEF LineInv, FifoStep

(* A packet that is received is the next of the stream and is processed,   *)
(* or nothing is.                                                          *)
LEMMA ReceivedInLine ==
    ASSUME TypeOK, LineInv, NumbersMatch, NEW p \in Packets, UNCHANGED sendVars,
           \/ p.id = Len(processed) /\ processPacket(p)
           \/ UNCHANGED <<processed, incoming_splits, events>>
    PROVE  LineInv' /\ FifoStep
<1>1. UNCHANGED <<submitted, queued_commands, log>> /\ Taken' = Taken
    BY DEF sendVars, Taken
<1>2. CASE UNCHANGED <<processed, incoming_splits, events>>
    BY <1>1, <1>2, LineKept
<1>3. CASE p.id = Len(processed) /\ processPacket(p)
    <2>1. p \in Packet /\ p.id < Len(log)
        BY DEF Packets, Unanswered, Queued, TypeOK, NumbersMatch, NumberMatches
    <2>2. /\ HandedPart'
          /\ \/ UNCHANGED events
             \/ events' = Append(events, Len(events) + 1) /\ Len(events) < Taken
        BY <1>3, <2>1, ProcessLine
    <2>3. Taken =< submitted
        BY LineTypes DEF Taken
    <2>4. FifoStep
        BY <1>1, <2>2, <2>3, LineTypes DEF FifoStep
    <2>5. CommandsInLine' /\ LogPart'
        <3>1. ChunksAt' = ChunksAt /\ \A n : FirstPos(n)' = FirstPos(n)
            BY <1>1 DEF ChunksAt, FirstPos, Control
        <3>. QED  BY <1>1, <3>1 DEF LineInv, CommandsInLine, LogPart, ChunksTogether,
                                    CommandsInOrder, AllTaken
    <2>. QED  BY <2>2, <2>4, <2>5 DEF LineInv
<1>. QED  BY <1>2, <1>3
(* Every step keeps the commands in line and is one of those a fifo takes. *)
LEMMA LineStep ==
    ASSUME TypeOK, NumbersMatch, StreamInv, LineInv, SpanBelowHalf, [Next]_vars
    PROVE  LineInv' /\ FifoStep
<1>. USE DEF sendVars, netVars, recvVars
<1>a. Len(processed) =< Len(log)
    BY DEF StreamInv, ProcessedInOrder
<1>1. ASSUME NEW count \in 1 .. MaxChunks, SendCommand(count)
      PROVE  LineInv' /\ FifoStep
    BY <1>a, <1>1, SendCommandInLine
<1>2. ASSUME RunsCommand
      PROVE  LineInv' /\ FifoStep
    BY <1>a, <1>2, CommandQueuesInLine
<1>3. ASSUME SendPackets
      PROVE  LineInv' /\ FifoStep
    BY <1>3, LineKept DEF SendPackets
<1>4. ASSUME CreatePeer \/ Ping
      PROVE  LineInv' /\ FifoStep
    <2>1. /\ rawSendAsPacket(NextPacket)
          /\ UNCHANGED <<submitted, queued_commands, processed, incoming_splits, events>>
        BY <1>4 DEF CreatePeer, Ping
    <2>2. Taken' = Taken
        BY <2>1 DEF Taken
    <2>3. LogPart' /\ HandedPart'
        BY <2>1, <2>2, ControlTaken
    <2>4. CommandsInLine'
        BY <2>1, <2>2 DEF LineInv, CommandsInLine
    <2>. QED  BY <2>1, <2>3, <2>4 DEF LineInv, FifoStep
<1>5. ASSUME NEW p \in outgoing_reliables_sent, Resend(p)
      PROVE  LineInv' /\ FifoStep
    BY <1>5, LineKept DEF Resend
<1>6. ASSUME NEW d \in WindowSteps, UpdateTimers(d)
      PROVE  LineInv' /\ FifoStep
    BY <1>6, LineKept DEF UpdateTimers
<1>7. ASSUME checkIncomingBuffers
      PROVE  LineInv' /\ FifoStep
    <2>1. PICK p \in incoming_reliables :
            /\ p.seq = next_incoming_seqnum /\ processPacket(p) /\ UNCHANGED sendVars
        BY <1>7, FirstFromType DEF checkIncomingBuffers, BufferedIsDue
    <2>2. p \in Packets /\ p.id = Len(processed)
        BY <2>1, DueIsNext DEF StreamInv, Packets
    <2>. QED  BY <2>1, <2>2, ReceivedInLine
<1>8. ASSUME NEW p \in wire, NEW duplicated \in BOOLEAN, ReceivePacket(p, duplicated)
      PROVE  LineInv' /\ FifoStep
    <2>1. /\ p \in Packets /\ UNCHANGED sendVars
          /\ p.seq = next_incoming_seqnum <=> p.id = Len(processed)
        BY <1>8, NumbersTell DEF Packets, ReceivePacket
    <2>2. \/ p.id = Len(processed) /\ processPacket(p)
          \/ UNCHANGED <<processed, incoming_splits, events>>
        BY <1>8, <2>1 DEF ReceivePacket, BufferFuturePacket, ProcessExpectedPacket,
                          IgnoreFuturePacket, AcknowledgeOldPacket
    <2>. QED  BY <2>1, <2>2, ReceivedInLine
<1>9. ASSUME NEW a \in acks, NEW duplicated \in BOOLEAN, ReceiveAck(a, duplicated)
      PROVE  LineInv' /\ FifoStep
    BY <1>9, LineKept DEF ReceiveAck
<1>10. ASSUME NEW p, LosePacket(p) \/ LoseAck(p)
       PROVE  LineInv' /\ FifoStep
    BY <1>10, LineKept DEF LosePacket, LoseAck
<1>11. CASE UNCHANGED vars
    BY <1>11, LineKept DEF vars
<1>. QED
    BY <1>1, <1>2, <1>3, <1>4, <1>5, <1>6, <1>7, <1>8, <1>9, <1>10, <1>11, RunCases DEF Next

(* What waits in the fifo: the commands submitted and not handed over.     *)
Between(e, s) == [i \in 1 .. s - e |-> e + i]
Waiting == Between(Len(events), submitted)

LEMMA WaitingIs ==
    ASSUME NEW s \in Nat, NEW e \in Nat, e =< s, NEW w, w = Between(e, s)
    PROVE  /\ Len(w) = s - e
           /\ Append(w, s + 1) = Between(e, s + 1)
           /\ e < s => /\ w # <<>> /\ Head(w) = e + 1
                       /\ Tail(w) = Between(e + 1, s)
<1>1. s - e \in Nat /\ w = [i \in 1 .. s - e |-> e + i] /\ w \in [1 .. s - e -> Nat]
    BY DEF Between
<1>2. w \in Seq(Nat) /\ Len(w) = s - e /\ \A i \in 1 .. s - e : w[i] = e + i
    <2>1. w \in Seq(Nat)
        BY <1>1
    <2>2. Len(w) = s - e
        BY <1>1, <2>1
    <2>. QED  BY <1>1, <2>1, <2>2
<1>3. Append(w, s + 1) = Between(e, s + 1)
    <2>. DEFINE v == [i \in 1 .. (s + 1) - e |-> e + i]
    <2>1. (s + 1) - e \in Nat /\ (s + 1) - e = (s - e) + 1
        BY <1>1
    <2>2. v \in Seq(Nat) /\ Len(v) = (s + 1) - e
        <3>1. v \in [1 .. (s + 1) - e -> Nat]
            OBVIOUS
        <3>2. v \in Seq(Nat)
            BY <2>1, <3>1
        <3>. QED  BY <2>1, <3>1, <3>2
    <2>3. Append(w, s + 1) \in Seq(Nat) /\ Len(Append(w, s + 1)) = (s - e) + 1
        BY <1>2
    <2>4. \A i \in 1 .. (s - e) + 1 : Append(w, s + 1)[i] = v[i]
        <3>. SUFFICES ASSUME NEW i \in 1 .. (s - e) + 1
                      PROVE  Append(w, s + 1)[i] = v[i]
            OBVIOUS
        <3>1. v[i] = e + i
            BY <2>1
        <3>2. CASE i =< s - e
            <4>1. i \in 1 .. s - e
                BY <1>1, <3>2
            <4>. QED  BY <1>2, <3>1, <4>1
        <3>3. CASE i = (s - e) + 1
            <4>1. Append(w, s + 1)[i] = s + 1 /\ e + i = s + 1
                BY <1>1, <1>2, <3>3
            <4>. QED  BY <3>1, <4>1
        <3>. QED  BY <1>1, <3>2, <3>3
    <2>. HIDE DEF v
    <2>5. Append(w, s + 1) = v
        BY <2>1, <2>2, <2>3, <2>4, SeqEqual
    <2>. QED  BY <2>5 DEF v, Between
<1>4. ASSUME e < s
      PROVE  /\ w # <<>> /\ Head(w) = e + 1
             /\ Tail(w) = Between(e + 1, s)
    <2>. DEFINE v == [i \in 1 .. s - (e + 1) |-> (e + 1) + i]
    <2>1. s - (e + 1) \in Nat /\ s - (e + 1) = (s - e) - 1 /\ 1 \in 1 .. s - e
        BY <1>4
    <2>2. w # <<>> /\ Head(w) = e + 1
        BY <1>2, <2>1
    <2>3. v \in Seq(Nat) /\ Len(v) = s - (e + 1)
        <3>1. v \in [1 .. s - (e + 1) -> Nat]
            OBVIOUS
        <3>2. v \in Seq(Nat)
            BY <2>1, <3>1
        <3>. QED  BY <2>1, <3>1, <3>2
    <2>4. Tail(w) \in Seq(Nat) /\ Len(Tail(w)) = (s - e) - 1
        BY <1>2, <2>2, HeadTailProperties
    <2>5. \A i \in 1 .. (s - e) - 1 : Tail(w)[i] = v[i]
        <3>. SUFFICES ASSUME NEW i \in 1 .. (s - e) - 1 PROVE Tail(w)[i] = v[i]
            OBVIOUS
        <3>1. i + 1 \in 1 .. s - e /\ e + (i + 1) = (e + 1) + i
            BY <2>1
        <3>2. Tail(w)[i] = w[i + 1]
            BY <1>2, <2>2, HeadTailProperties
        <3>3. v[i] = (e + 1) + i
            BY <2>1
        <3>. QED  BY <1>2, <3>1, <3>2, <3>3
    <2>. HIDE DEF v
    <2>6. Tail(w) = v
        BY <2>1, <2>3, <2>4, <2>5, SeqEqual
    <2>. QED  BY <2>2, <2>6 DEF v, Between
<1>. QED  BY <1>2, <1>3, <1>4
LEMMA FifoSteps ==
    ASSUME TypeOK, TypeOK', EventsInOrder, FifoStep
    PROVE  [Fifo!FifoNext]_<<Waiting, events>>
<1>1. PICK s \in Nat, e \in Nat : s = submitted /\ e = Len(events) /\ e =< s
    BY LineTypes DEF EventsInOrder, Taken
<1>2. PICK w : w = Waiting /\ w = Between(e, s)
    BY <1>1 DEF Waiting
<1>3. events \in Seq(Nat)
    BY DEF TypeOK
<1>4. CASE UNCHANGED <<submitted, events>>
    BY <1>4 DEF Waiting
<1>5. CASE submitted' = submitted + 1 /\ UNCHANGED events
    <2>1. Waiting' = Between(e, s + 1)
        BY <1>1, <1>5 DEF Waiting
    <2>2. Len(w) = s - e /\ Waiting' = Append(w, s + 1)
        BY <1>1, <1>2, <2>1, WaitingIs
    <2>3. s + 1 = (Len(events) + Len(w)) + 1
        BY <1>1, <2>2
    <2>4. Waiting' = Append(Waiting, (Len(events) + Len(Waiting)) + 1)
        BY <1>2, <2>2, <2>3
    <2>. QED  BY <1>5, <2>4 DEF Fifo!FifoNext, Fifo!Submit, Waiting, Between
<1>6. CASE Len(events) < submitted /\ events' = Append(events, Len(events) + 1)
           /\ UNCHANGED submitted
    <2>1. Len(events') = e + 1
        BY <1>1, <1>3, <1>6
    <2>2. Waiting' = Between(e + 1, s)
        BY <1>1, <1>6, <2>1 DEF Waiting
    <2>3. w # <<>> /\ Head(w) = e + 1 /\ Waiting' = Tail(w)
        <3>1. e < s
            BY <1>1, <1>6
        <3>2. /\ w # <<>> /\ Head(w) = e + 1
              /\ Tail(w) = Between(e + 1, s)
            BY <1>1, <1>2, <3>1, WaitingIs
        <3>. QED  BY <2>2, <3>2
    <2>4. /\ Waiting # <<>> /\ events' = Append(events, Head(Waiting))
          /\ Waiting' = Tail(Waiting)
        BY <1>1, <1>2, <1>6, <2>3
    <2>. QED  BY <2>4 DEF Fifo!FifoNext, Fifo!Deliver, Waiting, Between
<1>. QED  BY <1>4, <1>5, <1>6 DEF FifoStep

(* "They shall be delivered in the same order as sent", of the commands    *)
(* the user submits: whether they wait as commands, as packets or as       *)
(* chunks put together again, they come out as of a fifo, as long as what  *)
(* is unanswered fits in half the circle.                                  *)
THEOREM ChannelIsFifo == Spec /\ []SpanBelowHalf => ImplementsFifo
<1>1. Init => TypeOK /\ NumbersMatch /\ StreamInv /\ LineInv
    BY TypeInit, NumbersInit, StreamInit, LineInit
<1>2. Init => Fifo!FifoInit
    <2>1. ASSUME Init PROVE [i \in 1 .. submitted - Len(events) |-> Len(events) + i] = <<>>
        BY <2>1 DEF Init
    <2>. QED  BY <2>1 DEF Init, Fifo!FifoInit
<1>3. /\ TypeOK /\ NumbersMatch /\ StreamInv /\ LineInv
      /\ SpanBelowHalf /\ [Next]_vars
      => (TypeOK /\ NumbersMatch /\ StreamInv /\ LineInv)'
    BY TypeStep, NumbersStep, StreamStep, LineStep
<1>4. /\ TypeOK /\ NumbersMatch /\ StreamInv /\ LineInv
      /\ SpanBelowHalf /\ [Next]_vars
      => [Fifo!FifoNext]_<<[i \in 1 .. submitted - Len(events) |-> Len(events) + i], events>>
    <2>. SUFFICES ASSUME TypeOK, NumbersMatch, StreamInv, LineInv, SpanBelowHalf, [Next]_vars
                  PROVE  [Fifo!FifoNext]_<<Waiting, events>>
        BY DEF Waiting, Between
    <2>1. TypeOK' /\ FifoStep
        BY TypeStep, LineStep
    <2>. QED  BY <2>1, FifoSteps DEF LineInv, HandedPart
<1>. QED
    BY <1>1, <1>2, <1>3, <1>4, PTL DEF Spec, ImplementsFifo, Fifo!FifoSpec, Fifo!fifoVars
-----------------------------------------------------------------------------
(***************************************************************************)
(* That what is unanswered fits in half the circle.  The queue is filled   *)
(* only while it is short, and the numbers of a command are taken only     *)
(* while the oldest packet sent is within the window; control packets may  *)
(* pass what is queued.                                                    *)
(***************************************************************************)
QueueBound == MaxWindow + MaxRequeued + MaxChunks

CommandsWithin ==
    \A i \in DOMAIN queued_commands :
        queued_commands[i].cmd # 0 /\ queued_commands[i].count =< MaxChunks

(* The i-th packet of queue s is as far behind position L as there are     *)
(* packets in the queue from it on, and C more.                            *)
Near(s, L, C) == \A i \in DOMAIN s : L - s[i].id =< (Len(s) - i + 1) + C

QueueWithin ==
    /\ Len(queued_reliables) =< QueueBound + ControlsTaken
    /\ Near(queued_reliables, Len(log), ControlsTaken)

SentWithin ==
    \A p \in outgoing_reliables_sent :
        \/ Len(log) - p.id =< MaxWindow + 2
        \/ Len(log) - p.id =< QueueBound + 2 * MaxControl

SpanInv == CommandsWithin /\ ControlsTaken =< MaxControl /\ QueueWithin /\ SentWithin

ControlsIn(s) == {n \in DOMAIN s : s[n] = Control}

LEMMA ControlsFinite ==
    ASSUME NEW s \in Seq(Payload)
    PROVE  /\ IsFiniteSet(ControlsIn(s)) /\ Cardinality(ControlsIn(s)) \in Nat
           /\ ControlsIn(s) \subseteq 1 .. Len(s) /\ Len(s) \in Nat
<1>1. DOMAIN s = 1 .. Len(s) /\ Len(s) \in Nat
    BY LenProperties
<1>2. IsFiniteSet(1 .. Len(s))
    BY <1>1, FS_Interval
<1>3. ControlsIn(s) \subseteq 1 .. Len(s)
    BY <1>1 DEF ControlsIn
<1>4. IsFiniteSet(ControlsIn(s))
    BY <1>2, <1>3, FS_Subset
<1>. QED  BY <1>1, <1>3, <1>4, FS_CardinalityType

LEMMA ControlsOfAppend ==
    ASSUME NEW s \in Seq(Payload), NEW u, u = Append(s, Control)
    PROVE  Cardinality(ControlsIn(u)) = Cardinality(ControlsIn(s)) + 1
<1>1. Len(s) \in Nat /\ DOMAIN s = 1 .. Len(s)
    BY LenProperties
<1>2. /\ DOMAIN u = 1 .. Len(s) + 1 /\ u[Len(s) + 1] = Control
      /\ \A i \in 1 .. Len(s) : u[i] = s[i]
    BY <1>1, AppendProperties
<1>3. ControlsIn(u) = ControlsIn(s) \union {Len(s) + 1}
    <2>1. \A n \in 1 .. Len(s) + 1 : n \in 1 .. Len(s) \/ n = Len(s) + 1
        BY <1>1
    <2>2. Len(s) + 1 \in DOMAIN u /\ \A n \in 1 .. Len(s) : n \in DOMAIN u
        BY <1>1, <1>2
    <2>. QED  BY <1>1, <1>2, <2>1, <2>2 DEF ControlsIn
<1>4. Len(s) + 1 \notin ControlsIn(s)
    BY <1>1 DEF ControlsIn
<1>. QED  BY <1>3, <1>4, ControlsFinite, FS_AddElement

LEMMA ControlsOfConcat ==
    ASSUME NEW s \in Seq(Payload), NEW t \in Seq(Payload), NEW u, u = s \o t,
           \A i \in 1 .. Len(t) : t[i] # Control
    PROVE  ControlsIn(u) = ControlsIn(s)
<1>1. Len(s) \in Nat /\ DOMAIN s = 1 .. Len(s) /\ Len(t) \in Nat
    BY LenProperties
<1>2. /\ DOMAIN u = 1 .. Len(s) + Len(t)
      /\ \A n \in 1 .. Len(s) : u[n] = s[n]
      /\ \A i \in 1 .. Len(t) : u[Len(s) + i] = t[i]
    BY ConcatPositions
<1>3. \A n \in DOMAIN u : n \in DOMAIN s \/ u[n] # Control
    <2>. SUFFICES ASSUME NEW n \in 1 .. Len(s) + Len(t), n \notin 1 .. Len(s)
                  PROVE  u[n] # Control
        BY <1>1, <1>2
    <2>1. n - Len(s) \in 1 .. Len(t) /\ Len(s) + (n - Len(s)) = n
        BY <1>1
    <2>. QED  BY <1>2, <2>1
<1>4. \A n \in DOMAIN s : n \in DOMAIN u /\ u[n] = s[n]
    BY <1>1, <1>2
<1>. QED  BY <1>3, <1>4 DEF ControlsIn

(* While everything unanswered fits in half the circle, the check of       *)
(* getOutgoingSequenceNumber measures the true distance to the oldest      *)
(* packet sent, or one less.                                               *)
LEMMA LowestIsOldest ==
    ASSUME TypeOK, NumbersMatch, SpanBelowHalf, outgoing_reliables_sent # {}
    PROVE  /\ FirstFrom(outgoing_reliables_sent, OutgoingBase) \in outgoing_reliables_sent
           /\ \A q \in outgoing_reliables_sent :
                 FirstFrom(outgoing_reliables_sent, OutgoingBase).id =< q.id
<1>. DEFINE f == FirstFrom(outgoing_reliables_sent, OutgoingBase)
            b == Len(log) - HalfMod
<1>1. /\ Len(log) \in Nat /\ HalfMod \in Nat /\ SeqMod = 2 * HalfMod /\ SeqInit \in Int
      /\ \A q \in outgoing_reliables_sent : q \in Unanswered /\ q.id \in Nat /\ q.seq \in SeqNums
    BY PacketSeqType, SeqNumAssumption DEF TypeOK, SeqMod, Unanswered
<1>2. OutgoingBase = ToSeq(SeqInit + b) /\ b \in Int
    <2>1. next_outgoing_seqnum - HalfMod = next_outgoing_seqnum + (-HalfMod)
        BY <1>1 DEF TypeOK, SeqNums
    <2>2. b = Len(log) + (-HalfMod) /\ -HalfMod \in Int
        BY <1>1
    <2>. QED  BY <1>1, <2>1, <2>2, SentPositions DEF OutgoingBase
<1>3. OutgoingBase \in SeqNums
    BY <1>1, <1>2, ToSeqType, SeqInit + b \in Int
<1>4. f \in outgoing_reliables_sent /\ \A q \in outgoing_reliables_sent :
         ToSeq(f.seq - OutgoingBase) =< ToSeq(q.seq - OutgoingBase)
    BY <1>1, <1>3, FirstFromProperties
<1>5. \A q \in outgoing_reliables_sent : ToSeq(q.seq - OutgoingBase) = q.id - b
    <2>. SUFFICES ASSUME NEW q \in outgoing_reliables_sent
                  PROVE  ToSeq(q.seq - OutgoingBase) = q.id - b
        OBVIOUS
    <2>1. q.seq = ToSeq(SeqInit + q.id) /\ Len(log) - HalfMod < q.id /\ q.id < Len(log)
        BY <1>1, SentPositions
    <2>2. q.id \in Int /\ SeqInit + q.id \in Int /\ SeqInit + b \in Int
        BY <1>1, <1>2
    <2>3. ToSeq(q.seq - OutgoingBase) = ToSeq((SeqInit + q.id) - (SeqInit + b))
        BY <1>2, <2>1, <2>2, ToSeqDifference
    <2>4. (SeqInit + q.id) - (SeqInit + b) = q.id - b /\ q.id - b \in Int
        BY <1>1, <1>2, <2>2
    <2>5. 0 =< q.id - b /\ q.id - b < SeqMod /\ -SeqMod =< q.id - b
        BY <1>1, <2>1, <2>2
    <2>. QED  BY <2>3, <2>4, <2>5, ToSeqSmall
<1>6. \A q \in outgoing_reliables_sent : f.id - b =< q.id - b
    BY <1>4, <1>5
<1>. QED  BY <1>1, <1>2, <1>4, <1>6

LEMMA AvailableIsNear ==
    ASSUME TypeOK, NumbersMatch, SpanBelowHalf, NEW k \in Nat, k < HalfMod,
           SeqAvailable(ToSeq(next_outgoing_seqnum + k)),
           NEW p \in outgoing_reliables_sent
    PROVE  (Len(log) + k) - p.id =< MaxWindow + 1
<1>1. PICK f \in outgoing_reliables_sent :
        /\ f = FirstFrom(outgoing_reliables_sent, OutgoingBase)
        /\ \A q \in outgoing_reliables_sent : f.id =< q.id
    BY LowestIsOldest
<1>2. /\ Len(log) \in Nat /\ HalfMod \in Nat /\ SeqMod = 2 * HalfMod /\ SeqInit \in Int
      /\ f.id \in Nat /\ p.id \in Nat /\ f.id =< p.id /\ f \in Unanswered
      /\ MaxWindow \in Nat /\ window_size \in Int /\ window_size =< MaxWindow
    BY <1>1, PacketSeqType, SeqNumAssumption, ChannelAssumption DEF TypeOK, SeqMod, Unanswered
<1>3. /\ f.seq = ToSeq(SeqInit + f.id) /\ Len(log) - HalfMod < f.id /\ f.id < Len(log)
      /\ ToSeq(next_outgoing_seqnum + k) = ToSeq(SeqInit + (Len(log) + k))
    BY <1>2, SentPositions, k \in Int
<1>4. PICK s \in SeqNums, l \in SeqNums :
        s = ToSeq(next_outgoing_seqnum + k) /\ l = f.seq
    BY <1>1, <1>2, <1>3, ToSeqType, SeqInit + (Len(log) + k) \in Int, SeqInit + f.id \in Int
<1>5. PICK d \in Int : d = (Len(log) + k) - f.id /\ 0 < d /\ d < SeqMod
    BY <1>2, <1>3
<1>6. ToSeq(s - l) = d
    <2>1. ToSeq(s - l) = ToSeq((SeqInit + (Len(log) + k)) - (SeqInit + f.id))
        <3>1. SeqInit + (Len(log) + k) \in Int /\ SeqInit + f.id \in Int
            BY <1>2
        <3>. QED  BY <1>3, <1>4, <3>1, ToSeqDifference
    <2>2. (SeqInit + (Len(log) + k)) - (SeqInit + f.id) = d
        BY <1>2, <1>5
    <2>. QED  BY <1>2, <1>5, <2>1, <2>2, ToSeqSmall, -SeqMod =< d
<1>7. ToSeq(s - l) = IF s - l >= 0 THEN s - l ELSE (s - l) + SeqMod
    BY <1>2, <1>4, ToSeqSmall, s - l \in Int, -SeqMod =< s - l, s - l < SeqMod DEF SeqNums
<1>8. IF l < s THEN s - l =< window_size ELSE s + (SeqMod - 1 - l) =< window_size
    BY <1>1, <1>4 DEF SeqAvailable
<1>9. d =< window_size + 1
    BY <1>2, <1>4, <1>5, <1>6, <1>7, <1>8 DEF SeqNums
<1>. QED  BY <1>2, <1>5, <1>9
LEMMA SpanTypes ==
    ASSUME TypeOK
    PROVE  /\ Len(log) \in Nat /\ Len(queued_reliables) \in Nat /\ ControlsTaken \in Nat
           /\ DOMAIN queued_reliables = 1 .. Len(queued_reliables)
           /\ \A i \in DOMAIN queued_reliables : queued_reliables[i].id \in Nat
           /\ \A p \in outgoing_reliables_sent : p.id \in Nat
           /\ QueueBound \in Nat /\ MaxControl \in Nat /\ MaxWindow \in Nat
           /\ MaxRequeued \in Nat /\ MaxChunks \in Nat \ {0}
<1>1. ControlsTaken \in Nat
    BY ControlsFinite DEF ControlsTaken, ControlsIn, TypeOK
<1>2. \A i \in DOMAIN queued_reliables : queued_reliables[i] \in Packet
    BY DEF TypeOK
<1>3. /\ MaxWindow \in Nat /\ MaxRequeued \in Nat /\ MaxChunks \in Nat \ {0}
      /\ MaxControl \in Nat
    BY ChannelAssumption
<1>. QED  BY <1>1, <1>2, <1>3, PacketSeqType DEF TypeOK, QueueBound

(* From the invariant: nothing unanswered is half the circle away.         *)
LEMMA SpanIsSmall ==
    ASSUME TypeOK, SpanInv, QueueBound + 2 * MaxControl + 1 < HalfMod
    PROVE  SpanBelowHalf
<1>1. /\ HalfMod \in Nat /\ MaxWindow + 2 < HalfMod
      /\ QueueBound + 2 * MaxControl < HalfMod
    BY SpanTypes, SeqNumAssumption DEF QueueBound
<1>2. \A p \in outgoing_reliables_sent : Len(log) - p.id < HalfMod
    BY <1>1, SpanTypes DEF SpanInv, SentWithin
<1>3. \A i \in DOMAIN queued_reliables : Len(log) - queued_reliables[i].id < HalfMod
    <2>. SUFFICES ASSUME NEW i \in DOMAIN queued_reliables
                  PROVE  Len(log) - queued_reliables[i].id < HalfMod
        OBVIOUS
    <2>1. PICK l \in Nat, c \in Nat, d \in Int :
            /\ l = Len(queued_reliables) /\ c = ControlsTaken
            /\ d = Len(log) - queued_reliables[i].id /\ i \in 1 .. l
        <3>1. /\ Len(log) \in Nat /\ queued_reliables[i].id \in Nat
              /\ Len(queued_reliables) \in Nat /\ ControlsTaken \in Nat
              /\ i \in 1 .. Len(queued_reliables)
            BY SpanTypes
        <3>2. Len(log) - queued_reliables[i].id \in Int
            BY <3>1
        <3>. QED  BY <3>1, <3>2
    <2>2. PICK Q \in Nat, M \in Nat, H \in Nat :
            Q = QueueBound /\ M = MaxControl /\ H = HalfMod /\ Q + 2 * M < H
        BY <1>1, SpanTypes
    <2>3. l =< Q + c /\ c =< M /\ d =< (l - i + 1) + c
        BY <2>1, <2>2 DEF SpanInv, QueueWithin, Near
    <2>4. d < H
        BY <2>1, <2>2, <2>3
    <2>. QED  BY <2>1, <2>2, <2>4
<1>. QED  BY <1>2, <1>3 DEF SpanBelowHalf, Unanswered, Queued

(* What is behind the other in a queue that grows or loses its first.      *)
Numbers(t, L) == \A i \in 1 .. Len(t) : t[i].id = L + i - 1

LEMMA QueueGrows ==
    ASSUME NEW s \in Seq(Packet), NEW L \in Nat, NEW C \in Nat,
           Near(s, L, C),
           NEW t \in Seq(Packet), Numbers(t, L),
           NEW u, u = s \o t, NEW M, M = L + Len(t)
    PROVE  Len(u) = Len(s) + Len(t) /\ Near(u, M, C)
<1>1. /\ DOMAIN u = 1 .. Len(s) + Len(t)
      /\ \A i \in 1 .. Len(s) : u[i] = s[i]
      /\ \A i \in 1 .. Len(t) : u[Len(s) + i] = t[i]
    BY ConcatPositions
<1>2. PICK l \in Nat, n \in Nat : l = Len(s) /\ n = Len(t)
    BY LenProperties
<1>3. /\ DOMAIN u = 1 .. l + n /\ Len(u) = l + n
      /\ \A i \in 1 .. l : u[i] = s[i]
      /\ \A i \in 1 .. n : u[l + i] = t[i]
    <2>1. Len(u) = Len(s) + Len(t)
        BY ConcatProperties
    <2>. QED  BY <1>1, <1>2, <2>1
<1>4. \A i \in 1 .. l : s[i].id \in Nat /\ L - s[i].id =< (l - i + 1) + C
    <2>1. DOMAIN s = 1 .. l /\ \A i \in 1 .. l : s[i] \in Packet
        BY <1>2, LenProperties, ElementOfSeq
    <2>. QED  BY <1>2, <2>1, PacketSeqType DEF Near
<1>5. \A i \in DOMAIN u : (L + n) - u[i].id =< (l + n - i + 1) + C
    <2>. SUFFICES ASSUME NEW i \in 1 .. l + n
                  PROVE  (L + n) - u[i].id =< (l + n - i + 1) + C
        BY <1>3
    <2>1. CASE i \in 1 .. l
        <3>1. PICK d \in Nat : d = s[i].id /\ L - d =< (l - i + 1) + C
            BY <1>4, <2>1
        <3>2. u[i].id = d
            BY <1>3, <2>1, <3>1
        <3>3. (L + n) - d =< (l + n - i + 1) + C
            BY <3>1
        <3>. QED  BY <3>2, <3>3
    <2>2. CASE i \notin 1 .. l
        <3>1. PICK j \in 1 .. n : j = i - l /\ l + j = i
            BY <2>2
        <3>2. u[i] = t[j] /\ t[j].id = L + j - 1
            BY <1>2, <1>3, <3>1 DEF Numbers
        <3>3. (L + n) - (L + j - 1) =< (l + n - i + 1) + C
            BY <3>1
        <3>. QED  BY <3>2, <3>3
    <2>. QED  BY <2>1, <2>2
<1>. QED  BY <1>2, <1>3, <1>5 DEF Near

(* A command that takes its numbers.                                       *)
LEMMA CommandWithin ==
    ASSUME TypeOK, NumbersMatch, SpanInv, SpanBelowHalf,
           QueueBound + 2 * MaxControl + 1 < HalfMod,
           NEW c \in Command, c.cmd # 0, c.count =< MaxChunks, CanProcess(c),
           Len(queued_reliables) < MaxWindow + MaxRequeued,
           processReliableSendCommand(c), UNCHANGED outgoing_reliables_sent
    PROVE  ControlsTaken' =< MaxControl /\ QueueWithin' /\ SentWithin'
<1>1. PICK n \in Nat \ {0} : n = c.count
    BY DEF Command
<1>2. PICK L \in Nat, C \in Nat, l \in Nat :
        L = Len(log) /\ C = ControlsTaken /\ l = Len(queued_reliables)
    BY SpanTypes
<1>3. ControlsTaken' = C
    <2>1. \A i \in 1 .. Len(Chunks(c)) : Chunks(c)[i] # Control
        <3>. SUFFICES ASSUME NEW i \in 1 .. c.count PROVE Chunks(c)[i] # Control
            BY NumberedType
        <3>1. Chunks(c)[i].cmd = c.cmd /\ Control.cmd = 0
            BY DEF Chunks, Control
        <3>. QED  BY <3>1
    <2>2. PICK s \in Seq(Payload), t \in Seq(Payload), u \in Seq(Payload) :
            u = log' /\ s = log /\ t = Chunks(c) /\ u = s \o t
        <3>1. log' = log \o Chunks(c) /\ log' \in Seq(Payload)
            BY ProcessCommandType DEF processReliableSendCommand
        <3>2. log \in Seq(Payload) /\ Chunks(c) \in Seq(Payload)
            BY NumberedType DEF TypeOK
        <3>. QED  BY <3>1, <3>2
    <2>3. ControlsIn(u) = ControlsIn(s)
        BY <2>1, <2>2, ControlsOfConcat
    <2>4. Cardinality(ControlsIn(u)) = ControlsTaken' /\ Cardinality(ControlsIn(s)) = ControlsTaken
        BY <2>2 DEF ControlsIn, ControlsTaken, Control
    <2>. QED  BY <1>2, <2>3, <2>4
<1>4. Len(log') = L + n
    BY <1>1, <1>2, ProcessCommandNumbers
<1>5. /\ Len(queued_reliables') = l + n
      /\ \A i \in DOMAIN queued_reliables' :
            (L + n) - queued_reliables'[i].id =< (l + n - i + 1) + C
    <2>1. PICK s \in Seq(Packet), t \in Seq(Packet), u \in Seq(Packet) :
            /\ s = queued_reliables /\ t = Numbered(c) /\ u = queued_reliables' /\ u = s \o t
        <3>1. PICK s \in Seq(Packet), t \in Seq(Packet) : s = queued_reliables /\ t = Numbered(c)
            BY NumberedType DEF TypeOK
        <3>2. queued_reliables' = s \o t
            BY <3>1 DEF processReliableSendCommand
        <3>3. PICK u \in Seq(Packet) : u = s \o t
            BY ConcatProperties
        <3>. QED  BY <3>1, <3>2, <3>3
    <2>2. Len(t) = n /\ \A i \in 1 .. n : t[i].id = L + i - 1
        BY <1>1, <1>2, <2>1, NumberedType DEF Numbered
    <2>3. Near(s, L, C)
        BY <1>2, <2>1 DEF SpanInv, QueueWithin
    <2>4. /\ Len(u) = Len(s) + n
          /\ \A i \in DOMAIN u : (L + n) - u[i].id =< (Len(u) - i + 1) + C
        <3>1. Numbers(t, L)
            BY <2>2 DEF Numbers
        <3>2. PICK M : M = L + Len(t)
            OBVIOUS
        <3>3. u = s \o t
            BY <2>1
        <3>4. Len(u) = Len(s) + Len(t) /\ Near(u, M, C)
            BY <2>3, <3>1, <3>2, <3>3, QueueGrows, Zenon
        <3>. QED  BY <2>2, <3>2, <3>4 DEF Near
    <2>5. Len(queued_reliables') = l + n
        BY <1>2, <2>1, <2>4
    <2>6. \A i \in DOMAIN queued_reliables' :
             (L + n) - queued_reliables'[i].id =< (Len(queued_reliables') - i + 1) + C
        BY <2>1, <2>4
    <2>. QED  BY <2>5, <2>6
<1>6. QueueWithin'
    <2>1. l + n =< QueueBound + C
        <3>1. PICK W \in Nat, R \in Nat, X \in Nat :
                W = MaxWindow /\ R = MaxRequeued /\ X = MaxChunks
            BY SpanTypes
        <3>2. l < W + R /\ n =< X
            BY <1>1, <1>2, <3>1
        <3>3. l + n =< (W + R + X) + C
            BY <3>2
        <3>. QED  BY <3>1, <3>3 DEF QueueBound
    <2>2. Len(queued_reliables') =< QueueBound + ControlsTaken'
        BY <1>2, <1>3, <1>5, <2>1
    <2>3. Near(queued_reliables', Len(log'), ControlsTaken')
        BY <1>2, <1>3, <1>4, <1>5 DEF Near
    <2>. QED  BY <2>2, <2>3 DEF QueueWithin
<1>7. SentWithin'
    <2>. SUFFICES ASSUME NEW p \in outgoing_reliables_sent
                  PROVE  Len(log') - p.id =< MaxWindow + 2
        BY DEF SentWithin
    <2>1. n - 1 \in Nat /\ n - 1 < HalfMod /\ n - 1 \in 0 .. c.count - 1
        <3>1. PICK W \in Nat, R \in Nat, X \in Nat, M \in Nat, H \in Nat :
                /\ W = MaxWindow /\ R = MaxRequeued /\ X = MaxChunks /\ M = MaxControl
                /\ H = HalfMod
            BY SpanTypes, SeqNumAssumption
        <3>2. (W + R + X) + 2 * M + 1 < H /\ n =< X
            BY <1>1, <3>1 DEF QueueBound
        <3>3. n - 1 \in Nat /\ n - 1 < H
            BY <3>2
        <3>4. n - 1 \in 0 .. n - 1
            BY <3>3
        <3>. QED  BY <1>1, <3>1, <3>3, <3>4
    <2>2. SeqAvailable(ToSeq(next_outgoing_seqnum + (n - 1)))
        BY <2>1 DEF CanProcess
    <2>3. (Len(log) + (n - 1)) - p.id =< MaxWindow + 1
        BY <2>1, <2>2, AvailableIsNear
    <2>4. PICK W \in Nat, d \in Nat : W = MaxWindow /\ d = p.id
        BY SpanTypes
    <2>5. (L + (n - 1)) - d =< W + 1
        BY <1>2, <2>3, <2>4
    <2>6. (L + n) - d =< W + 2
        BY <2>5
    <2>. QED  BY <1>4, <2>4, <2>6
<1>. QED  BY <1>2, <1>3, <1>6, <1>7 DEF SpanInv

(* A control packet, sent past the queue or behind it.                     *)
LEMMA ControlWithin ==
    ASSUME TypeOK, NumbersMatch, SpanInv, SpanBelowHalf, ControlsTaken < MaxControl,
           QueueBound + 2 * MaxControl + 1 < HalfMod,
           (log = <<>>) \/ SeqAvailable(next_outgoing_seqnum), rawSendAsPacket(NextPacket)
    PROVE  ControlsTaken' =< MaxControl /\ QueueWithin' /\ SentWithin'
<1>1. PICK L \in Nat, C \in Nat, l \in Nat :
        L = Len(log) /\ C = ControlsTaken /\ l = Len(queued_reliables)
    BY SpanTypes
<1>2. ControlsTaken' = C + 1
    <2>1. PICK s \in Seq(Payload), u \in {log'} : u = log' /\ s = log /\ u = Append(s, Control)
        <3>1. log \in Seq(Payload) /\ log' = Append(log, Control)
            BY DEF TypeOK, rawSendAsPacket
        <3>. QED  BY <3>1
    <2>2. Cardinality(ControlsIn(u)) = Cardinality(ControlsIn(s)) + 1
        BY <2>1, ControlsOfAppend
    <2>3. Cardinality(ControlsIn(u)) = ControlsTaken' /\ Cardinality(ControlsIn(s)) = ControlsTaken
        BY <2>1 DEF ControlsIn, ControlsTaken, Control
    <2>. QED  BY <1>1, <2>2, <2>3
<1>3. /\ Len(log') = L + 1 /\ NextPacket \in Packet /\ NextPacket.id = L
      /\ outgoing_reliables_sent' \subseteq outgoing_reliables_sent \union {NextPacket}
    BY <1>1, RawSendNumbers
<1>4. \A i \in DOMAIN queued_reliables :
         queued_reliables[i].id \in Nat /\ L - queued_reliables[i].id =< (l - i + 1) + C
    BY <1>1, SpanTypes DEF SpanInv, QueueWithin, Near
<1>5. QueueWithin'
    <2>1. l =< QueueBound + C
        BY <1>1 DEF SpanInv, QueueWithin, Near
    <2>2. CASE UNCHANGED queued_reliables
        <3>1. \A i \in DOMAIN queued_reliables :
                 (L + 1) - queued_reliables[i].id =< (l - i + 1) + (C + 1)
            <4>. SUFFICES ASSUME NEW i \in DOMAIN queued_reliables
                          PROVE  (L + 1) - queued_reliables[i].id =< (l - i + 1) + (C + 1)
                OBVIOUS
            <4>1. PICK d \in Nat : d = queued_reliables[i].id /\ i \in 1 .. l
                BY <1>1, SpanTypes
            <4>2. L - d =< (l - i + 1) + C
                BY <1>4, <4>1
            <4>3. (L + 1) - d =< (l - i + 1) + (C + 1)
                BY <4>1, <4>2
            <4>. QED  BY <4>1, <4>3
        <3>. QED  BY <1>1, <1>2, <1>3, <2>1, <2>2, <3>1, SpanTypes DEF QueueWithin, Near, QueueBound
    <2>3. CASE queued_reliables' = Append(queued_reliables, NextPacket)
        <3>1. PICK s \in Seq(Packet), p \in Packet, t \in Seq(Packet), u \in Seq(Packet) :
                /\ s = queued_reliables /\ p = NextPacket /\ t = <<p>>
                /\ u = queued_reliables' /\ u = s \o t
            <4>1. PICK s \in Seq(Packet), p \in Packet :
                    s = queued_reliables /\ p = NextPacket /\ queued_reliables' = Append(s, p)
                BY <1>3, <2>3 DEF TypeOK
            <4>2. <<p>> \in Seq(Packet) /\ Append(s, p) = s \o <<p>>
                BY <4>1
            <4>3. s \o <<p>> \in Seq(Packet)
                BY <4>2, ConcatProperties
            <4>4. PICK t \in Seq(Packet), u \in Seq(Packet) : t = <<p>> /\ u = s \o <<p>>
                BY <4>2, <4>3
            <4>. QED  BY <4>1, <4>2, <4>4
        <3>2. Len(t) = 1 /\ \A i \in 1 .. 1 : t[i].id = L + i - 1
            BY <1>3, <3>1
        <3>3. Near(s, L, C)
            BY <1>1, <3>1 DEF SpanInv, QueueWithin
        <3>4. /\ Len(u) = Len(s) + 1
              /\ \A i \in DOMAIN u : (L + 1) - u[i].id =< (Len(u) - i + 1) + C
            <4>1. Numbers(t, L)
                BY <3>2 DEF Numbers
            <4>2. PICK M : M = L + Len(t)
                OBVIOUS
            <4>3. u = s \o t
                BY <3>1
            <4>4. Len(u) = Len(s) + Len(t) /\ Near(u, M, C)
                BY <3>3, <4>1, <4>2, <4>3, QueueGrows, Zenon
            <4>. QED  BY <3>2, <4>2, <4>4 DEF Near
        <3>5. l + 1 =< QueueBound + (C + 1)
            <4>1. PICK Q \in Nat : Q = QueueBound
                BY SpanTypes
            <4>2. l =< Q + C
                BY <2>1, <4>1
            <4>. QED  BY <4>1, <4>2
        <3>6. \A i \in DOMAIN u : (L + 1) - u[i].id =< (Len(u) - i + 1) + (C + 1)
            <4>. SUFFICES ASSUME NEW i \in DOMAIN u
                          PROVE  (L + 1) - u[i].id =< (Len(u) - i + 1) + (C + 1)
                OBVIOUS
            <4>1. Len(u) = l + 1 /\ DOMAIN u = 1 .. Len(u) /\ u \in Seq(Packet)
                BY <1>1, <3>1, <3>4, ConcatProperties, LenProperties
            <4>2. PICK d \in Nat, k \in Nat : d = u[i].id /\ k = i
                BY <4>1, ElementOfSeq, PacketSeqType
            <4>3. (L + 1) - d =< ((l + 1) - k + 1) + C
                BY <3>4, <4>1, <4>2
            <4>4. (L + 1) - d =< ((l + 1) - k + 1) + (C + 1)
                BY <4>3
            <4>. QED  BY <4>1, <4>2, <4>4
        <3>. QED  BY <1>1, <1>2, <1>3, <3>1, <3>4, <3>5, <3>6 DEF QueueWithin, Near, QueueBound
    <2>. QED  BY <2>2, <2>3 DEF rawSendAsPacket
<1>6. SentWithin'
    <2>. SUFFICES ASSUME NEW p \in outgoing_reliables_sent'
                  PROVE  Len(log') - p.id =< MaxWindow + 2
        BY DEF SentWithin
    <2>1. CASE p = NextPacket
        BY <1>1, <1>3, <2>1, SpanTypes
    <2>2. CASE p \in outgoing_reliables_sent
        <3>1. p.id \in Nat /\ p.id < L
            BY <1>1, <2>2, SpanTypes DEF NumbersMatch, NumberMatches, Packets, Unanswered
        <3>2. log # <<>>
            BY <1>1, <3>1
        <3>3. ToSeq(next_outgoing_seqnum + 0) = next_outgoing_seqnum /\ 0 \in Nat /\ 0 < HalfMod
            BY ToSeqExact, SeqNumAssumption, next_outgoing_seqnum + 0 = next_outgoing_seqnum
               DEF TypeOK, SeqNums
        <3>4. SeqAvailable(ToSeq(next_outgoing_seqnum + 0))
            BY <3>2, <3>3
        <3>5. (Len(log) + 0) - p.id =< MaxWindow + 1
            BY <2>2, <3>3, <3>4, AvailableIsNear
        <3>. QED  BY <1>1, <1>3, <3>1, <3>5, SpanTypes
    <2>. QED  BY <1>3, <2>1, <2>2
<1>7. ControlsTaken' =< MaxControl
    <2>1. PICK M \in Nat : M = MaxControl
        BY SpanTypes
    <2>2. C + 1 =< M
        BY <1>1, <2>1
    <2>. QED  BY <1>2, <2>1, <2>2
<1>. QED  BY <1>5, <1>6, <1>7
(* The first of the queue goes to those sent.                              *)
LEMMA SendWithin ==
    ASSUME TypeOK, SpanInv, SendPackets
    PROVE  SpanInv'
<1>1. PICK L \in Nat, C \in Nat, l \in Nat, Q \in Nat :
        L = Len(log) /\ C = ControlsTaken /\ l = Len(queued_reliables) /\ Q = QueueBound
    BY SpanTypes
<1>2. UNCHANGED <<log, queued_commands>> /\ ControlsTaken' = ControlsTaken
    BY DEF SendPackets, ControlsTaken, Control
<1>3. /\ queued_reliables \in Seq(Packet) /\ queued_reliables # <<>>
      /\ queued_reliables' = Tail(queued_reliables)
      /\ outgoing_reliables_sent' \subseteq
           outgoing_reliables_sent \union {Head(queued_reliables)}
    BY DEF SendPackets, TypeOK, sendAsPacketReliable, Insert
<1>4. /\ l > 0 /\ Len(queued_reliables') = l - 1 /\ DOMAIN queued_reliables' = 1 .. l - 1
      /\ DOMAIN queued_reliables = 1 .. l
      /\ Head(queued_reliables) = queued_reliables[1]
      /\ \A i \in 1 .. l - 1 : queued_reliables'[i] = queued_reliables[i + 1]
    BY <1>1, <1>3, HeadTailProperties, LenProperties, EmptySeq
<1>5. \A i \in 1 .. l :
         /\ queued_reliables[i].id \in Nat
         /\ L - queued_reliables[i].id =< (l - i + 1) + C
    BY <1>1, <1>4, SpanTypes DEF SpanInv, QueueWithin, Near
<1>6. l =< Q + C /\ C =< MaxControl
    BY <1>1 DEF SpanInv, QueueWithin, Near
<1>7. QueueWithin'
    <2>1. \A i \in 1 .. l - 1 : L - queued_reliables'[i].id =< ((l - 1) - i + 1) + C
        <3>. SUFFICES ASSUME NEW i \in 1 .. l - 1
                      PROVE  L - queued_reliables'[i].id =< ((l - 1) - i + 1) + C
            OBVIOUS
        <3>1. i + 1 \in 1 .. l /\ l - (i + 1) + 1 = (l - 1) - i + 1
            OBVIOUS
        <3>. QED  BY <1>4, <1>5, <3>1
    <2>2. l - 1 =< Q + C
        BY <1>6
    <2>. QED  BY <1>1, <1>2, <1>4, <2>1, <2>2 DEF QueueWithin, Near, QueueBound
<1>8. L - queued_reliables[1].id =< Q + 2 * MaxControl
    <2>1. 1 \in 1 .. l /\ l - 1 + 1 = l
        BY <1>4
    <2>2. queued_reliables[1].id \in Nat /\ MaxControl \in Nat
        BY <1>5, <2>1, SpanTypes
    <2>3. PICK M \in Nat, d \in Nat : M = MaxControl /\ d = queued_reliables[1].id
        BY <2>2
    <2>4. L - d =< l + C
        BY <1>5, <2>3, <2>1
    <2>5. L - d =< Q + 2 * M
        BY <1>6, <2>3, <2>4
    <2>. QED  BY <2>3, <2>5
<1>9. SentWithin'
    BY <1>1, <1>2, <1>3, <1>4, <1>8 DEF SpanInv, SentWithin, QueueBound
<1>. QED  BY <1>1, <1>2, <1>6, <1>7, <1>9 DEF SpanInv, CommandsWithin

LEMMA SpanKept ==
    ASSUME SpanInv, UNCHANGED <<queued_commands, queued_reliables, log>>,
           outgoing_reliables_sent' \subseteq outgoing_reliables_sent
    PROVE  SpanInv'
<1>1. ControlsTaken' = ControlsTaken
    BY DEF ControlsTaken, Control
<1>. QED  BY <1>1 DEF SpanInv, CommandsWithin, QueueWithin, QueueBound, SentWithin

LEMMA SpanInit == Init => SpanInv
<1>. SUFFICES ASSUME Init PROVE SpanInv
    OBVIOUS
<1>1. ControlsTaken = 0
    <2>1. {n \in DOMAIN log : log[n] = Control} = {}
        BY DEF Init
    <2>. QED  BY <2>1, FS_EmptySet DEF ControlsTaken
<1>2. QueueBound \in Nat /\ MaxControl \in Nat
    BY ChannelAssumption DEF QueueBound
<1>3. QueueWithin
    BY <1>1, <1>2 DEF Init, QueueWithin, Near
<1>. QED  BY <1>1, <1>2, <1>3 DEF Init, SpanInv, CommandsWithin, SentWithin

LEMMA SpanStep ==
    ASSUME TypeOK, NumbersMatch, SpanInv, [Next]_vars,
           QueueBound + 2 * MaxControl + 1 < HalfMod
    PROVE  SpanInv'
<1>. USE DEF sendVars, netVars, recvVars
<1>a. SpanBelowHalf
    BY SpanIsSmall
<1>1. ASSUME NEW count \in 1 .. MaxChunks, SendCommand(count)
      PROVE  SpanInv'
    <2>1. /\ submitted \in Nat /\ queued_commands \in Seq(Command)
          /\ count \in Nat \ {0} /\ count =< MaxChunks
        BY ChannelAssumption DEF TypeOK
    <2>2. PICK c \in Command : /\ c = [cmd |-> submitted + 1, count |-> count]
                               /\ c.cmd # 0 /\ c.count =< MaxChunks
        <3>1. [cmd |-> submitted + 1, count |-> count] \in Command /\ submitted + 1 # 0
            BY <2>1 DEF Command
        <3>. QED  BY <2>1, <3>1
    <2>3. PutReliableSendCommand(c) /\ UNCHANGED outgoing_reliables_sent
        BY <1>1, <2>2 DEF SendCommand
    <2>4. CASE /\ Len(queued_reliables) < window_size \div 2 /\ CanProcess(c)
               /\ processReliableSendCommand(c) /\ UNCHANGED queued_commands
        <3>1. Len(queued_reliables) < MaxWindow + MaxRequeued
            <4>1. PICK W \in Nat, R \in Nat, w \in Nat, l \in Nat :
                    /\ W = MaxWindow /\ R = MaxRequeued /\ w = window_size
                    /\ l = Len(queued_reliables) /\ w =< W
                <5>1. /\ MaxWindow \in Nat /\ MaxRequeued \in Nat
                      /\ Len(queued_reliables) \in Nat
                      /\ MinWindow \in Nat /\ window_size \in MinWindow .. MaxWindow
                    BY ChannelAssumption, SpanTypes DEF TypeOK
                <5>2. window_size \in Nat /\ window_size =< MaxWindow
                    BY <5>1
                <5>. QED  BY <5>1, <5>2
            <4>2. l < w \div 2
                BY <2>4, <4>1
            <4>3. w \div 2 =< w /\ w \div 2 \in Nat
                BY <4>1
            <4>. QED  BY <4>1, <4>2, <4>3
        <3>. QED  BY <1>a, <2>2, <2>3, <2>4, <3>1, CommandWithin DEF SpanInv, CommandsWithin
    <2>5. CASE /\ queued_commands' = Append(queued_commands, c)
               /\ UNCHANGED <<queued_reliables, log>>
        <3>1. ControlsTaken' = ControlsTaken
            BY <2>5 DEF ControlsTaken, Control
        <3>2. CommandsWithin'
            <4>1. \A i \in DOMAIN queued_commands' :
                     \/ i \in DOMAIN queued_commands /\ queued_commands'[i] = queued_commands[i]
                     \/ queued_commands'[i] = c
                BY <2>1, <2>5, AppendProperties
            <4>. QED  BY <2>2, <4>1 DEF SpanInv, CommandsWithin
        <3>. QED  BY <2>3, <2>5, <3>1, <3>2 DEF SpanInv, QueueWithin, QueueBound, SentWithin
    <2>. QED  BY <2>2, <2>3, <2>4, <2>5, PutCases DEF PutsCommand
<1>2. ASSUME RunsCommand
      PROVE  SpanInv'
    <2>1. queued_commands \in Seq(Command) /\ queued_commands # <<>>
        BY <1>2 DEF TypeOK, RunsCommand
    <2>2. /\ DOMAIN queued_commands = 1 .. Len(queued_commands)
          /\ Len(queued_commands) \in Nat \ {0}
          /\ Head(queued_commands) = queued_commands[1]
          /\ DOMAIN Tail(queued_commands) = 1 .. Len(queued_commands) - 1
          /\ \A i \in 1 .. Len(queued_commands) - 1 :
                Tail(queued_commands)[i] = queued_commands[i + 1]
        BY <2>1, HeadTailProperties, LenProperties, EmptySeq
    <2>3. PICK c \in Command : /\ c = Head(queued_commands)
                               /\ c.cmd # 0 /\ c.count =< MaxChunks
        BY <2>1, <2>2, HeadTailProperties DEF SpanInv, CommandsWithin
    <2>4. /\ Len(queued_reliables) < MaxWindow + MaxRequeued /\ CanProcess(c)
          /\ processReliableSendCommand(c) /\ UNCHANGED outgoing_reliables_sent
        BY <1>2, <2>3, SpanTypes DEF RunsCommand
    <2>5. CommandsWithin'
        BY <1>2, <2>2 DEF RunsCommand, SpanInv, CommandsWithin
    <2>. QED  BY <1>a, <2>3, <2>4, <2>5, CommandWithin DEF SpanInv
<1>3. ASSUME SendPackets
      PROVE  SpanInv'
    BY <1>3, SendWithin
<1>4. ASSUME CreatePeer \/ Ping
      PROVE  SpanInv'
    <2>1. /\ log = <<>> \/ SeqAvailable(next_outgoing_seqnum)
          /\ rawSendAsPacket(NextPacket) /\ ControlsTaken < MaxControl
          /\ UNCHANGED queued_commands
        BY <1>4 DEF CreatePeer, Ping
    <2>. QED  BY <1>a, <2>1, ControlWithin DEF SpanInv, CommandsWithin
<1>5. ASSUME NEW a \in acks, NEW duplicated \in BOOLEAN, ReceiveAck(a, duplicated)
      PROVE  SpanInv'
    BY <1>5, SpanKept DEF ReceiveAck, RemoveSeq
<1>6. ASSUME NEW p \in outgoing_reliables_sent, Resend(p)
      PROVE  SpanInv'
    BY <1>6, SpanKept DEF Resend
<1>7. ASSUME NEW d \in WindowSteps, UpdateTimers(d)
      PROVE  SpanInv'
    BY <1>7, SpanKept DEF UpdateTimers
<1>8. ASSUME checkIncomingBuffers
      PROVE  SpanInv'
    BY <1>8, SpanKept DEF checkIncomingBuffers
<1>9. ASSUME NEW p \in wire, NEW duplicated \in BOOLEAN, ReceivePacket(p, duplicated)
      PROVE  SpanInv'
    BY <1>9, SpanKept DEF ReceivePacket
<1>10. ASSUME NEW p, LosePacket(p) \/ LoseAck(p)
       PROVE  SpanInv'
    BY <1>10, SpanKept DEF LosePacket, LoseAck
<1>11. CASE UNCHANGED vars
    BY <1>11, SpanKept DEF vars
<1>. QED
    BY <1>1, <1>2, <1>3, <1>4, <1>5, <1>6, <1>7, <1>8, <1>9, <1>10, <1>11, RunCases DEF Next

(* Everything unanswered lies in the half of the circle behind the next    *)
(* number, although getOutgoingSequenceNumber does not look at the queue,  *)
(* when the window, the queue, the longest command and all the control     *)
(* packets sent, counted twice, fit in that half together.                 *)
THEOREM SpanStaysBelowHalf ==
    ASSUME MaxWindow + MaxRequeued + MaxChunks + 2 * MaxControl + 1 < HalfMod
    PROVE  Spec => []SpanBelowHalf
<1>1. QueueBound + 2 * MaxControl + 1 < HalfMod
    BY DEF QueueBound
<1>2. Init => TypeOK /\ NumbersMatch /\ SpanInv
    BY TypeInit, NumbersInit, SpanInit
<1>3. TypeOK /\ NumbersMatch /\ SpanInv /\ [Next]_vars => (TypeOK /\ NumbersMatch /\ SpanInv)'
    BY <1>1, TypeStep, NumbersStep, SpanStep
<1>4. TypeOK /\ SpanInv => SpanBelowHalf
    BY <1>1, SpanIsSmall
<1>. QED  BY <1>2, <1>3, <1>4, PTL DEF Spec

(* Under that condition the channel is a fifo, and forgets nothing.        *)
THEOREM SmallChannelIsFifo ==
    ASSUME MaxWindow + MaxRequeued + MaxChunks + 2 * MaxControl + 1 < HalfMod
    PROVE  Spec => /\ ImplementsFifo
                   /\ []ProcessedInOrder
                   /\ []NothingForgotten
BY SpanStaysBelowHalf, ChannelIsFifo, InOrder, NeverForgotten, PTL

=============================================================================
