-------------------------- MODULE PacketRingProofs --------------------------
(***************************************************************************)
(* Proofs about PacketRing, for every ring size and number of packets: the *)
(* order of the packets, the stability of the slot the reporter reads, the *)
(* end-of-traffic handshake, and the only way a packet can be overwritten. *)
(*                                                                         *)
(* None of the invariants is inductive by itself: what the ring holds      *)
(* depends on where both threads are in their access to it.  IInv adds     *)
(* that.                                                                   *)
(***************************************************************************)
EXTENDS PacketRing, SequenceTheorems, TLAPS

\* How many packets have been published at each point of the traffic thread.
Progress ==
  /\ tstate = "endjob" => enq = NPackets
  /\ tstate \in {"check", "stall", "full", "copy", "publish"} => enq <= NPackets
  /\ tstate \in {"await", "doze", "lag", "free", "freed"} => enq = FinalPacket

\* The slot about to be written is the reader's only at the unnoticed wrap.
WriterClear ==
  /\ tstate = "copy" => \/ WriteIndex # consumer
                        \/ producer = MaxCount - 1 /\ consumer = 0
  /\ tstate = "publish" => /\ WriteIndex # consumer
                           /\ data[WriteIndex] = enq + 1

\* The end-of-traffic handshake: the predicate is set only by a reporter that
\* has seen the final packet.
Handshake ==
  /\ rstate \in {"done", "signaldone", "finished"} => got = FinalPacket
  /\ consumerdone => rstate \in {"signaldone", "finished"}
  /\ tstate \in {"free", "freed"} => rstate \in {"signaldone", "finished"}

\* The inductive invariant.
IInv ==
  /\ TypeOK
  /\ Progress
  /\ Fifo
  /\ ReaderSlotStable
  /\ ~overrun => /\ WriterClear
                 /\ rstate = "advance" => producer # consumer
                 /\ Handshake
-----------------------------------------------------------------------------
(* Arithmetic of the ring.                                                 *)

\* The index after a slot of the ring is a slot of the ring.
LEMMA NextSlotType == ASSUME NEW s \in Slots PROVE NextSlot(s) \in Slots
  BY MaxCountAssumption DEF NextSlot, Slots

\* No two slots have the same successor.
LEMMA NextSlotInjective ==
  ASSUME NEW s \in Slots, NEW t \in Slots, NextSlot(s) = NextSlot(t)
  PROVE  s = t
  BY MaxCountAssumption DEF NextSlot, Slots

\* The ring never counts MaxCount packets, and none exactly when its indices
\* are equal.
LEMMA DepthType ==
  ASSUME producer \in Slots, consumer \in Slots
  PROVE  /\ Depth \in 0 .. MaxCount - 1
         /\ Depth = 0 <=> producer = consumer
  BY MaxCountAssumption DEF Depth, Slots

\* The packets in the ring are in slots of it, other than the reader's and
\* the next one to write; the newest is in the slot written last.
LEMMA PendingSlots ==
  ASSUME producer \in Slots, consumer \in Slots, NEW i \in 1 .. Depth
  PROVE  /\ SlotAfter(consumer, i) \in Slots
         /\ SlotAfter(consumer, i) # consumer
         /\ WriteIndex # consumer => SlotAfter(consumer, i) # WriteIndex
         /\ i = Depth => SlotAfter(consumer, i) = producer
  BY MaxCountAssumption DEF SlotAfter, Depth, Slots, WriteIndex, NextSlot

\* Seen from the next slot everything is one position closer.
LEMMA SlotAfterNext ==
  ASSUME NEW s \in Slots, NEW i \in 1 .. MaxCount - 1
  PROVE  /\ i > 1 => SlotAfter(NextSlot(s), i - 1) = SlotAfter(s, i)
         /\ SlotAfter(s, 1) = NextSlot(s)
  BY MaxCountAssumption DEF SlotAfter, NextSlot, Slots
-----------------------------------------------------------------------------
LEMMA InitIInv == Init => IInv
  <1> SUFFICES ASSUME Init PROVE IInv
    OBVIOUS
  <1> USE MaxCountAssumption, NPacketsAssumption DEF Init
  <1>1. TypeOK
    <2>1. data \in [Slots -> 0 .. FinalPacket] /\ 0 \in Slots
      BY DEF Slots, FinalPacket
    <2>2. tstate \in TrafficStates
      <3>1. CASE NPackets = 0
        BY <3>1 DEF TrafficStates
      <3>2. CASE NPackets # 0
        BY <3>2 DEF TrafficStates
      <3>3. QED
        BY <3>1, <3>2
    <2>3. enq \in 0 .. FinalPacket /\ got \in 0 .. FinalPacket
      BY DEF FinalPacket
    <2>4. QED
      BY <2>1, <2>2, <2>3 DEF TypeOK, ReporterStates
  <1>2. Depth = 0
    BY DEF Depth
  <1>3. Progress /\ Fifo /\ ReaderSlotStable
    BY <1>2 DEF Progress, Fifo, ReaderSlotStable
  <1>4. WriterClear /\ Handshake
    BY DEF WriterClear, Handshake
  <1>5. QED
    BY <1>1, <1>3, <1>4 DEF IInv

\* A step of the traffic thread before and after the write of a packet, and
\* its waits, change nothing but its state and, in EndJob, the predicate.
LEMMA TrafficWaitIInv ==
  ASSUME IInv,
         EnqueueCheck \/ EnqueueWait \/ EndJob \/ EndJobAwait \/ EndJobWait
           \/ ProducerTimeout \/ FreeReport
  PROVE  IInv'
  <1> USE NPacketsAssumption, MaxCountAssumption DEF IInv, TypeOK
  <1>1. UNCHANGED <<data, producer, consumer, enq, got, rstate, overrun>>
    BY DEF EnqueueCheck, EnqueueWait, EndJob, EndJobAwait, EndJobWait,
           ProducerTimeout, FreeReport
  <1>2. Fifo' /\ ReaderSlotStable'
    BY <1>1 DEF Fifo, ReaderSlotStable, Depth, SlotAfter
  <1>3. CASE EnqueueCheck
    <2>1. /\ tstate = "check" /\ consumerdone' = consumerdone
          /\ tstate' = "stall" \/ tstate' = "copy"
      BY <1>3 DEF EnqueueCheck
    <2>2. tstate' = "copy" => producer + 1 # consumer
      BY <1>3 DEF EnqueueCheck, RingFull
    <2>3. TypeOK' /\ Progress'
      BY <1>1, <2>1 DEF Progress, TrafficStates
    <2>4. WriterClear'
      BY <1>1, <2>1, <2>2 DEF WriterClear, WriteIndex, NextSlot, Slots
    <2>5. ~overrun => Handshake'
      BY <1>1, <2>1 DEF Handshake
    <2>6. QED
      BY <1>1, <1>2, <2>3, <2>4, <2>5
  <1>4. CASE EndJob
    <2>1. tstate = "endjob" /\ tstate' = "check" /\ consumerdone' = FALSE
      BY <1>4 DEF EndJob
    <2>2. TypeOK'
      BY <1>1, <2>1 DEF TrafficStates
    <2>3. Progress'
      BY <1>1, <2>1 DEF Progress
    <2>4. WriterClear' /\ (~overrun => Handshake')
      BY <1>1, <2>1 DEF WriterClear, Handshake
    <2>5. QED
      BY <1>1, <1>2, <2>2, <2>3, <2>4
  <1>5. CASE EndJobAwait \/ FreeReport
    <2>1. /\ tstate \in {"await", "free"}
          /\ tstate' \in {"free", "doze", "freed"}
          /\ consumerdone' = consumerdone
          /\ tstate' \in {"free", "freed"} => consumerdone \/ tstate = "free"
      BY <1>5 DEF EndJobAwait, FreeReport
    <2>2. TypeOK' /\ Progress'
      BY <1>1, <2>1 DEF Progress, TrafficStates
    <2>3. WriterClear' /\ (~overrun => Handshake')
      BY <1>1, <2>1 DEF WriterClear, Handshake
    <2>4. QED
      BY <1>1, <1>2, <2>2, <2>3
  <1>6. CASE EnqueueWait \/ EndJobWait \/ ProducerTimeout
    <2>1. /\ \/ tstate = "stall" /\ tstate' = "full"
             \/ tstate = "full" /\ tstate' = "check"
             \/ tstate = "doze" /\ tstate' = "lag"
             \/ tstate = "lag" /\ tstate' = "await"
          /\ consumerdone' = consumerdone
      BY <1>6 DEF EnqueueWait, EndJobWait, ProducerTimeout, Woken
    <2>2. TypeOK' /\ Progress'
      BY <1>1, <2>1 DEF Progress, TrafficStates
    <2>3. WriterClear' /\ (~overrun => Handshake')
      BY <1>1, <2>1 DEF WriterClear, Handshake
    <2>4. QED
      BY <1>1, <1>2, <2>2, <2>3
  <1>7. QED
    BY <1>3, <1>4, <1>5, <1>6

\* The memcpy hits no packet of the ring and, short of an overrun, not the
\* reader's slot either.
LEMMA EnqueueCopyIInv == ASSUME IInv, EnqueueCopy PROVE IInv'
  <1> USE NPacketsAssumption, MaxCountAssumption DEF IInv, TypeOK
  <1>1. /\ tstate = "copy" /\ tstate' = "publish"
        /\ data' = [data EXCEPT ![WriteIndex] = enq + 1]
        /\ overrun' = (overrun \/ WriteIndex = consumer)
        /\ UNCHANGED <<producer, consumer, consumerdone, enq, got, rstate>>
    BY DEF EnqueueCopy
  <1>2. WriteIndex \in Slots /\ WriteIndex' = WriteIndex
    BY <1>1, NextSlotType DEF WriteIndex, NextSlot
  <1>3. enq + 1 \in 0 .. FinalPacket
    BY <1>1 DEF Progress, FinalPacket
  <1>4. TypeOK'
    BY <1>1, <1>2, <1>3 DEF TrafficStates
  <1>5. Progress'
    BY <1>1 DEF Progress
  <1>6. CASE overrun'
    BY <1>1, <1>4, <1>5, <1>6 DEF Fifo, ReaderSlotStable
  <1>7. CASE ~overrun'
    <2>1. ~overrun /\ WriteIndex # consumer
      BY <1>1, <1>7
    <2>2. Depth' = Depth
      BY <1>1 DEF Depth
    <2>3. Fifo'
      <3> SUFFICES ASSUME NEW i \in 1 .. Depth
                   PROVE  data'[SlotAfter(consumer, i)] = got + i
        BY <1>1, <2>1, <2>2 DEF Fifo, SlotAfter
      <3>1. data'[SlotAfter(consumer, i)] = data[SlotAfter(consumer, i)]
        BY <1>1, <1>2, <2>1, PendingSlots
      <3>2. QED
        BY <2>1, <3>1 DEF Fifo
    <2>4. ReaderSlotStable'
      BY <1>1, <1>2, <2>1 DEF ReaderSlotStable
    <2>5. WriterClear'
      BY <1>1, <1>2, <2>1 DEF WriterClear
    <2>6. Handshake'
      BY <1>1, <2>1 DEF Handshake
    <2>7. QED
      BY <1>1, <1>4, <1>5, <2>1, <2>3, <2>4, <2>5, <2>6
  <1>8. QED
    BY <1>6, <1>7

\* The published packet is the newest of the ring.
LEMMA EnqueuePublishIInv == ASSUME IInv, EnqueuePublish PROVE IInv'
  <1> USE NPacketsAssumption, MaxCountAssumption DEF IInv, TypeOK
  <1>1. /\ tstate = "publish"
        /\ producer' = WriteIndex /\ enq' = enq + 1
        /\ UNCHANGED <<data, consumer, consumerdone, got, rstate, overrun>>
    BY DEF EnqueuePublish
  <1>2. WriteIndex \in Slots
    BY NextSlotType DEF WriteIndex
  <1>3. enq \in 0 .. NPackets /\ enq' \in 0 .. FinalPacket
    BY <1>1 DEF Progress, FinalPacket
  <1>4. \/ tstate' = "await" /\ enq' = FinalPacket
        \/ tstate' = "endjob" /\ enq' = NPackets
        \/ tstate' = "check" /\ enq' <= NPackets
    BY <1>1, <1>3 DEF EnqueuePublish, FinalPacket
  <1>5. TypeOK'
    BY <1>1, <1>2, <1>3, <1>4 DEF TrafficStates
  <1>6. Progress'
    BY <1>4 DEF Progress
  <1>7. CASE overrun
    BY <1>1, <1>5, <1>6, <1>7 DEF Fifo, ReaderSlotStable
  <1>8. CASE ~overrun
    <2>1. WriteIndex # consumer /\ data[WriteIndex] = enq + 1
      BY <1>1, <1>8 DEF WriterClear
    <2>2. Depth' = Depth + 1 /\ SlotAfter(consumer, Depth + 1) = WriteIndex
      BY <1>1, <2>1 DEF Depth, SlotAfter, WriteIndex, NextSlot, Slots
    <2>3. Fifo'
      <3>1. got + Depth' = enq'
        BY <1>1, <1>8, <2>2, DepthType DEF Fifo
      <3>2. ASSUME NEW i \in 1 .. Depth + 1
            PROVE  data[SlotAfter(consumer, i)] = got + i
        <4>1. CASE i = Depth + 1
          BY <4>1, <1>8, <2>1, <2>2, DepthType DEF Fifo
        <4>2. CASE i # Depth + 1
          BY <4>2, <1>8, DepthType DEF Fifo
        <4>3. QED
          BY <4>1, <4>2
      <3>3. QED
        BY <1>1, <2>2, <3>1, <3>2 DEF Fifo, SlotAfter
    <2>4. ReaderSlotStable'
      BY <1>1 DEF ReaderSlotStable
    <2>5. WriterClear' /\ Handshake'
      BY <1>1, <1>4, <1>8 DEF WriterClear, Handshake
    <2>6. rstate' = "advance" => producer' # consumer'
      BY <1>1, <2>1
    <2>7. QED
      BY <1>1, <1>5, <1>6, <2>3, <2>4, <2>5, <2>6
  <1>9. QED
    BY <1>7, <1>8

\* A step of the reporter that moves neither index nor packet.
LEMMA ReporterWaitIInv ==
  ASSUME IInv,
         DequeueCheck \/ DequeueSignal \/ ProcessPacket \/ ConsumerDone
           \/ SignalDone
  PROVE  IInv'
  <1> USE NPacketsAssumption, MaxCountAssumption DEF IInv, TypeOK
  <1>1. /\ UNCHANGED <<data, producer, consumer, enq, got, overrun>>
        /\ consumerdone' \in BOOLEAN
        /\ rstate' \in ReporterStates
        /\ \/ tstate' = tstate
           \/ tstate = "full" /\ tstate' = "check"
           \/ tstate = "lag" /\ tstate' = "await"
    BY DEF DequeueCheck, DequeueSignal, ProcessPacket, ConsumerDone,
           SignalDone, Woken, ReporterStates
  <1>2. TypeOK' /\ Progress'
    BY <1>1 DEF Progress, TrafficStates
  <1>3. Fifo'
    BY <1>1 DEF Fifo, Depth, SlotAfter
  <1>4. WriterClear \/ overrun => WriterClear' \/ overrun
    BY <1>1 DEF WriterClear, WriteIndex, NextSlot
  <1>5. CASE DequeueCheck
    <2>1. /\ rstate' = "advance" /\ producer # consumer /\ rstate = "dequeue"
          /\ UNCHANGED <<tstate, consumerdone>>
      BY <1>5 DEF DequeueCheck
    <2>2. ReaderSlotStable' /\ (~overrun => Handshake')
      BY <1>1, <2>1 DEF ReaderSlotStable, Handshake
    <2>3. QED
      BY <1>1, <1>2, <1>3, <1>4, <2>1, <2>2
  <1>6. CASE DequeueSignal
    <2>1. rstate = "signal" /\ rstate' = "process" /\ UNCHANGED consumerdone
      BY <1>6 DEF DequeueSignal
    <2>2. ReaderSlotStable' /\ (~overrun => Handshake')
      BY <1>1, <2>1 DEF ReaderSlotStable, Handshake
    <2>3. QED
      BY <1>1, <1>2, <1>3, <1>4, <2>1, <2>2
  <1>7. CASE ProcessPacket
    <2>1. /\ rstate = "process" /\ UNCHANGED <<tstate, consumerdone>>
          /\ \/ rstate' = "done" /\ data[consumer] = FinalPacket
             \/ rstate' = "dequeue"
      BY <1>7 DEF ProcessPacket
    <2>2. ReaderSlotStable'
      BY <1>1, <2>1 DEF ReaderSlotStable
    <2>3. ~overrun => Handshake'
      BY <1>1, <2>1 DEF ReaderSlotStable, Handshake
    <2>4. QED
      BY <1>1, <1>2, <1>3, <1>4, <2>1, <2>2, <2>3
  <1>8. CASE ConsumerDone
    <2>1. rstate = "done" /\ rstate' = "signaldone" /\ UNCHANGED tstate
      BY <1>8 DEF ConsumerDone
    <2>2. ReaderSlotStable' /\ (~overrun => Handshake')
      BY <1>1, <2>1 DEF ReaderSlotStable, Handshake
    <2>3. QED
      BY <1>1, <1>2, <1>3, <1>4, <2>1, <2>2
  <1>9. CASE SignalDone
    <2>1. /\ rstate = "signaldone" /\ rstate' = "finished"
          /\ UNCHANGED consumerdone
      BY <1>9 DEF SignalDone
    <2>2. ReaderSlotStable' /\ (~overrun => Handshake')
      BY <1>1, <2>1 DEF ReaderSlotStable, Handshake
    <2>3. QED
      BY <1>1, <1>2, <1>3, <1>4, <2>1, <2>2
  <1>10. QED
    BY <1>5, <1>6, <1>7, <1>8, <1>9

\* The packet handed to the reporter is the oldest of the ring.
LEMMA DequeueAdvanceIInv == ASSUME IInv, DequeueAdvance PROVE IInv'
  <1> USE NPacketsAssumption, MaxCountAssumption DEF IInv, TypeOK
  <1>1. /\ rstate = "advance" /\ rstate' = "signal"
        /\ consumer' = ReadIndex /\ got' = data[ReadIndex]
        /\ UNCHANGED <<data, producer, consumerdone, enq, tstate, overrun>>
    BY DEF DequeueAdvance
  <1>2. ReadIndex \in Slots /\ ReadIndex = NextSlot(consumer)
    BY NextSlotType DEF ReadIndex
  <1>3. TypeOK' /\ Progress'
    BY <1>1, <1>2 DEF Progress, ReporterStates
  <1>4. CASE overrun
    BY <1>1, <1>3, <1>4 DEF Fifo, ReaderSlotStable
  <1>5. CASE ~overrun
    <2>1. producer # consumer /\ Depth \in 1 .. MaxCount - 1
      BY <1>1, <1>5, DepthType
    <2>2. got' = got + 1
      BY <1>1, <1>2, <1>5, <2>1, SlotAfterNext DEF Fifo
    <2>3. Depth' = Depth - 1
      BY <1>1, <1>2, <2>1 DEF Depth, NextSlot, Slots
    <2>4. Fifo'
      <3>1. got' + Depth' = enq'
        BY <1>1, <1>5, <2>1, <2>2, <2>3 DEF Fifo
      <3>2. ASSUME NEW i \in 1 .. Depth - 1
            PROVE  data[SlotAfter(ReadIndex, i)] = got' + i
        <4>1. /\ i + 1 \in 1 .. Depth
              /\ SlotAfter(ReadIndex, i) = SlotAfter(consumer, i + 1)
          BY <1>2, <2>1 DEF SlotAfter, NextSlot, Slots
        <4>2. QED
          BY <1>5, <2>2, <4>1 DEF Fifo
      <3>3. QED
        BY <1>1, <2>3, <3>1, <3>2 DEF Fifo, SlotAfter
    <2>5. ReaderSlotStable'
      BY <1>1 DEF ReaderSlotStable
    <2>6. WriterClear'
      <3>1. WriteIndex # ReadIndex
        BY <1>2, <2>1, NextSlotInjective DEF WriteIndex
      <3>2. QED
        BY <1>1, <1>5, <3>1 DEF WriterClear, WriteIndex, NextSlot
    <2>7. Handshake'
      BY <1>1, <1>5 DEF Handshake
    <2>8. QED
      BY <1>1, <1>3, <2>4, <2>5, <2>6, <2>7
  <1>6. QED
    BY <1>4, <1>5
-----------------------------------------------------------------------------
\* IInv is an invariant of the ring.
THEOREM Invariance == Spec => []IInv
  <1>1. IInv /\ [Next]_vars => IInv'
    <2> SUFFICES ASSUME IInv, [Next]_vars PROVE IInv'
      OBVIOUS
    <2>1. CASE Traffic
      BY <2>1, TrafficWaitIInv, EnqueueCopyIInv, EnqueuePublishIInv DEF Traffic
    <2>2. CASE Reporter
      BY <2>2, ReporterWaitIInv, DequeueAdvanceIInv DEF Reporter
    <2>3. CASE UNCHANGED vars
      BY <2>3 DEF vars, IInv, TypeOK, Progress, Fifo, ReaderSlotStable,
         WriterClear, Handshake, Depth, SlotAfter, WriteIndex, NextSlot
    <2>4. QED
      BY <2>1, <2>2, <2>3 DEF Next
  <1>2. QED
    BY InitIInv, <1>1, PTL DEF Spec

\* The variables keep their types.
THEOREM TypeCorrect == Spec => []TypeOK
  <1>1. IInv => TypeOK
    BY DEF IInv
  <1>2. QED
    BY Invariance, <1>1, PTL

\* Until an overrun the ring is a first-in first-out queue that loses nothing.
THEOREM FifoOrder == Spec => []Fifo
  <1>1. IInv => Fifo
    BY DEF IInv
  <1>2. QED
    BY Invariance, <1>1, PTL

\* The packet the reporter reads in place does not change under it.
THEOREM NoTornRead == Spec => []ReaderSlotStable
  <1>1. IInv => ReaderSlotStable
    BY DEF IInv
  <1>2. QED
    BY Invariance, <1>1, PTL

\* Until an overrun the traffic thread disturbs neither the order of the
\* packets nor the packet being read.
THEOREM RingUndisturbed == Spec => []Undisturbed
  <1>1. Fifo /\ ReaderSlotStable => Undisturbed
    BY DEF Undisturbed
  <1>2. QED
    BY FifoOrder, NoTornRead, <1>1, PTL

\* EndJob returns only after the reporter has processed the final packet.
THEOREM Delivery == Spec => []DoneMeansDelivered
  <1>1. IInv => DoneMeansDelivered
    BY DEF IInv, DoneMeansDelivered, Handshake
  <1>2. QED
    BY Invariance, <1>1, PTL

\* The write index passes the reader only at the wrap with the reader at 0.
THEOREM OverrunAtWrap == Spec => OverrunOnlyAtWrap
  <1>1. IInv /\ [Next]_vars =>
          [overrun' # overrun => producer = MaxCount - 1 /\ consumer = 0]_vars
    <2> SUFFICES ASSUME IInv, Next, overrun' # overrun
                 PROVE  producer = MaxCount - 1 /\ consumer = 0
      BY DEF vars
    <2>1. EnqueueCopy
      BY DEF Next, Traffic, Reporter, EnqueueCheck, EnqueueWait,
         EnqueuePublish, EndJob, EndJobAwait, EndJobWait, ProducerTimeout,
         FreeReport, DequeueCheck, DequeueAdvance, DequeueSignal,
         ProcessPacket, ConsumerDone, SignalDone
    <2>2. ~overrun /\ WriteIndex = consumer /\ tstate = "copy"
      BY <2>1 DEF EnqueueCopy, IInv, TypeOK
    <2>3. QED
      BY <2>2 DEF IInv, WriterClear
  <1>2. QED
    BY Invariance, <1>1, PTL DEF Spec, OverrunOnlyAtWrap
-----------------------------------------------------------------------------
(* The ring implements the channel.                                        *)

\* What is in the channel.
Queue == [i \in 1 .. Depth |-> data[SlotAfter(consumer, i)]]

\* Until an overrun these are the packets after the one read last.
InOrder ==
  ~overrun =>
    /\ enq - got \in 0 .. MaxCount - 1 /\ got \in Nat /\ enq \in Nat
    /\ Queue = [i \in 1 .. enq - got |-> got + i]

LEMMA QueueInOrder == IInv => InOrder
  <1> SUFFICES ASSUME IInv, ~overrun
               PROVE  /\ enq - got \in 0 .. MaxCount - 1 /\ got \in Nat /\ enq \in Nat
                      /\ Queue = [i \in 1 .. enq - got |-> got + i]
    BY DEF InOrder
  <1>1. Depth \in 0 .. MaxCount - 1 /\ got \in Nat /\ enq \in Nat /\ enq = got + Depth
    BY DepthType, NPacketsAssumption DEF IInv, TypeOK, Fifo, FinalPacket
  <1>2. Depth = enq - got
    BY <1>1, MaxCountAssumption
  <1>3. Queue = [i \in 1 .. Depth |-> got + i]
    BY DEF IInv, Fifo, Queue
  <1>4. QED
    BY <1>1, <1>2, <1>3

\* ... and so after a step.
LEMMA QueueInOrderNext == IInv' => InOrder'
  BY QueueInOrder, PTL

\* The consecutive numbers after g as a sequence, longer and shorter by one.
LEMMA QueueSeq ==
  ASSUME NEW n \in Nat, NEW g \in Nat, NEW q, q = [i \in 1 .. n |-> g + i]
  PROVE  /\ q \in Seq(Nat) /\ Len(q) = n
         /\ Append(q, g + n + 1) = [i \in 1 .. n + 1 |-> g + i]
         /\ n > 0 => q # <<>> /\ Head(q) = g + 1 /\ Tail(q) = [i \in 1 .. n - 1 |-> g + 1 + i]
  <1>1. q \in [1 .. n -> Nat]
    OBVIOUS
  <1>2. q \in Seq(Nat) /\ Len(q) = n
    BY <1>1
  <1>3. Append(q, g + n + 1) = [i \in 1 .. n + 1 |-> g + i]
    <2>1. [i \in 1 .. n + 1 |-> g + i] \in Seq(Nat) /\ Len([i \in 1 .. n + 1 |-> g + i]) = n + 1
      OBVIOUS
    <2>2. /\ Append(q, g + n + 1) \in Seq(Nat) /\ Len(Append(q, g + n + 1)) = n + 1
          /\ \A i \in 1 .. n : Append(q, g + n + 1)[i] = q[i]
          /\ Append(q, g + n + 1)[n + 1] = g + n + 1
      BY <1>2, AppendProperties
    <2>3. \A i \in 1 .. n + 1 : Append(q, g + n + 1)[i] = g + i
      BY <2>2
    <2>4. QED
      BY <2>1, <2>2, <2>3, SeqEqual
  <1>4. ASSUME n > 0
        PROVE  q # <<>> /\ Head(q) = g + 1 /\ Tail(q) = [i \in 1 .. n - 1 |-> g + 1 + i]
    <2>1. q # <<>> /\ Head(q) = g + 1
      BY <1>2, <1>4, EmptySeq
    <2>2. /\ Tail(q) \in Seq(Nat) /\ Len(Tail(q)) = n - 1
          /\ \A i \in 1 .. n - 1 : Tail(q)[i] = q[i + 1]
      BY <1>2, <2>1, HeadTailProperties
    <2>3. \A i \in 1 .. n - 1 : Tail(q)[i] = g + 1 + i
      BY <2>2
    <2>4. [i \in 1 .. n - 1 |-> g + 1 + i] \in Seq(Nat) /\ Len([i \in 1 .. n - 1 |-> g + 1 + i]) = n - 1
      BY <1>4
    <2>5. QED
      BY <2>1, <2>2, <2>3, <2>4, SeqEqual
  <1>5. QED
    BY <1>2, <1>3, <1>4

\* The publication of an index puts a packet into the channel.
LEMMA PublishPuts ==
  ASSUME IInv, IInv', EnqueuePublish, ~overrun
  PROVE  Channel!Put
  <1>1. ~overrun' /\ overrun' = overrun /\ enq' = enq + 1 /\ got' = got
    BY DEF EnqueuePublish
  <1>2. /\ enq - got \in 0 .. MaxCount - 1 /\ got \in Nat /\ enq \in Nat
        /\ Queue = [i \in 1 .. enq - got |-> got + i]
    BY QueueInOrder DEF InOrder
  <1>3. /\ enq' - got' \in 0 .. MaxCount - 1
        /\ Queue' = [i \in 1 .. enq' - got' |-> got' + i]
    BY <1>1, QueueInOrderNext DEF InOrder
  <1>4. enq - got \in Nat /\ enq - got < MaxCount - 1
    BY <1>1, <1>2, <1>3, MaxCountAssumption
  <1>5. Queue' = [i \in 1 .. (enq - got) + 1 |-> got + i]
    BY <1>1, <1>2, <1>3
  <1>6. Queue' = Append(Queue, enq + 1) /\ Len(Queue) = enq - got
    <2>1. /\ Append(Queue, got + (enq - got) + 1) = [i \in 1 .. (enq - got) + 1 |-> got + i]
          /\ Len(Queue) = enq - got
      BY <1>2, <1>4, QueueSeq
    <2>2. got + (enq - got) + 1 = enq + 1
      BY <1>2
    <2>3. QED
      BY <1>5, <2>1, <2>2
  <1>7. enq < FinalPacket
    BY NPacketsAssumption DEF EnqueuePublish, IInv, Progress, TypeOK, FinalPacket
  <1>8. (tstate = "freed") = FALSE /\ (tstate = "freed")' = FALSE
    BY DEF EnqueuePublish
  <1>9. QED
    BY <1>1, <1>4, <1>6, <1>7, <1>8 DEF Channel!Put, Channel!FinalPacket, FinalPacket, Queue

\* The advance of the reporter takes the oldest packet.
LEMMA AdvanceGets ==
  ASSUME IInv, IInv', DequeueAdvance, ~overrun
  PROVE  Channel!Get
  <1>1. ~overrun' /\ overrun' = overrun /\ enq' = enq /\ tstate' = tstate /\ got' = data[ReadIndex]
    BY DEF DequeueAdvance
  <1>2. /\ enq - got \in 0 .. MaxCount - 1 /\ got \in Nat /\ enq \in Nat
        /\ Queue = [i \in 1 .. enq - got |-> got + i]
    BY QueueInOrder DEF InOrder
  <1>3. got' = got + 1 /\ enq - got > 0
    <2>1. producer # consumer /\ producer \in Slots /\ consumer \in Slots
      BY DEF IInv, TypeOK, DequeueAdvance
    <2>2. Depth \in 0 .. MaxCount - 1 /\ Depth # 0
      BY <2>1, DepthType
    <2>3. Depth \in Nat /\ 1 \in 1 .. MaxCount - 1 /\ 1 \in 1 .. Depth
      BY <2>2, MaxCountAssumption
    <2>4. data[SlotAfter(consumer, 1)] = got + 1 /\ got + Depth = enq
      BY <2>3 DEF IInv, Fifo
    <2>5. SlotAfter(consumer, 1) = ReadIndex
      BY <2>1, <2>3, SlotAfterNext DEF ReadIndex
    <2>6. QED
      BY <1>1, <1>2, <2>2, <2>3, <2>4, <2>5
  <1>4. Queue' = [i \in 1 .. (enq - got) - 1 |-> got + 1 + i]
    <2>1. Queue' = [i \in 1 .. enq' - got' |-> got' + i]
      BY <1>1, QueueInOrderNext DEF InOrder
    <2>2. enq' - got' = (enq - got) - 1
      BY <1>1, <1>2, <1>3
    <2>3. QED
      BY <1>3, <2>1, <2>2
  <1>5. enq - got \in Nat
    BY <1>2, MaxCountAssumption
  <1>6. Queue # <<>> /\ Head(Queue) = got + 1 /\ Tail(Queue) = [i \in 1 .. (enq - got) - 1 |-> got + 1 + i]
    BY <1>2, <1>3, <1>5, QueueSeq
  <1>7. QED
    BY <1>1, <1>3, <1>4, <1>6 DEF Channel!Get, Queue

\* A packet that is copied over the reader's slot meets a full channel.
LEMMA CopyOverruns ==
  ASSUME IInv, EnqueueCopy, ~overrun, overrun'
  PROVE  Channel!Overrun
  <1>1. producer = MaxCount - 1 /\ consumer = 0
    BY DEF EnqueueCopy, IInv, WriterClear
  <1>2. Depth = MaxCount - 1
    BY <1>1, MaxCountAssumption DEF Depth
  <1>3. /\ enq - got \in 0 .. MaxCount - 1 /\ got \in Nat /\ enq \in Nat
        /\ Queue = [i \in 1 .. enq - got |-> got + i]
    BY QueueInOrder DEF InOrder
  <1>4. enq - got \in Nat
    BY <1>3, MaxCountAssumption
  <1>5. Len(Queue) = enq - got
    BY <1>3, <1>4, QueueSeq
  <1>6. enq - got = MaxCount - 1
    BY <1>2, <1>3, MaxCountAssumption DEF IInv, Fifo
  <1>7. QED
    BY <1>5, <1>6 DEF Channel!Overrun, Queue

\* The release of the ring comes after the final packet.
LEMMA FreeReleases ==
  ASSUME IInv, FreeReport, ~overrun
  PROVE  Channel!Release
  <1>1. got = FinalPacket
    <2>1. rstate \in {"done", "signaldone", "finished"}
      BY DEF FreeReport, IInv, Handshake
    <2>2. QED
      BY <2>1 DEF IInv, Handshake
  <1>2. UNCHANGED <<data, producer, consumer, enq, got, overrun>>
    BY DEF FreeReport
  <1>3. UNCHANGED Queue
    BY <1>2 DEF Queue, Depth, SlotAfter
  <1>4. (tstate = "freed")' = TRUE
    BY DEF FreeReport
  <1>5. QED
    BY <1>1, <1>2, <1>3, <1>4 DEF Channel!Release, Channel!FinalPacket, FinalPacket, Queue

\* The other steps leave the channel as it is.
LEMMA OthersStutter ==
  ASSUME IInv, IInv', ~overrun, ~overrun',
         Next \/ UNCHANGED vars,
         ~EnqueuePublish, ~DequeueAdvance, ~FreeReport
  PROVE  UNCHANGED Channel!cvars
  <1>1. UNCHANGED <<enq, got, overrun>>
    BY DEF Next, Traffic, Reporter, EnqueueCheck, EnqueueWait, EnqueueCopy,
       EndJob, EndJobAwait, EndJobWait, ProducerTimeout, DequeueCheck,
       DequeueSignal, ProcessPacket, ConsumerDone, SignalDone, vars, IInv, TypeOK
  <1>2. (tstate = "freed")' = (tstate = "freed")
    BY DEF Next, Traffic, Reporter, EnqueueCheck, EnqueueWait, EnqueueCopy,
       EndJob, EndJobAwait, EndJobWait, ProducerTimeout, DequeueCheck,
       DequeueSignal, ProcessPacket, ConsumerDone, SignalDone, vars, Woken
  <1>3. Queue' = Queue
    <2>1. Queue = [i \in 1 .. enq - got |-> got + i] /\ Queue' = [i \in 1 .. enq' - got' |-> got' + i]
      BY QueueInOrder, QueueInOrderNext DEF InOrder
    <2>2. QED
      BY <1>1, <2>1
  <1>4. QED
    BY <1>1, <1>2, <1>3 DEF Channel!cvars, Queue

\* The ring implements the bounded channel, whatever the sizes: an index that
\* is published puts, one that is taken gets, the end of the traffic thread
\* releases, and until an overrun nothing else is seen of the ring.
THEOREM RingIsChannel == Spec => ImplementsChannel
  <1>1. Init => Channel!Init
    <2> SUFFICES ASSUME Init PROVE Channel!Init
      OBVIOUS
    <2>1. Depth = 0
      BY DEF Init, Depth
    <2>2. Queue = <<>>
      BY <2>1 DEF Queue
    <2>3. (tstate = "freed") = FALSE
      BY DEF Init
    <2>4. QED
      BY <2>2, <2>3 DEF Init, Channel!Init, Queue
  <1>2. IInv /\ IInv' /\ [Next]_vars => [Channel!Next]_Channel!cvars
    <2> SUFFICES ASSUME IInv, IInv', [Next]_vars
                 PROVE  Channel!Next \/ UNCHANGED Channel!cvars
      OBVIOUS
    <2>1. CASE overrun
      <3>1. overrun'
        BY <2>1 DEF Next, Traffic, Reporter, EnqueueCheck, EnqueueWait,
           EnqueueCopy, EnqueuePublish, EndJob, EndJobAwait, EndJobWait,
           ProducerTimeout, FreeReport, DequeueCheck, DequeueAdvance,
           DequeueSignal, ProcessPacket, ConsumerDone, SignalDone, vars
      <3>2. QED
        BY <2>1, <3>1 DEF Channel!Next
    <2>2. CASE ~overrun
      <3>1. CASE overrun'
        <4>1. EnqueueCopy
          BY <2>2, <3>1 DEF Next, Traffic, Reporter, EnqueueCheck, EnqueueWait,
             EnqueuePublish, EndJob, EndJobAwait, EndJobWait, ProducerTimeout,
             FreeReport, DequeueCheck, DequeueAdvance, DequeueSignal,
             ProcessPacket, ConsumerDone, SignalDone, vars
        <4>2. QED
          BY <2>2, <3>1, <4>1, CopyOverruns DEF Channel!Next
      <3>2. CASE ~overrun'
        <4>1. CASE EnqueuePublish
          BY <2>2, <4>1, PublishPuts DEF Channel!Next
        <4>2. CASE DequeueAdvance
          BY <2>2, <4>2, AdvanceGets DEF Channel!Next
        <4>3. CASE FreeReport
          BY <2>2, <4>3, FreeReleases DEF Channel!Next
        <4>4. QED
          BY <2>2, <3>2, <4>1, <4>2, <4>3, OthersStutter
      <3>3. QED
        BY <3>1, <3>2
    <2>3. QED
      BY <2>1, <2>2
  <1>3. QED
    BY Invariance, <1>1, <1>2, PTL DEF Spec, ImplementsChannel, Channel!Spec
=============================================================================
