----------------------------- MODULE PacketRing -----------------------------
(***************************************************************************)
(* The circular buffer of iperf2 (packet_ring.c) between one traffic       *)
(* thread, its producer, and the reporter thread, its consumer, together   *)
(* with the end-of-traffic handshake (EndJob and reporter_process_report   *)
(* in Reporter.c).                                                         *)
(*                                                                         *)
(* The indices are plain ints read and written without a lock, so every    *)
(* access to an index of the other thread is a step of its own, and the    *)
(* memcpy of a packet is a step apart from the publication of its index.   *)
(* Packets are the numbers 1..NPackets in the order they are reported; the *)
(* packet with packetID -1 that EndJob pushes is FinalPacket.              *)
(*                                                                         *)
(* The reporter never waits for a ring: it polls it once per pass over its *)
(* job queue, so the signal that packetring_enqueue sends to awake_consumer*)
(* has no receiver here.  The traffic thread waits on awake_producer, with *)
(* a timeout of a second, in two places.                                   *)
(***************************************************************************)
EXTENDS Naturals, Sequences

CONSTANTS MaxCount,   \* pr->maxcount, the slots of the ring
          NPackets    \* packets the traffic thread reports before EndJob

ASSUME MaxCountAssumption == MaxCount \in Nat \ {0}
ASSUME NPacketsAssumption == NPackets \in Nat

VARIABLES data,          \* pr->data, 0 for a slot never written
          producer,      \* pr->producer, the slot written last
          consumer,      \* pr->consumer, the slot read last
          consumerdone,  \* pr->consumerdone
          enq,           \* packets published by the traffic thread
          got,           \* the packet the reporter dequeued last, 0 for none
          tstate,        \* where the traffic thread is
          rstate,        \* where the reporter thread is
          overrun        \* history: a memcpy has hit the reader's slot

vars == <<data, producer, consumer, consumerdone, enq, got, tstate, rstate,
          overrun>>

Slots == 0 .. MaxCount - 1
FinalPacket == NPackets + 1

(***************************************************************************)
(* Where the two threads can be.  "full" and "lag" are the two timed waits *)
(* on awake_producer; "stall" and "doze" are the steps just before them,   *)
(* when a signal is lost because nobody waits yet.                         *)
(***************************************************************************)
TrafficStates == {"check", "stall", "full", "copy", "publish", "endjob",
                  "await", "doze", "lag", "free", "freed"}
ReporterStates == {"dequeue", "advance", "signal", "process", "done",
                   "signaldone", "finished"}

Init ==
  /\ data = [s \in Slots |-> 0]
  /\ producer = 0
  /\ consumer = 0
  /\ consumerdone = FALSE
  /\ enq = 0
  /\ got = 0
  /\ tstate = IF NPackets = 0 THEN "endjob" ELSE "check"
  /\ rstate = "dequeue"
  /\ overrun = FALSE

-----------------------------------------------------------------------------
(* The traffic thread: ReportPacket, packetring_enqueue, EndJob.           *)

\* An int increment that wraps at the size of the ring.
NextSlot(s) == IF s + 1 = MaxCount THEN 0 ELSE s + 1

WriteIndex == NextSlot(producer)

\* The condition of the while loop of packetring_enqueue.
RingFull ==
  \/ producer = MaxCount /\ consumer = 0
  \/ producer + 1 = consumer

EnqueueCheck ==
  /\ tstate = "check"
  /\ tstate' = IF RingFull THEN "stall" ELSE "copy"
  /\ UNCHANGED <<data, producer, consumer, consumerdone, enq, got, rstate,
                 overrun>>

\* Condition_TimedWait on awake_producer.
EnqueueWait ==
  /\ tstate = "stall"
  /\ tstate' = "full"
  /\ UNCHANGED <<data, producer, consumer, consumerdone, enq, got, rstate,
                 overrun>>

EnqueueCopy ==
  /\ tstate = "copy"
  /\ data' = [data EXCEPT ![WriteIndex] = enq + 1]
  /\ overrun' = (overrun \/ WriteIndex = consumer)
  /\ tstate' = "publish"
  /\ UNCHANGED <<producer, consumer, consumerdone, enq, got, rstate>>

\* Mutant: the index is published one slot beyond the copied packet.
EnqueuePublishAhead ==
  /\ tstate = "publish"
  /\ producer' = NextSlot(WriteIndex)
  /\ enq' = enq + 1
  /\ tstate' = IF enq' = FinalPacket THEN "await"
               ELSE IF enq' = NPackets THEN "endjob" ELSE "check"
  /\ UNCHANGED <<data, consumer, consumerdone, got, rstate, overrun>>

EnqueuePublish ==
  /\ tstate = "publish"
  /\ producer' = WriteIndex
  /\ enq' = enq + 1
  /\ tstate' = IF enq' = FinalPacket THEN "await"
               ELSE IF enq' = NPackets THEN "endjob" ELSE "check"
  /\ UNCHANGED <<data, consumer, consumerdone, got, rstate, overrun>>

\* EndJob clears the done predicate and then enqueues the final packet.
EndJob ==
  /\ tstate = "endjob"
  /\ consumerdone' = FALSE
  /\ tstate' = "check"
  /\ UNCHANGED <<data, producer, consumer, enq, got, rstate, overrun>>

\* Mutant: the traffic thread leaves after one wait, done or not.
EndJobAwaitOnce ==
  /\ tstate = "await"
  /\ tstate' \in {"free", "doze"}
  /\ UNCHANGED <<data, producer, consumer, consumerdone, enq, got, rstate,
                 overrun>>

EndJobAwait ==
  /\ tstate = "await"
  /\ tstate' = IF consumerdone THEN "free" ELSE "doze"
  /\ UNCHANGED <<data, producer, consumer, consumerdone, enq, got, rstate,
                 overrun>>

EndJobWait ==
  /\ tstate = "doze"
  /\ tstate' = "lag"
  /\ UNCHANGED <<data, producer, consumer, consumerdone, enq, got, rstate,
                 overrun>>

\* Where the traffic thread resumes when a timed wait ends.
Woken(t) ==
  CASE t = "full" -> "check"
    [] t = "lag"  -> "await"
    [] OTHER      -> t

\* Mutant: the waits have no timeout.
NoTimeout == FALSE /\ UNCHANGED vars

\* The timed wait expires.
ProducerTimeout ==
  /\ tstate \in {"full", "lag"}
  /\ tstate' = Woken(tstate)
  /\ UNCHANGED <<data, producer, consumer, consumerdone, enq, got, rstate,
                 overrun>>

\* Back from EndJob the traffic thread frees the report and its ring.
FreeReport ==
  /\ tstate = "free"
  /\ tstate' = "freed"
  /\ UNCHANGED <<data, producer, consumer, consumerdone, enq, got, rstate,
                 overrun>>

Traffic ==
  \/ EnqueueCheck \/ EnqueueWait \/ EnqueueCopy \/ EnqueuePublish
  \/ EndJob \/ EndJobAwait \/ EndJobWait \/ ProducerTimeout \/ FreeReport
-----------------------------------------------------------------------------
(* The reporter thread: packetring_dequeue in                              *)
(* reporter_process_transfer_report, reporter_process_report.              *)

\* Mutant: a packet is taken from an empty ring.
DequeueUnchecked ==
  /\ rstate = "dequeue"
  /\ rstate' = "advance"
  /\ UNCHANGED <<data, producer, consumer, consumerdone, enq, got, tstate,
                 overrun>>

\* An empty ring makes packetring_dequeue return NULL; the reporter comes
\* back to the ring in a later pass over its job queue.
DequeueCheck ==
  /\ rstate = "dequeue"
  /\ producer # consumer
  /\ rstate' = "advance"
  /\ UNCHANGED <<data, producer, consumer, consumerdone, enq, got, tstate,
                 overrun>>

ReadIndex == NextSlot(consumer)

DequeueAdvance ==
  /\ rstate = "advance"
  /\ consumer' = ReadIndex
  /\ got' = data[ReadIndex]
  /\ rstate' = "signal"
  /\ UNCHANGED <<data, producer, consumerdone, enq, tstate, overrun>>

\* The traffic thread is signalled only when the ring is empty again.
DequeueSignal ==
  /\ rstate = "signal"
  /\ tstate' = IF producer = consumer THEN Woken(tstate) ELSE tstate
  /\ rstate' = "process"
  /\ UNCHANGED <<data, producer, consumer, consumerdone, enq, got, overrun>>

\* The accounting reads the packet in place, from the slot of the ring.
ProcessPacket ==
  /\ rstate = "process"
  /\ rstate' = IF data[consumer] = FinalPacket THEN "done" ELSE "dequeue"
  /\ UNCHANGED <<data, producer, consumer, consumerdone, enq, got, tstate,
                 overrun>>

ConsumerDone ==
  /\ rstate = "done"
  /\ consumerdone' = TRUE
  /\ rstate' = "signaldone"
  /\ UNCHANGED <<data, producer, consumer, enq, got, tstate, overrun>>

SignalDone ==
  /\ rstate = "signaldone"
  /\ tstate' = Woken(tstate)
  /\ rstate' = "finished"
  /\ UNCHANGED <<data, producer, consumer, consumerdone, enq, got, overrun>>

Reporter ==
  \/ DequeueCheck \/ DequeueAdvance \/ DequeueSignal \/ ProcessPacket
  \/ ConsumerDone \/ SignalDone

Next == Traffic \/ Reporter

Spec == Init /\ [][Next]_vars

\* Both threads keep being scheduled.  A timed wait ends by itself, so the
\* expiry of the timeout is a step of the traffic thread like the others.
Fairness == WF_vars(Traffic) /\ WF_vars(Reporter)

FairSpec == Spec /\ Fairness
-----------------------------------------------------------------------------
\* packetring_getcount: the slots after consumer up to producer.
Depth == IF producer >= consumer THEN producer - consumer
         ELSE (MaxCount - consumer) + producer

\* The i-th slot after s.
SlotAfter(s, i) == IF s + i < MaxCount THEN s + i ELSE s + i - MaxCount

\* The types of the variables.
TypeOK ==
  /\ data \in [Slots -> 0 .. FinalPacket]
  /\ producer \in Slots
  /\ consumer \in Slots
  /\ consumerdone \in BOOLEAN
  /\ enq \in 0 .. FinalPacket
  /\ got \in 0 .. FinalPacket
  /\ tstate \in TrafficStates
  /\ rstate \in ReporterStates
  /\ overrun \in BOOLEAN

\* The ring holds exactly the packets published after the one the reporter
\* took last, oldest first: none lost, none repeated, none out of order.
Fifo ==
  ~overrun =>
    /\ got + Depth = enq
    /\ \A i \in 1 .. Depth : data[SlotAfter(consumer, i)] = got + i

\* The slot the reporter reads in place is not written under it.
ReaderSlotStable ==
  ~overrun /\ rstate \in {"signal", "process"} => data[consumer] = got

\* Neither the order of the packets nor the one that is being read is disturbed
\* by the traffic thread, as long as the ring has not been overrun.
Undisturbed == Fifo /\ ReaderSlotStable

\* EndJob returns, and the ring is freed, only when the reporter has
\* processed every packet up to the final one.
DoneMeansDelivered ==
  ~overrun /\ tstate \in {"free", "freed"} =>
    /\ got = FinalPacket
    /\ rstate \in {"signaldone", "finished"}

\* A packet is written over the reader's slot only at the wrap of the write
\* index with the reader at slot 0: at every other position of the reader
\* packetring_enqueue recognises a full ring.
OverrunOnlyAtWrap ==
  [][overrun' # overrun => producer = MaxCount - 1 /\ consumer = 0]_vars

\* A traffic thread that ends leaves EndJob, unless the ring was overrun.
EndJobReturns == [](~overrun) => <>(tstate = "freed")

\* The ring implements the bounded channel, up to an overrun.
Channel == INSTANCE PacketChannel WITH
  Capacity <- MaxCount - 1,
  queue    <- [i \in 1 .. Depth |-> data[SlotAfter(consumer, i)]],
  sent     <- enq,
  received <- got,
  released <- tstate = "freed"

ImplementsChannel == Channel!Spec
=============================================================================
