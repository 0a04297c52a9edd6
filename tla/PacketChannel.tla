---------------------------- MODULE PacketChannel ----------------------------
(***************************************************************************)
(* What the packet ring between a traffic thread and the reporter thread   *)
(* promises: a bounded first-in first-out channel that carries the packets *)
(* 1..NPackets and then the final one, and that lets the traffic thread    *)
(* dispose of the ring only once the reporter took the final packet.       *)
(*                                                                         *)
(* The promise ends at the first overrun, a write that lands on the        *)
(* reader's slot of a full channel: after it the channel is unconstrained. *)
(***************************************************************************)
EXTENDS Naturals, Sequences

CONSTANTS Capacity,   \* packets that fit between writer and reader
          NPackets    \* packets before the final one

VARIABLES queue,      \* the packets written and not yet read, oldest first
          sent,       \* the number of packets written
          received,   \* the packet last handed to the reader, 0 for none
          released,   \* the writer has disposed of the channel
          overrun     \* a write has landed on the reader's slot

cvars == <<queue, sent, received, released, overrun>>

FinalPacket == NPackets + 1

Init ==
  /\ queue = <<>>
  /\ sent = 0
  /\ received = 0
  /\ released = FALSE
  /\ overrun = FALSE

Put ==
  /\ sent < FinalPacket
  /\ Len(queue) < Capacity
  /\ queue' = Append(queue, sent + 1)
  /\ sent' = sent + 1
  /\ UNCHANGED <<received, released, overrun>>

Get ==
  /\ queue # <<>>
  /\ received' = Head(queue)
  /\ queue' = Tail(queue)
  /\ UNCHANGED <<sent, released, overrun>>

Release ==
  /\ received = FinalPacket
  /\ released' = TRUE
  /\ UNCHANGED <<queue, sent, received, overrun>>

\* The channel is full and the writer does not notice.
Overrun ==
  /\ Len(queue) = Capacity
  /\ overrun' = TRUE

Next ==
  \/ ~overrun /\ (Put \/ Get \/ Release \/ Overrun)
  \/ overrun /\ overrun'

Spec == Init /\ [][Next]_cvars
=============================================================================
