----------------------------- MODULE UdpReports -----------------------------
(***************************************************************************)
(* What the reporter of iperf2 makes of the packets that a UDP client and  *)
(* a UDP server post to it (Reporter.c).  Packets come to it in the order  *)
(* in which they were posted, which PacketRing is about.                   *)
(*                                                                         *)
(* A packet of a client is [id, bytes, empty, err, frame, ready], one of a *)
(* server [id, bytes, frame, ready].  Jitter, latency and gaps are         *)
(* measurements and left out.                                              *)
(***************************************************************************)
EXTENDS Integers

Nothing == [PacketID |-> 0, Datagrams |-> 0, Bytes |-> 0, Lost |-> 0, OutofOrder |-> 0,
            frameID |-> 0, frames |-> 0, framelost |-> 0]

NotBelow(n, m) == IF n < m THEN m ELSE n

\* A frame is counted with the write that completes it.
FrameWritten(s, p) ==
    IF p.frame = 0 \/ ~p.ready \/ p.frame = s.frameID THEN s
    ELSE [s EXCEPT !.frames = (IF s.frameID = 0 THEN p.frame ELSE @) + 1,
                   !.framelost = @ + p.frame - s.frameID - 1,
                   !.frameID = p.frame]

\* What a client has posted: a write, or none for an error that passes.
ClientPacket(s, p) ==
    LET framed == IF p.err = "ok" THEN FrameWritten(s, p) ELSE s
    IN  [framed EXCEPT !.PacketID = p.id,
                       !.Bytes = @ + (IF p.err = "ok" THEN p.bytes ELSE 0),
                       !.Datagrams = @ + (IF p.empty THEN 0 ELSE 1)]

\* A frame is counted with the datagram that completes it: once more for the
\* first, and when frames are missing, all of them and itself as lost.
FrameRead(s, p) ==
    IF p.frame = 0 \/ ~p.ready THEN s
    ELSE [s EXCEPT !.frames = (IF s.frameID = 0 THEN 1 ELSE @) + 1,
                   !.framelost = @ + (IF p.frame - s.frameID > 1 THEN p.frame - s.frameID ELSE 0),
                   !.frameID = p.frame]

\* Mutant: a late datagram moves the highest number back.
ServerPacketBackward(s, p) ==
    LET framed == FrameRead(s, p)
    IN  [framed EXCEPT !.OutofOrder = @ + (IF p.id <= s.PacketID THEN 1 ELSE 0),
                       !.Lost = @ + NotBelow(p.id - s.PacketID - 1, 0),
                       !.PacketID = p.id,
                       !.Bytes = @ + p.bytes,
                       !.Datagrams = @ + 1]

\* A datagram that is not above the highest number is out of order, if it is a
\* duplicate too; what is skipped is lost.
ServerPacket(s, p) ==
    LET framed == FrameRead(s, p)
    IN  [framed EXCEPT !.OutofOrder = @ + (IF p.id <= s.PacketID THEN 1 ELSE 0),
                       !.Lost = @ + NotBelow(p.id - s.PacketID - 1, 0),
                       !.PacketID = NotBelow(p.id, s.PacketID),
                       !.Bytes = @ + p.bytes,
                       !.Datagrams = @ + 1]

\* The report of an interval that begins with b and ends with s.  What came out
\* of order is taken off the losses, whichever interval they were counted in.
Report(b, s) ==
    [datagrams |-> s.PacketID - b.PacketID,
     bytes     |-> s.Bytes - b.Bytes,
     error     |-> NotBelow((s.Lost - b.Lost) - (s.OutofOrder - b.OutofOrder), 0)]

\* The final one covers the whole test.
FinalReport(s) == Report(Nothing, s)

\* Those of a client: the datagrams of an interval are the ones it has written,
\* the final report has the last number for them.
ClientReport(b, s) == [datagrams |-> s.Datagrams - b.Datagrams, bytes |-> s.Bytes - b.Bytes]
ClientFinalReport(s) == [datagrams |-> s.PacketID, bytes |-> s.Bytes]
=============================================================================
