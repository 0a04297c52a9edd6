----------------------------- MODULE UdpTraffic -----------------------------
(***************************************************************************)
(* One UDP test of iperf2 with its traffic: the send loops of Client.cpp,  *)
(* the receive loop of Server.cpp, and what the two reporters make of it,  *)
(* over a network that loses, duplicates and reorders datagrams.           *)
(*                                                                         *)
(* "client" is the end that sends, of a reverse test too.  A datagram is   *)
(* its number, negative at the end of the traffic, its length, the fields  *)
(* of a frame, and for L4S the sequence number and the ECN bits.  Fields   *)
(* that a loop does not write keep what was in the buffer before.          *)
(***************************************************************************)
EXTENDS UdpReports, Histograms, FrameCounters, Sequences, FiniteSets

CONSTANTS BufLen,        \* mBufLen
          Header,        \* length of the test header and of an empty datagram
          RetryCount,    \* RETRYCOUNT, 200
          MaxNet,        \* bound on the datagrams under way, which is how late one can be
          MaxIntervals   \* bound on the interval reports of the server

ASSUME UdpTrafficAssumption ==
    /\ BufLen \in Nat /\ Header \in 1 .. BufLen
    /\ RetryCount \in Nat /\ MaxNet \in Nat \ {0} /\ MaxIntervals \in Nat

VARIABLES test,         \* loop, flags, sizes of bursts, amount; bounds: faults and how many, most
          pc,           \* where each end is
          late,         \* the ends whose packetTime is past the end time
          interrupted,  \* the ends with sInterupted
          tx,           \* the client's loop: packetID, mAmount, what is left of the burst,
                        \* the buffer's frame, and the reportstruct's stale fields
          sent,         \* what the client's reporter has counted
          reported,     \* ... when its interval began; history: the sums of its interval reports
          tries,        \* count of AwaitServerFinPacket
          net,          \* datagrams on their way
          faults,       \* faults that may yet come
          stats,        \* what the server's reporter has counted
          prev,         \* ... when the interval began
          sums,         \* history: the sum of the server's interval reports
          transits,     \* latency_histogram, its prev; history: how much its prints have listed
          written,      \* history: the numbers of the data written, in order
          counted,      \* history: the numbers that the server has counted
          opener,       \* history: the one that the listener has read
          twice         \* history: a datagram was read twice

Ends == {"client", "server"}
clients == <<tx, sent, reported, tries, written>>
servers == <<stats, prev, sums, transits, counted, opener, twice>>
udpvars == <<test, pc, late, interrupted, clients, net, faults, servers>>

Is(f) == f \in test.flags
At(e, l) == pc[e] = l
Goto(e, l) == pc' = [pc EXCEPT ![e] = l]
Least(n, m) == IF n < m THEN n ELSE m

\* The end that sends first writes a datagram with the test header.
First == IF Is("Reverse") THEN Is("TripTime") ELSE ~Is("Compat")
Minimum == IF First THEN Header ELSE 1

HasEnd(e) == IF e = "client" THEN Is("ModeTime")
             ELSE Is("ServerModeTime") \/ (Is("ModeTime") /\ Is("Reverse"))

\* packetTime is set to the clock.  The receiver of a reverse test waits
\* SLOPSECS longer.  Bound: the client writes the number test.most when its end
\* time is past.
Clock(e) ==
    late' \in {late \cup x : x \in
        IF ~HasEnd(e) \/ (e = "server" /\ Is("Reverse") /\ "client" \notin late) THEN {{}}
        ELSE IF e = "client" /\ tx.id >= test.most THEN {{e}} ELSE {{}, {e}}}

\* A signal of the user, and the timer of a server with an end time.
Interrupt(e) ==
    /\ e \notin interrupted
    /\ \/ Is("Interrupted")
       \/ e = "server" /\ HasEnd(e) /\ (Is("Reverse") => ~At("client", "loop"))
    /\ interrupted' = interrupted \cup {e}
    /\ UNCHANGED <<test, pc, late, clients, net, faults, servers>>
-----------------------------------------------------------------------------
(* The client.                                                             *)

Fault(f) == f \in test.faults /\ faults > 0 /\ faults' = faults - 1

\* A datagram is lost on its way, or comes to the server in its time.  Bound:
\* no more than MaxNet are on their way at once; nobody reads after the server.
Send(d) ==
    \/ ~At("server", "done") /\ Cardinality(net) < MaxNet /\ net' = net \cup {d} /\ UNCHANGED faults
    \/ At("server", "done") /\ UNCHANGED <<net, faults>>
    \/ Fault("Lose") /\ UNCHANGED net

Datagram(id, bytes) ==
    [id |-> id, bytes |-> bytes, frame |-> tx.frame, before |-> tx.before,
     remaining |-> tx.remaining, seq |-> tx.seq, ecn |-> "ect"]
Post(p) == sent' = ClientPacket(sent, p)
Packet(id, bytes, err) ==
    [id |-> id, bytes |-> bytes, empty |-> err # "ok", err |-> err, frame |-> tx.frame, ready |-> tx.ready]

InProgress == {"client"} \cap (interrupted \cup late) = {} /\ (Is("ModeTime") \/ tx.amount > 0)
Deduct(n) == IF Is("ModeTime") THEN tx.amount ELSE NotBelow(tx.amount - n, 0)

\* The first payload does not wait, and is reported only when it was sent.
StartSynch ==
    /\ At("client", "synch") /\ Goto("client", "loop")
    /\ \/ /\ First /\ Send(Datagram(tx.id, BufLen))
          /\ Post(Packet(tx.id, BufLen, "ok"))
          /\ tx' = [tx EXCEPT !.id = @ + 1, !.amount = IF Is("ModeTime") THEN @ ELSE @ - BufLen]
          /\ written' = Append(written, tx.id)
       \/ First /\ Fault("again") /\ UNCHANGED <<tx, sent, net, written>>
       \/ ~First /\ UNCHANGED <<tx, sent, net, faults, written>>
    /\ UNCHANGED <<test, late, interrupted, reported, tries, servers>>

\* A write fails with an errno that is fatal or is not.
Fails(err) == err \in {"again", "fatal"} /\ Fault(err) /\ UNCHANGED <<net, written>>

LoopEnds == ~InProgress /\ Goto("client", "finish") /\ UNCHANGED <<tx, sent, net, faults, late, written>>

\* RunUDP: an error is reported without a number of its own, a fatal one ends
\* the loop and is not reported.
UdpWrite ==
    /\ InProgress /\ Clock("client")
    /\ LET n == IF Is("ModeTime") THEN BufLen ELSE Least(tx.amount, BufLen)
       IN  \/ /\ Send(Datagram(tx.id, n)) /\ Post(Packet(tx.id, n, "ok"))
              /\ tx' = [tx EXCEPT !.id = @ + 1, !.amount = Deduct(n), !.err = "ok"]
              /\ written' = Append(written, tx.id) /\ UNCHANGED pc
           \/ /\ Fails("again") /\ Post(Packet(tx.id, 0, "again"))
              /\ tx' = [tx EXCEPT !.err = "again"] /\ UNCHANGED pc
           \/ /\ Fails("fatal") /\ Goto("client", "finish")
              /\ tx' = [tx EXCEPT !.err = "fatal"] /\ UNCHANGED sent

RunUDP == UdpWrite \/ LoopEnds

\* RunUDPIsochronous: a frame at every tick.  Bound: the loop comes back to the
\* wait no later than one period after the next slot.
IsochTick ==
    /\ InProgress /\ tx.left <= 0 /\ ~tx.fatal
    /\ \E size \in test.sizes, now \in SlotTime(tx.frame) .. SlotTime(tx.frame + 1) + Period :
         LET frame == WaitTick(tx.frame, now)
         IN  /\ IF frame > tx.frame + 1 THEN Fault("Slip") ELSE UNCHANGED faults
             /\ tx' = [tx EXCEPT !.left = NotBelow(size, Minimum), !.before = tx.frame, !.frame = frame]
    /\ UNCHANGED <<pc, late, sent, net, written>>

\* Mutant: a failed write has used its number.
IsochWriteCounted ==
    LET n == IF ~Is("ModeTime") /\ tx.amount < BufLen THEN tx.amount ELSE Least(tx.left, BufLen)
        remaining == IF ~Is("ModeTime") /\ tx.amount < BufLen THEN tx.amount ELSE tx.left
        left == tx.left - n
    IN  /\ InProgress /\ tx.left > 0 /\ Clock("client") /\ UNCHANGED pc
        /\ \/ /\ Send([Datagram(tx.id, n) EXCEPT !.remaining = remaining])
              /\ Post([Packet(tx.id, n, "ok") EXCEPT !.ready = left = 0])
              /\ tx' = [tx EXCEPT !.id = @ + 1, !.amount = Deduct(n), !.err = "ok", !.ready = left = 0,
                                  !.left = IF left > 0 THEN NotBelow(left, Minimum) ELSE left,
                                  !.remaining = remaining]
              /\ written' = Append(written, tx.id)
           \/ \E err \in {"again", "fatal"} :
                /\ Fails(err) /\ Post(Packet(tx.id, 0, err))
                /\ tx' = [tx EXCEPT !.id = @ + 1, !.err = err, !.fatal = @ \/ err = "fatal", !.remaining = remaining]

\* ... what is left of a frame is not shorter than the header, and a failed
\* write is reported with the number before, which the next one follows.
\* After a fatal one the frame is tried to its end.
IsochWrite ==
    LET n == IF ~Is("ModeTime") /\ tx.amount < BufLen THEN tx.amount ELSE Least(tx.left, BufLen)
        remaining == IF ~Is("ModeTime") /\ tx.amount < BufLen THEN tx.amount ELSE tx.left
        left == tx.left - n
    IN  /\ InProgress /\ tx.left > 0 /\ Clock("client") /\ UNCHANGED pc
        /\ \/ /\ Send([Datagram(tx.id, n) EXCEPT !.remaining = remaining])
              /\ Post([Packet(tx.id, n, "ok") EXCEPT !.ready = left = 0])
              /\ tx' = [tx EXCEPT !.id = @ + 1, !.amount = Deduct(n), !.err = "ok", !.ready = left = 0,
                                  !.left = IF left > 0 THEN NotBelow(left, Minimum) ELSE left,
                                  !.remaining = remaining]
              /\ written' = Append(written, tx.id)
           \/ \E err \in {"again", "fatal"} :
                /\ Fails(err) /\ Post(Packet(tx.id - 1, 0, err))
                /\ tx' = [tx EXCEPT !.err = err, !.fatal = @ \/ err = "fatal", !.remaining = remaining]

IsochEnds ==
    /\ ~InProgress \/ (tx.left <= 0 /\ tx.fatal)
    /\ Goto("client", "finish") /\ UNCHANGED <<tx, sent, net, faults, late, written>>

RunUDPIsochronous == IsochTick \/ IsochWrite \/ IsochEnds

\* RunUDPBurst: a burst is written to its end, whatever the time, and the last
\* datagram has at least the numbers and the time.  A fatal error ends the
\* burst.  A write of nothing is a datagram of its own, and an error.
BurstTick ==
    /\ tx.left <= 0 /\ InProgress
    /\ \E size \in test.sizes : tx' = [tx EXCEPT !.left = size]
    /\ UNCHANGED <<pc, late, sent, net, faults, written>>

BurstWrite ==
    /\ tx.left > 0 /\ Clock("client") /\ UNCHANGED pc
    /\ LET n == IF ~Is("ModeTime") THEN Least(tx.amount, BufLen)
                ELSE IF tx.left > BufLen THEN BufLen ELSE NotBelow(tx.left, Header)
       IN  \/ /\ n > 0 /\ Send(Datagram(tx.id, n)) /\ Post(Packet(tx.id, n, "ok"))
              /\ tx' = [tx EXCEPT !.id = @ + 1, !.amount = Deduct(n), !.left = @ - n, !.err = "ok"]
              /\ written' = Append(written, tx.id)
           \/ /\ n = 0 /\ Send(Datagram(tx.id, 0)) /\ Post(Packet(tx.id, 0, "timeo"))
              /\ tx' = [tx EXCEPT !.err = "timeo"] /\ UNCHANGED written
           \/ Fails("again") /\ Post(Packet(tx.id, 0, "again")) /\ tx' = [tx EXCEPT !.err = "again"]
           \/ Fails("fatal") /\ UNCHANGED sent /\ tx' = [tx EXCEPT !.err = "fatal", !.left = 0]

RunUDPBurst == BurstTick \/ BurstWrite \/ (tx.left <= 0 /\ LoopEnds)

\* Mutant: the last datagram is not reported.
FinishUnreported ==
    /\ At("client", "finish")
    /\ Goto("client", IF Is("NoUDPfin") THEN "done" ELSE "await")
    /\ \/ Send(Datagram(-tx.id, BufLen)) /\ UNCHANGED sent
       \/ \E err \in {"again", "fatal"} : Fault(err) /\ UNCHANGED <<sent, net>>
    /\ UNCHANGED <<test, late, interrupted, tx, reported, tries, written, servers>>

\* FinishTrafficActions: the last datagram is reported with the fields of the
\* last write.
Finish ==
    /\ At("client", "finish")
    /\ Goto("client", IF Is("NoUDPfin") THEN "done" ELSE "await")
    /\ \/ Send(Datagram(-tx.id, BufLen)) /\ Post(Packet(tx.id, BufLen, tx.err))
       \/ \E err \in {"again", "fatal"} : Fault(err) /\ UNCHANGED <<sent, net>>
    /\ UNCHANGED <<test, late, interrupted, tx, reported, tries, written, servers>>

\* AwaitServerFinPacket, without what the server answers, which UdpSessions
\* has: anything that can be read ends it.
AwaitServerFinPacket(readable) ==
    /\ At("client", "await")
    /\ \/ /\ tries > 0 /\ tries' = tries - 1
          /\ tx' = [tx EXCEPT !.id = @ + 1]
          /\ \/ Send(Datagram(-(tx.id + 1), BufLen))
             \/ \E err \in {"again", "fatal"} : Fault(err) /\ UNCHANGED net
          /\ UNCHANGED pc
       \/ (tries = 0 \/ readable \/ At("server", "done"))
          /\ Goto("client", "done") /\ UNCHANGED <<tx, tries, net, faults>>
    /\ UNCHANGED <<test, late, interrupted, sent, reported, written, servers>>
-----------------------------------------------------------------------------
(* The server.                                                             *)

\* A datagram is read, and may come once more.
Taken(d) ==
    /\ d \in net
    /\ \/ net' = net \ {d} /\ UNCHANGED <<faults, twice>>
       \/ Fault("Duplicate") /\ twice' = TRUE /\ UNCHANGED net

Number(d) == IF d.id < 0 THEN -d.id ELSE d.id

\* The datagram that ends a frame: all of what remained of it, and the frame
\* after the one before.
EndsFrame(d) == d.remaining = d.bytes /\ d.frame - d.before = 1

\* One that came in order has a transit time, which may be anything: the two
\* clocks need not agree.
Transit(n) ==
    IF ~Is("Histogram") \/ n <= stats.PacketID THEN UNCHANGED transits
    ELSE \E bin \in -1 .. Bins + 1 : transits' = [transits EXCEPT !.latency = Insert(@, bin)]

\* ReadPacketID, and what the reporter counts.
Count(d) ==
    /\ stats' = ServerPacket(stats,
          [id |-> Number(d), bytes |-> d.bytes, frame |-> IF Is("Isochronous") THEN d.frame ELSE 0,
           ready |-> EndsFrame(d)])
    /\ Transit(Number(d))
    /\ counted' = counted \cup {Number(d)}
    /\ UNCHANGED <<prev, sums>>
Uncounted == UNCHANGED <<stats, prev, sums, transits, counted>>

\* udp_accept takes any datagram of a new flow but its end for the first one,
\* which InitTrafficLoop counts.
Listen(d) ==
    /\ At("server", "listen") /\ ~Is("Reverse") /\ Taken(d)
    /\ IF d.id < 0 THEN Uncounted /\ UNCHANGED <<pc, opener>>
       ELSE Goto("server", "read") /\ Count([d EXCEPT !.frame = 0]) /\ opener' = d.id

\* ClientReverseFirstRead takes the first datagram for the header alone; its
\* read has a timeout in an isochronous test.
FirstRead ==
    /\ At("server", "listen") /\ Is("Reverse")
    /\ \/ \E d \in net : Taken(d) /\ Goto("server", IF d.bytes = 0 THEN "done" ELSE "read")
       \/ Is("Isochronous") /\ Goto("server", "read") /\ UNCHANGED <<net, faults, twice>>
    /\ Uncounted

ServerInProgress == {"server"} \cap (interrupted \cup late) = {}

Read(d) ==
    /\ At("server", "read") /\ ServerInProgress /\ Taken(d) /\ Clock("server")
    /\ IF d.bytes = 0 THEN Uncounted ELSE Count(d)
    /\ IF d.bytes = 0 \/ d.id < 0 THEN Goto("server", "done") ELSE UNCHANGED pc

\* A timeout, or with the length check of L2 a frame of another flow that
\* L2_quintuple_filter keeps out: an empty report.
ReadNothing ==
    /\ At("server", "read") /\ ServerInProgress /\ HasEnd("server") /\ Clock("server")
    /\ Uncounted /\ UNCHANGED <<pc, net, faults, twice>>

ServerLoopEnds ==
    /\ At("server", "read") /\ ~ServerInProgress /\ Goto("server", "done")
    /\ Uncounted /\ UNCHANGED <<net, faults, twice, late>>

\* With an interval, the reporter prints one, by the time of the packets, and
\* the histogram with it.
IntervalReport ==
    LET r == Report(prev, stats)
        lines == PrintOut(transits.latency, transits.prev, FALSE)
    IN  /\ At("server", "read") /\ Is("Interval") /\ stats # prev /\ sums.count < MaxIntervals
        /\ sums' = [count |-> sums.count + 1, datagrams |-> sums.datagrams + r.datagrams,
                    bytes |-> sums.bytes + r.bytes, error |-> sums.error + r.error]
        /\ prev' = stats
        /\ transits' = IF Is("Histogram")
                         THEN [transits EXCEPT !.prev = lines.prev, !.listed = @ + Listed(lines.shown)]
                         ELSE transits
        /\ UNCHANGED <<test, pc, late, interrupted, clients, net, faults, stats, counted, opener, twice>>

ClientIntervalReport ==
    LET r == ClientReport(reported.prev, sent)
    IN  /\ pc["client"] \in {"loop", "finish"} /\ Is("ClientInterval")
        /\ sent # reported.prev /\ reported.count < MaxIntervals
        /\ reported' = [prev |-> sent, count |-> reported.count + 1,
                        datagrams |-> reported.datagrams + r.datagrams, bytes |-> reported.bytes + r.bytes]
        /\ UNCHANGED <<test, pc, late, interrupted, tx, sent, tries, written, net, faults, servers>>
=============================================================================
