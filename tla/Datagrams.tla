------------------------------ MODULE Datagrams ------------------------------
(***************************************************************************)
(* UDP tests of iperf2 with their traffic, from the first payload to the   *)
(* end of both sides, for each of the send loops.                          *)
(***************************************************************************)
EXTENDS L4sTraffic

CONSTANTS Tests  \* the tests

\* What the model needs of a test: bursts of an amount come out even, with no
\* write that fails, and it is not less than the first payload; L4S has an end
\* time and is not reversed.
ASSUME TestsAssumption ==
    \A t \in Tests :
        /\ t.loop = "burst" /\ "ModeTime" \notin t.flags
              => /\ {"again", "fatal"} \cap t.faults = {}
                 /\ Cardinality(t.sizes) = 1 /\ \A size \in t.sizes : (t.amount - BufLen) % size = 0
        /\ t.loop = "l4s" => "ModeTime" \in t.flags /\ {"Reverse", "Compat"} \cap t.flags = {}
        /\ t.loop = "isoch" <=> "Isochronous" \in t.flags
        /\ t.amount \in Nat /\ t.amount >= BufLen
        /\ t.budget \in Nat /\ t.most \in Nat /\ t.sizes \subseteq Nat

vars == <<udpvars, l4svars>>

Init ==
    /\ test \in Tests
    /\ pc = [client |-> "synch",
             server |-> IF Is("Reverse") /\ {"TripTime", "Isochronous"} \cap test.flags = {}
                          THEN "read" ELSE "listen"]
    /\ late = {} /\ interrupted = {}
    /\ tx = [id |-> 1, amount |-> test.amount, left |-> 0, frame |-> 0, before |-> 0, remaining |-> 0,
             seq |-> 0, ready |-> FALSE, err |-> "ok", fatal |-> FALSE]
    /\ sent = Nothing /\ tries = RetryCount /\ net = {} /\ faults = test.budget
    /\ stats = Nothing /\ prev = Nothing
    /\ sums = [count |-> 0, datagrams |-> 0, bytes |-> 0, error |-> 0]
    /\ reported = [prev |-> Nothing, count |-> 0, datagrams |-> 0, bytes |-> 0]
    /\ transits = [latency |-> Empty, prev |-> Empty, listed |-> 0]
    /\ written = <<>> /\ counted = {} /\ opener = 0 /\ twice = FALSE
    /\ L4sInit

Loop ==
    /\ At("client", "loop")
    /\ \/ /\ UNCHANGED l4svars
          /\ \/ test.loop = "udp" /\ RunUDP
             \/ test.loop = "isoch" /\ RunUDPIsochronous
             \/ test.loop = "burst" /\ RunUDPBurst
       \/ test.loop = "l4s" /\ RunUDPL4S
    /\ UNCHANGED <<test, interrupted, reported, tries, servers>>

Client ==
    \/ Loop
    \/ (StartSynch \/ Finish) /\ UNCHANGED l4svars
    \/ AwaitServerFinPacket(FALSE) /\ UNCHANGED l4svars
    \/ \E a \in acks : AwaitServerFinPacket(TRUE) /\ acks' = acks \ {a} /\ UNCHANGED <<cc, rx, flight, clock, mishap>>

Server ==
    /\ \/ (\E d \in net : Listen(d)) /\ UNCHANGED <<late, l4svars>>
       \/ /\ UNCHANGED opener
          /\ \/ FirstRead /\ UNCHANGED <<late, l4svars>>
             \/ \E d \in net : Read(d) /\ IF test.loop = "l4s" THEN Echo(d) ELSE UNCHANGED l4svars
             \/ (ReadNothing \/ ServerLoopEnds) /\ UNCHANGED l4svars
    /\ UNCHANGED <<test, interrupted, clients>>

Next ==
    \/ Client \/ Server
    \/ (IntervalReport \/ ClientIntervalReport \/ \E e \in Ends : Interrupt(e)) /\ UNCHANGED l4svars

Spec == Init /\ [][Next]_vars

\* The threads run, and the timer of a server with an end time expires.
FairSpec ==
    /\ Spec
    /\ WF_vars(Client) /\ WF_vars(Server)
    /\ WF_vars(HasEnd("server") /\ Interrupt("server") /\ UNCHANGED l4svars)
-----------------------------------------------------------------------------
\* The numbers are dense: what is handed to the network is numbered 1, 2, 3...
\* with no gap and no number twice, whatever writes fail in between, and the
\* client's reporter has counted as many (Client.cpp:1436, 1565, 1594).
NumbersDense ==
    /\ \A i \in DOMAIN written : written[i] = i
    /\ tx.id >= Len(written) + 1
    /\ pc["client"] \in {"synch", "loop"} => sent.Datagrams = Len(written) /\ tx.id = Len(written) + 1

\* What the final report calls lost are the numbers that were not counted, in
\* whatever order the others came; the errors of the intervals are not fewer,
\* and their datagrams are those of the whole test.  A duplicate hides a loss
\* (Reporter.c:1110, 1380).
Missing(n) == Cardinality((1 .. n) \ counted)
ReportAccounted ==
    LET last == Report(prev, stats)
        final == FinalReport(stats)
    IN  /\ final.error <= Missing(stats.PacketID)
        /\ ~twice => final.error = Missing(stats.PacketID)
        /\ sums.error + last.error >= final.error
        /\ sums.datagrams + last.datagrams = stats.PacketID
        /\ sums.bytes + last.bytes = stats.Bytes

\* What an ACK of L4S says was lost are the datagrams that nobody has read, up
\* to the highest one, if the listener has read the first payload, and before
\* the end of the traffic is counted as one more datagram (prague_cc.cpp:430).
Highest == CHOOSE n \in counted : \A m \in counted : m <= n
EchoAccounted ==
    test.loop = "l4s" /\ ~twice /\ opener = 1 /\ counted # {} /\ flight.seqnr = Len(written)
       /\ ~At("server", "done")
    => rx.lost = Missing(Highest)

\* The intervals of the client are together what it has sent, and its final
\* report has the number of datagrams it has counted, unless the last writes
\* before the end failed (Reporter.c:1655).
SentAccounted ==
    LET last == ClientReport(reported.prev, sent)
        final == ClientFinalReport(sent)
    IN  /\ reported.datagrams + last.datagrams = sent.Datagrams
        /\ reported.bytes + last.bytes = final.bytes
        /\ pc["client"] \in {"await", "done"} /\ faults = test.budget => final.datagrams = sent.Datagrams

\* None of the counts of losses is wrong.
LossAccounted == ReportAccounted /\ SentAccounted /\ EchoAccounted

\* The histogram of a test has every datagram that came in order: the final
\* print and the prints of the intervals together list as many, but for the
\* values at the end of the range, which are written behind the bins
\* (histogram.c:147, 212).
HistogramAccounts ==
    LET h == transits.latency
        final == PrintOut(h, transits.prev, TRUE).shown
        rest == PrintOut(h, transits.prev, FALSE).shown
    IN  Is("Histogram") =>
        /\ final.populationcnt = stats.Datagrams - stats.OutofOrder
        /\ Listed(final) + h.mybins[Behind] = final.populationcnt
        /\ transits.listed + Listed(rest) = Listed(final)

\* The two reports of a test in which nothing was lost, failed or left unread
\* are the same, but that of a reverse test whose first datagram is read for
\* the header only (Client.cpp:2040).
Untroubled ==
    /\ faults = test.budget /\ tries = RetryCount /\ net = {}
    /\ pc["client"] \in {"await", "done"} /\ At("server", "done")
    /\ "server" \notin interrupted \cup late
Even == sent.PacketID = stats.PacketID /\ sent.Datagrams = stats.Datagrams /\ sent.Bytes = stats.Bytes
EvenNow ==
    Untroubled /\ ~(Is("Reverse") /\ {"TripTime", "Isochronous"} \cap test.flags # {}) => Even

\* Alpha is taken over some datagrams: an ACK that has it updated tells of more
\* than the one of the last update did, or the division is by zero
\* (prague_cc.cpp:250), unless data came twice.
AlphaMeasured ==
    ~twice => \A a \in acks :
        ~Stale(cc, a) /\ a.received + a.lost > cc.alpha.sent /\ clock + 1 > cc.alpha.ts
           => a.received > cc.alpha.received

\* The window is reduced once in a round trip for losses, and not for marks in
\* the round trip of another reduction, unless one is undone or forgotten
\* (prague_cc.cpp:279, 369).
ReductionsApart == "again" \in mishap => {"undone", "reset"} \cap mishap # {}

\* The client comes to its end, and so does a server that the end of the
\* traffic reaches or that has an end time (Client.cpp:2092, Server.cpp:1058).
DatagramsEnd ==
    /\ <>At("client", "done")
    /\ (At("server", "read") /\ (HasEnd("server") \/ \E d \in net : d.id < 0)) ~> At("server", "done")
=============================================================================
