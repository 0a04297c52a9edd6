----------------------------- MODULE Traffic -----------------------------
(***************************************************************************)
(* One TCP test of iperf2 with its traffic in either direction, from the   *)
(* first payload to the end of both sides: the send loops, the receive loop*)
(* and the bounceback loops over one connection.                           *)
(***************************************************************************)
EXTENDS BounceBack

CONSTANTS Tests  \* the tests: flags, len, reply, sizes, first, amount, most

\* What the settings check, and three things they do not: a reverse test of
\* bursts has --trip-times, a buffer holds a burst header, and the amount is
\* not less than the first payload.
ASSUME TestsAssumption ==
    \A t \in Tests :
        /\ t.len \in Nat \ {0} /\ t.reply \in Nat \ {0}
        /\ t.first \in Nat /\ t.amount \in Nat /\ t.most \in Nat /\ t.sizes \subseteq Nat
        /\ {"Isochronous", "PeriodicBurst", "TripTime", "NearCongest", "WritePrefetch"} \cap t.flags # {}
              => t.len >= Header
        /\ {"Isochronous", "PeriodicBurst", "Reverse"} \subseteq t.flags => "TripTime" \in t.flags
        /\ "BounceBack" \in t.flags => "ModeTime" \in t.flags
        /\ t.first <= t.amount

vars == <<test, wire, call, signals, pc, sender, results, begun, receiver, peerclose, rounds>>

Init ==
    /\ test \in Tests
    /\ ConnectionInit
    /\ pc = [e \in Ends |-> "synch"]
    /\ amount = test.amount /\ left = 0 /\ bursts = <<>>
    /\ nleft = 0 /\ whole = 0 /\ rounds = 0
    /\ total = [e \in Ends |-> 0] /\ reported = [e \in Ends |-> 0] /\ begun = [e \in Ends |-> 0]
    /\ peerclose = {}

Loops == <<pc, sender, results, begun, receiver, peerclose>>

Client == (ClientTraffic /\ UNCHANGED rounds) \/ ClientBounces
Server == (ServerTraffic /\ UNCHANGED rounds) \/ ServerBounces
Calls(e) == Kernel(e) /\ UNCHANGED <<Loops, rounds>>
Time(e) == Elapse(e) /\ UNCHANGED <<Loops, rounds>>
Signal(e) == Interrupt(e) /\ UNCHANGED <<Loops, rounds>>

Next ==
    \/ Client \/ Server
    \/ \E e \in Ends : Calls(e) \/ Time(e) \/ Signal(e)

Spec == Init /\ [][Next]_vars

\* The threads run, the kernel completes what it can, and the clock goes on.
\* Signals of the user need not come.
FairSpec ==
    /\ Spec
    /\ WF_vars(Client) /\ WF_vars(Server)
    /\ \A e \in Ends : WF_vars(Calls(e)) /\ WF_vars(Time(e)) /\ WF_vars(Past(e) /\ Signal(e))
-----------------------------------------------------------------------------
End(b) == b.at + b.size

\* The server finds every burst until it closes: bursts follow each other
\* without a gap, the server looks for a header only where one begins, and has
\* counted as many whole bursts as it has read.  A header that is lost or cut,
\* a burst that is longer or shorter than its header says, would make payload a
\* header (Server.cpp:190, Client.cpp:700).
FramesAligned ==
    /\ "server" \notin closed => \A i \in 1 .. Len(bursts) - 1 : End(bursts[i]) = bursts[i + 1].at
    /\ At("server", "header") /\ call["server"].op = "recvn"
          => taken["client"] - call["server"].done
               \in {FirstPayload} \cup {End(bursts[i]) : i \in DOMAIN bursts}
    /\ At("server", "loop") /\ isburst
          => whole = Cardinality({i \in DOMAIN bursts : End(bursts[i]) <= taken["client"]})

\* The server has no end of its own, but that of the stream: neither a time nor
\* the amount of a reverse test, at which a client stops to the byte only if it
\* sends a plain stream.
Unlimited == ~HasEnd("server") /\ (Is("Reverse") /\ ~Is("ModeTime") => Loop = "stream" /\ ~isburst)

\* The server has read all of its bursts to their ends, and not more than a part
\* of the header of the next one.
BetweenBursts ==
    /\ nleft = 0
    /\ taken["client"] - (IF whole = 0 THEN FirstPayload ELSE End(bursts[whole])) \in 0 .. Header - 1

\* What was sent is what the two reports say.  The client's report has every
\* byte in the loops that report all writes; of bursts with a rate it misses at
\* the most the last one, if a write of it fails.  The server's report has
\* every byte that was read, if there are no bursts; if there are, a byte of
\* every burst and a header that came late or in part may be missing.  A server
\* without an end of its own reads every byte, however long the pauses are,
\* unless the client has failed; if it reads bursts, a pause may end it, but
\* only between two of them (Client.cpp:757, 1007, Server.cpp:113, 238, 281).
Accounted ==
    /\ At("client", "done") /\ Loop \in {"stream", "rate"} =>
         IF Loop = "rate" /\ isburst
           THEN sent["client"] - reported["client"] \in 0 .. Max({test.len, Header})
           ELSE sent["client"] = reported["client"]
    /\ At("server", "done") /\ Loop # "bounce" =>
         IF isburst
           THEN taken["client"] - reported["server"] \in 0 .. whole + (IF nleft > 0 THEN 1 ELSE Header - 1)
           ELSE taken["client"] = reported["server"]
    /\ At("server", "done") /\ Unlimited /\ Loop # "bounce" /\ interrupted = {} /\ ~At("client", "failed") =>
         taken["client"] = sent["client"] \/ (isburst /\ BetweenBursts)

\* Request and reply alternate: the client is at most one request ahead of the
\* replies it has read, the server never answers what it has not read, and a
\* round is one request and one reply, however the calls were cut into pieces
\* (Client.cpp:1200, Server.cpp:330).  The two never wait for each other's
\* message with nothing under way, unless recvn has thrown away a part of one
\* (socket_io.c:155).
Alternate ==
    /\ sent["client"] <= (rounds + 1) * test.len
    /\ sent["server"] <= (taken["client"] \div test.len) * test.reply
    /\ rounds * test.reply <= taken["server"]

Stalled ==
    /\ At("client", "reply") /\ At("server", "listening")
    /\ call["client"].op = "recvn" /\ call["server"].op = "recvn"
    /\ Available("client") = 0 /\ Available("server") = 0

Lockstep ==
    Is("BounceBack") => Alternate /\ (Stalled => dropped["client"] + dropped["server"] > 0)

\* A test with an end time or an amount comes to its end on both sides: no
\* wait for room, for a header, for a reply or for the close of the other side
\* is for ever (Client.cpp:730, Server.cpp:330, socket_io.c:196).
TrafficEnds == <>(At("client", "done") \/ At("client", "failed")) /\ <>At("server", "done")
=============================================================================
