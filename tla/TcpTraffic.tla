---------------------------- MODULE TcpTraffic ----------------------------
(***************************************************************************)
(* The TCP traffic of an iperf2 test: the four send loops of Client.cpp    *)
(* and the receive loop of Server.cpp, from the first payload to the close.*)
(*                                                                         *)
(* With --isochronous, --burst-period and --trip-times the stream is a     *)
(* sequence of bursts.  Each begins with a header that says how long it is,*)
(* and the server has to find every one of them by counting bytes.         *)
(***************************************************************************)
EXTENDS TcpConnection

CONSTANTS Header  \* sizeof(TCP_burst_payload)

ASSUME HeaderAssumption == Header \in Nat \ {0}

VARIABLES pc,         \* where each end is
          amount,     \* mAmount of the client, bytes left to send
          total,      \* totLen of each end
          left,       \* burst_remaining of the client
          begun,      \* bytes that an iteration has moved before its last call
          bursts,     \* the bursts the client has begun: where, and how long
          nleft,      \* burst_nleft of the server
          whole,      \* bursts that the server has read to the end
          peerclose,  \* the ends that take the other for gone
          reported    \* bytes that each end has reported

sender   == <<amount, left, bursts>>
receiver == <<nleft, whole>>
results  == <<total, reported>>

At(e, l) == pc[e] = l
Go(e, l) == pc' = [pc EXCEPT ![e] = l]
Stays == UNCHANGED <<test, wire, signals>>

\* What the reporter adds to the bytes of e: of a client every write, of a
\* server every read that has some.
Report(e, n) == reported' = [reported EXCEPT ![e] = @ + n]
ReportRead(n) == IF n > 0 THEN Report("server", n) ELSE UNCHANGED reported
\* Bound: the errors of this many timeouts more than bytes are added.
Patience == 2
Total(e, n)  == total' = [total EXCEPT ![e] = Max({@ + n, -Patience})]
Begun(e, n)  == begun' = [begun EXCEPT ![e] = n]

isburst == Is("Isochronous") \/ Is("PeriodicBurst") \/ Is("TripTime")
\* The client reports the whole test at its end.
one_report == \A f \in {"Enhanced", "Interval", "Isochronous", "PeriodicBurst", "TripTime"} : ~Is(f)

Loop == IF Is("BounceBack") THEN "bounce"
        ELSE IF Is("AppRate") THEN "rate"
        ELSE IF Is("NearCongest") THEN "congest"
        ELSE IF Is("WritePrefetch") /\ ~Is("Isochronous") /\ ~Is("PeriodicBurst") THEN "events" ELSE "stream"

InProgress(e) ==
    /\ e \notin interrupted /\ e \notin peerclose
    /\ ~(HasEnd(e) /\ e \in late)
    /\ e = "client" /\ ~Is("ModeTime") => amount > 0

\* The client is at the head of this loop and goes round once more.
Round(l) == At("client", "loop") /\ Loop = l /\ InProgress("client")
-----------------------------------------------------------------------------
(* The client.                                                             *)

\* What precedes the traffic: the header of the test.
FirstPayload ==
    LET Headed == Is("TripTime") \/ Is("PeriodicBurst")
    IN  IF Is("BounceBack") \/ (IF Is("Reverse") THEN ~Headed ELSE Is("Compat")) THEN 0 ELSE test.first

StartSynch ==
    /\ At("client", "synch") /\ Go("client", "loop")
    /\ sent' = [sent EXCEPT !["client"] = FirstPayload]
    /\ Report("client", FirstPayload)
    /\ amount' = IF Is("ModeTime") THEN amount ELSE amount - FirstPayload
    /\ UNCHANGED <<test, taken, dropped, shut, closed, call, signals, total, left, begun, bursts,
                   receiver, peerclose>>

\* What AwaitSelectWrite has to wait for: room, or a connection that is gone.
Writable == Is("WritePrefetch") => Room("client") > 0 \/ "server" \in closed

\* The select has timed out.
SelectTimeout ==
    /\ At("client", "loop") /\ Loop # "bounce" /\ InProgress("client") /\ ~Writable
    /\ "client" \notin late
    /\ late' = Seen("client")
    /\ UNCHANGED <<test, wire, over, interrupted, pc, call, sender, results, begun, receiver, peerclose>>

LoopEnds ==
    /\ At("client", "loop") /\ ~InProgress("client")
    /\ Go("client", "finish")
    /\ Stays /\ UNCHANGED <<call, sender, results, begun, receiver, peerclose>>

\* A header is put at the head of the buffer, and its time is packetTime.
WriteTcpTxHdr(size) ==
    /\ bursts' = Append(bursts, [at |-> sent["client"], size |-> size])
    /\ late' = Seen("client")

Limited(n) == IF Is("ModeTime") THEN n ELSE Min({amount, n})
Deduct(n) == amount' = IF Is("ModeTime") THEN amount ELSE Max({0, amount - n})

\* An iteration has written n bytes, or none.
Written(n) ==
    /\ Total("client", n) /\ Deduct(n) /\ left' = IF isburst THEN left - n ELSE left
    /\ Report("client", IF one_report THEN 0 ELSE n)
    /\ call' = [call EXCEPT !["client"] = NoCall]
    /\ Go("client", "loop")

\* RunTCP.  A burst waits for its frame; its header and the first buffer are
\* written in full.
StreamBurst ==
    /\ Round("stream") /\ isburst /\ left <= 0 /\ Writable
    /\ Is("PeriodicBurst") => ~Past("client")
    /\ \E size \in test.sizes :
         LET burst == Max({size, Header})
         IN  /\ left' = burst
             /\ WriteTcpTxHdr(burst)
             /\ Call("client", "writen", Min({test.len, burst}))
    /\ Go("client", "burst")
    /\ UNCHANGED <<test, wire, over, interrupted, amount, results, begun, receiver, peerclose>>

\* The wait for the frame has gone past the end.
StreamTooLate ==
    /\ Round("stream") /\ Is("PeriodicBurst") /\ left <= 0 /\ Past("client")
    /\ late' = Seen("client")
    /\ Go("client", "finish")
    /\ UNCHANGED <<test, wire, over, interrupted, call, sender, results, begun, receiver, peerclose>>

\* FAIL ends the thread.
StreamBurstWritten ==
    /\ At("client", "burst") /\ Returned("client")
    /\ IF Result("client") < Header
         THEN Go("client", "failed") /\ UNCHANGED <<call, amount, left, results>>
         ELSE Written(Result("client"))
    /\ Stays /\ UNCHANGED <<begun, bursts, receiver, peerclose>>

StreamWrite ==
    /\ Round("stream") /\ ~(isburst /\ left <= 0) /\ Writable
    /\ Call("client", "write", IF isburst THEN Min({test.len, left}) ELSE Limited(test.len))
    /\ Go("client", "write")
    /\ Stays /\ UNCHANGED <<sender, results, begun, receiver, peerclose>>

StreamWritten ==
    /\ At("client", "write") /\ Returned("client")
    /\ late' = Seen("client")
    /\ IF Result("client") = Fatal
         THEN Go("client", "finish") /\ UNCHANGED <<call, amount, left, results>>
         ELSE Written(Max({0, Result("client")}))
    /\ UNCHANGED <<test, wire, over, interrupted, begun, bursts, receiver, peerclose>>

\* RunNearCongestionTCP.  The burst is one buffer; only its last write is
\* reported.
CongestBurst ==
    /\ Round("congest") /\ left = 0
    /\ left' = test.len
    /\ WriteTcpTxHdr(test.len)
    /\ Call("client", "write", test.len)
    /\ Go("client", "congest burst")
    /\ UNCHANGED <<test, wire, over, interrupted, amount, results, begun, receiver, peerclose>>

CongestWrite ==
    /\ Round("congest") /\ left # 0
    /\ Call("client", "write", Min({Limited(test.len), left}))
    /\ Go("client", "congest write")
    /\ Stays /\ UNCHANGED <<sender, results, begun, receiver, peerclose>>

\* The header has to be there (an assertion); any other write may fail.
CongestWritten ==
    LET n == Max({0, Result("client")})
    IN  /\ At("client", "congest burst") \/ At("client", "congest write")
        /\ Returned("client")
        /\ late' = IF At("client", "congest write") THEN Seen("client") ELSE late
        /\ \/ /\ At("client", "congest burst") /\ Result("client") < Header
              /\ Go("client", "failed") /\ UNCHANGED <<call, amount, left, results>>
           \/ /\ At("client", "congest write") /\ Result("client") = Fatal
              /\ Go("client", "finish") /\ UNCHANGED <<call, amount, left, results>>
           \/ /\ IF At("client", "congest burst") THEN Result("client") >= Header
                                                  ELSE Result("client") # Fatal
              /\ Total("client", n) /\ Deduct(n) /\ left' = left - n
              /\ Report("client", IF left' <= 0 THEN n ELSE 0)
              /\ call' = [call EXCEPT !["client"] = NoCall]
              /\ Go("client", "loop")
        /\ UNCHANGED <<test, wire, over, interrupted, begun, bursts, receiver, peerclose>>

\* RunRateLimitedTCP.  When the tokens allow it a buffer is written, whatever
\* is left of the amount; a burst is one buffer.
RateBurst ==
    /\ Round("rate") /\ isburst /\ left <= 0 /\ Writable
    /\ left' = Max({test.len, Header})
    /\ WriteTcpTxHdr(left')
    /\ Call("client", "writen", left')
    /\ Go("client", "rate burst")
    /\ UNCHANGED <<test, wire, over, interrupted, amount, results, begun, receiver, peerclose>>

\* The second write of the iteration, for what the first one has left.
RateBurstWritten ==
    /\ At("client", "rate burst") /\ Returned("client") /\ Result("client") < left
    /\ left' = left - Result("client")
    /\ Begun("client", Result("client"))
    /\ Call("client", "write", left')
    /\ Go("client", "rate write")
    /\ Stays /\ UNCHANGED <<amount, bursts, results, receiver, peerclose>>

RateWrite ==
    /\ Round("rate") /\ ~(isburst /\ left <= 0) /\ Writable
    /\ left' = test.len
    /\ Begun("client", 0)
    /\ Call("client", "write", test.len)
    /\ Go("client", "rate write")
    /\ Stays /\ UNCHANGED <<amount, bursts, results, receiver, peerclose>>

\* The end of an iteration: burst header and second write together.
RateWritten ==
    LET header == At("client", "rate burst")
        n == IF header THEN Result("client") ELSE begun["client"] + Max({0, Result("client")})
    IN  /\ \/ header /\ Returned("client") /\ Result("client") = left
           \/ At("client", "rate write") /\ Returned("client")
        /\ late' = Seen("client")
        /\ IF Result("client") = Fatal
             THEN Go("client", "finish") /\ UNCHANGED <<call, amount, left, results>>
             ELSE /\ Total("client", IF Result("client") = Again THEN 0 ELSE n)
                  /\ Deduct(n)
                  /\ left' = IF header THEN 0 ELSE left
                  /\ Report("client", IF one_report THEN 0 ELSE n)
                  /\ call' = [call EXCEPT !["client"] = NoCall]
                  /\ Go("client", "loop")
        /\ UNCHANGED <<test, wire, over, interrupted, begun, bursts, receiver, peerclose>>

\* RunWriteEventsTCP.  Every write has a header; totLen is not kept.
EventWrite ==
    /\ Round("events") /\ Writable
    /\ WriteTcpTxHdr(Limited(test.len))
    /\ Call("client", "writen", Limited(test.len))
    /\ Go("client", "event")
    /\ UNCHANGED <<test, wire, over, interrupted, amount, left, results, begun, receiver, peerclose>>

EventWritten ==
    LET n == Result("client")
    IN  /\ At("client", "event") /\ Returned("client")
        /\ peerclose' = IF n = 0 THEN peerclose \cup {"client"} ELSE peerclose
        /\ Deduct(n)
        /\ Report("client", IF one_report THEN 0 ELSE n)
        /\ call' = [call EXCEPT !["client"] = NoCall]
        /\ Go("client", "loop")
        /\ Stays /\ UNCHANGED <<left, bursts, total, begun, receiver>>

\* FinishTrafficActions.  The end of the stream tells the server to stop.
Finish ==
    /\ At("client", "finish")
    /\ IF Is("IgnoreShutdown") THEN Go("client", "report") /\ UNCHANGED shut
                               ELSE Go("client", "await") /\ shut' = shut \cup {"client"}
    /\ call' = [call EXCEPT !["client"] = NoCall]
    /\ UNCHANGED <<test, bytes, closed, signals, sender, results, begun, receiver, peerclose>>

\* Whatever comes is read and dropped until the server closes.  The timeout,
\* two seconds at least, is taken to be longer than a bounceback server needs.
AwaitServerCloseEvent ==
    /\ At("client", "await")
    /\ taken' = [taken EXCEPT !["server"] = sent["server"]]
    /\ IF Is("BounceBack") /\ "server" \notin closed THEN taken' # taken /\ UNCHANGED pc
                                                     ELSE Go("client", "report")
    /\ UNCHANGED <<test, sent, dropped, shut, closed, call, signals, sender, results, begun, receiver,
                   peerclose>>

Close(e) == closed' = closed \cup {e} /\ shut' = shut \cup {e}

\* A failed thread leaves its socket to the end of the process.
ClientCloses ==
    /\ \/ /\ At("client", "report") /\ Go("client", "done")
          /\ Report("client", IF one_report THEN total["client"] ELSE 0)
       \/ /\ At("client", "failed") /\ "client" \notin closed
          /\ UNCHANGED <<pc, reported>>
    /\ Close("client")
    /\ UNCHANGED <<test, bytes, call, signals, sender, total, begun, receiver, peerclose>>
-----------------------------------------------------------------------------
(* The server.                                                             *)

ServerLeaves == Go("server", "finish") /\ call' = [call EXCEPT !["server"] = NoCall]

\* The first payload is read by the listener, and in a reverse test by
\* ClientReverseFirstRead.  Of a bounceback it is the first request.
First == IF Is("BounceBack") THEN test.len ELSE FirstPayload

FirstRead ==
    LET n == Min({First - begun["server"], Available("server")})
    IN  /\ At("server", "synch") /\ ~At("client", "synch")
        /\ n > 0 \/ First = 0
        /\ taken' = [taken EXCEPT !["client"] = @ + n]
        /\ IF begun["server"] + n = First
             THEN /\ ReportRead(First) /\ Begun("server", 0)
                  /\ Go("server", IF Is("BounceBack") THEN "answer" ELSE "loop")
             ELSE Begun("server", begun["server"] + n) /\ UNCHANGED <<reported, pc>>
        /\ UNCHANGED <<test, sent, dropped, shut, closed, call, signals, sender, total, receiver, peerclose>>

\* The client has gone before it has sent that much.
NothingFirst ==
    /\ At("server", "synch") /\ "client" \in shut
    /\ Available("server") = 0 /\ begun["server"] < First
    /\ ServerLeaves
    /\ Stays /\ UNCHANGED <<sender, results, begun, receiver, peerclose>>

ReadHeader ==
    /\ At("server", "loop") /\ InProgress("server") /\ isburst /\ nleft = 0
    /\ Call("server", "recvn", Header)
    /\ Go("server", "header")
    /\ Stays /\ UNCHANGED <<sender, results, begun, receiver, peerclose>>

\* The size in a header that begins here.
SizeAt(i) == LET at == {k \in DOMAIN bursts : bursts[k].at = i}
             IN  IF at = {} THEN Header ELSE bursts[Max(at)].size

Received(n) ==
    /\ Total("server", n) /\ ReportRead(n)
    /\ late' = Seen("server")

HeaderRead ==
    LET size == SizeAt(taken["client"] - Header)
    IN  /\ At("server", "header") /\ Returned("server") /\ Result("server") = Header
        /\ nleft' = size - Header
        /\ IF size = Header
             THEN /\ whole' = whole + 1
                  /\ Received(Header)
                  /\ call' = [call EXCEPT !["server"] = NoCall]
                  /\ Go("server", "received")
                  /\ UNCHANGED begun
             ELSE /\ Begun("server", Header)
                  /\ Call("server", "recv", Min({test.len, size - Header}))
                  /\ Go("server", "recv")
                  /\ UNCHANGED <<whole, results, late>>
        /\ UNCHANGED <<test, wire, over, interrupted, sender, peerclose>>

\* A timeout here ends the test as well.
HeaderMissing ==
    /\ At("server", "header") /\ Returned("server") /\ Result("server") # Header
    /\ ServerLeaves
    /\ Stays /\ UNCHANGED <<sender, results, begun, receiver, peerclose>>

\* Mutant: the read is not limited to the burst.
ReadPayloadUncut ==
    /\ At("server", "loop") /\ InProgress("server") /\ ~(isburst /\ nleft = 0)
    /\ Begun("server", 0)
    /\ Call("server", "recv", test.len)
    /\ Go("server", "recv")
    /\ Stays /\ UNCHANGED <<sender, results, receiver, peerclose>>

ReadPayload ==
    /\ At("server", "loop") /\ InProgress("server") /\ ~(isburst /\ nleft = 0)
    /\ Begun("server", 0)
    /\ Call("server", "recv", IF nleft > 0 THEN Min({test.len, nleft}) ELSE test.len)
    /\ Go("server", "recv")
    /\ Stays /\ UNCHANGED <<sender, results, receiver, peerclose>>

\* Mutant: the bytes of the header are not counted.
PayloadReadAlone ==
    LET n == Result("server")
    IN  /\ At("server", "recv") /\ Returned("server")
        /\ peerclose' = IF n \in {0, Fatal} THEN peerclose \cup {"server"} ELSE peerclose
        /\ nleft' = IF isburst /\ n > 0 THEN nleft - n ELSE nleft
        /\ whole' = IF isburst /\ n > 0 /\ nleft = n THEN whole + 1 ELSE whole
        /\ Received(IF n = Fatal THEN 0 ELSE n)
        /\ call' = [call EXCEPT !["server"] = NoCall]
        /\ Go("server", "received")
        /\ UNCHANGED <<test, wire, over, interrupted, sender, begun>>

\* Mutant: the end of the stream is not noticed.
PayloadReadOpen ==
    LET n == Result("server")
    IN  /\ At("server", "recv") /\ Returned("server")
        /\ peerclose' = IF n = Fatal THEN peerclose \cup {"server"} ELSE peerclose
        /\ nleft' = IF isburst /\ n > 0 THEN nleft - n ELSE nleft
        /\ whole' = IF isburst /\ n > 0 /\ nleft = n THEN whole + 1 ELSE whole
        /\ Received(begun["server"] + IF n = Fatal THEN 0 ELSE n)
        /\ call' = [call EXCEPT !["server"] = NoCall]
        /\ Go("server", "received")
        /\ UNCHANGED <<test, wire, over, interrupted, sender, begun>>

\* The error of a timeout is added to the length like a length.
PayloadRead ==
    LET n == Result("server")
    IN  /\ At("server", "recv") /\ Returned("server")
        /\ peerclose' = IF n \in {0, Fatal} THEN peerclose \cup {"server"} ELSE peerclose
        /\ nleft' = IF isburst /\ n > 0 THEN nleft - n ELSE nleft
        /\ whole' = IF isburst /\ n > 0 /\ nleft = n THEN whole + 1 ELSE whole
        /\ Received(begun["server"] + IF n = Fatal THEN 0 ELSE n)
        /\ call' = [call EXCEPT !["server"] = NoCall]
        /\ Go("server", "received")
        /\ UNCHANGED <<test, wire, over, interrupted, sender, begun>>

\* The receiver of a reverse test knows how much will come.
Enough == Is("Reverse") /\ ~Is("ModeTime") /\ total["server"] >= test.amount

NextRead ==
    /\ At("server", "received")
    /\ Go("server", IF Enough THEN "finish" ELSE "loop")
    /\ Stays /\ UNCHANGED <<call, sender, results, begun, receiver, peerclose>>

ServerLoopEnds ==
    /\ At("server", "loop") /\ ~InProgress("server")
    /\ ServerLeaves
    /\ Stays /\ UNCHANGED <<sender, results, begun, receiver, peerclose>>

ServerCloses ==
    /\ At("server", "finish") /\ Go("server", "done")
    /\ Close("server")
    /\ UNCHANGED <<test, bytes, call, signals, sender, results, begun, receiver, peerclose>>
-----------------------------------------------------------------------------
ClientTraffic ==
    \/ StartSynch \/ SelectTimeout \/ LoopEnds
    \/ StreamBurst \/ StreamTooLate \/ StreamBurstWritten \/ StreamWrite \/ StreamWritten
    \/ CongestBurst \/ CongestWrite \/ CongestWritten
    \/ RateBurst \/ RateBurstWritten \/ RateWrite \/ RateWritten
    \/ EventWrite \/ EventWritten
    \/ Finish \/ AwaitServerCloseEvent \/ ClientCloses

ServerTraffic ==
    \/ FirstRead \/ NothingFirst \/ ReadHeader \/ HeaderRead \/ HeaderMissing
    \/ ReadPayload \/ PayloadRead \/ NextRead \/ ServerLoopEnds \/ ServerCloses
=============================================================================
