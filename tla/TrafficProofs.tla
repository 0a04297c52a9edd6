---------------------------- MODULE TrafficProofs ----------------------------
(***************************************************************************)
(* Proofs about Traffic, for any tests, lengths and buffer, and however    *)
(* calls are cut, fail or are interrupted.  The invariant has three parts: *)
(* the places, calls and types of both ends; the bursts that the client    *)
(* has begun and how much of the last one it has sent; and where in these  *)
(* bursts the server is.  The steps of both ends are put into a few forms, *)
(* whichever loop they are of, and each part is proved for the forms.      *)
(* On it rest what the two ends of a bounceback owe each other (LockInv)   *)
(* and what the two reports have of what was sent (AccountInv).            *)
(***************************************************************************)
EXTENDS Traffic, SequenceTheorems, FiniteSetTheorems, TLAPS

\* The bytes that the current call of an end has moved.
Moved(e) == IF Returned(e) THEN IF Result(e) > 0 THEN Result(e) ELSE 0
            ELSE call[e].done

\* The call made at a place.
OpOf(l) == CASE l \in {"burst", "rate burst", "event", "request", "answering"} -> "writen"
             [] l \in {"write", "congest burst", "congest write", "rate write"} -> "write"
             [] l \in {"header", "reply", "listening"} -> "recvn"
             [] l = "recv" -> "recv"
             [] OTHER -> "none"

\* The lesser of two, and what a write is limited to.
Less(m, n) == IF m <= n THEN m ELSE n
Limit == IF Is("ModeTime") THEN test.len ELSE Less(amount, test.len)

\* What the call of an end has been asked for.
Asked(e) ==
  LET l == pc[e] IN
  CASE l = "burst" -> Less(test.len, left)
    [] l = "write" -> IF isburst THEN Less(test.len, left) ELSE Limit
    [] l = "congest write" -> Less(Limit, left)
    [] l \in {"congest burst", "rate burst", "rate write"} -> left
    [] l = "event" -> Limit
    [] l = "request" -> test.len - begun["client"]
    [] l = "reply" -> test.reply - begun["client"]
    [] l = "header" -> Header
    [] l = "recv" -> IF nleft > 0 THEN Less(test.len, nleft) ELSE test.len
    [] l = "answering" -> test.reply - begun["server"]
    [] l = "listening" -> test.len
    [] OTHER -> 0

\* The places of the two ends, each in the loop that it belongs to.
Places ==
  /\ DOMAIN pc = Ends
  /\ pc["client"] \in {"synch", "loop", "finish", "await", "report", "done", "failed", "burst", "write",
                       "congest burst", "congest write", "rate burst", "rate write", "event", "request", "reply"}
  /\ pc["client"] \in {"burst", "write"} => Loop = "stream"
  /\ pc["client"] \in {"congest burst", "congest write"} => Loop = "congest"
  /\ pc["client"] \in {"rate burst", "rate write"} => Loop = "rate"
  /\ pc["client"] = "event" => Loop = "events"
  /\ pc["client"] \in {"request", "reply"} => Loop = "bounce"
  /\ pc["server"] \in {"synch", "finish", "done", "loop", "header", "recv", "received",
                       "answer", "answering", "listen", "listening"}
  /\ pc["server"] \in {"loop", "header", "recv", "received"} => Loop # "bounce"
  /\ pc["server"] \in {"answer", "answering", "listen", "listening"} => Loop = "bounce"

\* The types of both ends and of the connection.
Types ==
  /\ test \in Tests
  /\ sent \in [Ends -> Nat] /\ taken \in [Ends -> Nat] /\ dropped \in [Ends -> Nat]
  /\ taken["client"] <= sent["client"] /\ taken["server"] <= sent["server"]
  /\ shut \subseteq Ends /\ closed \subseteq Ends /\ over \subseteq Ends /\ late \subseteq Ends
  /\ interrupted \subseteq Ends /\ peerclose \subseteq Ends
  /\ amount \in Nat /\ left \in Nat /\ nleft \in Nat /\ whole \in Nat /\ rounds \in Nat
  /\ begun \in [Ends -> Nat] /\ total \in [Ends -> Int] /\ total["client"] >= 0 /\ reported \in [Ends -> Nat]
  /\ bursts \in Seq([at : Nat, size : Nat \ {0}])

\* The call of an end: none, one that is asked for more than it has moved, or
\* what one has returned.
CallOk(e) ==
  \/ /\ OpOf(pc[e]) = "none" /\ call[e] = NoCall
  \/ /\ e = "client" /\ pc[e] \in {"finish", "failed"} /\ Returned(e)
     /\ Result(e) \in Int /\ call[e].done = 0
  \/ /\ OpOf(pc[e]) # "none" /\ call[e].op = OpOf(pc[e]) /\ call[e].len = Asked(e)
     /\ call[e].done \in Nat /\ call[e].len \in Nat /\ call[e].done < call[e].len
     /\ (call[e].op = "recv" => call[e].done = 0)
  \/ /\ OpOf(pc[e]) # "none" /\ Returned(e) /\ call[e].done = 0 /\ Asked(e) \in Nat \ {0}
     /\ Result(e) \in Int /\ Result(e) \in -2 .. Asked(e) /\ (OpOf(pc[e]) = "writen" => Result(e) >= 0)

Calling ==
  /\ call \in [Ends -> [op : {"none", "write", "writen", "recv", "recvn", "returned"}, len : Int, done : Nat]]
  /\ CallOk("client") /\ CallOk("server")

\* What the buffers of a loop depend on.
Shapes ==
  /\ pc["client"] \in {"burst", "rate burst"} => isburst
  /\ pc["client"] = "congest burst" => left = test.len
  /\ pc["server"] = "header" => isburst /\ nleft = 0
  /\ pc["server"] = "recv" /\ isburst => nleft > 0
  /\ ~isburst => nleft = 0 /\ whole = 0
  /\ pc["server"] = "synch" => begun["server"] <= First
  /\ pc["server"] \in {"answer", "answering"} => begun["server"] < test.reply
  /\ pc["server"] \in {"listen", "listening"} => begun["server"] = 0

\* What belongs to the end of a test, and to its beginning.
Ended ==
  /\ "client" \in shut => pc["client"] \in {"await", "report", "done", "failed"}
  /\ "client" \in closed => pc["client"] \in {"done", "failed"} /\ "client" \in shut
  /\ pc["client"] = "done" => "client" \in closed
  /\ "server" \in closed <=> pc["server"] = "done"
  /\ "server" \in shut <=> pc["server"] = "done"
  /\ pc["client"] = "synch" => sent["client"] = 0 /\ pc["server"] \in {"synch", "finish", "done"}
                               /\ bursts = <<>> /\ left = 0 /\ begun["server"] = 0
                               /\ total["client"] = 0 /\ reported["client"] = 0 /\ amount = test.amount
  /\ Loop # "bounce" => sent["server"] = 0 /\ taken["server"] = 0

\* A writen gives up only at an interrupt or when the server has closed.
Cut ==
  OpOf(pc["client"]) = "writen" /\ Returned("client") /\ Result("client") < Asked("client")
    => "client" \in interrupted \/ "server" \in closed

Base == Places /\ Types /\ Calling /\ Shapes /\ Ended /\ Cut
-----------------------------------------------------------------------------
(* Bursts.                                                                 *)
\* The tests that have bursts.
Framed == Loop # "bounce" /\ (isburst \/ Loop \in {"congest", "events"})

\* The client is at a write; what is left of its burst; and the last one.
Sending == OpOf(pc["client"]) \in {"write", "writen"}
Rest == IF Loop = "events" THEN IF pc["client"] = "event" THEN Asked("client") ELSE 0 ELSE left
Last == bursts[Len(bursts)]

\* The server is there, and looks for the bursts.
Open == Framed /\ "server" \notin closed

\* The bursts follow each other, and none but the last is without room for its
\* header.
Chained ==
  /\ \A i \in 1 .. Len(bursts) - 1 : End(bursts[i]) = bursts[i + 1].at /\ bursts[i].size >= Header
  /\ \A i, j \in 1 .. Len(bursts) : i < j => End(bursts[i]) <= bursts[j].at
  /\ bursts # <<>> => bursts[1].at = FirstPayload

\* What is sent belongs to the last burst, and the rest of it is still to come.
LastBurst ==
  /\ bursts = <<>> => ~Sending /\ (pc["client"] # "synch" => sent["client"] = FirstPayload /\ Rest = 0)
  /\ bursts # <<>> =>
       /\ Last.at <= sent["client"] /\ sent["client"] <= End(Last)
       /\ Sending => sent["client"] - Moved("client") + Rest = End(Last)
       /\ pc["client"] = "loop" => "client" \in interrupted \/ sent["client"] + Rest = End(Last)
       /\ Last.size < Header => Loop = "events" /\ ~Is("ModeTime")
            /\ (pc["client"] = "event" => amount = Asked("client"))
            /\ (pc["client"] = "loop" => amount = 0 \/ "client" \in interrupted)

\* A burst of the rate loop is one write, unless it is cut.
RateCut ==
  /\ pc["client"] = "rate write" => "client" \in interrupted
  /\ Loop = "rate" /\ pc["client"] = "loop" => left = 0 \/ "client" \in interrupted

BurstInv ==
  /\ Open => Chained /\ LastBurst /\ RateCut
  /\ ~Framed => bursts = <<>>

\* Where the burst k ends, and what comes before the first.
Pos(k) == IF k = 0 THEN FirstPayload ELSE End(bursts[k])
\* The burst that the server is at, while it reads; and a header that failed.
Reached == whole + IF nleft > 0 THEN 1 ELSE 0
Reading == pc["server"] \in {"loop", "header", "recv", "received"}
HeaderLost == pc["server"] = "header" /\ Returned("server") /\ Result("server") < 0

\* What the server has taken and what is left of its burst make the end of it.
ReadInv ==
  /\ pc["server"] = "synch" => nleft = 0 /\ whole = 0 /\ (Loop # "bounce" => taken["client"] = begun["server"])
  /\ Reached <= Len(bursts)
  /\ Reading /\ isburst =>
       /\ ~HeaderLost => taken["client"] - Moved("server") + nleft = Pos(Reached)
       /\ nleft > 0 => nleft + Header <= bursts[Reached].size
       /\ pc["server"] = "recv" => begun["server"] \in {0, Header}
  /\ Reading /\ ~isburst /\ pc["server"] = "recv" => begun["server"] = 0
  /\ Reading => taken["client"] >= FirstPayload
-----------------------------------------------------------------------------
(* Helpers.                                                                *)
\* The community modules' Min and Max, of two numbers.
LEMMA MinOf == ASSUME NEW a \in Int, NEW b \in Int PROVE Min({a, b}) = Less(a, b)
<1> DEFINE m == Less(a, b)
<1>1. m \in {a, b} /\ \A y \in {a, b} : m =< y  BY DEF Less
<1>2. \A x \in {a, b} : (\A y \in {a, b} : x =< y) => x = m  BY DEF Less
<1> QED BY <1>1, <1>2 DEF Min

\* ... and Max.
LEMMA MaxOf == ASSUME NEW a \in Int, NEW b \in Int PROVE Max({a, b}) = IF a >= b THEN a ELSE b
<1> DEFINE m == IF a >= b THEN a ELSE b
<1>1. m \in {a, b} /\ \A y \in {a, b} : m >= y  OBVIOUS
<1>2. \A x \in {a, b} : (\A y \in {a, b} : x >= y) => x = m  OBVIOUS
<1> QED BY <1>1, <1>2 DEF Max

\* Each of the two ends is the other's peer.
LEMMA PeerOf == Peer("client") = "server" /\ Peer("server") = "client"
<1>1. "client" # "server" OBVIOUS
<1> QED BY <1>1 DEF Peer, Ends

\* Which call is made at which place: none at the places between two calls.
LEMMA Ops ==
  /\ OpOf("burst") = "writen" /\ OpOf("rate burst") = "writen" /\ OpOf("event") = "writen"
  /\ OpOf("request") = "writen" /\ OpOf("answering") = "writen"
  /\ OpOf("write") = "write" /\ OpOf("congest burst") = "write"
  /\ OpOf("congest write") = "write" /\ OpOf("rate write") = "write"
  /\ OpOf("header") = "recvn" /\ OpOf("reply") = "recvn" /\ OpOf("listening") = "recvn"
  /\ OpOf("recv") = "recv"
  /\ \A l \in {"synch", "loop", "finish", "await", "report", "done", "failed", "received",
               "answer", "listen"} : OpOf(l) = "none"
BY DEF OpOf

\* What the settings decide does not change while the test stays.
LEMMA Kept ==
  ASSUME test' = test
  PROVE  /\ Loop' = Loop /\ (isburst' <=> isburst) /\ FirstPayload' = FirstPayload /\ First' = First
         /\ \A f : Is(f)' <=> Is(f)
         /\ (Framed' <=> Framed) /\ (one_report' <=> one_report)
         /\ \A e \in Ends : HasEnd(e)' <=> HasEnd(e)
<1>1. \A f : Is(f)' <=> Is(f)  BY DEF Is
<1>2. Loop' = Loop  BY <1>1 DEF Loop
<1>3. isburst' <=> isburst  BY <1>1 DEF isburst
<1>4. FirstPayload' = FirstPayload  BY <1>1 DEF FirstPayload
<1>5. First' = First  BY <1>1, <1>4 DEF First
<1>6. one_report' <=> one_report  BY <1>1 DEF one_report
<1>7. Framed' <=> Framed  BY <1>2, <1>3 DEF Framed
<1>8. \A e \in Ends : HasEnd(e)' <=> HasEnd(e)
  BY <1>1 DEF HasEnd
<1> QED BY <1>1, <1>2, <1>3, <1>4, <1>5, <1>6, <1>7, <1>8

\* Lengths are positive, the first payload fits, and a buffer holds a header
\* where headers are written (TestsAssumption).
LEMMA Settings ==
  ASSUME Types
  PROVE  /\ test.len \in Nat \ {0} /\ test.reply \in Nat \ {0} /\ test.first \in Nat /\ test.amount \in Nat
         /\ test.sizes \subseteq Nat /\ Header \in Nat \ {0} /\ Buffer \in Nat \ {0}
         /\ FirstPayload \in Nat /\ FirstPayload <= test.amount /\ First \in Nat
         /\ isburst \/ Loop \in {"congest", "events"} => test.len >= Header \/ Loop = "bounce"
<1>1. test.len \in Nat \ {0} /\ test.reply \in Nat \ {0} /\ test.first \in Nat /\ test.amount \in Nat
      /\ test.sizes \subseteq Nat /\ test.first <= test.amount
  BY TestsAssumption DEF Types
<1>2. FirstPayload \in Nat /\ FirstPayload <= test.amount
  BY <1>1 DEF FirstPayload
<1>3. First \in Nat
  BY <1>1, <1>2 DEF First
<1>4. isburst \/ Loop \in {"congest", "events"} => test.len >= Header \/ Loop = "bounce"
  <2>1. {"Isochronous", "PeriodicBurst", "TripTime", "NearCongest", "WritePrefetch"} \cap test.flags # {}
        => test.len >= Header
    BY TestsAssumption DEF Types
  <2>2. \A f \in {"Isochronous", "PeriodicBurst", "TripTime", "NearCongest", "WritePrefetch"} :
          Is(f) => test.len >= Header
    BY <2>1 DEF Is
  <2>3. Loop = "congest" => Is("NearCongest")  BY DEF Loop
  <2>4. Loop = "events" => Is("WritePrefetch")  BY DEF Loop
  <2> QED BY <2>2, <2>3, <2>4 DEF isburst
<1> QED BY <1>1, <1>2, <1>3, <1>4, HeaderAssumption, BufferAssumption
-----------------------------------------------------------------------------
(* What a step leaves alone of the other end.                              *)
\* What an end leaves alone of the other.
Same(e) ==
  /\ pc'[e] = pc[e] /\ call'[e] = call[e] /\ begun'[e] = begun[e]
  /\ total'[e] = total[e] /\ reported'[e] = reported[e] /\ sent'[e] = sent[e]
  /\ dropped'[e] = dropped[e] /\ taken'[Peer(e)] = taken[Peer(e)]
  /\ (e \in closed' <=> e \in closed) /\ (e \in shut' <=> e \in shut)
  /\ (e \in peerclose' <=> e \in peerclose)
ServerSame == test' = test /\ nleft' = nleft /\ whole' = whole /\ over' = over /\ interrupted' = interrupted /\ Same("server")
ClientSame == test' = test /\ amount' = amount /\ left' = left /\ bursts' = bursts /\ over' = over /\ interrupted' = interrupted /\ Same("client")

\* A step of the client leaves alone what the server keeps and has read of it.
LEMMA ClientSteps == ASSUME Base, Client PROVE ServerSame
<1>0. /\ DOMAIN pc = Ends /\ DOMAIN call = Ends /\ DOMAIN begun = Ends /\ DOMAIN total = Ends
      /\ DOMAIN reported = Ends /\ DOMAIN sent = Ends /\ DOMAIN taken = Ends /\ DOMAIN dropped = Ends
  BY DEF Base, Places, Types, Calling
<1> USE <1>0, PeerOf DEF ServerSame, Same, Go, Stays, Call, wire, bytes, signals, sender, receiver,
    results, Report, Begun, Total, Ends
<1>1. CASE StartSynch  BY <1>1 DEF StartSynch
<1>2. CASE SelectTimeout  BY <1>2 DEF SelectTimeout
<1>3. CASE LoopEnds  BY <1>3 DEF LoopEnds
<1>4. CASE StreamBurst  BY <1>4 DEF StreamBurst, WriteTcpTxHdr
<1>5. CASE StreamTooLate  BY <1>5 DEF StreamTooLate
<1>6. CASE StreamBurstWritten  BY <1>6 DEF StreamBurstWritten, Written, Deduct
<1>7. CASE StreamWrite  BY <1>7 DEF StreamWrite
<1>8. CASE StreamWritten  BY <1>8 DEF StreamWritten, Written, Deduct
<1>9. CASE CongestBurst  BY <1>9 DEF CongestBurst, WriteTcpTxHdr
<1>10. CASE CongestWrite  BY <1>10 DEF CongestWrite
<1>11. CASE CongestWritten  BY <1>11 DEF CongestWritten, Deduct
<1>12. CASE RateBurst  BY <1>12 DEF RateBurst, WriteTcpTxHdr
<1>13. CASE RateBurstWritten  BY <1>13 DEF RateBurstWritten
<1>14. CASE RateWrite  BY <1>14 DEF RateWrite
<1>15. CASE RateWritten  BY <1>15 DEF RateWritten, Deduct
<1>16. CASE EventWrite  BY <1>16 DEF EventWrite, WriteTcpTxHdr
<1>17. CASE EventWritten  BY <1>17 DEF EventWritten, Deduct
<1>18. CASE Finish
  <2>1. UNCHANGED <<test, sent, taken, dropped, closed, over, interrupted, total, reported, begun, nleft, whole, peerclose>>
        /\ shut' \in {shut, shut \cup {"client"}} /\ call' = [call EXCEPT !["client"] = NoCall]
    BY <1>18 DEF Finish
  <2>2. pc'["server"] = pc["server"]
    BY <1>18 DEF Finish
  <2> QED BY <2>1, <2>2
<1>19. CASE AwaitServerCloseEvent  BY <1>19 DEF AwaitServerCloseEvent
<1>20. CASE ClientCloses  BY <1>20 DEF ClientCloses, Close
<1>21. CASE BounceBegin  BY <1>21 DEF BounceBegin
<1>22. CASE BounceWritten  BY <1>22 DEF BounceWritten, Finishes
<1>23. CASE BounceRead  BY <1>23 DEF BounceRead, Finishes, ReportRound
<1> QED BY <1>1, <1>2, <1>3, <1>4, <1>5, <1>6, <1>7, <1>8, <1>9, <1>10, <1>11, <1>12, <1>13,
    <1>14, <1>15, <1>16, <1>17, <1>18, <1>19, <1>20, <1>21, <1>22, <1>23 DEF Client,
    ClientTraffic, ClientBounces

\* A step of the server leaves alone what the client keeps and has sent.
LEMMA ServerSteps == ASSUME Base, Server PROVE ClientSame
<1>0. /\ DOMAIN pc = Ends /\ DOMAIN call = Ends /\ DOMAIN begun = Ends /\ DOMAIN total = Ends
      /\ DOMAIN reported = Ends /\ DOMAIN sent = Ends /\ DOMAIN taken = Ends /\ DOMAIN dropped = Ends
  BY DEF Base, Places, Types, Calling
<1> USE <1>0, PeerOf DEF ClientSame, Same, Go, Stays, Call, wire, bytes, signals, sender, receiver,
    results, Report, ReportRead, Begun, Total, Received, ServerLeaves, Ends
<1>1. CASE FirstRead BY <1>1 DEF FirstRead
<1>2. CASE NothingFirst BY <1>2 DEF NothingFirst
<1>3. CASE ReadHeader BY <1>3 DEF ReadHeader
<1>4. CASE HeaderRead BY <1>4 DEF HeaderRead
<1>5. CASE HeaderMissing BY <1>5 DEF HeaderMissing
<1>6. CASE ReadPayload BY <1>6 DEF ReadPayload
<1>7. CASE PayloadRead BY <1>7 DEF PayloadRead
<1>8. CASE NextRead BY <1>8 DEF NextRead
<1>9. CASE ServerLoopEnds BY <1>9 DEF ServerLoopEnds
<1>10. CASE ServerCloses BY <1>10 DEF ServerCloses, Close
<1>11. CASE ServerBounceEnds BY <1>11 DEF ServerBounceEnds
<1>12. CASE WriteBB BY <1>12 DEF WriteBB
<1>13. CASE Answered BY <1>13 DEF Answered
<1>14. CASE ReadBB BY <1>14 DEF ReadBB
<1>15. CASE RequestRead BY <1>15 DEF RequestRead, Finishes
<1> QED BY <1>1, <1>2, <1>3, <1>4, <1>5, <1>6, <1>7, <1>8, <1>9, <1>10, <1>11, <1>12, <1>13,
    <1>14, <1>15 DEF Server, ServerTraffic, ServerBounces
-----------------------------------------------------------------------------
(* The kernel.                                                             *)
\* A call of e moves n bytes, with the kernel or from it, or it returns.
Copies(e, n) ==
  /\ OpOf(pc[e]) \in {"write", "writen"}
  /\ sent' = [sent EXCEPT ![e] = @ + n] /\ n <= Room(e)
  /\ Moved(e)' = Moved(e) + n
  /\ (Returned(e)' => Result(e)' = Asked(e))
  /\ UNCHANGED <<taken, dropped, interrupted>>
Reads(e, n) ==
  /\ OpOf(pc[e]) \in {"recv", "recvn"}
  /\ taken' = [taken EXCEPT ![Peer(e)] = @ + n] /\ n <= Available(e)
  /\ Moved(e)' = Moved(e) + n
  /\ (Returned(e)' => Result(e)' = Moved(e)')
  /\ UNCHANGED <<sent, dropped, interrupted>>
Returns(e) ==
  /\ Returned(e)' /\ UNCHANGED <<sent, taken>>
  /\ OpOf(pc[e]) = "writen" => e \in interrupted \/ Peer(e) \in closed
  /\ \/ Moved(e)' = Moved(e) /\ UNCHANGED <<dropped, interrupted>>
     \/ /\ OpOf(pc[e]) = "recvn" /\ Result(e)' < 0 /\ Moved(e)' = 0
        /\ dropped' = [dropped EXCEPT ![e] = @ + Moved(e)]
        /\ interrupted' \in {interrupted, interrupted \cup {e}}
CallStep(e) ==
  /\ UNCHANGED <<test, shut, closed, over, late, Loops, rounds>>
  /\ OpOf(pc[e]) # "none" /\ ~Returned(e)
  /\ \E x : call' = [call EXCEPT ![e] = x]
  /\ (\E n \in Nat \ {0} : Copies(e, n) \/ Reads(e, n)) \/ Returns(e)

CallType == [op : {"none", "write", "writen", "recv", "recvn", "returned"}, len : Int, done : Nat]

\* A peer is an end, and another one.
LEMMA PeerIs == \A e \in Ends : Peer(e) \in Ends /\ Peer(e) # e
BY PeerOf DEF Ends

\* A step of the kernel on a call moves bytes or ends the call, and the call
\* stays well-formed: it has moved less than it was asked for or has returned.
LEMMA CallSteps ==
  ASSUME Base, NEW e \in Ends, Calls(e)
  PROVE CallStep(e) /\ CallOk(e)' /\ call' \in [Ends -> CallType]
<1> DEFINE c == call[e]
<1>0. /\ c \in CallType
      /\ CallOk(e) /\ DOMAIN call = Ends
  BY DEF Base, Calling, Ends, CallType
<1>1. UNCHANGED <<test, shut, closed, over, late, Loops, rounds>>
  BY DEF Calls, Kernel, Copy, WriteFails, WritenEnds, Receive, RecvEnds, RecvnEnds, wire, signals
<1>2. c.op \in {"write", "writen", "recv", "recvn"}
  BY DEF Calls, Kernel, Copy, WriteFails, WritenEnds, Receive, RecvEnds, RecvnEnds
<1>3. /\ OpOf(pc[e]) # "none" /\ c.op = OpOf(pc[e]) /\ ~Returned(e) /\ c.len = Asked(e) /\ c.len \in Nat
      /\ c.done \in Nat /\ c.done < c.len /\ (c.op = "recv" => c.done = 0) /\ Moved(e) = c.done
  BY <1>0, <1>2 DEF CallOk, NoCall, Returned, Moved
<1>4. Asked(e)' = Asked(e) /\ pc' = pc
  BY <1>1, Kept DEF Asked, Loops, sender, receiver, results, Less, Limit
<1>5. \E x : call' = [call EXCEPT ![e] = x]
  BY DEF Calls, Kernel, Copy, WriteFails, WritenEnds, Receive, RecvEnds, RecvnEnds, Return
<1>6. sent \in [Ends -> Nat] /\ taken \in [Ends -> Nat] /\ dropped \in [Ends -> Nat]
      /\ Available(e) \in Int /\ Room(e) \in Int
  <2>1. sent \in [Ends -> Nat] /\ taken \in [Ends -> Nat] /\ dropped \in [Ends -> Nat] /\ Peer(e) \in Ends
    BY PeerIs DEF Base, Types
  <2>2. Available(e) \in Int
    BY <2>1 DEF Available
  <2>3. Room(e) \in Int
    BY <2>1, BufferAssumption DEF Room
  <2> QED BY <2>1, <2>2, <2>3
<1>7. ASSUME call'[e] \in CallType
      PROVE  call' \in [Ends -> CallType]
  BY <1>5, <1>7 DEF Base, Calling, CallType
<1>8. ASSUME NEW m \in Nat, m < c.len, m > 0, c.op # "recv", call' = [call EXCEPT ![e].done = m]
      PROVE  CallOk(e)' /\ Moved(e)' = m /\ ~Returned(e)'
             /\ call'[e] \in CallType
  <2>1. call'[e] = [c EXCEPT !.done = m]
    BY <1>0, <1>8
  <2>2. call'[e].op = c.op /\ call'[e].len = c.len /\ call'[e].done = m
    BY <1>0, <2>1
  <2> QED BY <2>1, <2>2, <1>0, <1>2, <1>3, <1>4, <1>8 DEF CallOk, Moved, Returned, CallType
<1>9. ASSUME NEW m \in Int, m \in -2 .. Asked(e), OpOf(pc[e]) = "writen" => m >= 0, Return(e, m)
      PROVE  CallOk(e)' /\ Result(e)' = m /\ Returned(e)' /\ Moved(e)' = (IF m > 0 THEN m ELSE 0)
             /\ call'[e] \in CallType
  <2>1. call'[e] = [op |-> "returned", len |-> m, done |-> 0]
    BY <1>0, <1>9 DEF Return
  <2> QED BY <2>1, <1>3, <1>4, <1>9 DEF CallOk, Moved, Returned, Result, CallType
<1>0a. SUFFICES ((\E n \in Nat \ {0} : Copies(e, n) \/ Reads(e, n)) \/ Returns(e)) /\ CallOk(e)' /\ call'[e] \in CallType
  BY <1>1, <1>3, <1>5, <1>7 DEF CallStep
<1>10. CASE Copy(e)
  <2> DEFINE n == Less(c.len - c.done, Room(e))
  <2>1. Min({c.len - c.done, Room(e)}) = n
    BY <1>3, <1>6, MinOf
  <2>2. n > 0 /\ sent' = [sent EXCEPT ![e] = @ + n] /\ c.op \in {"write", "writen"}
        /\ UNCHANGED <<taken, dropped, interrupted>>
        /\ IF c.done + n = c.len THEN Return(e, c.len) ELSE call' = [call EXCEPT ![e].done = @ + n]
    BY <1>10, <2>1 DEF Copy, signals
  <2>3. n \in Nat \ {0} /\ c.done + n <= c.len /\ n <= Room(e)
    BY <2>2, <1>3, <1>6 DEF Less
  <2>4. CASE c.done + n = c.len
    <3>1. Return(e, c.len) /\ c.len \in Nat /\ c.len > 0 /\ c.len \in -2 .. Asked(e)
      BY <2>2, <2>3, <2>4, <1>3
    <3>2. CallOk(e)' /\ Result(e)' = c.len /\ Moved(e)' = c.len /\ call'[e] \in CallType
      BY <3>1, <1>9
    <3> QED BY <3>1, <3>2, <2>2, <2>3, <2>4, <1>3 DEF Copies
  <2>5. CASE c.done + n # c.len
    <3>1. call' = [call EXCEPT ![e].done = c.done + n]
      BY <2>2, <2>5, <1>0
    <3>2. c.done + n \in Nat /\ c.done + n > 0 /\ c.done + n < c.len /\ c.op # "recv"
      BY <2>2, <2>3, <2>5, <1>3
    <3>3. CallOk(e)' /\ Moved(e)' = c.done + n /\ ~Returned(e)' /\ call'[e] \in CallType
      BY <3>1, <3>2, <1>8
    <3> QED BY <3>3, <2>2, <2>3, <1>3 DEF Copies
  <2> QED BY <2>4, <2>5
<1>11. CASE Receive(e)
  <2> DEFINE n == Less(c.len - c.done, Available(e))
  <2>1. Min({c.len - c.done, Available(e)}) = n
    BY <1>3, <1>6, MinOf
  <2>2. n > 0 /\ taken' = [taken EXCEPT ![Peer(e)] = @ + n] /\ c.op \in {"recv", "recvn"}
        /\ UNCHANGED <<sent, dropped, interrupted>>
        /\ IF c.op = "recv" \/ c.done + n = c.len THEN Return(e, c.done + n) ELSE call' = [call EXCEPT ![e].done = @ + n]
    BY <1>11, <2>1 DEF Receive, signals
  <2>3. n \in Nat \ {0} /\ c.done + n <= c.len /\ n <= Available(e)
    BY <2>2, <1>3, <1>6 DEF Less
  <2>4. CASE c.op = "recv" \/ c.done + n = c.len
    <3>1. Return(e, c.done + n) /\ c.done + n \in Nat /\ c.done + n > 0 /\ c.done + n \in -2 .. Asked(e)
      BY <2>2, <2>3, <2>4, <1>3
    <3>2. CallOk(e)' /\ Result(e)' = c.done + n /\ Moved(e)' = c.done + n /\ call'[e] \in CallType
      BY <3>1, <1>9
    <3> QED BY <3>1, <3>2, <2>2, <2>3, <2>4, <1>3 DEF Reads
  <2>5. CASE ~(c.op = "recv" \/ c.done + n = c.len)
    <3>1. call' = [call EXCEPT ![e].done = c.done + n]
      BY <2>2, <2>5, <1>0
    <3>2. c.done + n \in Nat /\ c.done + n > 0 /\ c.done + n < c.len /\ c.op # "recv"
      BY <2>2, <2>3, <2>5, <1>3
    <3>3. CallOk(e)' /\ Moved(e)' = c.done + n /\ ~Returned(e)' /\ call'[e] \in CallType
      BY <3>1, <3>2, <1>8
    <3> QED BY <3>3, <2>2, <2>3, <1>3 DEF Reads
  <2> QED BY <2>4, <2>5
<1>12. CASE WriteFails(e)
  <2>1. \E m \in {IF c.done > 0 THEN c.done ELSE Again, IF c.done > 0 THEN c.done ELSE Fatal} : Return(e, m)
    BY <1>12 DEF WriteFails
  <2>2. UNCHANGED <<sent, taken, dropped, interrupted>> /\ c.op = "write"
    BY <1>12 DEF WriteFails, wire, bytes, signals
  <2> QED BY <2>1, <2>2, <1>3, <1>9 DEF Returns, Again, Fatal
<1>13. CASE WritenEnds(e)
  <2>2. UNCHANGED <<sent, taken, dropped, interrupted>> /\ Return(e, c.done) /\ (e \in interrupted \/ Peer(e) \in closed)
    BY <1>13 DEF WritenEnds, wire, bytes, signals
  <2> QED BY <2>2, <1>3, <1>9 DEF Returns
<1>14. CASE RecvEnds(e)
  <2>1. \E m \in {0, Again, Fatal} : Return(e, m)
    BY <1>14 DEF RecvEnds
  <2>2. UNCHANGED <<sent, taken, dropped, interrupted>> /\ c.op = "recv"
    BY <1>14 DEF RecvEnds, wire, bytes, signals
  <2> QED BY <2>1, <2>2, <1>3, <1>9 DEF Returns, Again, Fatal
<1>15. CASE RecvnEnds(e)
  <2>1. c.op = "recvn" /\ UNCHANGED <<sent, taken>>
    BY <1>15 DEF RecvnEnds
  <2>2. \/ Return(e, c.done) /\ UNCHANGED <<dropped, interrupted>>
        \/ /\ \E m \in {Again, Fatal} : Return(e, m)
           /\ dropped' = [dropped EXCEPT ![e] = @ + c.done]
           /\ interrupted' \in {interrupted, interrupted \cup {e}}
    BY <1>15 DEF RecvnEnds
  <2>3. CASE Return(e, c.done) /\ UNCHANGED <<dropped, interrupted>>
    BY <2>1, <2>3, <1>3, <1>9 DEF Returns
  <2>4. ASSUME NEW m \in {Again, Fatal}, Return(e, m), dropped' = [dropped EXCEPT ![e] = @ + c.done],
               interrupted' \in {interrupted, interrupted \cup {e}}
        PROVE  Returns(e) /\ CallOk(e)' /\ call'[e] \in CallType
    BY <2>1, <2>4, <1>3, <1>9 DEF Returns, Again, Fatal
  <2> QED BY <2>2, <2>3, <2>4
<1> QED BY <1>10, <1>11, <1>12, <1>13, <1>14, <1>15 DEF Calls, Kernel
-----------------------------------------------------------------------------
(* Places.                                                                 *)
\* The client stays in the loop of its test.
LEMMA ClientPlaces == ASSUME Base, Client PROVE Places'
<1>0. ServerSame /\ Loop' = Loop /\ Places /\ DOMAIN pc = Ends
  BY ClientSteps, Kept DEF ServerSame, Base, Places
<1>00. SUFFICES pc' = pc \/ \E l \in {"synch", "loop", "finish", "await", "report", "done", "failed", "burst", "write",
                       "congest burst", "congest write", "rate burst", "rate write", "event", "request", "reply"} :
           /\ pc' = [pc EXCEPT !["client"] = l]
           /\ l \in {"burst", "write"} => Loop = "stream"
           /\ l \in {"congest burst", "congest write"} => Loop = "congest"
           /\ l \in {"rate burst", "rate write"} => Loop = "rate"
           /\ l = "event" => Loop = "events"
           /\ l \in {"request", "reply"} => Loop = "bounce"
  <2>1. CASE pc' = pc  BY <2>1, <1>0, ZenonT(60) DEF Places
  <2>2. ASSUME NEW l, pc' = [pc EXCEPT !["client"] = l]
        PROVE  DOMAIN pc' = Ends /\ pc'["client"] = l /\ pc'["server"] = pc["server"]
    BY <2>2, <1>0 DEF Ends
  <2>3. ASSUME NEW l \in {"synch", "loop", "finish", "await", "report", "done", "failed", "burst", "write",
                        "congest burst", "congest write", "rate burst", "rate write", "event", "request", "reply"},
               pc' = [pc EXCEPT !["client"] = l],
               l \in {"burst", "write"} => Loop = "stream",
               l \in {"congest burst", "congest write"} => Loop = "congest",
               l \in {"rate burst", "rate write"} => Loop = "rate",
               l = "event" => Loop = "events",
               l \in {"request", "reply"} => Loop = "bounce"
        PROVE  Places'
    <3>1. DOMAIN pc' = Ends /\ pc'["client"] = l /\ pc'["server"] = pc["server"]  BY <2>2, <2>3
    <3>2. /\ Loop' = Loop
          /\ pc["server"] \in {"synch", "finish", "done", "loop", "header", "recv", "received",
                             "answer", "answering", "listen", "listening"}
          /\ pc["server"] \in {"loop", "header", "recv", "received"} => Loop # "bounce"
          /\ pc["server"] \in {"answer", "answering", "listen", "listening"} => Loop = "bounce"
      BY <1>0 DEF Places
    <3> QED BY <3>1, <3>2, <2>3, ZenonT(60) DEF Places
  <2> QED BY <2>1, <2>3
<1> USE <1>0 DEF Round, Go, At, Stays, wire, bytes, signals, sender, receiver, results, Places
<1>1. CASE StartSynch  BY <1>1 DEF StartSynch
<1>2. CASE SelectTimeout  BY <1>2 DEF SelectTimeout
<1>3. CASE LoopEnds  BY <1>3 DEF LoopEnds
<1>4. CASE StreamBurst  BY <1>4 DEF StreamBurst, WriteTcpTxHdr
<1>5. CASE StreamTooLate  BY <1>5 DEF StreamTooLate
<1>6. CASE StreamBurstWritten  BY <1>6 DEF StreamBurstWritten, Written, Deduct
<1>7. CASE StreamWrite  BY <1>7 DEF StreamWrite
<1>8. CASE StreamWritten  BY <1>8 DEF StreamWritten, Written, Deduct
<1>9. CASE CongestBurst  BY <1>9 DEF CongestBurst, WriteTcpTxHdr
<1>10. CASE CongestWrite  BY <1>10 DEF CongestWrite
<1>11. CASE CongestWritten  BY <1>11 DEF CongestWritten, Deduct
<1>12. CASE RateBurst  BY <1>12 DEF RateBurst, WriteTcpTxHdr
<1>13. CASE RateBurstWritten  BY <1>13 DEF RateBurstWritten
<1>14. CASE RateWrite  BY <1>14 DEF RateWrite
<1>15. CASE RateWritten  BY <1>15 DEF RateWritten, Deduct
<1>16. CASE EventWrite  BY <1>16 DEF EventWrite, WriteTcpTxHdr
<1>17. CASE EventWritten  BY <1>17 DEF EventWritten, Deduct
<1>18. CASE Finish  BY <1>18 DEF Finish
<1>19. CASE AwaitServerCloseEvent  BY <1>19 DEF AwaitServerCloseEvent
<1>20. CASE ClientCloses  BY <1>20 DEF ClientCloses, Close
<1>21. CASE BounceBegin  BY <1>21 DEF BounceBegin
<1>22. CASE BounceWritten  BY <1>22 DEF BounceWritten, Finishes
<1>23. CASE BounceRead  BY <1>23 DEF BounceRead, Finishes, ReportRound
<1> QED BY <1>1, <1>2, <1>3, <1>4, <1>5, <1>6, <1>7, <1>8, <1>9, <1>10, <1>11, <1>12, <1>13,
    <1>14, <1>15, <1>16, <1>17, <1>18, <1>19, <1>20, <1>21, <1>22, <1>23 DEF Client,
    ClientTraffic, ClientBounces

\* The server stays in the loop of its test.
LEMMA ServerPlaces == ASSUME Base, Server PROVE Places'
<1>0. ClientSame /\ Loop' = Loop /\ Places /\ DOMAIN pc = Ends
  BY ServerSteps, Kept DEF ClientSame, Base, Places
<1>00. SUFFICES pc' = pc \/ \E l \in {"synch", "finish", "done", "loop", "header", "recv", "received",
                       "answer", "answering", "listen", "listening"} :
           /\ pc' = [pc EXCEPT !["server"] = l]
           /\ l \in {"loop", "header", "recv", "received"} => Loop # "bounce"
           /\ l \in {"answer", "answering", "listen", "listening"} => Loop = "bounce"
  <2>1. pc'["client"] = pc["client"]  BY <1>0 DEF ClientSame, Same
  <2>2. CASE pc' = pc  BY <2>2, <1>0 DEF Places
  <2>3. ASSUME NEW l \in {"synch", "finish", "done", "loop", "header", "recv", "received",
                         "answer", "answering", "listen", "listening"},
               pc' = [pc EXCEPT !["server"] = l],
               l \in {"loop", "header", "recv", "received"} => Loop # "bounce",
               l \in {"answer", "answering", "listen", "listening"} => Loop = "bounce"
        PROVE  Places'
    <3>1. DOMAIN pc' = Ends /\ pc'["server"] = l  BY <2>3, <1>0 DEF Ends
    <3> QED BY <3>1, <2>1, <2>3, <1>0, ZenonT(60) DEF Places
  <2> QED BY <2>2, <2>3
<1>000. Is("BounceBack") <=> Loop = "bounce"
  BY DEF Loop
<1> USE <1>0, <1>000 DEF Round, Go, At, Stays, wire, bytes, signals, sender, receiver, results,
    Places, ServerLeaves
<1>1. CASE FirstRead  BY <1>1 DEF FirstRead
<1>2. CASE NothingFirst  BY <1>2 DEF NothingFirst
<1>3. CASE ReadHeader  BY <1>3 DEF ReadHeader
<1>4. CASE HeaderRead  BY <1>4 DEF HeaderRead
<1>5. CASE HeaderMissing  BY <1>5 DEF HeaderMissing
<1>6. CASE ReadPayload  BY <1>6 DEF ReadPayload
<1>7. CASE PayloadRead  BY <1>7 DEF PayloadRead
<1>8. CASE NextRead  BY <1>8 DEF NextRead
<1>9. CASE ServerLoopEnds  BY <1>9 DEF ServerLoopEnds
<1>10. CASE ServerCloses  BY <1>10 DEF ServerCloses, Close
<1>11. CASE ServerBounceEnds  BY <1>11 DEF ServerBounceEnds
<1>12. CASE WriteBB  BY <1>12 DEF WriteBB
<1>13. CASE Answered  BY <1>13 DEF Answered
<1>14. CASE ReadBB  BY <1>14 DEF ReadBB
<1>15. CASE RequestRead  BY <1>15 DEF RequestRead, Finishes
<1> QED BY <1>1, <1>2, <1>3, <1>4, <1>5, <1>6, <1>7, <1>8, <1>9, <1>10, <1>11, <1>12, <1>13,
    <1>14, <1>15 DEF Server, ServerTraffic, ServerBounces
-----------------------------------------------------------------------------
(* Amounts.                                                                *)
\* The amount left goes down to 0 and not below.
LEMMA DeductIs ==
  ASSUME Types, NEW n \in Int, Deduct(n)
  PROVE  amount' \in Nat /\ amount' = (IF Is("ModeTime") THEN amount ELSE IF amount >= n THEN amount - n ELSE 0)
<1>0. amount \in Nat  BY DEF Types
<1>1. Max({0, amount - n}) = IF 0 >= amount - n THEN 0 ELSE amount - n
  BY <1>0, MaxOf
<1> QED BY <1>0, <1>1 DEF Deduct

\* A write is not longer than the buffer, nor than the amount that is left.
LEMMA LimitIs == ASSUME Types PROVE Limited(test.len) = Limit /\ Limit \in Nat /\ Limit <= test.len
<1>1. test.len \in Nat /\ amount \in Nat  BY Settings DEF Types
<1>2. Min({amount, test.len}) = Less(amount, test.len)  BY <1>1, MinOf
<1> QED BY <1>1, <1>2 DEF Limited, Limit, Less

\* The total of an end goes up by what was moved; an error can make it a little less.
LEMMA TotalIs ==
  ASSUME Types, NEW e \in Ends, NEW n \in Int, Total(e, n)
  PROVE  /\ total' \in [Ends -> Int] /\ total'[e] = (IF total[e] + n >= -2 THEN total[e] + n ELSE -2)
         /\ \A f \in Ends : f # e => total'[f] = total[f]
<1>0. total \in [Ends -> Int]  BY DEF Types
<1>1. Max({total[e] + n, -2}) = (IF total[e] + n >= -2 THEN total[e] + n ELSE -2)
  BY <1>0, MaxOf
<1>2. -Patience = -2 BY DEF Patience
<1>3. total' = [total EXCEPT ![e] = IF total[e] + n >= -2 THEN total[e] + n ELSE -2]
  BY <1>0, <1>1, <1>2 DEF Total
<1> QED BY <1>0, <1>3

\* A call that has returned gives at the most what was asked for; writen gives
\* no error.
LEMMA ResultIs ==
  ASSUME Base, NEW e \in Ends, OpOf(pc[e]) # "none", Returned(e)
  PROVE  /\ Result(e) \in Int /\ Asked(e) \in Nat \ {0} /\ -2 <= Result(e) /\ Result(e) <= Asked(e)
         /\ (OpOf(pc[e]) = "writen" => Result(e) >= 0)
         /\ Moved(e) = (IF Result(e) > 0 THEN Result(e) ELSE 0)
<1>1. CallOk(e)  BY DEF Base, Calling, Ends
<1>2. OpOf("finish") = "none" /\ OpOf("failed") = "none"  BY Ops
<1>3. call[e] # NoCall  BY DEF Returned, NoCall
<1>4. OpOf(pc[e]) # "returned" BY DEF OpOf
<1> QED BY <1>1, <1>2, <1>3, <1>4 DEF CallOk, Returned, Result, Moved
-----------------------------------------------------------------------------
(* What a step of the client does. *)
Held == UNCHANGED <<sent, taken, dropped, shut, closed, rounds, bursts>>
Add(n) == IF one_report THEN 0 ELSE n
Fresh(l) ==
  /\ pc'["client"] = l
  /\ call' = [call EXCEPT !["client"] = [op |-> OpOf(l), len |-> Asked("client")', done |-> 0]]
  /\ Asked("client")' \in Nat \ {0}

\* It goes round its loop once more.
Starting == pc["client"] = "loop" /\ "client" \notin interrupted /\ (Is("ModeTime") \/ amount > 0)

StartsBurst(l, size) ==
  /\ Starting /\ Fresh(l) /\ size \in Nat \ {0}
  /\ bursts' = Append(bursts, [at |-> sent["client"], size |-> size])
  /\ \/ /\ l = "event" /\ Loop = "events" /\ left' = left /\ size = Asked("client")'
     \/ /\ \/ l = "burst" /\ Loop = "stream" /\ isburst
           \/ l = "rate burst" /\ Loop = "rate" /\ isburst /\ size = Max({test.len, Header})
           \/ l = "congest burst" /\ Loop = "congest" /\ size = test.len
        /\ left = 0 /\ left' = size /\ size >= Header
  /\ UNCHANGED <<amount, sent, taken, dropped, shut, closed, rounds, total, reported, begun>>

StartsWrite(l) ==
  /\ Starting /\ Fresh(l)
  /\ \/ l = "write" /\ Loop = "stream" /\ left' = left /\ begun' = begun /\ (isburst => left > 0)
     \/ l = "congest write" /\ Loop = "congest" /\ left' = left /\ begun' = begun /\ left > 0
     \/ l = "rate write" /\ Loop = "rate" /\ left' = test.len /\ begun' = [begun EXCEPT !["client"] = 0] /\ (isburst => left > 0)
  /\ Held /\ UNCHANGED <<amount, total, reported>>

Resumes ==
  /\ pc["client"] = "rate burst" /\ Returned("client") /\ Result("client") < left
  /\ Fresh("rate write")
  /\ left' = left - Result("client") /\ begun' = [begun EXCEPT !["client"] = Result("client")]
  /\ Held /\ UNCHANGED <<amount, total, reported>>

EndsWrite(n) ==
  /\ pc["client"] \in {"burst", "write", "congest burst", "congest write", "rate burst", "rate write", "event"}
  /\ Returned("client")
  /\ pc["client"] \in {"burst", "congest burst"} => Result("client") >= Header
  /\ pc["client"] = "rate burst" => Result("client") = left
  /\ n = Moved("client") + (IF pc["client"] = "rate write" THEN begun["client"] ELSE 0)
  /\ pc' = [pc EXCEPT !["client"] = "loop"] /\ call' = [call EXCEPT !["client"] = NoCall]
  /\ amount' = IF Is("ModeTime") THEN amount ELSE IF amount >= n THEN amount - n ELSE 0
  /\ left' = IF pc["client"] \in {"rate write", "event"} \/ (pc["client"] = "write" /\ ~isburst) THEN left ELSE left - n
  /\ IF pc["client"] = "event" THEN total' = total
     ELSE IF pc["client"] = "rate write" /\ Result("client") = Again THEN Total("client", 0) ELSE Total("client", n)
  /\ \E m \in Nat : Report("client", m) /\ (Loop # "congest" => m = Add(n))
  /\ Held /\ begun' = begun

FailsWrite ==
  /\ Returned("client")
  /\ \/ /\ pc["client"] \in {"burst", "congest burst"} /\ Result("client") < Header
        /\ pc' = [pc EXCEPT !["client"] = "failed"]
     \/ /\ pc["client"] \in {"write", "congest write", "rate write"} /\ Result("client") = Fatal
        /\ pc' = [pc EXCEPT !["client"] = "finish"]
  /\ call' = call
  /\ Held /\ UNCHANGED <<amount, left, total, reported, begun>>

Leaves ==
  /\ UNCHANGED <<sent, dropped, amount, left, bursts, total, begun, rounds>>
  /\ taken' \in {taken, [taken EXCEPT !["server"] = sent["server"]]}
  /\ \/ /\ pc["client"] = "loop" /\ UNCHANGED <<call, shut, closed, reported>>
        /\ pc' \in {pc, [pc EXCEPT !["client"] = "finish"]}
     \/ /\ pc["client"] = "finish" /\ call' = [call EXCEPT !["client"] = NoCall] /\ UNCHANGED <<closed, reported>>
        /\ \/ pc' = [pc EXCEPT !["client"] = "report"] /\ shut' = shut
           \/ pc' = [pc EXCEPT !["client"] = "await"] /\ shut' = shut \cup {"client"}
     \/ /\ pc["client"] = "await" /\ UNCHANGED <<call, shut, closed, reported>>
        /\ pc' \in {pc, [pc EXCEPT !["client"] = "report"]}
     \/ /\ pc["client"] = "report" /\ pc' = [pc EXCEPT !["client"] = "done"]
        /\ Report("client", IF one_report THEN total["client"] ELSE 0) /\ call' = call
        /\ closed' = closed \cup {"client"} /\ shut' = shut \cup {"client"}
     \/ /\ pc["client"] = "failed" /\ UNCHANGED <<pc, call, reported>>
        /\ closed' = closed \cup {"client"} /\ shut' = shut \cup {"client"}

Starts ==
  /\ pc["client"] = "synch" /\ pc' = [pc EXCEPT !["client"] = "loop"]
  /\ sent' = [sent EXCEPT !["client"] = FirstPayload] /\ Report("client", FirstPayload)
  /\ amount' = IF Is("ModeTime") THEN amount ELSE amount - FirstPayload
  /\ UNCHANGED <<taken, dropped, shut, closed, call, total, left, begun, bursts, rounds>>

ClientDoes ==
  \/ \E l, size : StartsBurst(l, size)
  \/ \E l : StartsWrite(l)
  \/ Resumes
  \/ \E n \in Nat : EndsWrite(n)
  \/ FailsWrite
  \/ Leaves
  \/ Starts
  \/ ClientBounces

\* The lesser of two positive numbers is one.
LEMMA LessIs == ASSUME NEW a \in Nat \ {0}, NEW b \in Nat \ {0}
                PROVE  Less(a, b) \in Nat \ {0} /\ Less(a, b) <= a /\ Less(a, b) <= b
BY DEF Less

\* Every step of the client, in whichever loop, is one of a few forms.
LEMMA ClientSorts == ASSUME Base, Client PROVE ClientDoes
<1>0. Types /\ Places /\ Shapes /\ DOMAIN pc = Ends /\ DOMAIN call = Ends /\ ServerSame /\ (isburst' <=> isburst) /\ test.len \in Nat \ {0} /\ left \in Nat /\ amount \in Nat /\ begun \in [Ends -> Nat] /\ bursts \in Seq([at : Nat, size : Nat \ {0}])
  BY ClientSteps, Kept, Settings DEF Base, Places, ServerSame, Calling, Types
<1>p. \A l : pc' = [pc EXCEPT !["client"] = l] => pc'["client"] = l
  BY <1>0 DEF Ends
<1>n. test.len \in Nat \ {0} /\ left \in Nat /\ amount \in Nat
  BY <1>0
<1>1. OpOf(pc["client"]) # "none" /\ Returned("client")
        => Result("client") \in Int /\ Asked("client") \in Nat /\ -2 <= Result("client") /\ Result("client") <= Asked("client")
           /\ (OpOf(pc["client"]) = "writen" => Result("client") >= 0)
           /\ Moved("client") = (IF Result("client") > 0 THEN Result("client") ELSE 0)
  BY ResultIs DEF Ends
<1>2. Starting <=> pc["client"] = "loop" /\ "client" \notin interrupted /\ (Is("ModeTime") \/ amount > 0)
  BY DEF Starting
<1>w. ASSUME Returned("client"), pc["client"] \in {"burst", "rate burst", "event"}
      PROVE  Result("client") \in Nat /\ Moved("client") = Result("client")
  <2>1. OpOf(pc["client"]) # "none" /\ OpOf(pc["client"]) = "writen"
    BY <1>w, Ops
  <2>2. Result("client") \in Int /\ Result("client") >= 0
    BY <2>1, <1>w, <1>1
  <2>3. Moved("client") = (IF Result("client") > 0 THEN Result("client") ELSE 0)
    BY <2>1, <1>w, <1>1
  <2> QED BY <2>2, <2>3
<1>r. ASSUME Returned("client"), pc["client"] \in {"burst", "write", "congest burst", "congest write", "rate burst", "rate write", "event"}
      PROVE  /\ Result("client") \in Int /\ Moved("client") = (IF Result("client") > 0 THEN Result("client") ELSE 0)
             /\ Moved("client") \in Nat /\ Max({0, Result("client")}) = Moved("client")
  <2>1. OpOf(pc["client"]) # "none"
    BY <1>r, Ops
  <2>2. Result("client") \in Int /\ Moved("client") = (IF Result("client") > 0 THEN Result("client") ELSE 0)
    BY <2>1, <1>r, <1>1
  <2>3. Max({0, Result("client")}) = IF 0 >= Result("client") THEN 0 ELSE Result("client")
    BY <2>2, MaxOf
  <2> QED BY <2>2, <2>3
<1>d. \A n \in Int : Deduct(n) => amount' = (IF Is("ModeTime") THEN amount ELSE IF amount >= n THEN amount - n ELSE 0)
  BY <1>0, DeductIs
<1>3. \A l : Round(l) => Loop = l /\ Starting
  BY DEF Round, At, InProgress, Starting
<1> USE DEF Go, At, Stays, wire, bytes, signals, sender, receiver, results, Held, Begun
<1>4. SUFFICES ASSUME ClientTraffic, rounds' = rounds PROVE ClientDoes
  BY DEF Client, ClientDoes
<1>5. CASE StartSynch
  <2>1. Starts  BY <1>4, <1>5 DEF StartSynch, Starts
  <2> QED BY <2>1 DEF ClientDoes
<1>6. CASE SelectTimeout \/ LoopEnds \/ StreamTooLate
  <2>1. Leaves
    BY <1>4, <1>6, <1>0, <1>3 DEF SelectTimeout, LoopEnds, StreamTooLate, Leaves, Starting
  <2> QED BY <2>1 DEF ClientDoes
<1>7. CASE Finish
  <2>1. Leaves  BY <1>4, <1>7 DEF Finish, Leaves
  <2> QED BY <2>1 DEF ClientDoes
<1>8. CASE AwaitServerCloseEvent
  <2>1. Leaves  BY <1>4, <1>8 DEF AwaitServerCloseEvent, Leaves
  <2> QED BY <2>1 DEF ClientDoes
<1>9. CASE ClientCloses
  <2>1. Leaves  BY <1>4, <1>9 DEF ClientCloses, Close, Leaves
  <2> QED BY <2>1 DEF ClientDoes
<1>10. CASE StreamBurst
  <2>1. PICK size \in test.sizes :
          /\ left' = Max({size, Header}) /\ bursts' = Append(bursts, [at |-> sent["client"], size |-> left'])
          /\ call' = [call EXCEPT !["client"] = [op |-> "writen", len |-> Min({test.len, left'}), done |-> 0]]
    BY <1>10 DEF StreamBurst, WriteTcpTxHdr, Call
  <2>2. pc' = [pc EXCEPT !["client"] = "burst"] /\ isburst /\ left = 0 /\ Loop = "stream" /\ Starting
        /\ UNCHANGED <<amount, sent, taken, dropped, shut, closed, total, reported, begun, test>>
    BY <1>10, <1>0, <1>3 DEF StreamBurst
  <2>3. size \in Nat /\ Header \in Nat \ {0}
    BY <1>0, Settings
  <2>4. left' \in Nat \ {0} /\ left' >= Header
    BY <2>1, <2>3, MaxOf
  <2>5. Min({test.len, left'}) = Less(test.len, left')
    BY <2>4, <1>n, MinOf
  <2>6. Asked("client")' = Less(test.len, left') /\ Less(test.len, left') \in Nat \ {0}
    <3>1. pc'["client"] = "burst"  BY <2>2, <1>0 DEF Ends
    <3>2. left' \in Nat \ {0}  BY <2>1, <2>4
    <3> QED BY <3>1, <3>2, <2>2, <1>0 DEF Asked, Less
  <2>7. StartsBurst("burst", left')
    BY <2>1, <2>2, <2>4, <2>5, <2>6, <1>4, <1>p, Ops DEF StartsBurst, Fresh
  <2> QED BY <2>7 DEF ClientDoes
<1>11. CASE StreamBurstWritten
  <2>1. pc["client"] = "burst" /\ Returned("client") /\ Held /\ begun' = begun
    BY <1>11, <1>4 DEF StreamBurstWritten
  <2>r. Result("client") \in Nat /\ Moved("client") = Result("client") /\ Header \in Nat
    BY <2>1, <1>w, HeaderAssumption
  <2>b. isburst BY <2>1, <1>0 DEF Shapes
  <2>2. CASE Result("client") < Header
    <3>1. FailsWrite  BY <1>11, <2>1, <2>2 DEF StreamBurstWritten, FailsWrite
    <3> QED BY <3>1 DEF ClientDoes
  <2>3. CASE ~(Result("client") < Header)
    <3>1. Written(Result("client"))  BY <1>11, <2>3 DEF StreamBurstWritten
    <3>2. Result("client") >= Header  BY <2>3, <2>r
    <3>3. amount' = (IF Is("ModeTime") THEN amount ELSE IF amount >= Moved("client") THEN amount - Moved("client") ELSE 0)
      BY <3>1, <2>r, <1>d DEF Written
    <3>4. Report("client", Add(Moved("client"))) /\ Add(Moved("client")) \in Nat
      BY <3>1, <2>r DEF Written, Add
    <3>5. left' = left - Moved("client") /\ Total("client", Moved("client"))
      BY <3>1, <2>r, <2>b DEF Written
    <3>6. Moved("client") + 0 = Moved("client")  BY <2>r
    <3>7. pc' = [pc EXCEPT !["client"] = "loop"] /\ call' = [call EXCEPT !["client"] = NoCall]
      BY <3>1 DEF Written
    <3>8. EndsWrite(Moved("client"))
      BY <2>1, <3>2, <3>3, <3>4, <3>5, <3>6, <3>7 DEF EndsWrite
    <3> QED BY <3>8, <2>r DEF ClientDoes
  <2> QED BY <2>2, <2>3
<1>12. CASE StreamWrite
  <2>1. /\ pc' = [pc EXCEPT !["client"] = "write"] /\ Loop = "stream" /\ Starting /\ (isburst => left > 0)
        /\ call' = [call EXCEPT !["client"] = [op |-> "write", len |-> IF isburst THEN Less(test.len, left) ELSE Limit, done |-> 0]]
        /\ UNCHANGED <<amount, left, bursts, sent, taken, dropped, shut, closed, total, reported, begun, test>>
    <3>1. Min({test.len, left}) = Less(test.len, left) /\ Limited(test.len) = Limit
      <4>1. Min({test.len, left}) = Less(test.len, left)  BY <1>n, MinOf
      <4> QED BY <4>1, <1>0, LimitIs
    <3>2. isburst /\ ~(isburst /\ left <= 0) => left > 0  BY <1>0
    <3> QED BY <1>12, <1>3, <3>1, <3>2 DEF StreamWrite, Call
  <2>2. Limit' = Limit /\ Limit \in Nat \ {0}
    BY <2>1, <1>0 DEF Limit, Less, Is, Starting
  <2>3. Asked("client")' = (IF isburst THEN Less(test.len, left) ELSE Limit) /\ Asked("client")' \in Nat \ {0}
    <3>1. pc'["client"] = "write"  BY <2>1, <1>0 DEF Ends
    <3> QED BY <3>1, <2>1, <2>2, <1>0 DEF Asked, Less
  <2>4. StartsWrite("write")
    BY <2>1, <2>3, <1>4, <1>p, Ops DEF StartsWrite, Fresh
  <2> QED BY <2>4 DEF ClientDoes
<1>13. CASE StreamWritten
  <2>1. pc["client"] = "write" /\ Returned("client") /\ Held /\ begun' = begun
    BY <1>13, <1>4 DEF StreamWritten
  <2>r. Result("client") \in Int /\ Moved("client") \in Nat /\ Max({0, Result("client")}) = Moved("client")
    BY <2>1, <1>r
  <2>2. CASE Result("client") = Fatal
    <3>1. FailsWrite  BY <1>13, <2>1, <2>2 DEF StreamWritten, FailsWrite
    <3> QED BY <3>1 DEF ClientDoes
  <2>3. CASE Result("client") # Fatal
    <3>1. Written(Moved("client"))  BY <1>13, <2>3, <2>r DEF StreamWritten
    <3>3. amount' = (IF Is("ModeTime") THEN amount ELSE IF amount >= Moved("client") THEN amount - Moved("client") ELSE 0)
      BY <3>1, <2>r, <1>d DEF Written
    <3>4. Report("client", Add(Moved("client"))) /\ Add(Moved("client")) \in Nat
      BY <3>1, <2>r DEF Written, Add
    <3>5. left' = (IF isburst THEN left - Moved("client") ELSE left) /\ Total("client", Moved("client"))
      BY <3>1 DEF Written
    <3>6. Moved("client") + 0 = Moved("client")  BY <2>r
    <3>7. pc' = [pc EXCEPT !["client"] = "loop"] /\ call' = [call EXCEPT !["client"] = NoCall]
      BY <3>1 DEF Written
    <3>8. EndsWrite(Moved("client"))
      BY <2>1, <3>3, <3>4, <3>5, <3>6, <3>7 DEF EndsWrite
    <3> QED BY <3>8, <2>r DEF ClientDoes
  <2> QED BY <2>2, <2>3
<1>14. CASE CongestBurst
  <2>1. /\ pc' = [pc EXCEPT !["client"] = "congest burst"] /\ left = 0 /\ left' = test.len /\ Loop = "congest" /\ Starting
        /\ bursts' = Append(bursts, [at |-> sent["client"], size |-> test.len])
        /\ call' = [call EXCEPT !["client"] = [op |-> "write", len |-> test.len, done |-> 0]]
        /\ UNCHANGED <<amount, sent, taken, dropped, shut, closed, total, reported, begun, test>>
    BY <1>14, <1>3 DEF CongestBurst, WriteTcpTxHdr, Call
  <2>2. Asked("client")' = test.len /\ test.len >= Header
    <3>1. pc'["client"] = "congest burst"  BY <2>1, <1>0 DEF Ends
    <3> QED BY <3>1, <2>1, <1>0, Settings DEF Asked
  <2>3. StartsBurst("congest burst", test.len)
    BY <2>1, <2>2, <1>0, <1>4, <1>p, Ops DEF StartsBurst, Fresh
  <2> QED BY <2>3 DEF ClientDoes
<1>15. CASE CongestWrite
  <2>1. /\ pc' = [pc EXCEPT !["client"] = "congest write"] /\ Loop = "congest" /\ Starting /\ left > 0
        /\ call' = [call EXCEPT !["client"] = [op |-> "write", len |-> Less(Limit, left), done |-> 0]]
        /\ UNCHANGED <<amount, left, bursts, sent, taken, dropped, shut, closed, total, reported, begun, test>>
    <3>1. Min({Limit, left}) = Less(Limit, left) /\ Limited(test.len) = Limit
      <4>0. Limited(test.len) = Limit /\ Limit \in Nat  BY <1>0, LimitIs
      <4>1. Limit \in Int /\ left \in Int  BY <4>0, <1>n
      <4>2. Min({Limit, left}) = Less(Limit, left)  BY <4>1, MinOf
      <4> QED BY <4>0, <4>2, Zenon
    <3>2. left # 0 => left > 0  BY <1>0
    <3> QED BY <1>15, <1>3, <3>1, <3>2 DEF CongestWrite, Call
  <2>2. Limit' = Limit /\ Limit \in Nat \ {0}
    <3>1. Limit' = Limit  BY <2>1 DEF Limit, Less, Is
    <3>2. Is("ModeTime") \/ amount > 0  BY <2>1 DEF Starting
    <3>3. Limit \in Nat \ {0}  BY <3>2, <1>n DEF Limit, Less
    <3> QED BY <3>1, <3>3
  <2>3. Asked("client")' = Less(Limit, left) /\ Asked("client")' \in Nat \ {0}
    <3>1. pc'["client"] = "congest write"  BY <2>1, <1>0 DEF Ends
    <3>2. Less(Limit, left) \in Nat \ {0}
      <4>0. left > 0  BY <2>1
      <4>1. left \in Nat \ {0}  BY <4>0, <1>n
      <4>2. Limit \in Nat \ {0}  BY <2>2
      <4> QED BY <4>1, <4>2, LessIs
    <3>3. Less(Limit, left)' = Less(Limit, left)  BY <2>1, <2>2 DEF Less
    <3> QED BY <3>1, <3>2, <3>3 DEF Asked
  <2>4. StartsWrite("congest write")
    BY <2>1, <2>3, <1>4, <1>p, Ops DEF StartsWrite, Fresh
  <2> QED BY <2>4 DEF ClientDoes
<1>16. CASE CongestWritten
  <2>1. pc["client"] \in {"congest burst", "congest write"} /\ Returned("client") /\ Held /\ begun' = begun
    BY <1>16, <1>4 DEF CongestWritten
  <2>r. Result("client") \in Int /\ Moved("client") \in Nat /\ Max({0, Result("client")}) = Moved("client")
    BY <2>1, <1>r
  <2>2. CASE FailsWrite  BY <2>2 DEF ClientDoes
  <2>3. CASE ~FailsWrite
    <3>1. /\ IF pc["client"] = "congest burst" THEN Result("client") >= Header ELSE Result("client") # Fatal
          /\ Total("client", Moved("client")) /\ Deduct(Moved("client")) /\ left' = left - Moved("client")
          /\ Report("client", IF left' <= 0 THEN Moved("client") ELSE 0)
          /\ call' = [call EXCEPT !["client"] = NoCall] /\ pc' = [pc EXCEPT !["client"] = "loop"]
      BY <1>16, <2>1, <2>3, <2>r DEF CongestWritten, FailsWrite
    <3>2. pc["client"] = "congest burst" => Result("client") >= Header  BY <3>1
    <3>3. amount' = (IF Is("ModeTime") THEN amount ELSE IF amount >= Moved("client") THEN amount - Moved("client") ELSE 0)
      <4>1. Deduct(Moved("client"))  BY <3>1
      <4>2. Moved("client") \in Int  BY <2>r
      <4> QED BY <4>1, <4>2, <1>d
    <3>4. \E m \in Nat : Report("client", m)
      <4>1. (IF left' <= 0 THEN Moved("client") ELSE 0) \in Nat  BY <2>r
      <4> QED BY <4>1, <3>1
    <3>5. left' = left - Moved("client") /\ Total("client", Moved("client"))
      BY <3>1
    <3>6. Moved("client") + 0 = Moved("client")  BY <2>r
    <3>7. pc' = [pc EXCEPT !["client"] = "loop"] /\ call' = [call EXCEPT !["client"] = NoCall]
      BY <3>1
    <3>9. Loop = "congest"  BY <2>1, <1>0 DEF Places
    <3>8. EndsWrite(Moved("client"))
      BY <2>1, <3>2, <3>3, <3>4, <3>5, <3>6, <3>7, <3>9 DEF EndsWrite
    <3> QED BY <3>8, <2>r DEF ClientDoes
  <2> QED BY <2>2, <2>3
<1>17. CASE RateBurst
  <2>1. /\ pc' = [pc EXCEPT !["client"] = "rate burst"] /\ isburst /\ left = 0 /\ left' = Max({test.len, Header}) /\ Loop = "rate" /\ Starting
        /\ bursts' = Append(bursts, [at |-> sent["client"], size |-> left'])
        /\ call' = [call EXCEPT !["client"] = [op |-> "writen", len |-> left', done |-> 0]]
        /\ UNCHANGED <<amount, sent, taken, dropped, shut, closed, total, reported, begun, test>>
    <3>1. left <= 0 => left = 0  BY <1>0
    <3> QED BY <1>17, <1>3, <3>1 DEF RateBurst, WriteTcpTxHdr, Call
  <2>2. left' \in Nat \ {0} /\ left' >= Header
    <3>1. Header \in Nat \ {0}  BY <1>0, Settings
    <3>2. Max({test.len, Header}) = IF test.len >= Header THEN test.len ELSE Header
      BY <3>1, <1>n, MaxOf
    <3>3. left' = IF test.len >= Header THEN test.len ELSE Header  BY <2>1, <3>2
    <3> QED BY <3>1, <3>3, <1>n
  <2>3. Asked("client")' = left'
    <3>1. pc'["client"] = "rate burst"  BY <2>1, <1>0 DEF Ends
    <3> QED BY <3>1 DEF Asked
  <2>4. StartsBurst("rate burst", left')
    BY <2>1, <2>2, <2>3, <1>4, <1>p, Ops DEF StartsBurst, Fresh
  <2> QED BY <2>4 DEF ClientDoes
<1>18. CASE RateBurstWritten
  <2>1. /\ pc["client"] = "rate burst" /\ Returned("client") /\ Result("client") < left
        /\ pc' = [pc EXCEPT !["client"] = "rate write"]
        /\ left' = left - Result("client") /\ begun' = [begun EXCEPT !["client"] = Result("client")]
        /\ call' = [call EXCEPT !["client"] = [op |-> "write", len |-> left', done |-> 0]]
        /\ UNCHANGED <<amount, bursts, sent, taken, dropped, shut, closed, total, reported, test>>
    BY <1>18 DEF RateBurstWritten, Call
  <2>2. Asked("client")' = left'
    <3>1. pc'["client"] = "rate write"  BY <2>1, <1>0 DEF Ends
    <3> QED BY <3>1 DEF Asked
  <2>3. left' \in Nat \ {0}
    <3>1. OpOf(pc["client"]) = "writen"  BY <2>1, Ops
    <3>2. Result("client") \in Nat
      <4>1. Returned("client") /\ OpOf(pc["client"]) # "none"  BY <3>1, <2>1
      <4>2. Result("client") \in Int /\ Result("client") >= 0  BY <3>1, <4>1, <1>1
      <4> QED BY <4>2
    <3>3. left' = left - Result("client") /\ Result("client") < left  BY <2>1
    <3> QED BY <3>2, <3>3, <1>n
  <2>4. Resumes
    BY <2>1, <2>2, <2>3, <1>4, <1>p, Ops DEF Resumes, Fresh
  <2> QED BY <2>4 DEF ClientDoes
<1>19. CASE RateWrite
  <2>1. /\ pc' = [pc EXCEPT !["client"] = "rate write"] /\ Loop = "rate" /\ Starting /\ (isburst => left > 0)
        /\ left' = test.len /\ begun' = [begun EXCEPT !["client"] = 0]
        /\ call' = [call EXCEPT !["client"] = [op |-> "write", len |-> test.len, done |-> 0]]
        /\ UNCHANGED <<amount, bursts, sent, taken, dropped, shut, closed, total, reported, test>>
    <3>1. isburst /\ ~(isburst /\ left <= 0) => left > 0  BY <1>0
    <3> QED BY <1>19, <1>3, <3>1 DEF RateWrite, Call
  <2>2. Asked("client")' = test.len
    <3>1. pc'["client"] = "rate write"  BY <2>1, <1>0 DEF Ends
    <3> QED BY <3>1, <2>1 DEF Asked
  <2>3. StartsWrite("rate write")
    BY <2>1, <2>2, <1>0, <1>4, <1>p, Ops DEF StartsWrite, Fresh
  <2> QED BY <2>3 DEF ClientDoes
<1>20. CASE RateWritten
  <2> DEFINE n == IF pc["client"] = "rate burst" THEN Result("client") ELSE begun["client"] + Max({0, Result("client")})
             k == Moved("client") + (IF pc["client"] = "rate write" THEN begun["client"] ELSE 0)
  <2>1. /\ \/ pc["client"] = "rate burst" /\ Result("client") = left
           \/ pc["client"] = "rate write"
        /\ Returned("client") /\ Held /\ begun' = begun
    BY <1>20, <1>4 DEF RateWritten
  <2>r. Result("client") \in Int /\ Moved("client") \in Nat /\ Max({0, Result("client")}) = Moved("client")
    BY <2>1, <1>r
  <2>w. ASSUME pc["client"] = "rate burst"
        PROVE  Result("client") \in Nat /\ Moved("client") = Result("client")
    BY <2>w, <2>1, <1>w
  <2>b. begun["client"] \in Nat  BY <1>0 DEF Ends
  <2>k. k \in Nat /\ n = k
    <3>1. CASE pc["client"] = "rate burst"
      <4>1. n = Result("client") /\ k = Moved("client") + 0  BY <3>1
      <4>2. Result("client") \in Nat /\ Moved("client") = Result("client")  BY <3>1, <2>w
      <4> HIDE DEF n, k
      <4> QED BY <4>1, <4>2
    <3>2. CASE pc["client"] = "rate write"
      <4>1. n = begun["client"] + Moved("client") /\ k = Moved("client") + begun["client"]
        BY <3>2, <2>r
      <4>2. begun["client"] + Moved("client") \in Nat /\ begun["client"] + Moved("client") = Moved("client") + begun["client"]
        BY <2>r, <2>b
      <4> HIDE DEF n, k
      <4> QED BY <4>1, <4>2
    <3> QED BY <3>1, <3>2, <2>1
  <2>2. CASE Result("client") = Fatal
    <3>1. pc["client"] = "rate write"
      <4>1. Fatal \notin Nat  BY DEF Fatal
      <4> QED BY <2>1, <2>2, <2>w, <4>1
    <3>2. FailsWrite  BY <1>20, <2>1, <2>2, <3>1 DEF RateWritten, FailsWrite
    <3> QED BY <3>2 DEF ClientDoes
  <2>3. CASE Result("client") # Fatal
    <3>0. /\ Total("client", IF Result("client") = Again THEN 0 ELSE k) /\ Deduct(k)
          /\ left' = (IF pc["client"] = "rate burst" THEN 0 ELSE left)
          /\ Report("client", IF one_report THEN 0 ELSE k)
          /\ call' = [call EXCEPT !["client"] = NoCall] /\ pc' = [pc EXCEPT !["client"] = "loop"]
      <4>1. /\ Total("client", IF Result("client") = Again THEN 0 ELSE n) /\ Deduct(n)
            /\ left' = (IF pc["client"] = "rate burst" THEN 0 ELSE left)
            /\ Report("client", IF one_report THEN 0 ELSE n)
            /\ call' = [call EXCEPT !["client"] = NoCall] /\ pc' = [pc EXCEPT !["client"] = "loop"]
        BY <1>20, <2>3 DEF RateWritten
      <4> HIDE DEF n, k
      <4> QED BY <4>1, <2>k
    <3> HIDE DEF n, k
    <3>3. amount' = (IF Is("ModeTime") THEN amount ELSE IF amount >= k THEN amount - k ELSE 0)
      <4>1. Deduct(k)  BY <3>0
      <4>2. k \in Int  BY <2>k
      <4> QED BY <4>1, <4>2, <1>d
    <3>4. Report("client", Add(k)) /\ Add(k) \in Nat
      BY <3>0, <2>k DEF Add
    <3>5. left' = (IF pc["client"] = "rate write" THEN left ELSE left - k)
      <4>1. CASE pc["client"] = "rate write"  BY <4>1, <3>0
      <4>2. CASE pc["client"] = "rate burst"
        <5>1. k = left
          <6>1. k = Moved("client") + 0  BY <4>2 DEF k
          <6>2. Moved("client") = left /\ Moved("client") \in Nat  BY <4>2, <2>1, <2>w
          <6> QED BY <6>1, <6>2
        <5>2. left - left = 0  BY <1>n
        <5> QED BY <4>2, <5>1, <5>2, <3>0
      <4> QED BY <4>1, <4>2, <2>1
    <3>6. IF pc["client"] = "rate write" /\ Result("client") = Again THEN Total("client", 0) ELSE Total("client", k)
      <4>1. pc["client"] = "rate burst" => Result("client") # Again
        <5>1. Again \notin Nat  BY DEF Again
        <5> QED BY <2>w, <5>1
      <4> QED BY <3>0, <2>1, <4>1
    <3>7. pc' = [pc EXCEPT !["client"] = "loop"] /\ call' = [call EXCEPT !["client"] = NoCall]
      BY <3>0
    <3>9. k = Moved("client") + (IF pc["client"] = "rate write" THEN begun["client"] ELSE 0)
      BY DEF k
    <3>8. EndsWrite(k)
      BY <2>1, <3>3, <3>4, <3>5, <3>6, <3>7, <3>9 DEF EndsWrite
    <3> QED BY <3>8, <2>k DEF ClientDoes
  <2> QED BY <2>2, <2>3
<1>21. CASE EventWrite
  <2>1. /\ pc' = [pc EXCEPT !["client"] = "event"] /\ Loop = "events" /\ Starting
        /\ bursts' = Append(bursts, [at |-> sent["client"], size |-> Limit])
        /\ call' = [call EXCEPT !["client"] = [op |-> "writen", len |-> Limit, done |-> 0]]
        /\ UNCHANGED <<amount, left, sent, taken, dropped, shut, closed, total, reported, begun, test>>
    BY <1>21, <1>0, <1>3, LimitIs DEF EventWrite, WriteTcpTxHdr, Call
  <2>2. Limit' = Limit /\ Limit \in Nat \ {0}
    BY <2>1, <1>0 DEF Limit, Less, Is, Starting
  <2>3. Asked("client")' = Limit
    <3>1. pc'["client"] = "event"  BY <2>1, <1>0 DEF Ends
    <3> QED BY <3>1, <2>2 DEF Asked
  <2>4. StartsBurst("event", Limit)
    BY <2>1, <2>2, <2>3, <1>4, <1>p, Ops DEF StartsBurst, Fresh
  <2> QED BY <2>4 DEF ClientDoes
<1>22. CASE EventWritten
  <2>1. /\ pc["client"] = "event" /\ Returned("client") /\ Held /\ begun' = begun
        /\ left' = left /\ total' = total
        /\ pc' = [pc EXCEPT !["client"] = "loop"] /\ call' = [call EXCEPT !["client"] = NoCall]
        /\ Deduct(Result("client")) /\ Report("client", IF one_report THEN 0 ELSE Result("client"))
    BY <1>22, <1>4 DEF EventWritten
  <2>r. Result("client") \in Nat /\ Moved("client") = Result("client")
    BY <2>1, <1>w
  <2>3. amount' = (IF Is("ModeTime") THEN amount ELSE IF amount >= Moved("client") THEN amount - Moved("client") ELSE 0)
    BY <2>1, <2>r, <1>d
  <2>4. Report("client", Add(Moved("client"))) /\ Add(Moved("client")) \in Nat
    BY <2>1, <2>r DEF Add
  <2>6. Moved("client") + 0 = Moved("client")  BY <2>r
  <2>8. EndsWrite(Moved("client"))
    BY <2>1, <2>3, <2>4, <2>6 DEF EndsWrite
  <2> QED BY <2>8, <2>r DEF ClientDoes
<1> QED BY <1>4, <1>5, <1>6, <1>7, <1>8, <1>9, <1>10, <1>11, <1>12, <1>13, <1>14, <1>15, <1>16,
    <1>17, <1>18, <1>19, <1>20, <1>21, <1>22 DEF ClientTraffic
\* The call of the server is as it was when the client has made a step ...
LEMMA ServerKept ==
  ASSUME Base, ServerSame
  PROVE  /\ Asked("server")' = Asked("server") /\ Moved("server")' = Moved("server") /\ Result("server")' = Result("server")
         /\ (Returned("server")' <=> Returned("server")) /\ (At("server", "x")' <=> At("server", "x")) /\ CallOk("server")'
         /\ pc'["server"] = pc["server"] /\ call'["server"] = call["server"] /\ begun'["server"] = begun["server"]
<1>1. /\ pc'["server"] = pc["server"] /\ call'["server"] = call["server"] /\ begun'["server"] = begun["server"]
      /\ nleft' = nleft /\ test' = test
  BY DEF ServerSame, Same
<1>2. /\ Moved("server")' = Moved("server") /\ Result("server")' = Result("server") /\ (Returned("server")' <=> Returned("server"))
  BY <1>1 DEF Moved, Result, Returned
<1>3. Asked("server")' = Asked("server")
  <2>1. pc["server"] \in {"synch", "finish", "done", "loop", "header", "recv", "received", "answer", "answering", "listen", "listening"}
    BY DEF Base, Places
  <2> QED BY <2>1, <1>1 DEF Asked
<1>4. CallOk("server")
  BY DEF Base, Calling
<1>5. CallOk("server")'
  BY <1>1, <1>2, <1>3, <1>4 DEF CallOk
<1> QED BY <1>1, <1>2, <1>3, <1>5 DEF At

\* ... and that of the client when the server has.
LEMMA ClientKept ==
  ASSUME Base, ClientSame
  PROVE  /\ Asked("client")' = Asked("client") /\ Moved("client")' = Moved("client") /\ Result("client")' = Result("client")
         /\ (Returned("client")' <=> Returned("client")) /\ CallOk("client")'
         /\ pc'["client"] = pc["client"] /\ call'["client"] = call["client"] /\ begun'["client"] = begun["client"]
<1>1. /\ pc'["client"] = pc["client"] /\ call'["client"] = call["client"] /\ begun'["client"] = begun["client"]
      /\ left' = left /\ amount' = amount /\ test' = test
  BY DEF ClientSame, Same
<1>2. /\ Moved("client")' = Moved("client") /\ Result("client")' = Result("client") /\ (Returned("client")' <=> Returned("client"))
  BY <1>1 DEF Moved, Result, Returned
<1>3. Asked("client")' = Asked("client")
  <2>1. pc["client"] \in {"synch", "loop", "finish", "await", "report", "done", "failed", "burst", "write",
                       "congest burst", "congest write", "rate burst", "rate write", "event", "request", "reply"}
    BY DEF Base, Places
  <2>2. Limit' = Limit /\ Less(test.len, left)' = Less(test.len, left) /\ Less(Limit, left)' = Less(Limit, left)
    BY <1>1 DEF Limit, Less, Is
  <2>3. isburst' <=> isburst
    BY <1>1, Kept
  <2> QED BY <2>1, <2>2, <2>3, <1>1 DEF Asked
<1>4. CallOk("client")
  BY DEF Base, Calling
<1>5. CallOk("client")'
  BY <1>1, <1>2, <1>3, <1>4 DEF CallOk
<1> QED BY <1>1, <1>2, <1>3, <1>5

(* What a bounceback client does. *)
Bounces ==
  /\ Loop = "bounce" /\ UNCHANGED <<sent, taken, dropped, shut, closed, amount, left, bursts>>
  /\ rounds' \in {rounds, rounds + 1}
  /\ total' = total \/ Total("client", test.len)
  /\ \E m \in Nat : reported' = [reported EXCEPT !["client"] = @ + m]
  /\ begun' = begun \/ \E m \in Nat : begun' = [begun EXCEPT !["client"] = m]
  /\ \/ \E l \in {"request", "reply"} : Fresh(l)
     \/ pc' = [pc EXCEPT !["client"] = "loop"] /\ call' = [call EXCEPT !["client"] = NoCall]
     \/ pc["client"] = "loop" /\ pc' = pc /\ call' = call
     \/ pc' = [pc EXCEPT !["client"] = "failed"] /\ call' = call /\ Returned("client") /\ pc["client"] = "reply"

\* Every step of a bounceback client asks for a request or a reply, or ends.
LEMMA BounceSorts == ASSUME Base, ClientBounces PROVE Bounces
<1>0. /\ Types /\ Places /\ DOMAIN pc = Ends /\ DOMAIN call = Ends /\ DOMAIN begun = Ends
      /\ reported \in [Ends -> Nat] /\ Client
  BY DEF Base, Places, Calling, Types, Client
<1>n. test.len \in Nat \ {0} /\ test.reply \in Nat \ {0} /\ begun["client"] \in Nat
  BY <1>0, Settings DEF Types, Ends
<1>1. ASSUME pc["client"] \in {"request", "reply"}, Returned("client")
      PROVE  /\ Result("client") \in Int /\ -2 <= Result("client") /\ Result("client") <= Asked("client")
             /\ (pc["client"] = "request" => Result("client") >= 0)
  <2>1. OpOf(pc["client"]) # "none" /\ (pc["client"] = "request" => OpOf(pc["client"]) = "writen")
    BY <1>1, Ops
  <2> QED BY <2>1, <1>1, ResultIs DEF Ends
<1>2. reported' = reported => \E m \in Nat : reported' = [reported EXCEPT !["client"] = @ + m]
  BY <1>0 DEF Ends
<1>3. CASE BounceBegin
  <2>1. /\ Loop = "bounce" /\ UNCHANGED <<sent, taken, dropped, shut, closed, amount, left, bursts, rounds, total, reported, test>>
        /\ pc["client"] = "loop"
    BY <1>3 DEF BounceBegin, wire, bytes, sender, receiver, results, Round, At
  <2>2. CASE UNCHANGED <<pc, call, begun>>
    BY <2>1, <2>2, <1>2 DEF Bounces
  <2>3. CASE ~ UNCHANGED <<pc, call, begun>>
    <3>1. /\ begun' = [begun EXCEPT !["client"] = 0] /\ pc' = [pc EXCEPT !["client"] = "request"]
          /\ call' = [call EXCEPT !["client"] = [op |-> "writen", len |-> test.len, done |-> 0]]
      BY <1>3, <2>3 DEF BounceBegin, Call, Go, Begun
    <3>2. pc'["client"] = "request" /\ begun'["client"] = 0
      BY <3>1, <1>0 DEF Ends
    <3>3. Asked("client")' = test.len - 0
      BY <3>2, <2>1 DEF Asked
    <3>4. Asked("client")' = test.len
      BY <3>3, <1>n
    <3>5. Fresh("request")
      BY <3>1, <3>2, <3>4, <1>n, Ops DEF Fresh
    <3> QED BY <2>1, <3>1, <3>5, <1>2 DEF Bounces
  <2> QED BY <2>2, <2>3
<1>4. CASE BounceWritten
  <2>1. /\ pc["client"] = "request" /\ Returned("client") /\ Loop = "bounce"
        /\ UNCHANGED <<sent, taken, dropped, shut, closed, amount, left, bursts, rounds, reported, test>>
    BY <1>4, <1>0 DEF BounceWritten, wire, bytes, sender, receiver, At, Places
  <2>r. Result("client") \in Nat
    BY <1>1, <2>1
  <2> DEFINE offset == begun["client"] + Result("client")
  <2>o. offset \in Nat  BY <2>r, <1>n
  <2>2. CASE offset = test.len
    <3>1. /\ begun' = [begun EXCEPT !["client"] = 0] /\ pc' = [pc EXCEPT !["client"] = "reply"]
          /\ call' = [call EXCEPT !["client"] = [op |-> "recvn", len |-> test.reply, done |-> 0]]
          /\ Total("client", test.len)
      <4>1. ~(offset < test.len)  BY <2>2, <1>n
      <4> QED BY <1>4, <4>1 DEF BounceWritten, Call, Go, Begun
    <3>2. pc'["client"] = "reply" /\ begun'["client"] = 0
      BY <3>1, <1>0 DEF Ends
    <3>3. Asked("client")' = test.reply - 0
      BY <3>2, <2>1 DEF Asked
    <3>4. Asked("client")' = test.reply
      BY <3>3, <1>n
    <3>5. Fresh("reply")
      BY <3>1, <3>2, <3>4, <1>n, Ops DEF Fresh
    <3> QED BY <2>1, <3>1, <3>5, <1>2 DEF Bounces
  <2>3. CASE offset # test.len /\ InProgress("client")
    <3>1. /\ begun' = [begun EXCEPT !["client"] = offset] /\ pc' = pc /\ total' = total
          /\ call' = [call EXCEPT !["client"] = [op |-> "writen", len |-> test.len - offset, done |-> 0]]
          /\ offset < test.len
      BY <1>4, <2>3 DEF BounceWritten, Call, Go, Begun
    <3>2. pc'["client"] = "request" /\ begun'["client"] = offset
      BY <3>1, <2>1, <1>0 DEF Ends
    <3>3. Asked("client")' = test.len - offset
      BY <3>2, <2>1 DEF Asked
    <3>4. test.len - offset \in Nat \ {0}
      BY <3>1, <2>o, <1>n
    <3>5. Fresh("request")
      BY <3>1, <3>2, <3>3, <3>4, Ops DEF Fresh
    <3> QED BY <2>1, <3>1, <3>5, <2>o, <1>2 DEF Bounces
  <2>4. CASE offset # test.len /\ ~InProgress("client")
    <3>1. /\ begun' = begun /\ pc' = [pc EXCEPT !["client"] = "loop"] /\ total' = total
          /\ call' = [call EXCEPT !["client"] = NoCall]
      BY <1>4, <2>4 DEF BounceWritten, Finishes, Go
    <3> QED BY <2>1, <3>1, <1>2 DEF Bounces
  <2> QED BY <2>2, <2>3, <2>4
<1>5. CASE BounceRead
  <2>1. /\ pc["client"] = "reply" /\ Returned("client") /\ Loop = "bounce"
        /\ UNCHANGED <<sent, taken, shut, closed, amount, left, bursts, test, total, dropped>>
    BY <1>5, <1>0 DEF BounceRead, wire, bytes, sender, receiver, At, Places
  <2>r. Result("client") \in Int /\ Result("client") <= Asked("client") /\ Asked("client") = test.reply - begun["client"]
        /\ Asked("client") \in Nat \ {0}
    <3>1. Asked("client") = test.reply - begun["client"]  BY <2>1 DEF Asked
    <3>2. OpOf(pc["client"]) = "recvn"  BY <2>1, Ops
    <3>3. Asked("client") \in Nat \ {0}  BY <2>1, <3>2, ResultIs DEF Ends
    <3> QED BY <1>1, <2>1, <3>1, <3>3
  <2> DEFINE offset == begun["client"] + Result("client")
  <2>o. offset \in Int /\ test.len + test.reply \in Nat  BY <2>r, <1>n
  <2>2. CASE Finishes("client", "loop") /\ begun' = begun /\ UNCHANGED <<rounds, reported>>
    BY <2>1, <2>2, <1>2 DEF Bounces, Finishes, Go
  <2>3. CASE Finishes("client", "loop") /\ begun' = begun /\ rounds' = rounds + 1 /\ ReportRound
    BY <2>1, <2>3, <2>o DEF Bounces, Finishes, Go, ReportRound, Report
  <2>4. CASE Go("client", "failed") /\ UNCHANGED <<call, rounds, begun, reported>>
    BY <2>1, <2>4, <1>2 DEF Bounces, Go
  <2>5. ASSUME Result("client") > 0, offset < test.reply, Begun("client", offset), Call("client", "recvn", test.reply - offset),
               UNCHANGED <<pc, rounds, reported>>
        PROVE  Bounces
    <3>0. offset \in Nat  BY <2>5, <2>r, <1>n
    <3>1. /\ begun' = [begun EXCEPT !["client"] = offset]
          /\ call' = [call EXCEPT !["client"] = [op |-> "recvn", len |-> test.reply - offset, done |-> 0]]
      BY <2>5 DEF Call, Begun
    <3>2. pc'["client"] = "reply" /\ begun'["client"] = offset
      BY <3>1, <2>5, <2>1, <1>0 DEF Ends
    <3>3. Asked("client")' = test.reply - offset
      BY <3>2, <2>1 DEF Asked
    <3>4. test.reply - offset \in Nat \ {0}
      BY <2>5, <3>0, <1>n
    <3>5. Fresh("reply")
      BY <3>1, <3>2, <3>3, <3>4, Ops DEF Fresh
    <3> QED BY <2>1, <3>1, <3>5, <3>0, <1>2, <2>5 DEF Bounces
  <2>6. ASSUME Call("client", "recvn", test.reply - begun["client"]), UNCHANGED <<pc, rounds, reported, begun>>
        PROVE  Bounces
    <3>1. call' = [call EXCEPT !["client"] = [op |-> "recvn", len |-> test.reply - begun["client"], done |-> 0]]
      BY <2>6 DEF Call
    <3>2. pc'["client"] = "reply"
      BY <2>6, <2>1, <1>0 DEF Ends
    <3>3. Asked("client")' = test.reply - begun["client"]
      BY <3>2, <2>1, <2>6 DEF Asked
    <3>4. test.reply - begun["client"] \in Nat \ {0}
      BY <2>r
    <3>5. Fresh("reply")
      BY <3>1, <3>2, <3>3, <3>4, Ops DEF Fresh
    <3> QED BY <2>1, <3>5, <1>2, <2>6 DEF Bounces
  <2> QED BY <1>5, <2>2, <2>3, <2>4, <2>5, <2>6 DEF BounceRead
<1> QED BY <1>3, <1>4, <1>5 DEF ClientBounces
\* A step of the client adds at the most itself to a set of ends.
LEMMA ClientSets == ASSUME Base, Client PROVE late' \subseteq Ends /\ peerclose' \subseteq Ends
<1>0. late \subseteq Ends /\ peerclose \subseteq Ends /\ "client" \in Ends
  BY DEF Base, Types, Ends
<1>00. SUFFICES late' \in {late, late \cup {"client"}} /\ peerclose' \in {peerclose, peerclose \cup {"client"}}
  BY <1>0
<1>000. Seen("client") \in {late, late \cup {"client"}}
  BY DEF Seen
<1> USE <1>000 DEF Stays, wire, bytes, signals, sender, receiver, results
<1>1. CASE StartSynch  BY <1>1 DEF StartSynch
<1>2. CASE SelectTimeout  BY <1>2 DEF SelectTimeout
<1>3. CASE LoopEnds  BY <1>3 DEF LoopEnds
<1>4. CASE StreamBurst  BY <1>4 DEF StreamBurst, WriteTcpTxHdr
<1>5. CASE StreamTooLate  BY <1>5 DEF StreamTooLate
<1>6. CASE StreamBurstWritten  BY <1>6 DEF StreamBurstWritten, Written
<1>7. CASE StreamWrite  BY <1>7 DEF StreamWrite
<1>8. CASE StreamWritten  BY <1>8 DEF StreamWritten, Written
<1>9. CASE CongestBurst  BY <1>9 DEF CongestBurst, WriteTcpTxHdr
<1>10. CASE CongestWrite  BY <1>10 DEF CongestWrite
<1>11. CASE CongestWritten  BY <1>11 DEF CongestWritten
<1>12. CASE RateBurst  BY <1>12 DEF RateBurst, WriteTcpTxHdr
<1>13. CASE RateBurstWritten  BY <1>13 DEF RateBurstWritten
<1>14. CASE RateWrite  BY <1>14 DEF RateWrite
<1>15. CASE RateWritten  BY <1>15 DEF RateWritten
<1>16. CASE EventWrite  BY <1>16 DEF EventWrite, WriteTcpTxHdr
<1>17. CASE EventWritten  BY <1>17 DEF EventWritten
<1>18. CASE Finish  BY <1>18 DEF Finish
<1>19. CASE AwaitServerCloseEvent  BY <1>19 DEF AwaitServerCloseEvent
<1>20. CASE ClientCloses  BY <1>20 DEF ClientCloses
<1>21. CASE BounceBegin  BY <1>21 DEF BounceBegin
<1>22. CASE BounceWritten  BY <1>22 DEF BounceWritten
<1>23. CASE BounceRead  BY <1>23 DEF BounceRead
<1> QED BY <1>1, <1>2, <1>3, <1>4, <1>5, <1>6, <1>7, <1>8, <1>9, <1>10, <1>11, <1>12, <1>13,
    <1>14, <1>15, <1>16, <1>17, <1>18, <1>19, <1>20, <1>21, <1>22, <1>23 DEF Client,
    ClientTraffic, ClientBounces

\* A step of the client keeps the types.
LEMMA ClientTypes == ASSUME Base, Client PROVE Types'
<1>0. /\ Types /\ ServerSame /\ late' \subseteq Ends /\ peerclose' \subseteq Ends
      /\ over' = over /\ interrupted' = interrupted /\ test' = test /\ nleft' = nleft /\ whole' = whole
  BY ClientSteps, ClientSets DEF Base, ServerSame
<1>1. /\ test \in Tests /\ sent \in [Ends -> Nat] /\ taken \in [Ends -> Nat] /\ dropped \in [Ends -> Nat]
      /\ taken["client"] <= sent["client"] /\ taken["server"] <= sent["server"]
      /\ shut \subseteq Ends /\ closed \subseteq Ends /\ over \subseteq Ends /\ interrupted \subseteq Ends
      /\ amount \in Nat /\ left \in Nat /\ nleft \in Nat /\ whole \in Nat /\ rounds \in Nat
      /\ begun \in [Ends -> Nat] /\ total \in [Ends -> Int] /\ total["client"] >= 0 /\ reported \in [Ends -> Nat]
      /\ bursts \in Seq([at : Nat, size : Nat \ {0}])
      /\ "client" \in Ends /\ "server" \in Ends
  BY <1>0 DEF Types, Ends
<1>2. SUFFICES /\ sent' \in [Ends -> Nat] /\ taken' \in [Ends -> Nat] /\ dropped' \in [Ends -> Nat]
      /\ taken'["client"] <= sent'["client"] /\ taken'["server"] <= sent'["server"]
      /\ shut' \subseteq Ends /\ closed' \subseteq Ends
      /\ amount' \in Nat /\ left' \in Nat /\ rounds' \in Nat
      /\ begun' \in [Ends -> Nat] /\ total' \in [Ends -> Int] /\ total'["client"] >= 0 /\ reported' \in [Ends -> Nat]
      /\ bursts' \in Seq([at : Nat, size : Nat \ {0}])
  BY <1>0, <1>1 DEF Types
<1>c. ClientDoes  BY ClientSorts
<1>t. ASSUME NEW n \in Nat, Total("client", n) PROVE total' \in [Ends -> Int] /\ total'["client"] >= 0
  <2>1. total' \in [Ends -> Int] /\ total'["client"] = (IF total["client"] + n >= -2 THEN total["client"] + n ELSE -2)
    BY <1>t, <1>0, <1>1, TotalIs
  <2>2. total["client"] \in Int /\ total["client"] >= 0  BY <1>1
  <2>3. total["client"] + n >= 0  BY <2>2
  <2>4. total'["client"] = total["client"] + n  BY <2>1, <2>2, <2>3
  <2> QED BY <2>1, <2>3, <2>4
<1>p. \A m \in Nat : Report("client", m) => reported' \in [Ends -> Nat]
  BY <1>1 DEF Report
<1>r. Returned("client") /\ OpOf(pc["client"]) # "none" => Moved("client") \in Nat
  <2>1. Returned("client") /\ OpOf(pc["client"]) # "none" =>
           Result("client") \in Int /\ Moved("client") = (IF Result("client") > 0 THEN Result("client") ELSE 0)
    BY <1>1, ResultIs
  <2> QED BY <2>1
<1>s. /\ test.len \in Nat \ {0} /\ FirstPayload \in Nat /\ FirstPayload <= test.amount /\ test.amount \in Nat
  BY <1>0, Settings
<1>3. ASSUME NEW l, NEW size, StartsBurst(l, size) PROVE <1>2!1
  <2>1. UNCHANGED <<amount, sent, taken, dropped, shut, closed, rounds, total, reported, begun>>
    BY <1>3 DEF StartsBurst
  <2>2. size \in Nat \ {0} /\ left' \in {left, size}
    BY <1>3 DEF StartsBurst
  <2>3. left' \in Nat
    BY <2>2, <1>1
  <2>4. [at |-> sent["client"], size |-> size] \in [at : Nat, size : Nat \ {0}]
    BY <2>2, <1>1
  <2>5. bursts' = Append(bursts, [at |-> sent["client"], size |-> size])
    BY <1>3 DEF StartsBurst
  <2>6. bursts' \in Seq([at : Nat, size : Nat \ {0}])
    BY <2>4, <2>5, <1>1, AppendProperties
  <2> QED BY <2>1, <2>3, <2>6, <1>1
<1>4. ASSUME NEW l, StartsWrite(l) PROVE <1>2!1
  <2>1. UNCHANGED <<amount, sent, taken, dropped, shut, closed, rounds, total, reported, bursts>>
    BY <1>4 DEF StartsWrite, Held
  <2>2. left' \in {left, test.len} /\ begun' \in {begun, [begun EXCEPT !["client"] = 0]}
    BY <1>4 DEF StartsWrite
  <2>3. left' \in Nat  BY <2>2, <1>1, <1>s
  <2>4. begun' \in [Ends -> Nat]
    <3>1. CASE begun' = begun  BY <3>1, <1>1
    <3>2. CASE begun' = [begun EXCEPT !["client"] = 0]
      <4>1. begun \in [Ends -> Nat]  BY <1>1
      <4> QED BY <3>2, <4>1
    <3> QED BY <3>1, <3>2, <2>2
  <2> QED BY <2>1, <2>3, <2>4, <1>1
<1>5. CASE Resumes
  <2>1. UNCHANGED <<amount, sent, taken, dropped, shut, closed, rounds, total, reported, bursts>>
    BY <1>5 DEF Resumes, Held
  <2>2. pc["client"] = "rate burst" /\ Returned("client")
    BY <1>5 DEF Resumes
  <2>3. OpOf(pc["client"]) = "writen"
    BY <2>2, Ops
  <2>4. Result("client") \in Int /\ Result("client") >= 0
    BY <2>2, <2>3, <1>0, <1>1, ResultIs
  <2>5. left' \in Nat
    <3>1. left' = left - Result("client") /\ Result("client") < left  BY <1>5 DEF Resumes
    <3>2. left \in Nat  BY <1>1
    <3> QED BY <3>1, <3>2, <2>4
  <2>6. begun' \in [Ends -> Nat]
    <3>1. begun' = [begun EXCEPT !["client"] = Result("client")]  BY <1>5 DEF Resumes
    <3> QED BY <3>1, <2>4, <1>1
  <2> QED BY <2>1, <2>5, <2>6, <1>1
<1>6. ASSUME NEW n \in Nat, EndsWrite(n) PROVE <1>2!1
  <2>1. UNCHANGED <<sent, taken, dropped, shut, closed, rounds, begun, bursts>>
    BY <1>6 DEF EndsWrite, Held
  <2>2. amount' \in Nat
    <3>1. amount' = IF Is("ModeTime") THEN amount ELSE IF amount >= n THEN amount - n ELSE 0
      BY <1>6 DEF EndsWrite
    <3> QED BY <3>1, <1>1
  <2>3. left' \in Nat
    <3>1. CASE left' = left  BY <3>1, <1>1
    <3>2. CASE left' # left
      <4>1. /\ left' = left - n /\ Returned("client") /\ n = Moved("client") + 0
            /\ \/ pc["client"] \in {"burst", "congest burst", "congest write", "rate burst"}
               \/ pc["client"] = "write" /\ isburst
        BY <1>6, <3>2 DEF EndsWrite
      <4>2. OpOf(pc["client"]) # "none"  BY <4>1, Ops
      <4>3. Result("client") \in Int /\ Result("client") <= Asked("client") /\ Moved("client") = (IF Result("client") > 0 THEN Result("client") ELSE 0)
        BY <4>1, <4>2, <1>0, <1>1, ResultIs
      <4>4. Limit \in Nat /\ test.len \in Nat  BY <1>0, LimitIs, <1>s
      <4>5. Less(test.len, left) <= left /\ Less(Limit, left) <= left  BY <4>4, <1>1 DEF Less
      <4>6. Asked("client") \in {Less(test.len, left), Less(Limit, left), left}
        BY <4>1 DEF Asked
      <4>7. Asked("client") <= left  BY <4>5, <4>6, <1>1
      <4>8. Asked("client") \in Nat  BY <4>1, <4>2, <1>0, <1>1, ResultIs
      <4>9. n = Moved("client") + 0  BY <4>1
      <4>10. n <= left
        <5>0. left \in Nat  BY <1>1
        <5>1. Moved("client") <= left
          <6>1. CASE Result("client") > 0  BY <6>1, <4>3, <4>7, <4>8, <5>0
          <6>2. CASE ~(Result("client") > 0)  BY <6>2, <4>3, <5>0
          <6> QED BY <6>1, <6>2
        <5>2. Moved("client") \in Int  BY <4>3
        <5>3. Moved("client") + 0 = Moved("client")  BY <5>2
        <5> QED BY <5>1, <5>3, <4>9
      <4>11. left' = left - n  BY <4>1
      <4> QED BY <4>10, <4>11, <1>1
    <3> QED BY <3>1, <3>2
  <2>4. total' \in [Ends -> Int] /\ total'["client"] >= 0
    <3>1. total' = total \/ Total("client", 0) \/ Total("client", n)  BY <1>6 DEF EndsWrite
    <3>2. 0 \in Nat  OBVIOUS
    <3>3. CASE total' = total  BY <3>3, <1>1
    <3>4. CASE Total("client", 0)  BY <3>2, <3>4, <1>t
    <3>5. CASE Total("client", n)  BY <3>5, <1>t
    <3> QED BY <3>1, <3>3, <3>4, <3>5
  <2>5. reported' \in [Ends -> Nat]
    BY <1>6, <1>p DEF EndsWrite
  <2> QED BY <2>1, <2>2, <2>3, <2>4, <2>5, <1>1
<1>7. CASE FailsWrite
  BY <1>7, <1>1 DEF FailsWrite, Held
<1>8. CASE Leaves
  <2>1. UNCHANGED <<sent, dropped, amount, left, bursts, total, begun, rounds>>
    BY <1>8 DEF Leaves
  <2>2. taken' \in [Ends -> Nat] /\ taken'["client"] <= sent["client"] /\ taken'["server"] <= sent["server"]
    <3>1. taken' \in {taken, [taken EXCEPT !["server"] = sent["server"]]}  BY <1>8 DEF Leaves
    <3>2. CASE taken' = taken  BY <3>2, <1>1
    <3>3. CASE taken' = [taken EXCEPT !["server"] = sent["server"]]
      <4>1. taken'["client"] = taken["client"] /\ taken'["server"] = sent["server"] /\ taken' \in [Ends -> Nat]
        BY <3>3, <1>1
      <4>2. sent["server"] \in Nat  BY <1>1
      <4> QED BY <4>1, <4>2, <1>1
    <3> QED BY <3>1, <3>2, <3>3
  <2>3. shut' \subseteq Ends /\ closed' \subseteq Ends
    BY <1>8, <1>1 DEF Leaves
  <2>4. reported' \in [Ends -> Nat]
    <3>1. reported' = reported \/ Report("client", IF one_report THEN total["client"] ELSE 0)
      BY <1>8 DEF Leaves
    <3>2. (IF one_report THEN total["client"] ELSE 0) \in Nat  BY <1>1
    <3> QED BY <3>1, <3>2, <1>p, <1>1
  <2> QED BY <2>1, <2>2, <2>3, <2>4, <1>1
<1>9. CASE Starts
  <2>1. UNCHANGED <<taken, dropped, shut, closed, total, left, begun, bursts, rounds>> /\ pc["client"] = "synch"
    BY <1>9 DEF Starts
  <2>2. sent["client"] = 0 /\ amount = test.amount
    BY <2>1 DEF Base, Ended
  <2>3. sent' \in [Ends -> Nat] /\ taken'["client"] <= sent'["client"] /\ taken'["server"] <= sent'["server"]
    <3>1. sent' = [sent EXCEPT !["client"] = FirstPayload]  BY <1>9 DEF Starts
    <3>2. sent' \in [Ends -> Nat] /\ sent'["client"] = FirstPayload /\ sent'["server"] = sent["server"]
      BY <3>1, <1>1, <1>s
    <3>3. taken["client"] <= FirstPayload
      <4>1. taken["client"] \in Nat /\ taken["client"] <= 0  BY <2>2, <1>1
      <4> QED BY <4>1, <1>s
    <3> QED BY <3>2, <3>3, <2>1, <1>1
  <2>4. amount' \in Nat
    <3>1. amount' = IF Is("ModeTime") THEN test.amount ELSE test.amount - FirstPayload
      BY <1>9, <2>2 DEF Starts
    <3> QED BY <3>1, <1>s
  <2>5. reported' \in [Ends -> Nat]
    BY <1>9, <1>p, <1>s DEF Starts
  <2> QED BY <2>1, <2>3, <2>4, <2>5, <1>1
<1>10. CASE Bounces
  <2>1. UNCHANGED <<sent, taken, dropped, shut, closed, amount, left, bursts>>
    BY <1>10 DEF Bounces
  <2>2. rounds' \in Nat
    <3>1. rounds' \in {rounds, rounds + 1}  BY <1>10 DEF Bounces
    <3> QED BY <3>1, <1>1
  <2>5. total' \in [Ends -> Int] /\ total'["client"] >= 0
    <3>1. total' = total \/ Total("client", test.len)  BY <1>10 DEF Bounces
    <3>2. test.len \in Nat  BY <1>s
    <3>3. CASE total' = total  BY <3>3, <1>1
    <3>4. CASE Total("client", test.len)  BY <3>2, <3>4, <1>t
    <3> QED BY <3>1, <3>3, <3>4
  <2>3. begun' \in [Ends -> Nat]
    <3>1. begun' = begun \/ \E m \in Nat : begun' = [begun EXCEPT !["client"] = m]
      BY <1>10 DEF Bounces
    <3> QED BY <3>1, <1>1
  <2>4. reported' \in [Ends -> Nat]
    <3>1. \E m \in Nat : reported' = [reported EXCEPT !["client"] = @ + m]  BY <1>10 DEF Bounces
    <3> QED BY <3>1, <1>1
  <2> QED BY <2>1, <2>2, <2>3, <2>4, <2>5, <1>1
<1> QED BY <1>c, <1>3, <1>4, <1>5, <1>6, <1>7, <1>8, <1>9, <1>10, BounceSorts DEF ClientDoes

(* What a step of the client leaves of its call. *)

\* A step of the client leaves its call alone, makes a new one or ends it.
LEMMA ClientCall ==
  ASSUME Base, Client
  PROVE  /\ call' = [call EXCEPT !["client"] = call'["client"]]
         /\ \/ \E l : Fresh(l) /\ OpOf(l) # "none"
            \/ OpOf(pc'["client"]) = "none" /\ call'["client"] = NoCall
            \/ pc'["client"] \in {"finish", "failed"} /\ call'["client"] = call["client"] /\ Returned("client")
<1> DEFINE Kind == \/ \E l : Fresh(l) /\ OpOf(l) # "none"
                   \/ OpOf(pc'["client"]) = "none" /\ call'["client"] = NoCall
                   \/ pc'["client"] \in {"finish", "failed"} /\ call'["client"] = call["client"] /\ Returned("client")
<1>0. /\ DOMAIN pc = Ends /\ DOMAIN call = Ends /\ call \in [Ends -> CallType] /\ "client" \in Ends /\ CallOk("client")
  BY DEF Base, Places, Calling, Ends, CallType
<1>c. ClientDoes  BY ClientSorts
<1>p. ASSUME NEW l, pc' = [pc EXCEPT !["client"] = l] PROVE pc'["client"] = l
  BY <1>0, <1>p
<1>q. ASSUME NEW x, call' = [call EXCEPT !["client"] = x] PROVE call' = [call EXCEPT !["client"] = call'["client"]] /\ call'["client"] = x
  BY <1>0, <1>q
<1>u. call' = call => call' = [call EXCEPT !["client"] = call'["client"]]
  BY <1>0
<1>o. OpOf("loop") = "none" /\ OpOf("finish") = "none" /\ OpOf("await") = "none" /\ OpOf("report") = "none" /\ OpOf("done") = "none" /\ OpOf("failed") = "none" /\ OpOf("synch") = "none"
      /\ OpOf("event") # "none" /\ OpOf("burst") # "none" /\ OpOf("rate burst") # "none" /\ OpOf("congest burst") # "none"
      /\ OpOf("write") # "none" /\ OpOf("congest write") # "none" /\ OpOf("rate write") # "none" /\ OpOf("request") # "none" /\ OpOf("reply") # "none"
  BY Ops
<1>n. pc["client"] \in {"loop", "await", "report", "synch"} => call["client"] = NoCall
  <2>1. pc["client"] \in {"loop", "await", "report", "synch"} => OpOf(pc["client"]) = "none"
    BY <1>o
  <2> QED BY <2>1, <1>0 DEF CallOk
<1>f. ASSUME NEW l, Fresh(l), OpOf(l) # "none" PROVE call' = [call EXCEPT !["client"] = call'["client"]] /\ Kind
  BY <1>f, <1>q DEF Fresh
<1>s. SUFFICES call' = [call EXCEPT !["client"] = call'["client"]] /\ Kind
  OBVIOUS
<1>3. ASSUME NEW l, NEW size, StartsBurst(l, size) PROVE call' = [call EXCEPT !["client"] = call'["client"]] /\ Kind
  <2>1. Fresh(l) /\ (l = "event" \/ l = "burst" \/ l = "rate burst" \/ l = "congest burst")
    BY <1>3 DEF StartsBurst
  <2>2. OpOf(l) # "none"  BY <2>1, <1>o
  <2> QED BY <2>1, <2>2, <1>f
<1>4. ASSUME NEW l, StartsWrite(l) PROVE call' = [call EXCEPT !["client"] = call'["client"]] /\ Kind
  <2>1. Fresh(l) /\ (l = "write" \/ l = "congest write" \/ l = "rate write")
    BY <1>4 DEF StartsWrite
  <2>2. OpOf(l) # "none"  BY <2>1, <1>o
  <2> QED BY <2>1, <2>2, <1>f
<1>5. CASE Resumes
  <2>1. Fresh("rate write")  BY <1>5 DEF Resumes
  <2> QED BY <2>1, <1>o, <1>f
<1>6. ASSUME NEW n \in Nat, EndsWrite(n) PROVE call' = [call EXCEPT !["client"] = call'["client"]] /\ Kind
  <2>1. pc' = [pc EXCEPT !["client"] = "loop"] /\ call' = [call EXCEPT !["client"] = NoCall]
    BY <1>6 DEF EndsWrite
  <2>2. pc'["client"] = "loop"  BY <2>1, <1>p
  <2> QED BY <2>1, <2>2, <1>q, <1>o
<1>7. CASE FailsWrite
  <2>1. call' = call /\ Returned("client") /\ (pc' = [pc EXCEPT !["client"] = "finish"] \/ pc' = [pc EXCEPT !["client"] = "failed"])
    BY <1>7 DEF FailsWrite
  <2>2. pc'["client"] \in {"finish", "failed"}  BY <2>1, <1>p
  <2> QED BY <2>1, <2>2, <1>u
<1>8. CASE Leaves
  <2>1. CASE pc["client"] = "loop"
    <3>1. call' = call /\ (pc' = pc \/ pc' = [pc EXCEPT !["client"] = "finish"])
      BY <1>8, <2>1 DEF Leaves
    <3>2. OpOf(pc'["client"]) = "none"  BY <3>1, <2>1, <1>p, <1>o
    <3> QED BY <3>1, <3>2, <2>1, <1>n, <1>u
  <2>2. CASE pc["client"] = "finish"
    <3>1. call' = [call EXCEPT !["client"] = NoCall] /\ (pc' = [pc EXCEPT !["client"] = "report"] \/ pc' = [pc EXCEPT !["client"] = "await"])
      BY <1>8, <2>2 DEF Leaves
    <3>2. pc'["client"] = "report" \/ pc'["client"] = "await"  BY <3>1, <1>p
    <3> QED BY <3>1, <3>2, <1>q, <1>o
  <2>3. CASE pc["client"] = "await"
    <3>1. call' = call /\ (pc' = pc \/ pc' = [pc EXCEPT !["client"] = "report"])
      BY <1>8, <2>3 DEF Leaves
    <3>2. OpOf(pc'["client"]) = "none"  BY <3>1, <2>3, <1>p, <1>o
    <3> QED BY <3>1, <3>2, <2>3, <1>n, <1>u
  <2>4. CASE pc["client"] = "report"
    <3>1. call' = call /\ pc' = [pc EXCEPT !["client"] = "done"]  BY <1>8, <2>4 DEF Leaves
    <3>2. OpOf(pc'["client"]) = "none"  BY <3>1, <1>p, <1>o
    <3> QED BY <3>1, <3>2, <2>4, <1>n, <1>u
  <2>5. CASE pc["client"] = "failed"
    <3>1. call' = call /\ pc' = pc  BY <1>8, <2>5 DEF Leaves
    <3>2. call["client"] = NoCall \/ Returned("client")  BY <2>5, <1>0, <1>o DEF CallOk
    <3> QED BY <3>1, <3>2, <2>5, <1>o, <1>u
  <2> QED BY <1>8, <2>1, <2>2, <2>3, <2>4, <2>5 DEF Leaves
<1>9. CASE Starts
  <2>1. pc["client"] = "synch" /\ pc' = [pc EXCEPT !["client"] = "loop"] /\ call' = call
    BY <1>9 DEF Starts
  <2>2. pc'["client"] = "loop"  BY <2>1, <1>p
  <2> QED BY <2>1, <2>2, <1>n, <1>u, <1>o
<1>10. CASE Bounces
  <2>1. CASE \E l \in {"request", "reply"} : Fresh(l)
    BY <2>1, <1>o, <1>f
  <2>2. CASE pc' = [pc EXCEPT !["client"] = "loop"] /\ call' = [call EXCEPT !["client"] = NoCall]
    BY <2>2, <1>p, <1>q, <1>o
  <2>3. CASE pc["client"] = "loop" /\ pc' = pc /\ call' = call
    BY <2>3, <1>n, <1>o, <1>u
  <2>4. CASE pc' = [pc EXCEPT !["client"] = "failed"] /\ call' = call /\ Returned("client")
    BY <2>4, <1>p, <1>u
  <2> QED BY <1>10, <2>1, <2>2, <2>3, <2>4 DEF Bounces
<1> QED BY <1>c, <1>3, <1>4, <1>5, <1>6, <1>7, <1>8, <1>9, <1>10, BounceSorts DEF ClientDoes

\* A step of the client keeps the calls well-formed, and only makes a new writen.
LEMMA ClientCalls == ASSUME Base, Client PROVE Calling' /\ Cut'
<1>0. /\ call \in [Ends -> CallType] /\ "client" \in Ends /\ CallOk("client") /\ ServerSame
  BY ClientSteps DEF Base, Calling, Ends, CallType
<1>1. call' = [call EXCEPT !["client"] = call'["client"]]
  BY ClientCall
<1>2. CallOk("server")'
  BY <1>0, ServerKept
<1>o. OpOf("finish") = "none" /\ OpOf("failed") = "none"
  BY Ops
<1>3. SUFFICES call'["client"] \in CallType /\ CallOk("client")' /\ (Returned("client")' => OpOf(pc'["client"]) = "none")
  <2>1. ASSUME call'["client"] \in CallType PROVE call' \in [Ends -> CallType]
    BY <2>1, <1>0, <1>1
  <2> QED BY <2>1, <1>2 DEF Calling, CallType, Cut
<1>4. ASSUME NEW l, Fresh(l), OpOf(l) # "none" PROVE <1>3!1
  <2>1. call' = [call EXCEPT !["client"] = [op |-> OpOf(l), len |-> Asked("client")', done |-> 0]]
        /\ pc'["client"] = l /\ Asked("client")' \in Nat \ {0}
    BY <1>4 DEF Fresh
  <2>2. call'["client"] = [op |-> OpOf(l), len |-> Asked("client")', done |-> 0]
    BY <2>1, <1>0
  <2>3. OpOf(l) \in {"none", "write", "writen", "recv", "recvn"}
    BY DEF OpOf
  <2>4. call'["client"].op = OpOf(l) /\ call'["client"].len = Asked("client")' /\ call'["client"].done = 0
    BY <2>2
  <2>5. call'["client"] \in CallType
    BY <2>1, <2>2, <2>3 DEF CallType
  <2>6. ~Returned("client")'
    BY <2>3, <2>4 DEF Returned
  <2>7. CallOk("client")'
    BY <2>1, <2>4, <1>4 DEF CallOk
  <2> QED BY <2>5, <2>6, <2>7
<1>5. CASE OpOf(pc'["client"]) = "none" /\ call'["client"] = NoCall
  BY <1>5 DEF CallOk, NoCall, CallType, Returned
<1>6. CASE pc'["client"] \in {"finish", "failed"} /\ call'["client"] = call["client"] /\ Returned("client")
  <2>1. Returned("client")' /\ Result("client")' = Result("client")  BY <1>6 DEF Returned, Result
  <2>2. Result("client") \in Int /\ call["client"].done = 0 /\ call["client"] \in CallType
    <3>1. call["client"] # NoCall  BY <1>6 DEF Returned, NoCall
    <3>2. OpOf(pc["client"]) # "returned"  BY DEF OpOf
    <3> QED BY <3>1, <3>2, <1>6, <1>0 DEF CallOk, Returned
  <2> QED BY <2>1, <2>2, <1>6, <1>o DEF CallOk
<1> QED BY <1>4, <1>5, <1>6, ClientCall
\* A step of the client keeps what the buffers of a loop depend on.
LEMMA ClientShapes == ASSUME Base, Client PROVE Shapes'
<1>0. ServerSame /\ Shapes /\ test' = test /\ pc'["server"] = pc["server"] /\ nleft' = nleft /\ whole' = whole
      /\ begun'["server"] = begun["server"]
  BY ClientSteps DEF Base, ServerSame, Same
<1>1. (isburst' <=> isburst) /\ First' = First  BY <1>0, Kept
<1>c. ClientDoes  BY ClientSorts
<1>d. DOMAIN pc = Ends /\ "client" \in Ends  BY DEF Base, Places, Ends
<1>2. SUFFICES /\ pc'["client"] \in {"burst", "rate burst"} => isburst
               /\ pc'["client"] = "congest burst" => left' = test.len
  BY <1>0, <1>1 DEF Shapes
<1>p. ASSUME NEW l, pc' = [pc EXCEPT !["client"] = l] PROVE pc'["client"] = l
  BY <1>d, <1>p
<1>3. ASSUME NEW l, NEW size, StartsBurst(l, size) PROVE <1>2!1
  <2>1. pc'["client"] = l  BY <1>3 DEF StartsBurst, Fresh
  <2>2. l = "event" \/ (l = "burst" /\ isburst) \/ (l = "rate burst" /\ isburst) \/ (l = "congest burst" /\ left' = test.len)
    BY <1>3 DEF StartsBurst
  <2> QED BY <2>1, <2>2
<1>4. ASSUME NEW l, StartsWrite(l) PROVE <1>2!1
  <2>1. pc'["client"] = l /\ (l = "write" \/ l = "congest write" \/ l = "rate write")
    BY <1>4 DEF StartsWrite, Fresh
  <2> QED BY <2>1
<1>5. CASE Resumes
  <2>1. pc'["client"] = "rate write"  BY <1>5 DEF Resumes, Fresh
  <2> QED BY <2>1
<1>6. ASSUME NEW n \in Nat, EndsWrite(n) PROVE <1>2!1
  <2>1. pc'["client"] = "loop"  BY <1>6, <1>p DEF EndsWrite
  <2> QED BY <2>1
<1>7. CASE FailsWrite
  <2>1. pc'["client"] \in {"finish", "failed"}  BY <1>7, <1>p DEF FailsWrite
  <2> QED BY <2>1
<1>8. CASE Leaves
  <2>1. pc'["client"] \in {"loop", "finish", "await", "report", "done", "failed"}
    BY <1>8, <1>p DEF Leaves
  <2> QED BY <2>1
<1>9. CASE Starts
  <2>1. pc'["client"] = "loop"  BY <1>9, <1>p DEF Starts
  <2> QED BY <2>1
<1>10. CASE Bounces
  <2>1. pc'["client"] \in {"request", "reply", "loop", "failed"}  BY <1>10, <1>p DEF Bounces, Fresh
  <2> QED BY <2>1
<1> QED BY <1>c, <1>3, <1>4, <1>5, <1>6, <1>7, <1>8, <1>9, <1>10, BounceSorts DEF ClientDoes

\* A step of the client keeps what belongs to the end of a test.
LEMMA ClientEnded == ASSUME Base, Client PROVE Ended'
<1>0. ServerSame /\ Ended /\ Types /\ test' = test /\ pc'["server"] = pc["server"] /\ sent'["server"] = sent["server"]
      /\ ("server" \in closed' <=> "server" \in closed) /\ ("server" \in shut' <=> "server" \in shut)
  BY ClientSteps DEF Base, ServerSame, Same
<1>1. Loop' = Loop  BY <1>0, Kept
<1>c. ClientDoes  BY ClientSorts
<1>d. DOMAIN pc = Ends /\ "client" \in Ends /\ "server" \in Ends  BY DEF Base, Places, Ends
<1>e. /\ "client" \in shut => pc["client"] \in {"await", "report", "done", "failed"}
      /\ "client" \in closed => pc["client"] \in {"done", "failed"} /\ "client" \in shut
      /\ pc["client"] = "done" => "client" \in closed
  BY <1>0 DEF Ended
<1>2. SUFFICES /\ pc'["client"] # "synch"
               /\ "client" \in shut' => pc'["client"] \in {"await", "report", "done", "failed"}
               /\ "client" \in closed' => pc'["client"] \in {"done", "failed"} /\ "client" \in shut'
               /\ pc'["client"] = "done" => "client" \in closed'
               /\ Loop # "bounce" => taken'["server"] \in {sent["server"], taken["server"]}
  BY <1>0, <1>1 DEF Ended
<1>p. ASSUME NEW l, pc' = [pc EXCEPT !["client"] = l] PROVE pc'["client"] = l
  BY <1>d, <1>p
<1>h. ASSUME pc["client"] \notin {"await", "report", "done", "failed"}, shut' = shut, closed' = closed, taken' = taken,
             pc'["client"] \notin {"synch", "done"}
      PROVE  <1>2!1
  BY <1>h, <1>e
<1>3. ASSUME NEW l, NEW size, StartsBurst(l, size) PROVE <1>2!1
  <2>1. pc'["client"] = l  BY <1>3 DEF StartsBurst, Fresh
  <2>2. l = "event" \/ l = "burst" \/ l = "rate burst" \/ l = "congest burst"
    BY <1>3 DEF StartsBurst
  <2>3. pc["client"] = "loop" /\ UNCHANGED <<shut, closed, taken>>
    BY <1>3 DEF StartsBurst, Starting
  <2> QED BY <2>1, <2>2, <2>3, <1>h
<1>4. ASSUME NEW l, StartsWrite(l) PROVE <1>2!1
  <2>1. pc'["client"] = l /\ (l = "write" \/ l = "congest write" \/ l = "rate write")
    BY <1>4 DEF StartsWrite, Fresh
  <2>3. pc["client"] = "loop" /\ UNCHANGED <<shut, closed, taken>>
    BY <1>4 DEF StartsWrite, Starting, Held
  <2> QED BY <2>1, <2>3, <1>h
<1>5. CASE Resumes
  <2>1. pc'["client"] = "rate write"  BY <1>5 DEF Resumes, Fresh
  <2>3. pc["client"] = "rate burst" /\ UNCHANGED <<shut, closed, taken>>  BY <1>5 DEF Resumes, Held
  <2> QED BY <2>1, <2>3, <1>h
<1>6. ASSUME NEW n \in Nat, EndsWrite(n) PROVE <1>2!1
  <2>1. pc'["client"] = "loop"  BY <1>6, <1>p DEF EndsWrite
  <2>3. pc["client"] \in {"burst", "write", "congest burst", "congest write", "rate burst", "rate write", "event"} /\ UNCHANGED <<shut, closed, taken>>  BY <1>6 DEF EndsWrite, Held
  <2> QED BY <2>1, <2>3, <1>h
<1>7. CASE FailsWrite
  <2>1. pc'["client"] \in {"finish", "failed"}  BY <1>7, <1>p DEF FailsWrite
  <2>3. pc["client"] \in {"burst", "write", "congest burst", "congest write", "rate write"} /\ UNCHANGED <<shut, closed, taken>>  BY <1>7 DEF FailsWrite, Held
  <2> QED BY <2>1, <2>3, <1>h
<1>8. CASE Leaves
  <2>0. Loop # "bounce" => taken'["server"] \in {sent["server"], taken["server"]}
    <3>1. taken \in [Ends -> Nat]  BY <1>0 DEF Types
    <3> QED BY <1>8, <1>d, <3>1 DEF Leaves
  <2>1. CASE pc["client"] = "loop"
    <3>1. UNCHANGED <<shut, closed>> /\ (pc' = pc \/ pc' = [pc EXCEPT !["client"] = "finish"])
      BY <1>8, <2>1 DEF Leaves
    <3>2. pc'["client"] \in {"loop", "finish"}  BY <3>1, <2>1, <1>p
    <3> QED BY <3>1, <3>2, <2>1, <2>0, <1>e
  <2>2. CASE pc["client"] = "finish"
    <3>1. /\ closed' = closed
          /\ (pc' = [pc EXCEPT !["client"] = "report"] /\ shut' = shut) \/ (pc' = [pc EXCEPT !["client"] = "await"] /\ shut' = shut \cup {"client"})
      BY <1>8, <2>2 DEF Leaves
    <3>2. (pc'["client"] = "report" /\ shut' = shut) \/ (pc'["client"] = "await" /\ shut' = shut \cup {"client"})  BY <3>1, <1>p
    <3> QED BY <3>1, <3>2, <2>2, <2>0, <1>e
  <2>3. CASE pc["client"] = "await"
    <3>1. UNCHANGED <<shut, closed>> /\ (pc' = pc \/ pc' = [pc EXCEPT !["client"] = "report"])
      BY <1>8, <2>3 DEF Leaves
    <3>2. pc'["client"] \in {"await", "report"}  BY <3>1, <2>3, <1>p
    <3> QED BY <3>1, <3>2, <2>3, <2>0, <1>e
  <2>4. CASE pc["client"] = "report"
    <3>1. pc' = [pc EXCEPT !["client"] = "done"] /\ closed' = closed \cup {"client"} /\ shut' = shut \cup {"client"}  BY <1>8, <2>4 DEF Leaves
    <3>2. pc'["client"] = "done"  BY <3>1, <1>p
    <3> QED BY <3>1, <3>2, <2>0
  <2>5. CASE pc["client"] = "failed"
    <3>1. pc' = pc /\ closed' = closed \cup {"client"} /\ shut' = shut \cup {"client"}
      BY <1>8, <2>5 DEF Leaves
    <3> QED BY <3>1, <2>5, <2>0
  <2> QED BY <1>8, <2>1, <2>2, <2>3, <2>4, <2>5 DEF Leaves
<1>9. CASE Starts
  <2>1. pc'["client"] = "loop"  BY <1>9, <1>p DEF Starts
  <2>3. pc["client"] = "synch" /\ UNCHANGED <<shut, closed, taken>>  BY <1>9 DEF Starts
  <2> QED BY <2>1, <2>3, <1>h
<1>10. CASE ClientBounces
  <2>0. Bounces  BY <1>10, BounceSorts
  <2>1. pc'["client"] \in {"request", "reply", "loop", "failed"}
    <3>1. pc["client"] = "loop" /\ pc' = pc => pc'["client"] = "loop"  OBVIOUS
    <3> QED BY <2>0, <3>1, <1>p DEF Bounces, Fresh
  <2>3. pc["client"] \in {"loop", "request", "reply"}
    BY <1>10 DEF ClientBounces, BounceBegin, BounceWritten, BounceRead, Round, At
  <2>4. UNCHANGED <<shut, closed, taken>>  BY <2>0 DEF Bounces
  <2> QED BY <2>1, <2>3, <2>4, <1>h
<1> QED BY <1>c, <1>3, <1>4, <1>5, <1>6, <1>7, <1>8, <1>9, <1>10 DEF ClientDoes

\* Base is kept by the client ...
LEMMA ClientBase == ASSUME Base, Client PROVE Base'
BY ClientPlaces, ClientTypes, ClientCalls, ClientShapes, ClientEnded DEF Base
-----------------------------------------------------------------------------
(* What a step of the server does.                                         *)
AskedBy(l) ==
  /\ pc' = [pc EXCEPT !["server"] = l]
  /\ call' = [call EXCEPT !["server"] = [op |-> OpOf(l), len |-> Asked("server")', done |-> 0]]
  /\ Asked("server")' \in Nat \ {0}
Idles(l) == pc' = [pc EXCEPT !["server"] = l] /\ call' = [call EXCEPT !["server"] = NoCall]
Quiet == UNCHANGED <<sent, taken, dropped, shut, closed, rounds>>

\* The server reads the first payload, and in a bounceback the first request.
ReadsFirst(n) ==
  /\ pc["server"] = "synch" /\ pc["client"] # "synch" /\ n <= First - begun["server"] /\ n <= Available("server")
  /\ taken' = [taken EXCEPT !["client"] = @ + n]
  /\ UNCHANGED <<sent, dropped, shut, closed, call, total, nleft, whole, peerclose, rounds>>
  /\ IF begun["server"] + n = First
       THEN /\ pc' = [pc EXCEPT !["server"] = IF Loop = "bounce" THEN "answer" ELSE "loop"]
            /\ ReportRead(First) /\ begun' = [begun EXCEPT !["server"] = 0]
       ELSE /\ pc' = pc /\ reported' = reported
            /\ begun' = [begun EXCEPT !["server"] = begun["server"] + n]

GivesUp ==
  /\ \/ pc["server"] = "synch" /\ "client" \in shut /\ Available("server") = 0 /\ begun["server"] < First
     \/ pc["server"] \in {"loop", "answer", "listen"} /\ ~InProgress("server")
     \/ pc["server"] = "header" /\ Returned("server") /\ Result("server") # Header
     \/ pc["server"] = "listening"
  /\ Idles("finish")
  /\ Quiet /\ UNCHANGED <<total, reported, begun, nleft, whole>>

AsksHeader ==
  /\ pc["server"] = "loop" /\ "server" \notin peerclose /\ isburst /\ nleft = 0 /\ AskedBy("header") /\ Asked("server")' = Header
  /\ Quiet /\ UNCHANGED <<total, reported, begun, nleft, whole, peerclose>>

GetsHeader ==
  /\ pc["server"] = "header" /\ Returned("server") /\ Result("server") = Header
  /\ nleft' = SizeAt(taken["client"] - Header) - Header
  /\ Quiet /\ peerclose' = peerclose
  /\ IF nleft' = 0
       THEN whole' = whole + 1 /\ Total("server", Header) /\ ReportRead(Header) /\ begun' = begun /\ Idles("received")
       ELSE begun' = [begun EXCEPT !["server"] = Header] /\ UNCHANGED <<whole, total, reported>> /\ AskedBy("recv")

AsksPayload ==
  /\ pc["server"] = "loop" /\ "server" \notin peerclose /\ ~(isburst /\ nleft = 0) /\ AskedBy("recv") /\ begun' = [begun EXCEPT !["server"] = 0]
  /\ Quiet /\ UNCHANGED <<total, reported, nleft, whole, peerclose>>

GetsPayload ==
  LET n == Result("server")
  IN  /\ pc["server"] = "recv" /\ Returned("server")
      /\ nleft' = (IF isburst /\ n > 0 THEN nleft - n ELSE nleft)
      /\ whole' = (IF isburst /\ n > 0 /\ nleft = n THEN whole + 1 ELSE whole)
      /\ Total("server", begun["server"] + IF n = Fatal THEN 0 ELSE n)
      /\ ReportRead(begun["server"] + IF n = Fatal THEN 0 ELSE n)
      /\ peerclose' = IF n \in {0, Fatal} THEN peerclose \cup {"server"} ELSE peerclose
      /\ Idles("received") /\ Quiet /\ begun' = begun

ReadsOn ==
  /\ pc["server"] = "received" /\ pc' = [pc EXCEPT !["server"] = IF Enough THEN "finish" ELSE "loop"]
  /\ Quiet /\ UNCHANGED <<call, total, reported, begun, nleft, whole, peerclose>>

Departs ==
  /\ pc["server"] = "finish" /\ pc' = [pc EXCEPT !["server"] = "done"]
  /\ closed' = closed \cup {"server"} /\ shut' = shut \cup {"server"}
  /\ UNCHANGED <<sent, taken, dropped, rounds, call, total, reported, begun, nleft, whole, peerclose>>

Answers ==
  /\ Loop = "bounce" /\ UNCHANGED <<sent, taken, shut, closed, rounds, nleft, whole, total>>
  /\ \/ /\ pc["server"] = "answer" /\ AskedBy("answering") /\ begun' = begun /\ UNCHANGED <<dropped, reported>>
     \/ /\ pc["server"] = "answering" /\ begun' = [begun EXCEPT !["server"] = 0] /\ Idles("listen")
        /\ ReportRead(test.reply) /\ dropped' = dropped
     \/ /\ pc["server"] = "answering" /\ Idles("answer") /\ UNCHANGED <<dropped, reported>>
        /\ \E m \in Nat : m < test.reply /\ begun' = [begun EXCEPT !["server"] = m]
     \/ /\ pc["server"] = "listen" /\ AskedBy("listening") /\ begun' = begun /\ UNCHANGED <<dropped, reported>>
     \/ /\ pc["server"] = "listening" /\ Idles("answer") /\ begun' = begun /\ dropped' = dropped
        /\ ReportRead(test.len)
     \/ /\ pc["server"] = "listening" /\ Idles("listen") /\ begun' = begun /\ UNCHANGED reported
        /\ \E m \in Nat : dropped' = [dropped EXCEPT !["server"] = @ + m]

ServerDoes ==
  \/ \E n \in Nat : ReadsFirst(n)
  \/ GivesUp \/ AsksHeader \/ GetsHeader \/ AsksPayload \/ GetsPayload \/ ReadsOn \/ Departs \/ Answers

\* Every step of the server is one of a few forms, as long as a header that
\* it has read says a size.
LEMMA ServerSorts ==
  ASSUME Base, Server, pc["server"] = "header" /\ Returned("server") /\ Result("server") = Header
                          => SizeAt(taken["client"] - Header) \in Nat /\ SizeAt(taken["client"] - Header) >= Header
  PROVE  ServerDoes
<1>0. /\ Types /\ Places /\ Shapes /\ DOMAIN pc = Ends /\ DOMAIN call = Ends /\ ClientSame /\ test' = test
      /\ "server" \in Ends /\ "client" \in Ends
      /\ sent \in [Ends -> Nat] /\ taken \in [Ends -> Nat] /\ dropped \in [Ends -> Nat] /\ begun \in [Ends -> Nat] /\ nleft \in Nat
  BY ServerSteps DEF Base, Places, ClientSame, Calling, Types, Ends
<1>i. (isburst' <=> isburst) /\ (Is("BounceBack") <=> Loop = "bounce") /\ (pc["server"] = "synch" => begun["server"] <= First)
  BY <1>0, Kept DEF Loop, Shapes
<1>s. test.len \in Nat \ {0} /\ test.reply \in Nat \ {0} /\ First \in Nat /\ Header \in Nat \ {0}
  BY <1>0, Settings
<1>p. ASSUME NEW l, pc' = [pc EXCEPT !["server"] = l] PROVE pc'["server"] = l
  BY <1>0, <1>p
<1>r. ASSUME Returned("server"), OpOf(pc["server"]) # "none"
      PROVE  /\ Result("server") \in Int /\ -2 <= Result("server") /\ Result("server") <= Asked("server") /\ Asked("server") \in Nat
             /\ (OpOf(pc["server"]) = "writen" => Result("server") >= 0)
  BY <1>r, <1>0, ResultIs
<1> USE DEF Go, At, Stays, wire, bytes, signals, sender, receiver, results, Begun, ServerLeaves,
    Idles, Quiet
<1>1. CASE FirstRead /\ rounds' = rounds
  <2> DEFINE n == Min({First - begun["server"], Available("server")})
  <2>1. n = Less(First - begun["server"], Available("server")) /\ Available("server") \in Nat /\ First - begun["server"] \in Nat
    <3>1. First - begun["server"] \in Nat
      <4>1. begun["server"] <= First  BY <1>1, <1>i DEF FirstRead
      <4> QED BY <4>1, <1>0, <1>s
    <3>2. Available("server") \in Nat
      <4>1. Available("server") = sent["client"] - taken["client"]  BY PeerOf DEF Available
      <4>2. taken["client"] <= sent["client"]  BY <1>0 DEF Types
      <4> QED BY <4>1, <4>2, <1>0
    <3> QED BY <3>1, <3>2, MinOf
  <2>2. n \in Nat /\ n <= First - begun["server"] /\ n <= Available("server")
    BY <2>1 DEF Less
  <2>3. ReadsFirst(n)
    <3>1. /\ pc["server"] = "synch" /\ pc["client"] # "synch"
          /\ taken' = [taken EXCEPT !["client"] = @ + n]
          /\ UNCHANGED <<sent, dropped, shut, closed, call, total, nleft, whole, peerclose, rounds>>
          /\ IF begun["server"] + n = First
               THEN /\ ReportRead(First) /\ begun' = [begun EXCEPT !["server"] = 0]
                    /\ pc' = [pc EXCEPT !["server"] = IF Is("BounceBack") THEN "answer" ELSE "loop"]
               ELSE begun' = [begun EXCEPT !["server"] = begun["server"] + n] /\ UNCHANGED <<reported, pc>>
      BY <1>1 DEF FirstRead
    <3> HIDE DEF n
    <3>2. pc' = [pc EXCEPT !["server"] = IF Is("BounceBack") THEN "answer" ELSE "loop"] =>
            pc' = [pc EXCEPT !["server"] = IF Loop = "bounce" THEN "answer" ELSE "loop"]
      BY <1>i
    <3> QED BY <3>1, <3>2, <2>2 DEF ReadsFirst
  <2> QED BY <2>2, <2>3 DEF ServerDoes
<1>2. CASE (NothingFirst \/ HeaderMissing \/ ServerLoopEnds) /\ rounds' = rounds
  <2>1. GivesUp  BY <1>2 DEF NothingFirst, HeaderMissing, ServerLoopEnds, GivesUp
  <2> QED BY <2>1 DEF ServerDoes
<1>3. CASE ReadHeader /\ rounds' = rounds
  <2>1. /\ pc["server"] = "loop" /\ "server" \notin peerclose /\ isburst /\ nleft = 0 /\ pc' = [pc EXCEPT !["server"] = "header"]
        /\ call' = [call EXCEPT !["server"] = [op |-> "recvn", len |-> Header, done |-> 0]]
        /\ Quiet /\ UNCHANGED <<total, reported, begun, nleft, whole, peerclose>>
    BY <1>3 DEF ReadHeader, InProgress, Call
  <2>2. pc'["server"] = "header"  BY <2>1, <1>p
  <2>3. Asked("server")' = Header  BY <2>2 DEF Asked
  <2>4. AskedBy("header")  BY <2>1, <2>3, <1>s, Ops DEF AskedBy
  <2>5. AsksHeader  BY <2>1, <2>3, <2>4 DEF AsksHeader
  <2> QED BY <2>5 DEF ServerDoes
<1>4. CASE HeaderRead /\ rounds' = rounds
  <2> DEFINE size == SizeAt(taken["client"] - Header)
  <2>1. /\ pc["server"] = "header" /\ Returned("server") /\ Result("server") = Header
        /\ nleft' = size - Header /\ Quiet /\ peerclose' = peerclose
    BY <1>4 DEF HeaderRead
  <2>2. size \in Nat /\ size >= Header  BY <2>1
  <2>3. nleft' \in Nat /\ (nleft' = 0 <=> size = Header)
    <3> HIDE DEF size
    <3> QED BY <2>1, <2>2, <1>s
  <2>4. CASE size = Header
    <3>1. /\ whole' = whole + 1 /\ Total("server", Header) /\ ReportRead(Header) /\ begun' = begun /\ Idles("received")
      BY <1>4, <2>4 DEF HeaderRead, Received
    <3>2. GetsHeader  BY <2>1, <2>3, <2>4, <3>1 DEF GetsHeader
    <3> QED BY <3>2 DEF ServerDoes
  <2>5. CASE size # Header
    <3>1. /\ begun' = [begun EXCEPT !["server"] = Header] /\ UNCHANGED <<whole, total, reported>>
          /\ pc' = [pc EXCEPT !["server"] = "recv"]
          /\ call' = [call EXCEPT !["server"] = [op |-> "recv", len |-> Min({test.len, size - Header}), done |-> 0]]
      BY <1>4, <2>5 DEF HeaderRead, Call
    <3>2. pc'["server"] = "recv"  BY <3>1, <1>p
    <3>3. nleft' \in Nat \ {0}  BY <2>3, <2>5
    <3>4. Min({test.len, size - Header}) = Less(test.len, nleft')
      <4>1. Min({test.len, nleft'}) = Less(test.len, nleft')  BY <3>3, <1>s, MinOf
      <4> QED BY <4>1, <2>1
    <3>5. Asked("server")' = Less(test.len, nleft')  BY <3>2, <3>3, <1>0 DEF Asked, Less
    <3>6. Less(test.len, nleft') \in Nat \ {0}  BY <3>3, <1>s, LessIs
    <3>7. AskedBy("recv")  BY <3>1, <3>4, <3>5, <3>6, Ops DEF AskedBy
    <3>8. GetsHeader  BY <2>1, <3>1, <3>3, <3>7 DEF GetsHeader
    <3> QED BY <3>8 DEF ServerDoes
  <2> QED BY <2>4, <2>5
<1>5. CASE ReadPayload /\ rounds' = rounds
  <2>1. /\ pc["server"] = "loop" /\ "server" \notin peerclose /\ ~(isburst /\ nleft = 0) /\ pc' = [pc EXCEPT !["server"] = "recv"]
        /\ call' = [call EXCEPT !["server"] = [op |-> "recv", len |-> IF nleft > 0 THEN Min({test.len, nleft}) ELSE test.len, done |-> 0]]
        /\ begun' = [begun EXCEPT !["server"] = 0] /\ Quiet /\ UNCHANGED <<total, reported, nleft, whole, peerclose>>
    BY <1>5 DEF ReadPayload, InProgress, Call
  <2>2. pc'["server"] = "recv"  BY <2>1, <1>p
  <2>3. Min({test.len, nleft}) = Less(test.len, nleft)  BY <1>0, <1>s, MinOf
  <2>4. Asked("server")' = (IF nleft > 0 THEN Less(test.len, nleft) ELSE test.len)
    BY <2>1, <2>2, <1>0 DEF Asked, Less
  <2>5. (IF nleft > 0 THEN Less(test.len, nleft) ELSE test.len) \in Nat \ {0}
    BY <1>0, <1>s DEF Less
  <2>6. AskedBy("recv")  BY <2>1, <2>3, <2>4, <2>5, Ops DEF AskedBy
  <2>7. AsksPayload  BY <2>1, <2>6 DEF AsksPayload
  <2> QED BY <2>7 DEF ServerDoes
<1>6. CASE PayloadRead /\ rounds' = rounds
  <2>1. GetsPayload  BY <1>6 DEF PayloadRead, GetsPayload, Received
  <2> QED BY <2>1 DEF ServerDoes
<1>7. CASE NextRead /\ rounds' = rounds
  <2>1. ReadsOn  BY <1>7 DEF NextRead, ReadsOn
  <2> QED BY <2>1 DEF ServerDoes
<1>8. CASE ServerCloses /\ rounds' = rounds
  <2>1. Departs  BY <1>8 DEF ServerCloses, Close, Departs
  <2> QED BY <2>1 DEF ServerDoes
<1>9. CASE ServerBounceEnds
  <2>1. GivesUp  BY <1>9 DEF ServerBounceEnds, GivesUp
  <2> QED BY <2>1 DEF ServerDoes
<1>10. CASE WriteBB
  <2>1. /\ pc["server"] = "answer" /\ pc' = [pc EXCEPT !["server"] = "answering"]
        /\ call' = [call EXCEPT !["server"] = [op |-> "writen", len |-> test.reply - begun["server"], done |-> 0]]
        /\ Quiet /\ UNCHANGED <<total, reported, begun, nleft, whole, peerclose>>
    BY <1>10 DEF WriteBB, Call
  <2>2. pc'["server"] = "answering"  BY <2>1, <1>p
  <2>3. Asked("server")' = test.reply - begun["server"]  BY <2>1, <2>2, <1>0 DEF Asked
  <2>4. test.reply - begun["server"] \in Nat \ {0}
    <3>1. begun["server"] < test.reply  BY <2>1, <1>0 DEF Shapes
    <3> QED BY <3>1, <1>0, <1>s
  <2>5. AskedBy("answering")  BY <2>1, <2>3, <2>4, Ops DEF AskedBy
  <2>6. Loop = "bounce"  BY <2>1, <1>0 DEF Places
  <2>7. Answers  BY <2>1, <2>5, <2>6 DEF Answers
  <2> QED BY <2>7 DEF ServerDoes
<1>11. CASE Answered
  <2>1. pc["server"] = "answering" /\ Returned("server") /\ call' = [call EXCEPT !["server"] = NoCall]
        /\ Quiet /\ UNCHANGED <<nleft, whole, total>>
    BY <1>11 DEF Answered
  <2>6. Loop = "bounce"  BY <2>1, <1>0 DEF Places
  <2>2. begun["server"] + Result("server") \in Nat
    <3>1. OpOf(pc["server"]) = "writen"  BY <2>1, Ops
    <3>2. Result("server") \in Int /\ Result("server") >= 0  BY <2>1, <3>1, <1>r
    <3> QED BY <3>2, <1>0
  <2>3. CASE begun["server"] + Result("server") = test.reply
    <3>1. ~(begun["server"] + Result("server") < test.reply)  BY <2>3, <1>s
    <3>2. Answers  BY <1>11, <2>1, <2>3, <2>6, <3>1 DEF Answered, Answers
    <3> QED BY <3>2 DEF ServerDoes
  <2>4. CASE begun["server"] + Result("server") # test.reply
    <3>2. Answers  BY <1>11, <2>1, <2>2, <2>4, <2>6 DEF Answered, Answers
    <3> QED BY <3>2 DEF ServerDoes
  <2> QED BY <2>3, <2>4
<1>12. CASE ReadBB
  <2>1. /\ pc["server"] = "listen" /\ pc' = [pc EXCEPT !["server"] = "listening"]
        /\ call' = [call EXCEPT !["server"] = [op |-> "recvn", len |-> test.len, done |-> 0]]
        /\ Quiet /\ UNCHANGED <<total, reported, begun, nleft, whole, peerclose>>
    BY <1>12 DEF ReadBB, Call
  <2>2. pc'["server"] = "listening"  BY <2>1, <1>p
  <2>3. Asked("server")' = test.len  BY <2>1, <2>2, <1>0 DEF Asked
  <2>5. AskedBy("listening")  BY <2>1, <2>3, <1>s, Ops DEF AskedBy
  <2>6. Loop = "bounce"  BY <2>1, <1>0 DEF Places
  <2>7. Answers  BY <2>1, <2>5, <2>6 DEF Answers
  <2> QED BY <2>7 DEF ServerDoes
<1>13. CASE RequestRead
  <2>1. pc["server"] = "listening" /\ UNCHANGED <<sent, taken, shut, closed, total, begun, nleft, whole, rounds>>
    BY <1>13 DEF RequestRead
  <2>6. Loop = "bounce"  BY <2>1, <1>0 DEF Places
  <2>r. Result("server") > 0 => Result("server") \in Nat
    <3>1. Result("server") \in Int
      <4>1. OpOf(pc["server"]) # "none"  BY <2>1, Ops
      <4>2. Returned("server")  BY <1>13 DEF RequestRead
      <4> QED BY <4>1, <4>2, <1>r
    <3> QED BY <3>1
  <2>2. dropped' = dropped => \E m \in Nat : dropped' = [dropped EXCEPT !["server"] = @ + m]
    BY <1>0
  <2>3. \/ /\ Idles("answer") /\ ReportRead(test.len) /\ dropped' = dropped
        \/ /\ Idles("listen") /\ reported' = reported /\ \E m \in Nat : dropped' = [dropped EXCEPT !["server"] = @ + m]
        \/ /\ Idles("finish") /\ reported' = reported /\ dropped' = dropped
    BY <1>13, <2>2, <2>r DEF RequestRead, Finishes
  <2>4. Answers \/ GivesUp
    BY <2>1, <2>3, <2>6 DEF Answers, GivesUp
  <2> QED BY <2>4 DEF ServerDoes
<1> QED BY <1>1, <1>2, <1>3, <1>4, <1>5, <1>6, <1>7, <1>8, <1>9, <1>10, <1>11, <1>12, <1>13 DEF
    Server, ServerTraffic, ServerBounces
\* A step of the server adds at the most itself to a set of ends.
LEMMA ServerSets == ASSUME Base, Server PROVE late' \subseteq Ends /\ peerclose' \subseteq Ends
<1>0. late \subseteq Ends /\ peerclose \subseteq Ends /\ "server" \in Ends
  BY DEF Base, Types, Ends
<1>00. SUFFICES late' \in {late, late \cup {"server"}} /\ peerclose' \in {peerclose, peerclose \cup {"server"}}
  BY <1>0
<1>000. Seen("server") \in {late, late \cup {"server"}}
  BY DEF Seen
<1> USE <1>000 DEF Stays, wire, bytes, signals, sender, receiver, results, Received
<1>1. CASE FirstRead BY <1>1 DEF FirstRead
<1>2. CASE NothingFirst BY <1>2 DEF NothingFirst
<1>3. CASE ReadHeader BY <1>3 DEF ReadHeader
<1>4. CASE HeaderRead BY <1>4 DEF HeaderRead
<1>5. CASE HeaderMissing BY <1>5 DEF HeaderMissing
<1>6. CASE ReadPayload BY <1>6 DEF ReadPayload
<1>7. CASE PayloadRead BY <1>7 DEF PayloadRead
<1>8. CASE NextRead BY <1>8 DEF NextRead
<1>9. CASE ServerLoopEnds BY <1>9 DEF ServerLoopEnds
<1>10. CASE ServerCloses BY <1>10 DEF ServerCloses
<1>11. CASE ServerBounceEnds BY <1>11 DEF ServerBounceEnds
<1>12. CASE WriteBB BY <1>12 DEF WriteBB
<1>13. CASE Answered BY <1>13 DEF Answered
<1>14. CASE ReadBB BY <1>14 DEF ReadBB
<1>15. CASE RequestRead BY <1>15 DEF RequestRead
<1> QED BY <1>1, <1>2, <1>3, <1>4, <1>5, <1>6, <1>7, <1>8, <1>9, <1>10, <1>11, <1>12, <1>13,
    <1>14, <1>15 DEF Server, ServerTraffic, ServerBounces

\* The types in one place, for the leaves that only need those.
LEMMA Typed ==
  ASSUME Base
  PROVE  /\ test \in Tests /\ sent \in [Ends -> Nat] /\ taken \in [Ends -> Nat] /\ dropped \in [Ends -> Nat]
      /\ taken["client"] <= sent["client"] /\ taken["server"] <= sent["server"]
      /\ shut \subseteq Ends /\ closed \subseteq Ends /\ over \subseteq Ends /\ interrupted \subseteq Ends
      /\ late \subseteq Ends /\ peerclose \subseteq Ends
      /\ amount \in Nat /\ left \in Nat /\ nleft \in Nat /\ whole \in Nat /\ rounds \in Nat
      /\ begun \in [Ends -> Nat] /\ total \in [Ends -> Int] /\ total["client"] >= 0 /\ reported \in [Ends -> Nat]
      /\ bursts \in Seq([at : Nat, size : Nat \ {0}])
      /\ "client" \in Ends /\ "server" \in Ends /\ DOMAIN pc = Ends /\ DOMAIN call = Ends /\ call \in [Ends -> CallType]
BY DEF Base, Types, Ends, Places, Calling, CallType

HeaderFits ==
  pc["server"] = "header" /\ Returned("server") /\ Result("server") = Header
     => SizeAt(taken["client"] - Header) \in Nat /\ SizeAt(taken["client"] - Header) >= Header

\* What the server reads of a burst is not more than what is left of it.
LEMMA PayloadFits ==
  ASSUME Base, GetsPayload
  PROVE  /\ nleft' \in Nat /\ Result("server") \in Int /\ Result("server") >= -2 /\ Result("server") <= Asked("server")
         /\ (isburst /\ Result("server") > 0 => nleft' = nleft - Result("server") /\ Result("server") <= nleft)
         /\ (~(isburst /\ Result("server") > 0) => nleft' = nleft)
<1>1. /\ pc["server"] = "recv" /\ Returned("server")
      /\ nleft' = (IF isburst /\ Result("server") > 0 THEN nleft - Result("server") ELSE nleft)
  BY DEF GetsPayload
<1>2. OpOf(pc["server"]) # "none"  BY <1>1, Ops
<1>3. nleft \in Nat /\ "server" \in Ends  BY Typed
<1>s. test.len \in Nat \ {0}  BY Settings DEF Base
<1>4. Result("server") \in Int /\ Result("server") >= -2 /\ Result("server") <= Asked("server")
  BY <1>1, <1>2, <1>3, ResultIs
<1>5. Asked("server") = IF nleft > 0 THEN Less(test.len, nleft) ELSE test.len
  BY <1>1 DEF Asked
<1>6. ASSUME isburst PROVE nleft > 0 /\ Asked("server") <= nleft
  <2>1. nleft > 0  BY <1>6, <1>1 DEF Base, Shapes
  <2>2. Less(test.len, nleft) <= nleft  BY <1>3, <1>s DEF Less
  <2> QED BY <2>1, <2>2, <1>5
<1>7. CASE isburst /\ Result("server") > 0
  <2>1. nleft' = nleft - Result("server")  BY <1>1, <1>7
  <2>2. Asked("server") \in Int
    <3>1. Less(test.len, nleft) \in Int  BY <1>3, <1>s DEF Less
    <3> QED BY <3>1, <1>5, <1>s
  <2>3. Result("server") <= nleft  BY <1>4, <1>6, <1>7, <2>2, <1>3
  <2>4. nleft' \in Nat  BY <2>1, <2>3, <1>3, <1>4
  <2> QED BY <2>1, <2>3, <2>4, <1>4, <1>7
<1>8. CASE ~(isburst /\ Result("server") > 0)
  <2>1. nleft' = nleft  BY <1>1, <1>8
  <2> QED BY <2>1, <1>3, <1>4, <1>8
<1> QED BY <1>7, <1>8

\* A step of the server keeps the types.
LEMMA ServerTypes == ASSUME Base, Server, HeaderFits PROVE Types'
<1>0. /\ ClientSame /\ late' \subseteq Ends /\ peerclose' \subseteq Ends
      /\ over' = over /\ interrupted' = interrupted /\ test' = test /\ amount' = amount /\ left' = left /\ bursts' = bursts
      /\ taken'["server"] = taken["server"] /\ sent'["client"] = sent["client"] /\ total'["client"] = total["client"]
  BY ServerSteps, ServerSets, PeerOf DEF ClientSame, Same
<1>1. /\ test \in Tests /\ sent \in [Ends -> Nat] /\ taken \in [Ends -> Nat] /\ dropped \in [Ends -> Nat]
      /\ taken["client"] <= sent["client"] /\ taken["server"] <= sent["server"]
      /\ shut \subseteq Ends /\ closed \subseteq Ends /\ over \subseteq Ends /\ interrupted \subseteq Ends
      /\ amount \in Nat /\ left \in Nat /\ nleft \in Nat /\ whole \in Nat /\ rounds \in Nat
      /\ begun \in [Ends -> Nat] /\ total \in [Ends -> Int] /\ total["client"] >= 0 /\ reported \in [Ends -> Nat]
      /\ bursts \in Seq([at : Nat, size : Nat \ {0}])
      /\ "client" \in Ends /\ "server" \in Ends
  BY Typed
<1>2. SUFFICES /\ sent' = sent /\ taken' \in [Ends -> Nat] /\ dropped' \in [Ends -> Nat]
      /\ taken'["client"] <= sent["client"]
      /\ shut' \subseteq Ends /\ closed' \subseteq Ends
      /\ nleft' \in Nat /\ whole' \in Nat /\ rounds' = rounds
      /\ begun' \in [Ends -> Nat] /\ total' \in [Ends -> Int] /\ reported' \in [Ends -> Nat]
  BY <1>0, <1>1 DEF Types
<1>c. ServerDoes  BY ServerSorts DEF HeaderFits
<1>s. /\ test.len \in Nat \ {0} /\ test.reply \in Nat \ {0} /\ First \in Nat /\ Header \in Nat \ {0}
  BY Settings DEF Base
<1>t. ASSUME NEW n \in Int, Total("server", n) PROVE total' \in [Ends -> Int]
  BY <1>t, <1>1, TotalIs DEF Base
<1>r. reported \in [Ends -> Nat] /\ dropped \in [Ends -> Nat] /\ "server" \in Ends
  BY <1>1
<1>n. taken["client"] \in Nat /\ sent["client"] \in Nat
  BY <1>1
<1>p. ASSUME NEW n \in Int, ReportRead(n) PROVE reported' \in [Ends -> Nat]
  <2>1. CASE n > 0
    <3>1. reported' = [reported EXCEPT !["server"] = @ + n]  BY <1>p, <2>1 DEF ReportRead, Report
    <3>2. reported["server"] + n \in Nat
      <4>1. reported["server"] \in Nat  BY <1>r
      <4> QED BY <4>1, <2>1
    <3> QED BY <3>1, <3>2, <1>r
  <2>2. CASE ~(n > 0)
    <3>1. reported' = reported  BY <1>p, <2>2 DEF ReportRead
    <3> QED BY <3>1, <1>1
  <2> QED BY <2>1, <2>2
<1>b. ASSUME NEW n \in Nat, begun' = [begun EXCEPT !["server"] = n] PROVE begun' \in [Ends -> Nat]
  BY <1>b, <1>1
<1>3. ASSUME NEW n \in Nat, ReadsFirst(n) PROVE <1>2!1
  <2>1. UNCHANGED <<sent, dropped, shut, closed, total, nleft, whole, rounds>> /\ n <= Available("server")
    BY <1>3 DEF ReadsFirst
  <2>2. taken' \in [Ends -> Nat] /\ taken'["client"] = taken["client"] + n
    <3>1. taken' = [taken EXCEPT !["client"] = @ + n]  BY <1>3 DEF ReadsFirst
    <3> QED BY <3>1, <1>1
  <2>3. Available("server") = sent["client"] - taken["client"]  BY PeerOf DEF Available
  <2>4. taken'["client"] <= sent["client"]
    <3>1. n <= sent["client"] - taken["client"]  BY <2>1, <2>3
    <3>2. taken["client"] + n <= sent["client"]  BY <3>1, <1>n
    <3> QED BY <3>2, <2>2
  <2>5. begun' \in [Ends -> Nat]
    <3>1. begun' = [begun EXCEPT !["server"] = 0] \/ begun' = [begun EXCEPT !["server"] = begun["server"] + n]  BY <1>3 DEF ReadsFirst
    <3>2. begun["server"] + n \in Nat /\ 0 \in Nat
      <4>1. begun["server"] \in Nat  BY <1>1
      <4> QED BY <4>1
    <3> QED BY <3>1, <3>2, <1>b
  <2>6. reported' \in [Ends -> Nat]
    <3>1. reported' = reported \/ ReportRead(First)  BY <1>3 DEF ReadsFirst
    <3>2. First \in Int  BY <1>s
    <3> QED BY <3>1, <3>2, <1>p, <1>1
  <2> QED BY <2>1, <2>2, <2>4, <2>5, <2>6, <1>1
<1>4. CASE GivesUp
  BY <1>4, <1>1 DEF GivesUp, Quiet
<1>5. CASE AsksHeader
  BY <1>5, <1>1 DEF AsksHeader, Quiet
<1>6. CASE GetsHeader
  <2>1. Quiet  BY <1>6 DEF GetsHeader
  <2>2. nleft' \in Nat
    <3>1. /\ SizeAt(taken["client"] - Header) \in Nat /\ SizeAt(taken["client"] - Header) >= Header
          /\ nleft' = SizeAt(taken["client"] - Header) - Header
      BY <1>6 DEF GetsHeader, HeaderFits
    <3> QED BY <3>1, <1>s
  <2>3. whole' \in Nat
    <3>1. whole' \in {whole, whole + 1}  BY <1>6 DEF GetsHeader
    <3> QED BY <3>1, <1>1
  <2>4. Header \in Int  BY <1>s
  <2>5. total' \in [Ends -> Int]
    <3>1. total' = total \/ Total("server", Header)  BY <1>6 DEF GetsHeader
    <3> QED BY <3>1, <2>4, <1>t, <1>1
  <2>6. reported' \in [Ends -> Nat]
    <3>1. reported' = reported \/ ReportRead(Header)  BY <1>6 DEF GetsHeader
    <3> QED BY <3>1, <2>4, <1>p, <1>1
  <2>7. begun' \in [Ends -> Nat]
    <3>1. begun' = begun \/ begun' = [begun EXCEPT !["server"] = Header]  BY <1>6 DEF GetsHeader
    <3>2. Header \in Nat  BY <1>s
    <3> QED BY <3>1, <3>2, <1>b, <1>1
  <2> QED BY <2>1, <2>2, <2>3, <2>5, <2>6, <2>7, <1>1 DEF Quiet
<1>7. CASE AsksPayload
  <2>1. Quiet /\ UNCHANGED <<total, reported, nleft, whole>> /\ begun' = [begun EXCEPT !["server"] = 0]  BY <1>7 DEF AsksPayload
  <2>2. begun' \in [Ends -> Nat]  BY <2>1, <1>1
  <2> QED BY <2>1, <2>2, <1>1 DEF Quiet
<1>8. CASE GetsPayload
  <2>1. Quiet /\ begun' = begun  BY <1>8 DEF GetsPayload
  <2>2. nleft' \in Nat /\ Result("server") \in Int  BY <1>8, PayloadFits
  <2>3. whole' \in Nat
    <3>1. whole' \in {whole, whole + 1}  BY <1>8 DEF GetsPayload
    <3> QED BY <3>1, <1>1
  <2> DEFINE n == begun["server"] + IF Result("server") = Fatal THEN 0 ELSE Result("server")
  <2>4. n \in Int  BY <2>2, <1>1
  <2>5. Total("server", n) /\ ReportRead(n)  BY <1>8 DEF GetsPayload
  <2> HIDE DEF n
  <2>6. total' \in [Ends -> Int] /\ reported' \in [Ends -> Nat]  BY <2>4, <2>5, <1>t, <1>p
  <2> QED BY <2>1, <2>2, <2>3, <2>6, <1>1 DEF Quiet
<1>9. CASE ReadsOn
  BY <1>9, <1>1 DEF ReadsOn, Quiet
<1>10. CASE Departs
  BY <1>10, <1>1 DEF Departs
<1>11. CASE Answers
  <2>1. UNCHANGED <<sent, taken, shut, closed, rounds, nleft, whole, total>>  BY <1>11 DEF Answers
  <2>2. begun' \in [Ends -> Nat]
    <3>1. begun' = begun \/ \E m \in Nat : begun' = [begun EXCEPT !["server"] = m]
      BY <1>11 DEF Answers
    <3> QED BY <3>1, <1>b, <1>1
  <2>3. reported' \in [Ends -> Nat]
    <3>1. reported' = reported \/ ReportRead(test.len) \/ ReportRead(test.reply)
      BY <1>11 DEF Answers
    <3>2. test.len \in Int /\ test.reply \in Int  BY <1>s
    <3> QED BY <3>1, <3>2, <1>p, <1>1
  <2>4. dropped' \in [Ends -> Nat]
    <3>1. dropped' = dropped \/ \E m \in Nat : dropped' = [dropped EXCEPT !["server"] = @ + m]
      BY <1>11 DEF Answers
    <3>2. ASSUME NEW m \in Nat, dropped' = [dropped EXCEPT !["server"] = @ + m] PROVE dropped' \in [Ends -> Nat]
      <4>1. dropped["server"] \in Nat  BY <1>r
      <4>2. dropped["server"] + m \in Nat  BY <4>1
      <4> QED BY <3>2, <4>2, <1>r
    <3> QED BY <3>1, <3>2, <1>1
  <2> QED BY <2>1, <2>2, <2>3, <2>4, <1>1
<1> QED BY <1>c, <1>3, <1>4, <1>5, <1>6, <1>7, <1>8, <1>9, <1>10, <1>11 DEF ServerDoes
\* A step of the server keeps the calls well-formed.
LEMMA ServerCalls == ASSUME Base, Server, HeaderFits PROVE Calling' /\ Cut'
<1>0. /\ call \in [Ends -> CallType] /\ "server" \in Ends /\ DOMAIN pc = Ends /\ DOMAIN call = Ends /\ ClientSame
      /\ CallOk("server") /\ Cut /\ interrupted' = interrupted
  BY ServerSteps, Typed DEF Base, Calling, ClientSame
<1>c. ServerDoes  BY ServerSorts DEF HeaderFits
<1>1. /\ CallOk("client")' /\ Asked("client")' = Asked("client") /\ Result("client")' = Result("client")
      /\ (Returned("client")' <=> Returned("client")) /\ pc'["client"] = pc["client"]
  BY <1>0, ClientKept
<1>2. "server" \in closed => "server" \in closed'
  BY <1>c DEF ServerDoes, ReadsFirst, GivesUp, AsksHeader, GetsHeader, AsksPayload, GetsPayload,
      ReadsOn, Departs, Answers, Quiet
<1>3. Cut'
  BY <1>0, <1>1, <1>2 DEF Cut
<1>p. ASSUME NEW l, pc' = [pc EXCEPT !["server"] = l] PROVE pc'["server"] = l
  BY <1>0, <1>p
<1>q. ASSUME NEW x \in CallType, call' = [call EXCEPT !["server"] = x] PROVE call' \in [Ends -> CallType] /\ call'["server"] = x
  BY <1>0, <1>q
<1>4. SUFFICES call' \in [Ends -> CallType] /\ CallOk("server")'
  BY <1>1, <1>3 DEF Calling, CallType
<1>a. ASSUME NEW l, AskedBy(l), OpOf(l) # "none" PROVE <1>4!1
  <2> DEFINE x == [op |-> OpOf(l), len |-> Asked("server")', done |-> 0]
  <2>1. call' = [call EXCEPT !["server"] = x] /\ pc'["server"] = l /\ Asked("server")' \in Nat \ {0}
    BY <1>a, <1>p DEF AskedBy
  <2>2. OpOf(l) \in {"none", "write", "writen", "recv", "recvn"}
    BY DEF OpOf
  <2>3. x \in CallType
    BY <2>1, <2>2 DEF CallType
  <2>4. call' \in [Ends -> CallType] /\ call'["server"] = x
    BY <2>1, <2>3, <1>q
  <2>5. call'["server"].op = OpOf(l) /\ call'["server"].len = Asked("server")' /\ call'["server"].done = 0
    BY <2>4
  <2> HIDE DEF x
  <2>6. CallOk("server")'
    BY <2>1, <2>5, <1>a DEF CallOk
  <2> QED BY <2>4, <2>6
<1>i. ASSUME NEW l, Idles(l), OpOf(l) = "none" PROVE <1>4!1
  <2>1. call' = [call EXCEPT !["server"] = NoCall] /\ pc'["server"] = l
    BY <1>i, <1>p DEF Idles
  <2>2. NoCall \in CallType  BY DEF NoCall, CallType
  <2>3. call' \in [Ends -> CallType] /\ call'["server"] = NoCall  BY <2>1, <2>2, <1>q
  <2> QED BY <2>1, <2>3, <1>i DEF CallOk
<1>k. ASSUME call' = call, OpOf(pc["server"]) = "none", OpOf(pc'["server"]) = "none" PROVE <1>4!1
  <2>1. call["server"] = NoCall  BY <1>k, <1>0 DEF CallOk
  <2> QED BY <2>1, <1>k, <1>0 DEF CallOk
<1>o. /\ OpOf("loop") = "none" /\ OpOf("finish") = "none" /\ OpOf("done") = "none" /\ OpOf("synch") = "none" /\ OpOf("received") = "none"
      /\ OpOf("answer") = "none" /\ OpOf("listen") = "none" /\ OpOf("header") # "none" /\ OpOf("recv") # "none"
      /\ OpOf("answering") # "none" /\ OpOf("listening") # "none"
  BY Ops
<1>5. ASSUME NEW n \in Nat, ReadsFirst(n) PROVE <1>4!1
  <2>1. call' = call /\ pc["server"] = "synch"  BY <1>5 DEF ReadsFirst
  <2>2. pc' = pc \/ pc' = [pc EXCEPT !["server"] = "answer"] \/ pc' = [pc EXCEPT !["server"] = "loop"]  BY <1>5 DEF ReadsFirst
  <2>3. OpOf(pc'["server"]) = "none"  BY <2>1, <2>2, <1>p, <1>o
  <2> QED BY <2>1, <2>3, <1>o, <1>k
<1>6. CASE GivesUp  BY <1>6, <1>i, <1>o DEF GivesUp
<1>7. CASE AsksHeader  BY <1>7, <1>a, <1>o DEF AsksHeader
<1>8. CASE GetsHeader  BY <1>8, <1>a, <1>i, <1>o DEF GetsHeader
<1>9. CASE AsksPayload  BY <1>9, <1>a, <1>o DEF AsksPayload
<1>10. CASE GetsPayload  BY <1>10, <1>i, <1>o DEF GetsPayload
<1>11. CASE ReadsOn
  <2>1. call' = call /\ pc["server"] = "received"  BY <1>11 DEF ReadsOn
  <2>2. pc' = [pc EXCEPT !["server"] = "finish"] \/ pc' = [pc EXCEPT !["server"] = "loop"]
    BY <1>11 DEF ReadsOn
  <2>3. OpOf(pc'["server"]) = "none"  BY <2>2, <1>p, <1>o
  <2> QED BY <2>1, <2>3, <1>o, <1>k
<1>12. CASE Departs
  <2>1. call' = call /\ pc["server"] = "finish" /\ pc' = [pc EXCEPT !["server"] = "done"]
    BY <1>12 DEF Departs
  <2>3. OpOf(pc'["server"]) = "none"  BY <2>1, <1>p, <1>o
  <2> QED BY <2>1, <2>3, <1>o, <1>k
<1>13. CASE Answers  BY <1>13, <1>a, <1>i, <1>o DEF Answers
<1> QED BY <1>c, <1>5, <1>6, <1>7, <1>8, <1>9, <1>10, <1>11, <1>12, <1>13 DEF ServerDoes

\* A step of the server keeps what the buffers of a loop depend on.
LEMMA ServerShapes == ASSUME Base, Server, HeaderFits PROVE Shapes'
<1>0. /\ ClientSame /\ test' = test /\ left' = left /\ pc'["client"] = pc["client"] /\ Shapes /\ DOMAIN pc = Ends /\ "server" \in Ends
      /\ begun \in [Ends -> Nat] /\ nleft \in Nat
  BY ServerSteps, Typed DEF Base, ClientSame, Same
<1>1. (isburst' <=> isburst) /\ First' = First  BY <1>0, Kept
<1>c. ServerDoes  BY ServerSorts DEF HeaderFits
<1>s. /\ test.len \in Nat \ {0} /\ test.reply \in Nat \ {0} /\ First \in Nat /\ Header \in Nat \ {0}
  BY Settings DEF Base
<1>p. ASSUME NEW l, pc' = [pc EXCEPT !["server"] = l] PROVE pc'["server"] = l
  BY <1>0, <1>p
<1>z. ASSUME NEW n, begun' = [begun EXCEPT !["server"] = n] PROVE begun'["server"] = n
  BY <1>z, <1>0
<1>2. SUFFICES
        /\ pc'["server"] = "header" => isburst /\ nleft' = 0
        /\ pc'["server"] = "recv" /\ isburst => nleft' > 0
        /\ ~isburst => nleft' = 0 /\ whole' = 0
        /\ pc'["server"] = "synch" => begun'["server"] <= First
        /\ pc'["server"] \in {"answer", "answering"} => begun'["server"] < test.reply
        /\ pc'["server"] \in {"listen", "listening"} => begun'["server"] = 0
  BY <1>0, <1>1 DEF Shapes
<1>3. /\ pc["server"] = "header" => isburst /\ nleft = 0
      /\ pc["server"] = "recv" /\ isburst => nleft > 0
      /\ ~isburst => nleft = 0 /\ whole = 0
      /\ pc["server"] = "synch" => begun["server"] <= First
      /\ pc["server"] \in {"answer", "answering"} => begun["server"] < test.reply
      /\ pc["server"] \in {"listen", "listening"} => begun["server"] = 0
  BY <1>0 DEF Shapes
<1>5. ASSUME NEW n \in Nat, ReadsFirst(n) PROVE <1>2!1
  <2>1. /\ pc["server"] = "synch" /\ n <= First - begun["server"] /\ UNCHANGED <<nleft, whole>>
        /\ \/ (pc' = [pc EXCEPT !["server"] = "answer"] \/ pc' = [pc EXCEPT !["server"] = "loop"]) /\ begun' = [begun EXCEPT !["server"] = 0]
           \/ pc' = pc /\ begun' = [begun EXCEPT !["server"] = begun["server"] + n]
    BY <1>5 DEF ReadsFirst
  <2>2. CASE (pc' = [pc EXCEPT !["server"] = "answer"] \/ pc' = [pc EXCEPT !["server"] = "loop"]) /\ begun' = [begun EXCEPT !["server"] = 0]
    <3>1. pc'["server"] \in {"answer", "loop"} /\ begun'["server"] = 0  BY <2>2, <1>p, <1>z
    <3>2. 0 < test.reply  BY <1>s
    <3> QED BY <3>1, <3>2, <2>1, <1>3
  <2>3. CASE pc' = pc /\ begun' = [begun EXCEPT !["server"] = begun["server"] + n]
    <3>1. pc'["server"] = "synch" /\ begun'["server"] = begun["server"] + n  BY <2>1, <2>3, <1>z
    <3>2. begun["server"] + n <= First  BY <2>1, <1>0, <1>s
    <3> QED BY <3>1, <3>2, <2>1, <1>3
  <2> QED BY <2>1, <2>2, <2>3
<1>6. CASE GivesUp
  <2>1. pc'["server"] = "finish" /\ UNCHANGED <<nleft, whole>>  BY <1>6, <1>p DEF GivesUp, Idles
  <2> QED BY <2>1, <1>3
<1>7. CASE AsksHeader
  <2>1. pc'["server"] = "header" /\ isburst /\ nleft = 0 /\ UNCHANGED <<nleft, whole>>
    BY <1>7, <1>p DEF AsksHeader, AskedBy
  <2> QED BY <2>1, <1>3
<1>8. CASE GetsHeader
  <2>1. isburst /\ ((nleft' = 0 /\ pc'["server"] = "received") \/ (nleft' # 0 /\ pc'["server"] = "recv"))
    BY <1>8, <1>p, <1>3 DEF GetsHeader, Idles, AskedBy
  <2>2. nleft' \in Nat  BY ServerTypes DEF Types
  <2> QED BY <2>1, <2>2
<1>9. CASE AsksPayload
  <2>1. pc'["server"] = "recv" /\ ~(isburst /\ nleft = 0) /\ UNCHANGED <<nleft, whole>>
    BY <1>9, <1>p DEF AsksPayload, AskedBy
  <2>2. isburst => nleft > 0  BY <2>1, <1>0
  <2> QED BY <2>1, <2>2, <1>3
<1>10. CASE GetsPayload
  <2>1. pc'["server"] = "received" /\ (~isburst => nleft' = nleft /\ whole' = whole)
    BY <1>10, <1>p DEF GetsPayload, Idles
  <2> QED BY <2>1, <1>3
<1>11. CASE ReadsOn
  <2>1. pc'["server"] \in {"finish", "loop"} /\ UNCHANGED <<nleft, whole>>
    BY <1>11, <1>p DEF ReadsOn
  <2> QED BY <2>1, <1>3
<1>12. CASE Departs
  <2>1. pc'["server"] = "done" /\ UNCHANGED <<nleft, whole>>  BY <1>12, <1>p DEF Departs
  <2> QED BY <2>1, <1>3
<1>13. CASE Answers
  <2>0. UNCHANGED <<nleft, whole>>  BY <1>13 DEF Answers
  <2>1. CASE pc["server"] = "answer"
    <3>1. pc'["server"] = "answering" /\ begun' = begun  BY <1>13, <2>1, <1>p DEF Answers, AskedBy
    <3> QED BY <3>1, <2>0, <2>1, <1>3
  <2>2. CASE pc["server"] = "answering"
    <3>1. CASE pc'["server"] = "listen" /\ begun'["server"] = 0  BY <3>1, <2>0, <1>3
    <3>2. CASE pc'["server"] = "answer" /\ begun'["server"] < test.reply  BY <3>2, <2>0, <1>3
    <3> QED BY <1>13, <2>2, <3>1, <3>2, <1>p, <1>z DEF Answers, Idles
  <2>3. CASE pc["server"] = "listen"
    <3>1. pc'["server"] = "listening" /\ begun' = begun  BY <1>13, <2>3, <1>p DEF Answers, AskedBy
    <3> QED BY <3>1, <2>0, <2>3, <1>3
  <2>4. CASE pc["server"] = "listening"
    <3>1. pc'["server"] \in {"answer", "listen"} /\ begun' = begun
      BY <1>13, <2>4, <1>p DEF Answers, Idles
    <3>2. begun["server"] = 0 /\ 0 < test.reply  BY <2>4, <1>3, <1>s
    <3> QED BY <3>1, <3>2, <2>0, <1>3
  <2> QED BY <1>13, <2>1, <2>2, <2>3, <2>4 DEF Answers
<1> QED BY <1>c, <1>5, <1>6, <1>7, <1>8, <1>9, <1>10, <1>11, <1>12, <1>13 DEF ServerDoes

\* A step of the server keeps what belongs to the end of a test.
LEMMA ServerEnded == ASSUME Base, Server, HeaderFits PROVE Ended'
<1>0. /\ ClientSame /\ test' = test /\ left' = left /\ bursts' = bursts /\ amount' = amount /\ pc'["client"] = pc["client"]
      /\ Ended /\ DOMAIN pc = Ends /\ "server" \in Ends /\ Loop' = Loop
      /\ sent'["client"] = sent["client"] /\ total'["client"] = total["client"] /\ reported'["client"] = reported["client"]
      /\ ("client" \in closed' <=> "client" \in closed) /\ ("client" \in shut' <=> "client" \in shut)
      /\ taken'["server"] = taken["server"]
  BY ServerSteps, Typed, Kept, PeerOf DEF Base, ClientSame, Same
<1>c. ServerDoes  BY ServerSorts DEF HeaderFits
<1>1. sent' = sent
  BY <1>c DEF ServerDoes, ReadsFirst, GivesUp, AsksHeader, GetsHeader, AsksPayload, GetsPayload,
      ReadsOn, Departs, Answers, Quiet
<1>p. ASSUME NEW l, pc' = [pc EXCEPT !["server"] = l] PROVE pc'["server"] = l
  BY <1>0, <1>p
<1>2. SUFFICES
        /\ pc["server"] # "done"
        /\ \/ pc'["server"] # "done" /\ UNCHANGED <<shut, closed>>
           \/ pc'["server"] = "done" /\ "server" \in shut' /\ "server" \in closed'
        /\ pc["client"] = "synch" => pc'["server"] \in {"synch", "finish", "done"} /\ begun'["server"] = begun["server"]
  BY <1>0, <1>1 DEF Ended
<1>3. pc["client"] = "synch" => pc["server"] \in {"synch", "finish", "done"}
  BY <1>0 DEF Ended
<1>5. ASSUME NEW n \in Nat, ReadsFirst(n) PROVE <1>2!1
  <2>1. pc["server"] = "synch" /\ pc["client"] # "synch" /\ UNCHANGED <<shut, closed>>
    BY <1>5 DEF ReadsFirst
  <2>2. pc' = pc \/ pc' = [pc EXCEPT !["server"] = "answer"] \/ pc' = [pc EXCEPT !["server"] = "loop"]  BY <1>5 DEF ReadsFirst
  <2>3. pc'["server"] # "done"  BY <2>1, <2>2, <1>p
  <2> QED BY <2>1, <2>3
<1>6. CASE GivesUp
  <2>1. pc'["server"] = "finish" /\ UNCHANGED <<shut, closed, begun>>
    BY <1>6, <1>p DEF GivesUp, Idles, Quiet
  <2>2. pc["server"] # "done"  BY <1>6 DEF GivesUp
  <2> QED BY <2>1, <2>2
<1>12. CASE Departs
  <2>1. pc'["server"] = "done"  BY <1>12, <1>p DEF Departs
  <2> QED BY <2>1, <1>12 DEF Departs
<1>7. CASE AsksHeader \/ GetsHeader \/ AsksPayload \/ GetsPayload \/ Answers
  <2>1. UNCHANGED <<shut, closed>> /\ pc["server"] \in {"loop", "header", "recv", "answer", "answering", "listen", "listening"}
    BY <1>7 DEF AsksHeader, GetsHeader, AsksPayload, GetsPayload, Answers, Quiet
  <2>2. pc'["server"] \in {"header", "recv", "received", "answer", "answering", "listen", "listening"}
    BY <1>7, <1>p DEF AsksHeader, GetsHeader, AsksPayload, GetsPayload, Answers, AskedBy, Idles
  <2> QED BY <2>1, <2>2, <1>3
<1>11. CASE ReadsOn
  <2>1. pc["server"] = "received" /\ pc'["server"] \in {"finish", "loop"} /\ UNCHANGED <<shut, closed>>  BY <1>11, <1>p DEF ReadsOn, Quiet
  <2> QED BY <2>1, <1>3
<1> QED BY <1>c, <1>5, <1>6, <1>7, <1>11, <1>12 DEF ServerDoes

\* Base is kept by the server, if a header that it has read says a size ...
LEMMA ServerBase == ASSUME Base, Server, HeaderFits PROVE Base'
BY ServerPlaces, ServerTypes, ServerCalls, ServerShapes, ServerEnded DEF Base
\* What a call has moved is a number.
LEMMA MovedIs == ASSUME Base, NEW e \in Ends PROVE Moved(e) \in Nat
<1>1. CallOk(e) /\ call[e] \in CallType
  BY Typed DEF Base, Calling, Ends
<1>2. Returned(e) => Result(e) \in Int
  BY <1>1 DEF Result, CallType
<1>3. call[e].done \in Nat
  BY <1>1 DEF CallType
<1> QED BY <1>2, <1>3 DEF Moved

\* A call that goes on leaves that of the other end alone.
LEMMA OtherKept ==
  ASSUME Base, NEW e \in Ends, NEW f \in Ends, f # e, CallStep(e)
  PROVE  /\ call'[f] = call[f] /\ Asked(f)' = Asked(f) /\ Moved(f)' = Moved(f) /\ Result(f)' = Result(f)
         /\ (Returned(f)' <=> Returned(f)) /\ CallOk(f)'
<1>1. UNCHANGED <<test, pc, amount, left, nleft, begun>> /\ (\E x : call' = [call EXCEPT ![e] = x])
  BY DEF CallStep, Loops, sender, receiver
<1>2. call'[f] = call[f]
  BY <1>1, Typed
<1>3. Moved(f)' = Moved(f) /\ Result(f)' = Result(f) /\ (Returned(f)' <=> Returned(f))
  BY <1>2 DEF Moved, Result, Returned
<1>4. Asked(f)' = Asked(f)
  <2>1. Limit' = Limit /\ Less(test.len, left)' = Less(test.len, left) /\ Less(Limit, left)' = Less(Limit, left)
        /\ Less(test.len, nleft)' = Less(test.len, nleft)
    BY <1>1 DEF Limit, Less, Is
  <2>2. isburst' <=> isburst
    BY <1>1, Kept
  <2> QED BY <2>1, <2>2, <1>1 DEF Asked
<1>5. CallOk(f)
  BY DEF Base, Calling, Ends
<1>6. CallOk(f)'
  BY <1>1, <1>2, <1>3, <1>4, <1>5 DEF CallOk
<1> QED BY <1>2, <1>3, <1>4, <1>6

\* ... by the kernel, however it cuts a call or ends it ...
LEMMA CallsBase == ASSUME Base, NEW e \in Ends, Calls(e) PROVE Base'
<1>0. CallStep(e) /\ CallOk(e)' /\ call' \in [Ends -> CallType]
  BY CallSteps
<1>1. /\ test \in Tests /\ sent \in [Ends -> Nat] /\ taken \in [Ends -> Nat] /\ dropped \in [Ends -> Nat]
      /\ taken["client"] <= sent["client"] /\ taken["server"] <= sent["server"]
      /\ shut \subseteq Ends /\ closed \subseteq Ends /\ over \subseteq Ends /\ interrupted \subseteq Ends
      /\ late \subseteq Ends /\ peerclose \subseteq Ends
      /\ "client" \in Ends /\ "server" \in Ends
  BY Typed
<1>2. /\ UNCHANGED <<test, shut, closed, over, late, rounds, pc, amount, left, bursts, total, reported, begun, nleft, whole, peerclose>>
      /\ OpOf(pc[e]) # "none" /\ ~Returned(e)
  BY <1>0 DEF CallStep, Loops, sender, receiver, results
<1>3. Loop' = Loop /\ (isburst' <=> isburst) /\ First' = First
  BY <1>2, Kept
<1>4. (\E n \in Nat \ {0} : Copies(e, n) \/ Reads(e, n)) \/ Returns(e)
  BY <1>0 DEF CallStep
<1>5. Peer(e) \in Ends /\ Peer(e) # e
  BY PeerIs
<1>6. sent' \in [Ends -> Nat] /\ taken' \in [Ends -> Nat] /\ dropped' \in [Ends -> Nat] /\ interrupted' \subseteq Ends
      /\ (\A f \in Ends : taken'[f] <= sent'[f]) /\ interrupted \subseteq interrupted'
  <2>0. \A f \in Ends : taken[f] <= sent[f]  BY <1>1 DEF Ends
  <2>1. ASSUME NEW n \in Nat \ {0}, Copies(e, n) PROVE <1>6
    <3>1. sent' = [sent EXCEPT ![e] = @ + n] /\ UNCHANGED <<taken, dropped, interrupted>>
      BY <2>1 DEF Copies
    <3>2. sent' \in [Ends -> Nat] /\ (\A f \in Ends : sent[f] <= sent'[f])  BY <3>1, <1>1
    <3>3. \A f \in Ends : taken'[f] <= sent'[f]
      <4>1. SUFFICES ASSUME NEW f \in Ends PROVE taken[f] <= sent'[f]  BY <3>1
      <4>2. taken[f] \in Nat /\ sent[f] \in Nat /\ sent'[f] \in Nat /\ taken[f] <= sent[f] /\ sent[f] <= sent'[f]  BY <1>1, <2>0, <3>2
      <4> QED BY <4>2
    <3> QED BY <3>1, <3>2, <3>3, <1>1
  <2>2. ASSUME NEW n \in Nat \ {0}, Reads(e, n) PROVE <1>6
    <3>1. taken' = [taken EXCEPT ![Peer(e)] = @ + n] /\ UNCHANGED <<sent, dropped, interrupted>> /\ n <= sent[Peer(e)] - taken[Peer(e)]
      BY <2>2 DEF Reads, Available
    <3>2. taken' \in [Ends -> Nat] /\ taken'[Peer(e)] = taken[Peer(e)] + n /\ (\A f \in Ends : f # Peer(e) => taken'[f] = taken[f])
      BY <3>1, <1>1, <1>5
    <3>3. taken[Peer(e)] + n <= sent[Peer(e)]  BY <3>1, <1>1, <1>5
    <3>4. \A f \in Ends : taken'[f] <= sent'[f]  BY <3>1, <3>2, <3>3, <2>0
    <3> QED BY <3>1, <3>2, <3>4, <1>1
  <2>3. CASE Returns(e)
    <3>1. UNCHANGED <<sent, taken>> /\ dropped' \in {dropped, [dropped EXCEPT ![e] = @ + Moved(e)]}
          /\ interrupted' \in {interrupted, interrupted \cup {e}}
      BY <2>3 DEF Returns
    <3>2. Moved(e) \in Nat  BY MovedIs
    <3>3. dropped' \in [Ends -> Nat]
      <4>1. CASE dropped' = dropped  BY <4>1, <1>1
      <4>2. CASE dropped' = [dropped EXCEPT ![e] = @ + Moved(e)]
        <5>1. dropped[e] + Moved(e) \in Nat  BY <3>2, <1>1
        <5> QED BY <4>2, <5>1, <1>1
      <4> QED BY <3>1, <4>1, <4>2
    <3> QED BY <3>1, <3>3, <2>0, <1>1
  <2> QED BY <1>4, <2>1, <2>2, <2>3
<1>7. Types'
  BY <1>1, <1>2, <1>6 DEF Base, Types
<1>8. Places'
  BY <1>2, <1>3 DEF Base, Places
<1>9. Calling'
  <2>1. \A f \in Ends : CallOk(f)'  BY <1>0, OtherKept
  <2> QED BY <2>1, <1>0, <1>1 DEF Calling, CallType
<1>10. Shapes'
  BY <1>2, <1>3 DEF Base, Shapes
<1>11. Ended'
  <2>1. pc["client"] = "synch" => sent'["client"] = sent["client"]
    <3>1. OpOf("synch") = "none"  BY Ops
    <3>2. ASSUME pc["client"] = "synch" PROVE e = "server"  BY <3>1, <3>2, <1>2 DEF Ends
    <3>3. ASSUME e = "server" PROVE sent'["client"] = sent["client"]
      BY <3>3, <1>4, <1>1 DEF Copies, Reads, Returns
    <3> QED BY <3>2, <3>3
  <2>2. Loop # "bounce" => sent'["server"] = sent["server"] /\ taken'["server"] = taken["server"]
    <3>1. ASSUME e = "server", Loop # "bounce" PROVE sent'["server"] = sent["server"] /\ taken'["server"] = taken["server"]
      <4>1. pc["server"] \in {"header", "recv"}
        <5>1. OpOf(pc["server"]) # "none"  BY <3>1, <1>2
        <5>2. pc["server"] \notin {"synch", "finish", "done", "loop", "received"}  BY <5>1, Ops
        <5> QED BY <5>2, <3>1 DEF Base, Places
      <4>2. OpOf(pc["server"]) \in {"recv", "recvn"}  BY <4>1, Ops
      <4> QED BY <3>1, <4>2, <1>4, <1>1, PeerOf DEF Copies, Reads, Returns
    <3>2. ASSUME e = "client", Loop # "bounce" PROVE sent'["server"] = sent["server"] /\ taken'["server"] = taken["server"]
      <4>1. pc["client"] \in {"burst", "rate burst", "event", "write", "congest burst", "congest write", "rate write"}
        <5>1. pc["client"] \in {"synch", "loop", "finish", "await", "report", "done", "failed", "burst", "write",
                       "congest burst", "congest write", "rate burst", "rate write", "event", "request", "reply"}
              /\ (pc["client"] \in {"request", "reply"} => Loop = "bounce")
          BY DEF Base, Places
        <5>2. pc["client"] \notin {"synch", "loop", "finish", "await", "report", "done", "failed"}
          BY <3>2, <1>2, Ops
        <5> QED BY <5>1, <5>2, <3>2
      <4>2. OpOf(pc["client"]) \in {"write", "writen"}  BY <4>1, Ops
      <4> QED BY <3>2, <4>2, <1>4, <1>1 DEF Copies, Reads, Returns
    <3> QED BY <3>1, <3>2 DEF Ends
  <2> QED BY <2>1, <2>2, <1>2, <1>3 DEF Base, Ended
<1>12. Cut'
  <2>1. CASE e = "client"
    <3>1. ASSUME NEW n \in Nat \ {0}, Copies(e, n) PROVE Returned("client")' => Result("client")' = Asked("client")'
      <4>1. Asked("client")' = Asked("client")
        BY <1>2, <1>3 DEF Asked, Limit, Less, Is
      <4> QED BY <3>1, <4>1, <2>1 DEF Copies
    <3>2. ASSUME NEW n \in Nat \ {0}, Reads(e, n) PROVE OpOf(pc'["client"]) # "writen"
      <4>1. OpOf(pc["client"]) \in {"recv", "recvn"}  BY <3>2, <2>1 DEF Reads
      <4> QED BY <4>1, <1>2
    <3>3. ASSUME Returns(e) PROVE OpOf(pc'["client"]) = "writen" => "client" \in interrupted' \/ "server" \in closed'
      BY <3>3, <2>1, <1>2, <1>6, PeerOf DEF Returns
    <3>5. CASE \E n \in Nat \ {0} : Copies(e, n)
      <4>1. Returned("client")' => Result("client")' = Asked("client")'  BY <3>1, <3>5
      <4>2. Returned("client")' /\ OpOf(pc'["client"]) = "writen" => Asked("client")' \in Nat
        <5>1. CallOk("client")'  BY <1>0, <2>1
        <5>2. OpOf("finish") = "none" /\ OpOf("failed") = "none"  BY Ops
        <5>3. Returned("client")' /\ OpOf(pc'["client"]) = "writen" => call'["client"] # NoCall /\ call'["client"].op = "returned"
          BY DEF Returned, NoCall
        <5> QED BY <5>1, <5>2, <5>3 DEF CallOk
      <4> QED BY <4>1, <4>2 DEF Cut
    <3>6. CASE \E n \in Nat \ {0} : Reads(e, n)  BY <3>2, <3>6 DEF Cut
    <3>7. CASE Returns(e)  BY <3>3, <3>7 DEF Cut
    <3> QED BY <1>4, <3>5, <3>6, <3>7
  <2>2. CASE e = "server"
    <3>1. /\ Asked("client")' = Asked("client") /\ Result("client")' = Result("client") /\ (Returned("client")' <=> Returned("client"))
      BY <2>2, <1>0, <1>1, OtherKept
    <3> QED BY <3>1, <1>2, <1>6 DEF Base, Cut
  <2> QED BY <2>1, <2>2 DEF Ends
<1> QED BY <1>7, <1>8, <1>9, <1>10, <1>11, <1>12 DEF Base

\* ... and by timers and signals.
LEMMA ClockBase == ASSUME Base, NEW e \in Ends, Time(e) \/ Signal(e) PROVE Base'
<1>1. UNCHANGED <<test, sent, taken, dropped, shut, closed, call, late, pc, amount, left, bursts, total, reported, begun, nleft, whole, peerclose, rounds>>
      /\ over' \in {over, over \cup {e}} /\ interrupted' \in {interrupted, interrupted \cup {e}}
  BY DEF Time, Signal, Elapse, Interrupt, wire, bytes, Loops, sender, receiver, results
<1>2. over' \subseteq Ends /\ interrupted' \subseteq Ends /\ interrupted \subseteq interrupted'
  BY <1>1, Typed
<1>3. Loop' = Loop /\ (isburst' <=> isburst) /\ First' = First
  BY <1>1, Kept
<1>4. \A f \in Ends : Asked(f)' = Asked(f) /\ Result(f)' = Result(f) /\ (Returned(f)' <=> Returned(f))
  BY <1>1, <1>3 DEF Asked, Limit, Less, Is, Result, Returned
<1>5. Types'  BY <1>1, <1>2 DEF Base, Types
<1>6. Places' /\ Shapes' /\ Ended'
  <2>1. Places'  BY <1>1, <1>3 DEF Base, Places
  <2>2. Shapes'  BY <1>1, <1>3 DEF Base, Shapes
  <2>3. Ended'  BY <1>1, <1>3 DEF Base, Ended
  <2> QED BY <2>1, <2>2, <2>3
<1>7. Calling'
  <2>1. \A f \in Ends : CallOk(f)'
    <3>1. \A f \in Ends : CallOk(f)  BY DEF Base, Calling, Ends
    <3> QED BY <3>1, <1>1, <1>4 DEF CallOk
  <2> QED BY <2>1, <1>1 DEF Base, Calling, Ends
<1>8. Cut'
  BY <1>1, <1>2, <1>4 DEF Base, Cut, Ends
<1> QED BY <1>5, <1>6, <1>7, <1>8 DEF Base
-----------------------------------------------------------------------------
(* The bursts of the client.                                               *)
BurstsOk == Chained /\ LastBurst /\ RateCut

\* What a step leaves of the bursts while it leaves bursts and sent alone.
LEMMA ChainedKept ==
  ASSUME bursts' = bursts, test' = test PROVE (Chained' <=> Chained) /\ Last' = Last
<1>1. FirstPayload' = FirstPayload  BY Kept
<1> QED BY <1>1 DEF Chained, End, Last

\* A burst has a place and a size, and its end is behind its place.
LEMMA BurstIs ==
  ASSUME Base
  PROVE  /\ Len(bursts) \in Nat /\ (bursts = <<>> <=> Len(bursts) = 0)
         /\ \A i \in 1 .. Len(bursts) : bursts[i] \in [at : Nat, size : Nat \ {0}] /\ bursts[i].at \in Nat
                                       /\ bursts[i].size \in Nat \ {0} /\ End(bursts[i]) \in Nat /\ End(bursts[i]) > bursts[i].at
<1>1. bursts \in Seq([at : Nat, size : Nat \ {0}])  BY Typed
<1>2. Len(bursts) \in Nat /\ (bursts = <<>> <=> Len(bursts) = 0)  BY <1>1, EmptySeq, LenProperties
<1>3. ASSUME NEW i \in 1 .. Len(bursts)
      PROVE  bursts[i] \in [at : Nat, size : Nat \ {0}] /\ bursts[i].at \in Nat
             /\ bursts[i].size \in Nat \ {0} /\ End(bursts[i]) \in Nat /\ End(bursts[i]) > bursts[i].at
  <2>1. bursts[i] \in [at : Nat, size : Nat \ {0}]  BY <1>1, ElementOfSeq
  <2>2. bursts[i].at \in Nat /\ bursts[i].size \in Nat \ {0}  BY <2>1
  <2> QED BY <2>1, <2>2 DEF End
<1> QED BY <1>2, <1>3

\* A write is not longer than what is left of the burst.
LEMMA AskedRest ==
  ASSUME Base, Framed, Sending
  PROVE  Asked("client") \in Int => Asked("client") <= Rest
<1>1. /\ left \in Nat /\ amount \in Nat  BY Typed
<1>s. /\ test.len \in Nat \ {0} /\ Limit \in Nat  BY Settings, LimitIs DEF Base
<1>2. Less(test.len, left) <= left /\ Less(Limit, left) <= left  BY <1>1, <1>s DEF Less
<1>3. pc["client"] \in {"burst", "write", "congest burst", "congest write", "rate burst", "rate write", "event"}
      /\ (pc["client"] = "write" => isburst) /\ (pc["client"] = "event" <=> Loop = "events")
  <2>1. pc["client"] \in {"synch", "loop", "finish", "await", "report", "done", "failed", "burst", "write",
                       "congest burst", "congest write", "rate burst", "rate write", "event", "request", "reply"}
        /\ (pc["client"] \in {"burst", "write"} => Loop = "stream")
        /\ (pc["client"] \in {"congest burst", "congest write"} => Loop = "congest")
        /\ (pc["client"] \in {"rate burst", "rate write"} => Loop = "rate")
        /\ (pc["client"] = "event" => Loop = "events")
        /\ (pc["client"] \in {"request", "reply"} => Loop = "bounce")
    BY DEF Base, Places
  <2>2. pc["client"] \notin {"synch", "loop", "finish", "await", "report", "done", "failed"}
    BY Ops DEF Sending
  <2>3. Loop # "bounce" /\ (Loop = "stream" => isburst)
    BY DEF Framed
  <2> QED BY <2>1, <2>2, <2>3
<1>4. CASE pc["client"] = "event"
  <2>1. Rest = Asked("client")  BY <1>3, <1>4 DEF Rest
  <2> QED BY <2>1
<1>5. CASE pc["client"] # "event"
  <2>1. Rest = left  BY <1>3, <1>5 DEF Rest
  <2>2. Asked("client") \in {Less(test.len, left), Less(Limit, left), left}  BY <1>3, <1>5 DEF Asked
  <2> QED BY <2>1, <2>2, <1>1, <1>2
<1> QED BY <1>4, <1>5

\* A burst is begun when the one before has been sent to its end.
LEMMA BurstStarts ==
  ASSUME Base, Client, Open, BurstsOk, NEW l, NEW size, StartsBurst(l, size), test' = test, interrupted' = interrupted
  PROVE  BurstsOk'
<1>1. /\ bursts \in Seq([at : Nat, size : Nat \ {0}]) /\ sent \in [Ends -> Nat] /\ left \in Nat /\ amount \in Nat
      /\ "client" \in Ends
  BY Typed
<1>2. /\ pc["client"] = "loop" /\ "client" \notin interrupted /\ (Is("ModeTime") \/ amount > 0)
      /\ bursts' = Append(bursts, [at |-> sent["client"], size |-> size]) /\ size \in Nat \ {0}
      /\ amount' = amount /\ sent' = sent
      /\ pc'["client"] = l /\ call' = [call EXCEPT !["client"] = [op |-> OpOf(l), len |-> Asked("client")', done |-> 0]]
      /\ Asked("client")' \in Nat \ {0}
  BY DEF StartsBurst, Starting, Fresh
<1>3. \/ l = "event" /\ Loop = "events" /\ size = Asked("client")'
      \/ /\ (l = "burst" /\ Loop = "stream") \/ (l = "rate burst" /\ Loop = "rate") \/ (l = "congest burst" /\ Loop = "congest")
         /\ left = 0 /\ left' = size /\ size >= Header
  BY DEF StartsBurst
<1>4. Loop' = Loop /\ FirstPayload' = FirstPayload /\ (\A f : Is(f)' <=> Is(f))  BY Kept
<1>s. FirstPayload \in Nat /\ Header \in Nat \ {0} /\ test.len >= Header /\ test.len \in Nat
  <2>1. isburst \/ Loop \in {"congest", "events"}  BY DEF Open, Framed
  <2>2. Loop # "bounce"  BY DEF Open, Framed
  <2> QED BY <2>1, <2>2, Settings DEF Base
<1>5. Rest = 0
  <2>1. pc["client"] # "event"  BY <1>2
  <2> QED BY <1>3, <2>1 DEF Rest
<1> DEFINE n == Len(bursts)
<1>6. n \in Nat /\ (bursts = <<>> <=> n = 0)
  BY <1>1
<1>7. /\ bursts = <<>> => sent["client"] = FirstPayload
      /\ bursts # <<>> => sent["client"] = End(bursts[n]) /\ bursts[n].size >= Header
  <2>1. CASE bursts = <<>>
    BY <2>1, <1>2 DEF BurstsOk, LastBurst
  <2>2. CASE bursts # <<>>
    <3>1. bursts[n] \in [at : Nat, size : Nat \ {0}]  BY <2>2, <1>6, BurstIs
    <3>2. Last = bursts[n]  BY DEF Last
    <3>3. sent["client"] + Rest = End(bursts[n])  BY <2>2, <3>2, <1>2 DEF BurstsOk, LastBurst
    <3>4. sent["client"] + 0 = sent["client"]  BY <1>1
    <3>5. bursts[n].size < Header => Loop = "events" /\ ~Is("ModeTime") /\ (amount = 0 \/ "client" \in interrupted)
      BY <2>2, <3>2, <1>2 DEF BurstsOk, LastBurst
    <3>6. ~(bursts[n].size < Header)  BY <3>5, <1>2
    <3> QED BY <2>2, <3>1, <3>3, <3>4, <3>6, <1>5, <1>s
  <2> QED BY <2>1, <2>2
<1> DEFINE b == [at |-> sent["client"], size |-> size]
<1>8. /\ Len(bursts') = n + 1 /\ bursts'[n + 1] = b /\ \A i \in 1 .. n : bursts'[i] = bursts[i]
      /\ \A i \in 1 .. n : bursts[i].at \in Nat /\ bursts[i].size \in Nat \ {0}
  <2>1. b \in [at : Nat, size : Nat \ {0}]  BY <1>1, <1>2
  <2>2. \A i \in 1 .. n : bursts[i] \in [at : Nat, size : Nat \ {0}]  BY BurstIs
  <2> QED BY <2>1, <2>2, <1>1, <1>2, AppendProperties
<1>e. \A i \in 1 .. n : End(bursts[i]) \in Nat /\ End(bursts[i]) > bursts[i].at  BY BurstIs
<1>c. /\ \A i \in 1 .. n - 1 : End(bursts[i]) = bursts[i + 1].at /\ bursts[i].size >= Header
      /\ \A i, j \in 1 .. n : i < j => End(bursts[i]) <= bursts[j].at
      /\ bursts # <<>> => bursts[1].at = FirstPayload
  BY DEF BurstsOk, Chained
<1>9. Chained'
  <2>1. \A i \in 1 .. n : End(bursts[i]) = bursts'[i + 1].at /\ bursts'[i].size >= Header
    <3>1. SUFFICES ASSUME NEW i \in 1 .. n PROVE End(bursts[i]) = bursts'[i + 1].at /\ bursts'[i].size >= Header
      OBVIOUS
    <3>2. CASE i = n
      <4>1. bursts # <<>>  BY <3>1, <3>2, <1>6
      <4>2. bursts'[n + 1].at = sent["client"]  BY <1>8
      <4> QED BY <4>1, <4>2, <3>2, <1>7, <1>8
    <3>3. CASE i # n
      <4>1. i \in 1 .. n - 1 /\ i + 1 \in 1 .. n  BY <3>3, <1>6
      <4> QED BY <4>1, <1>c, <1>8
    <3> QED BY <3>2, <3>3
  <2>2. \A i \in 1 .. n : End(bursts[i]) <= sent["client"]
    <3>1. SUFFICES ASSUME NEW i \in 1 .. n PROVE End(bursts[i]) <= sent["client"]
      OBVIOUS
    <3>2. bursts # <<>> /\ n \in 1 .. n  BY <1>6
    <3>3. sent["client"] = End(bursts[n])  BY <3>2, <1>7
    <3>4. CASE i = n  BY <3>3, <3>4, <1>1
    <3>5. CASE i # n
      <4>1. End(bursts[i]) <= bursts[n].at  BY <3>5, <3>2, <1>c, <1>6
      <4>2. End(bursts[n]) > bursts[n].at /\ End(bursts[n]) \in Nat /\ bursts[n].at \in Nat /\ End(bursts[i]) \in Nat  BY <3>2, <1>e, <1>8
      <4> QED BY <4>1, <4>2, <3>3
    <3> QED BY <3>4, <3>5
  <2>3. ASSUME NEW i \in 1 .. n + 1, NEW j \in 1 .. n + 1, i < j PROVE End(bursts'[i]) <= bursts'[j].at
    <3>1. i \in 1 .. n /\ bursts'[i] = bursts[i]  BY <2>3, <1>6, <1>8
    <3>2. CASE j = n + 1
      <4>1. bursts'[j].at = sent["client"]  BY <3>2, <1>8
      <4> QED BY <4>1, <3>1, <2>2
    <3>3. CASE j # n + 1
      <4>1. j \in 1 .. n  BY <3>3, <1>6
      <4> QED BY <4>1, <3>1, <2>3, <1>c, <1>8
    <3> QED BY <3>2, <3>3
  <2>4. bursts'[1].at = FirstPayload
    <3>1. CASE n = 0
      <4>1. bursts'[1] = b  BY <3>1, <1>8
      <4> QED BY <4>1, <3>1, <1>6, <1>7
    <3>2. CASE n # 0
      <4>1. 1 \in 1 .. n  BY <3>2, <1>6
      <4> QED BY <4>1, <3>2, <1>6, <1>8, <1>c
    <3> QED BY <3>1, <3>2
  <2>5. n + 1 - 1 = n  BY <1>6
  <2>6. \A i \in 1 .. n : End(bursts[i]) = End(bursts'[i])  BY <1>8
  <2>7. \A i \in 1 .. Len(bursts') - 1 : End(bursts'[i]) = bursts'[i + 1].at /\ bursts'[i].size >= Header
    BY <2>1, <2>5, <2>6, <1>8
  <2>8. \A i, j \in 1 .. Len(bursts') : i < j => End(bursts'[i]) <= bursts'[j].at
    BY <2>3, <1>8
  <2> HIDE DEF n, b
  <2> QED BY <2>4, <2>7, <2>8, <1>4, HeaderAssumption DEF Chained, End
<1>10. LastBurst'
  <2>1. Last' = b /\ bursts' # <<>>
    <3>1. Last' = bursts'[n + 1]  BY <1>8 DEF Last
    <3>2. bursts' # <<>>
      <4>1. Len(<<>>) = 0  OBVIOUS
      <4> QED BY <4>1, <1>6, <1>8
    <3> QED BY <3>1, <3>2, <1>8
  <2>2. End(b) = sent["client"] + size /\ b.at = sent["client"] /\ b.size = size  BY DEF End
  <2>3. sent["client"] <= sent["client"] + size /\ sent["client"] \in Nat /\ size \in Nat
    BY <1>1, <1>2
  <2>4. Moved("client")' = 0
    <3>1. call'["client"] = [op |-> OpOf(l), len |-> Asked("client")', done |-> 0]  BY <1>2, Typed
    <3>2. OpOf(l) # "returned"  BY DEF OpOf
    <3>3. call'["client"].op = OpOf(l) /\ call'["client"].done = 0  BY <3>1
    <3> QED BY <3>2, <3>3 DEF Moved, Returned
  <2>5. Rest' = size
    <3>1. CASE l = "event"
      BY <3>1, <1>2, <1>3, <1>4 DEF Rest
    <3>2. CASE l # "event"
      <4>1. Loop # "events" /\ left' = size  BY <3>2, <1>3
      <4> QED BY <4>1, <1>4 DEF Rest
    <3> QED BY <3>1, <3>2
  <2>6. sent'["client"] - Moved("client")' + Rest' = End(b)
    <3>1. sent["client"] - 0 + size = sent["client"] + size  BY <2>3
    <3> QED BY <3>1, <2>2, <2>4, <2>5, <1>2
  <2>7. l # "loop"  BY <1>3
  <2>8. ASSUME size < Header PROVE l = "event" /\ Loop = "events" /\ ~Is("ModeTime") /\ amount' = Asked("client")'
    <3>0. ~(size >= Header)  BY <2>8, <1>s, <2>3
    <3>1. l = "event" /\ Loop = "events" /\ size = Asked("client")'  BY <3>0, <1>3
    <3>2. Asked("client")' = Limit'  BY <3>1, <1>2 DEF Asked
    <3>3. Limit' = Limit  BY <1>2, <1>4 DEF Limit, Less
    <3>4. Limit < test.len  BY <3>1, <3>2, <3>3, <2>8, <1>s, <1>2
    <3>5. ~Is("ModeTime")  BY <3>4, <1>s DEF Limit
    <3>6. Limit = amount  BY <3>4, <3>5, <1>s, <1>1 DEF Limit, Less
    <3> QED BY <3>1, <3>2, <3>3, <3>5, <3>6, <1>2
  <2> HIDE DEF b
  <2> QED BY <2>1, <2>2, <2>3, <2>6, <2>7, <2>8, <1>2, <1>4 DEF LastBurst
<1>11. RateCut'
  <2>1. l # "rate write" /\ l # "loop"  BY <1>3
  <2> QED BY <2>1, <1>2 DEF RateCut
<1> QED BY <1>9, <1>10, <1>11 DEF BurstsOk
\* What LastBurst says of the last burst.
LastIs ==
  /\ Last.at <= sent["client"] /\ sent["client"] <= End(Last)
  /\ Sending => sent["client"] - Moved("client") + Rest = End(Last)
  /\ pc["client"] = "loop" => "client" \in interrupted \/ sent["client"] + Rest = End(Last)
  /\ Last.size < Header => Loop = "events" /\ ~Is("ModeTime")
       /\ (pc["client"] = "event" => amount = Asked("client"))
       /\ (pc["client"] = "loop" => amount = 0 \/ "client" \in interrupted)

\* LastBurst, by whether there is one.
LEMMA LastOf ==
  LastBurst <=>
    /\ bursts = <<>> => ~Sending /\ (pc["client"] # "synch" => sent["client"] = FirstPayload /\ Rest = 0)
    /\ bursts # <<>> => LastIs
BY DEF LastBurst, LastIs

\* The parts of a step of the client that leaves the bursts and sent alone.
LEMMA BurstsStay ==
  ASSUME Base, BurstsOk, test' = test, bursts' = bursts, sent' = sent, interrupted' = interrupted,
         pc["client"] # "synch", pc'["client"] # "synch",
         bursts = <<>> => ~Sending' /\ Rest' = 0,
         bursts # <<>> =>
           /\ Sending' => sent["client"] - Moved("client")' + Rest' = End(Last)
           /\ pc'["client"] = "loop" => "client" \in interrupted \/ sent["client"] + Rest' = End(Last)
           /\ Last.size < Header => pc'["client"] # "event"
                /\ (pc'["client"] = "loop" => amount' = 0 \/ "client" \in interrupted),
         RateCut'
  PROVE  BurstsOk'
<1>1. Chained' /\ Last' = Last  BY ChainedKept DEF BurstsOk
<1>2. Loop' = Loop /\ FirstPayload' = FirstPayload /\ (Is("ModeTime")' <=> Is("ModeTime"))  BY Kept
<1>3. ASSUME bursts # <<>> PROVE LastIs'
  <2>1. LastIs  BY <1>3, LastOf DEF BurstsOk
  <2>2. Last.at <= sent["client"] /\ sent["client"] <= End(Last)
        /\ (Last.size < Header => Loop = "events" /\ ~Is("ModeTime"))
    BY <2>1 DEF LastIs
  <2>3. End(Last') = End(Last)  BY <1>1
  <2> QED BY <1>1, <1>2, <1>3, <2>2, <2>3 DEF LastIs, End
<1>4. ASSUME bursts = <<>> PROVE ~Sending' /\ (pc'["client"] # "synch" => sent'["client"] = FirstPayload' /\ Rest' = 0)
  <2>1. sent["client"] = FirstPayload  BY <1>4, LastOf DEF BurstsOk
  <2> QED BY <2>1, <1>2, <1>4
<1>5. LastBurst'  BY <1>3, <1>4 DEF LastBurst, LastIs
<1> QED BY <1>1, <1>5 DEF BurstsOk

\* The numbers of the client.
LEMMA Numbers ==
  ASSUME Base
  PROVE  sent["client"] \in Nat /\ left \in Nat /\ amount \in Nat /\ test.len \in Nat \ {0} /\ Header \in Nat \ {0} /\ begun["client"] \in Nat
BY Typed, Settings DEF Base

\* A write goes on with the burst that is there.
LEMMA WriteStarts ==
  ASSUME Base, Open, BurstsOk, NEW l, StartsWrite(l), test' = test, interrupted' = interrupted
  PROVE  BurstsOk'
<1>1. /\ pc["client"] = "loop" /\ "client" \notin interrupted /\ pc'["client"] = l
      /\ call' = [call EXCEPT !["client"] = [op |-> OpOf(l), len |-> Asked("client")', done |-> 0]]
      /\ bursts' = bursts /\ sent' = sent
  BY DEF StartsWrite, Starting, Fresh, Held
<1>2. \/ l = "write" /\ Loop = "stream" /\ left' = left /\ left > 0
      \/ l = "congest write" /\ Loop = "congest" /\ left' = left /\ left > 0
      \/ l = "rate write" /\ Loop = "rate" /\ left > 0
  BY DEF StartsWrite, Open, Framed
<1>n. left \in Nat /\ sent["client"] \in Nat  BY Numbers
<1>3. l # "rate write"
  <2>1. Loop = "rate" => left = 0  BY <1>1 DEF BurstsOk, RateCut
  <2>2. ~(0 > 0)  OBVIOUS
  <2>3. left > 0 /\ (l = "rate write" => Loop = "rate")  BY <1>2
  <2> QED BY <2>1, <2>2, <2>3
<1>4. left' = left /\ left > 0 /\ Loop \in {"stream", "congest"} /\ Loop' = Loop /\ l \in {"write", "congest write"}
  BY <1>2, <1>3, Kept
<1>5. Rest = left /\ Rest' = left  BY <1>4 DEF Rest
<1>6. bursts # <<>>
  <2>0. left > 0  BY <1>4
  <2>1. left # 0  BY <2>0, <1>n
  <2>2. pc["client"] # "synch"  BY <1>1
  <2> QED BY <2>1, <2>2, <1>5, LastOf DEF BurstsOk
<1>7. Moved("client")' = 0
  <2>1. call'["client"] = [op |-> OpOf(l), len |-> Asked("client")', done |-> 0]  BY <1>1, Typed
  <2>2. call'["client"].op = OpOf(l) /\ call'["client"].done = 0  BY <2>1
  <2>3. OpOf(l) # "returned"  BY DEF OpOf
  <2> QED BY <2>2, <2>3 DEF Moved, Returned
<1>8. sent["client"] + left = End(Last)
  BY <1>1, <1>5, <1>6, LastOf DEF BurstsOk, LastIs
<1>9. sent["client"] - 0 + left = sent["client"] + left  BY <1>n
<1>10. sent["client"] - Moved("client")' + Rest' = End(Last)  BY <1>5, <1>7, <1>8, <1>9
<1>11. RateCut'  BY <1>1, <1>4 DEF RateCut
<1>12. pc'["client"] \notin {"synch", "loop", "event"} /\ pc["client"] # "synch"  BY <1>1, <1>4
<1> QED BY <1>1, <1>6, <1>10, <1>11, <1>12, BurstsStay

\* The rate loop goes on with a write when its writen was cut (RunRateLimitedTCP).
LEMMA WriteResumes ==
  ASSUME Base, Open, BurstsOk, Resumes, test' = test, interrupted' = interrupted
  PROVE  BurstsOk'
<1>1. /\ pc["client"] = "rate burst" /\ Returned("client") /\ Result("client") < left /\ pc'["client"] = "rate write"
      /\ call' = [call EXCEPT !["client"] = [op |-> OpOf("rate write"), len |-> Asked("client")', done |-> 0]]
      /\ bursts' = bursts /\ sent' = sent /\ left' = left - Result("client")
  BY DEF Resumes, Fresh, Held
<1>2. OpOf(pc["client"]) = "writen" /\ OpOf(pc["client"]) # "none" /\ Asked("client") = left /\ Sending
  <2>1. OpOf(pc["client"]) = "writen"  BY <1>1, Ops
  <2> QED BY <2>1, <1>1 DEF Asked, Sending
<1>3. "client" \in interrupted
  BY <1>1, <1>2 DEF Base, Cut, Open
<1>4. Result("client") \in Nat /\ Moved("client") = Result("client")
  <2>1. Result("client") \in Int /\ Result("client") >= 0 /\ Moved("client") = (IF Result("client") > 0 THEN Result("client") ELSE 0)
    BY <1>1, <1>2, ResultIs DEF Ends
  <2> QED BY <2>1
<1>5. Loop = "rate" /\ Loop' = Loop  BY <1>1, Kept DEF Base, Places
<1>6. Rest = left /\ Rest' = left - Result("client")  BY <1>1, <1>5 DEF Rest
<1>7. bursts # <<>>  BY <1>2, LastOf DEF BurstsOk
<1>8. sent["client"] - Result("client") + left = End(Last)
  BY <1>2, <1>4, <1>6, <1>7, LastOf DEF BurstsOk, LastIs
<1>9. Moved("client")' = 0
  <2>1. call'["client"] = [op |-> "write", len |-> Asked("client")', done |-> 0]
    BY <1>1, Typed, Ops
  <2>2. call'["client"].op = "write" /\ call'["client"].done = 0  BY <2>1
  <2> QED BY <2>2 DEF Moved, Returned
<1>n. left \in Nat /\ sent["client"] \in Nat  BY Numbers
<1>10. sent["client"] - 0 + (left - Result("client")) = sent["client"] - Result("client") + left
  BY <1>n, <1>4
<1>11. sent["client"] - Moved("client")' + Rest' = End(Last)  BY <1>6, <1>8, <1>9, <1>10
<1>12. RateCut'  BY <1>1, <1>3 DEF RateCut
<1>13. pc'["client"] \notin {"synch", "loop", "event"} /\ pc["client"] # "synch"  BY <1>1
<1> QED BY <1>1, <1>7, <1>11, <1>12, <1>13, BurstsStay

\* What a write has sent is deducted from the rest of the burst.
LEMMA WriteEnds ==
  ASSUME Base, Open, BurstsOk, NEW n \in Nat, EndsWrite(n), test' = test, interrupted' = interrupted
  PROVE  BurstsOk'
<1> DEFINE places == {"burst", "write", "congest burst", "congest write", "rate burst", "rate write", "event"}
<1>1. /\ pc["client"] \in places /\ Returned("client")
      /\ (pc["client"] = "rate burst" => Result("client") = left)
      /\ pc' = [pc EXCEPT !["client"] = "loop"]
      /\ bursts' = bursts /\ sent' = sent
  BY DEF EndsWrite, Held
<1>2. pc'["client"] = "loop"  BY <1>1 DEF Base, Places, Ends
<1>n. left \in Nat /\ sent["client"] \in Nat /\ amount \in Nat /\ Header \in Nat \ {0}  BY Numbers
<1>3. OpOf(pc["client"]) \in {"write", "writen"} /\ OpOf(pc["client"]) # "none" /\ Sending
  <2>1. OpOf(pc["client"]) \in {"write", "writen"}  BY <1>1, Ops
  <2> QED BY <2>1 DEF Sending
<1>4. bursts # <<>>  BY <1>3, LastOf DEF BurstsOk
<1>5. LastIs  BY <1>4, LastOf DEF BurstsOk
<1>6. Moved("client") \in Nat /\ Result("client") \in Int /\ Asked("client") \in Nat
      /\ (Result("client") > 0 => Moved("client") = Result("client"))
  <2>1. Result("client") \in Int /\ Moved("client") = (IF Result("client") > 0 THEN Result("client") ELSE 0) /\ Asked("client") \in Nat
    BY <1>1, <1>3, ResultIs DEF Ends
  <2> QED BY <2>1
<1>7. sent["client"] - Moved("client") + Rest = End(Last)  BY <1>3, <1>5 DEF LastIs
<1>l. Loop' = Loop  BY Kept
<1>p. /\ (pc["client"] = "event" <=> Loop = "events")
      /\ (pc["client"] = "write" => isburst)
      /\ (pc["client"] \in {"rate burst", "rate write"} <=> Loop = "rate")
  <2>1. /\ pc["client"] \in {"burst", "write"} => Loop = "stream"
        /\ pc["client"] \in {"congest burst", "congest write"} => Loop = "congest"
        /\ pc["client"] \in {"rate burst", "rate write"} => Loop = "rate"
        /\ pc["client"] = "event" => Loop = "events"
    BY DEF Base, Places
  <2>2. Loop = "stream" => isburst  BY DEF Open, Framed
  <2> QED BY <2>1, <2>2, <1>1
<1>8. CASE pc["client"] = "rate write"
  <2>1. "client" \in interrupted  BY <1>8 DEF BurstsOk, RateCut
  <2>2. RateCut'  BY <1>2, <2>1 DEF RateCut
  <2>3. ~Sending'  BY <1>2, Ops DEF Sending
  <2>4. pc["client"] # "synch" /\ pc'["client"] \notin {"event", "synch"}  BY <1>8, <1>2
  <2> QED BY <1>1, <1>4, <2>1, <2>2, <2>3, <2>4, BurstsStay
<1>9. CASE pc["client"] = "event"
  <2>1. Loop = "events" /\ Rest = Asked("client")  BY <1>9, <1>p DEF Rest
  <2>2. Rest' = 0  BY <1>l, <1>2, <2>1 DEF Rest
  <2>3. OpOf(pc["client"]) = "writen"  BY <1>9, Ops
  <2>4. CASE Result("client") < Asked("client")
    <3>1. "client" \in interrupted  BY <2>3, <2>4, <1>1 DEF Base, Cut, Open
    <3>2. RateCut'  BY <1>2, <3>1 DEF RateCut
    <3>3. ~Sending'  BY <1>2, Ops DEF Sending
    <3>4. pc["client"] # "synch" /\ pc'["client"] \notin {"event", "synch"}  BY <1>9, <1>2
    <3> QED BY <1>1, <1>4, <3>1, <3>2, <3>3, <3>4, BurstsStay
  <2>5. CASE ~(Result("client") < Asked("client"))
    <3>1. Moved("client") = Asked("client") /\ Asked("client") \in Nat /\ Moved("client") \in Nat
      <4>1. Result("client") <= Asked("client") /\ Asked("client") \in Nat \ {0}
        BY <1>1, <1>3, ResultIs DEF Ends
      <4>2. Result("client") = Asked("client") /\ Result("client") > 0  BY <4>1, <2>5, <1>6
      <4> QED BY <4>2, <1>6
    <3>2. sent["client"] + Rest' = End(Last)
      <4>1. sent["client"] - Asked("client") + Asked("client") = sent["client"] + 0  BY <3>1, <1>n
      <4> QED BY <4>1, <2>1, <2>2, <1>7, <3>1
    <3>3. ASSUME Last.size < Header PROVE amount' = 0
      <4>1. amount = Asked("client") /\ ~Is("ModeTime")  BY <3>3, <1>5, <1>9 DEF LastIs
      <4>2. n = Moved("client") + 0  BY <1>9 DEF EndsWrite
      <4>3. amount' = IF amount >= n THEN amount - n ELSE 0  BY <4>1 DEF EndsWrite
      <4>4. n = amount  BY <4>1, <4>2, <3>1
      <4> QED BY <4>3, <4>4, <1>n
    <3>4. RateCut'  BY <1>2, <2>1, <1>l DEF RateCut
    <3>5. ~Sending'  BY <1>2, Ops DEF Sending
    <3>6. pc["client"] # "synch" /\ pc'["client"] \notin {"event", "synch"}  BY <1>9, <1>2
    <3> QED BY <1>1, <1>4, <3>2, <3>3, <3>4, <3>5, <3>6, BurstsStay
  <2> QED BY <2>4, <2>5
<1>10. CASE pc["client"] \notin {"event", "rate write"}
  <2>1. Loop # "events" /\ Rest = left  BY <1>10, <1>p DEF Rest
  <2>2. n = Moved("client") + 0 /\ left' = left - n  BY <1>10, <1>p DEF EndsWrite
  <2>3. n = Moved("client")  BY <2>2, <1>6
  <2>4. Rest' = left - Moved("client")  BY <2>1, <2>2, <2>3, <1>l DEF Rest
  <2>5. sent["client"] + Rest' = End(Last)
    <3>1. sent["client"] - Moved("client") + left = sent["client"] + (left - Moved("client"))
      BY <1>n, <1>6
    <3> QED BY <3>1, <2>1, <2>4, <1>7
  <2>6. ~(Last.size < Header)  BY <2>1, <1>5 DEF LastIs
  <2>7. RateCut'
    <3>1. Loop = "rate" => left' = 0
      <4>1. SUFFICES ASSUME Loop = "rate" PROVE left' = 0  OBVIOUS
      <4>2. Result("client") = left  BY <4>1, <1>10, <1>p, <1>1
      <4>3. CASE left = 0
        <5>1. Moved("client") = (IF Result("client") > 0 THEN Result("client") ELSE 0)
          BY <1>1, <1>3, ResultIs DEF Ends
        <5>0. ~(0 > 0) /\ Result("client") = 0  BY <4>2, <4>3
        <5>2. Moved("client") = 0  BY <5>1, <5>0
        <5> QED BY <5>2, <4>3, <2>2, <2>3
      <4>4. CASE left # 0
        <5>1. Moved("client") = left  BY <4>2, <4>4, <1>6, <1>n
        <5> QED BY <5>1, <2>2, <2>3, <1>n
      <4> QED BY <4>3, <4>4
    <3> QED BY <3>1, <1>2, <1>l DEF RateCut
  <2>8. ~Sending'  BY <1>2, Ops DEF Sending
  <2>9. pc["client"] # "synch" /\ pc'["client"] \notin {"event", "synch"}  BY <1>1, <1>2
  <2> QED BY <1>1, <1>4, <2>5, <2>6, <2>7, <2>8, <2>9, BurstsStay
<1> QED BY <1>8, <1>9, <1>10
\* A write that fails ends the loop, and a burst that is cut below its header.
LEMMA WriteGivesUp ==
  ASSUME Base, Open, BurstsOk, FailsWrite, test' = test, interrupted' = interrupted
  PROVE  BurstsOk'
<1>1. /\ pc["client"] \in {"burst", "write", "congest burst", "congest write", "rate write"}
      /\ bursts' = bursts /\ sent' = sent
      /\ \E l \in {"failed", "finish"} : pc' = [pc EXCEPT !["client"] = l]
  BY DEF FailsWrite, Held
<1>2. pc'["client"] \in {"failed", "finish"}  BY <1>1, Typed
<1>3. Sending /\ ~Sending'
  <2>1. OpOf(pc["client"]) \in {"write", "writen"}  BY <1>1, Ops
  <2>2. OpOf(pc'["client"]) = "none"  BY <1>2, Ops
  <2> QED BY <2>1, <2>2 DEF Sending
<1>4. bursts # <<>>  BY <1>3, LastOf DEF BurstsOk
<1>5. pc["client"] # "synch" /\ pc'["client"] \notin {"loop", "rate write", "event", "synch"}
  BY <1>1, <1>2
<1>6. RateCut'  BY <1>5 DEF RateCut
<1> QED BY <1>1, <1>3, <1>4, <1>5, <1>6, BurstsStay

\* After the loop nothing is sent.
LEMMA LoopLeaves ==
  ASSUME Base, Open, BurstsOk, Leaves, test' = test, interrupted' = interrupted
  PROVE  BurstsOk'
<1>1. /\ UNCHANGED <<sent, amount, left, bursts>>
      /\ \/ pc["client"] = "loop" /\ pc' = pc
         \/ /\ pc["client"] \in {"loop", "finish", "await", "report", "failed"}
            /\ \E l \in {"finish", "await", "report", "done", "failed"} : pc' = [pc EXCEPT !["client"] = l]
         \/ pc["client"] \in {"await", "failed"} /\ pc' = pc
  BY DEF Leaves
<1>2. /\ pc["client"] \in {"loop", "finish", "await", "report", "failed"}
      /\ \/ pc["client"] = "loop" /\ pc'["client"] = "loop"
         \/ pc'["client"] \in {"finish", "await", "report", "done", "failed"}
  BY <1>1, Typed
<1>3. ~Sending /\ ~Sending'  BY <1>2, Ops DEF Sending
<1>4. Loop' = Loop  BY Kept
<1>5. Rest' = Rest
  <2>1. pc["client"] # "event" /\ pc'["client"] # "event"  BY <1>2
  <2> QED BY <2>1, <1>1, <1>4 DEF Rest
<1>6. pc["client"] # "synch" /\ pc'["client"] \notin {"synch", "event", "rate write"}  BY <1>2
<1>7. pc'["client"] = "loop" => pc["client"] = "loop"  BY <1>2
<1>8. RateCut'  BY <1>1, <1>4, <1>6, <1>7 DEF BurstsOk, RateCut
<1>9. bursts = <<>> => Rest' = 0  BY <1>5, <1>6, LastOf DEF BurstsOk
<1>10. ASSUME bursts # <<>>
       PROVE  /\ pc'["client"] = "loop" => "client" \in interrupted \/ sent["client"] + Rest' = End(Last)
              /\ Last.size < Header => (pc'["client"] = "loop" => amount' = 0 \/ "client" \in interrupted)
  <2>1. LastIs  BY <1>10, LastOf DEF BurstsOk
  <2> QED BY <2>1, <1>1, <1>5, <1>7 DEF LastIs
<1> QED BY <1>1, <1>3, <1>6, <1>8, <1>9, <1>10, BurstsStay

\* The first burst begins where the first payload ends.
LEMMA LoopStarts ==
  ASSUME Base, Open, BurstsOk, Starts, test' = test, interrupted' = interrupted
  PROVE  BurstsOk'
<1>1. pc["client"] = "synch" /\ bursts' = bursts /\ left' = left /\ sent' = [sent EXCEPT !["client"] = FirstPayload]
      /\ pc' = [pc EXCEPT !["client"] = "loop"]
  BY DEF Starts
<1>2. pc'["client"] = "loop" /\ sent'["client"] = FirstPayload  BY <1>1, Typed
<1>3. bursts = <<>> /\ left = 0  BY <1>1 DEF Base, Ended
<1>4. ~Sending'  BY <1>2, Ops DEF Sending
<1>5. Rest' = 0  BY <1>1, <1>2, <1>3 DEF Rest
<1>6. FirstPayload' = FirstPayload  BY Kept
<1>7. LastBurst'  BY <1>1, <1>2, <1>3, <1>4, <1>5, <1>6 DEF LastBurst
<1>8. RateCut'  BY <1>1, <1>2, <1>3 DEF RateCut
<1>9. Chained'  BY <1>1, ChainedKept DEF BurstsOk
<1> QED BY <1>7, <1>8, <1>9 DEF BurstsOk

\* BurstInv, by whether the test has bursts.
LEMMA BurstInvIs == BurstInv <=> (Open => BurstsOk) /\ (~Framed => bursts = <<>>)
BY DEF BurstInv, BurstsOk

\* The client keeps the bursts, one after the other ...
LEMMA ClientBursts == ASSUME Base, Client, BurstInv PROVE BurstInv'
<1>0. ServerSame /\ test' = test /\ interrupted' = interrupted /\ ("server" \in closed' <=> "server" \in closed)
  BY ClientSteps DEF ServerSame, Same
<1>1. (Framed' <=> Framed) /\ (Open' <=> Open)  BY <1>0, Kept DEF Open
<1>c. ClientDoes  BY ClientSorts
<1>b. ClientBounces => Bounces  BY BounceSorts
<1>2. ASSUME Open PROVE BurstsOk'
  <2>0. BurstsOk  BY <1>2, BurstInvIs
  <2>1. CASE \E l, size : StartsBurst(l, size)  BY <2>0, <2>1, <1>0, <1>2, BurstStarts
  <2>2. CASE \E l : StartsWrite(l)  BY <2>0, <2>2, <1>0, <1>2, WriteStarts
  <2>3. CASE Resumes  BY <2>0, <2>3, <1>0, <1>2, WriteResumes
  <2>4. CASE \E n \in Nat : EndsWrite(n)  BY <2>0, <2>4, <1>0, <1>2, WriteEnds
  <2>5. CASE FailsWrite  BY <2>0, <2>5, <1>0, <1>2, WriteGivesUp
  <2>6. CASE Leaves  BY <2>0, <2>6, <1>0, <1>2, LoopLeaves
  <2>7. CASE Starts  BY <2>0, <2>7, <1>0, <1>2, LoopStarts
  <2>8. ~Bounces  BY <1>2 DEF Bounces, Open, Framed
  <2> QED BY <2>1, <2>2, <2>3, <2>4, <2>5, <2>6, <2>7, <2>8, <1>b, <1>c DEF ClientDoes
<1>3. ASSUME ~Framed PROVE bursts' = <<>>
  <2>0. bursts = <<>>  BY <1>3, BurstInvIs
  <2>1. ~(\E l, size : StartsBurst(l, size))  BY <1>3 DEF StartsBurst, Framed
  <2>2. bursts' = bursts
    BY <2>1, <1>b, <1>c DEF ClientDoes, StartsWrite, Resumes, EndsWrite, FailsWrite, Leaves,
      Starts, Bounces, Held
  <2> QED BY <2>0, <2>2
<1> QED BY <1>1, <1>2, <1>3 DEF BurstInv, BurstsOk

\* A step that leaves the client where it is leaves BurstInv.
LEMMA ClientStands ==
  ASSUME Base, BurstInv, UNCHANGED <<test, bursts, left, amount>>, sent'["client"] = sent["client"],
         pc'["client"] = pc["client"], Moved("client")' = Moved("client"), Asked("client")' = Asked("client"),
         interrupted \subseteq interrupted', closed \subseteq closed'
  PROVE  BurstInv'
<1>1. Loop' = Loop /\ FirstPayload' = FirstPayload /\ (Framed' <=> Framed) /\ (Is("ModeTime")' <=> Is("ModeTime"))  BY Kept
<1>2. Last' = Last /\ (Chained' <=> Chained)  BY ChainedKept
<1>3. (Sending' <=> Sending) /\ Rest' = Rest  BY <1>1 DEF Sending, Rest
<1>4. (LastIs => LastIs')  BY <1>1, <1>2, <1>3 DEF LastIs, End
<1>5. LastBurst => LastBurst'  BY <1>1, <1>3, <1>4 DEF LastBurst, LastIs
<1>6. RateCut => RateCut'  BY <1>1 DEF RateCut
<1>7. Open' => Open  BY <1>1 DEF Open
<1> QED BY <1>1, <1>2, <1>5, <1>6, <1>7 DEF BurstInv

\* ... the server, which may close ...
LEMMA ServerBursts == ASSUME Base, Server, HeaderFits, BurstInv PROVE BurstInv'
<1>1. ClientSame  BY ServerSteps
<1>2. ServerDoes  BY ServerSorts DEF HeaderFits
<1>3. closed \subseteq closed'
  BY <1>2 DEF ServerDoes, ReadsFirst, GivesUp, AsksHeader, GetsHeader, AsksPayload, GetsPayload,
      ReadsOn, Departs, Answers, Quiet
<1>4. /\ UNCHANGED <<test, bursts, left, amount>> /\ sent'["client"] = sent["client"] /\ pc'["client"] = pc["client"]
      /\ interrupted' = interrupted
  BY <1>1 DEF ClientSame, Same
<1>5. Moved("client")' = Moved("client") /\ Asked("client")' = Asked("client")  BY <1>1, ClientKept
<1> QED BY <1>3, <1>4, <1>5, ClientStands

\* ... a signal, after which a burst may be cut ...
LEMMA ClockBursts == ASSUME Base, NEW e \in Ends, Time(e) \/ Signal(e), BurstInv PROVE BurstInv'
<1>1. UNCHANGED <<test, sent, closed, call, pc, amount, left, bursts, begun, nleft>>
      /\ interrupted' \in {interrupted, interrupted \cup {e}}
  BY DEF Time, Signal, Elapse, Interrupt, wire, bytes, Loops, sender, receiver, results
<1>2. Moved("client")' = Moved("client")  BY <1>1 DEF Moved, Returned, Result
<1>3. Asked("client")' = Asked("client")
  <2>1. isburst' <=> isburst  BY <1>1, Kept
  <2> QED BY <1>1, <2>1 DEF Asked, Limit, Less, Is
<1>4. interrupted \subseteq interrupted' /\ closed \subseteq closed'  BY <1>1
<1> QED BY <1>1, <1>2, <1>3, <1>4, ClientStands

\* ... and the kernel, which sends a part of the last one.
LEMMA CallsBursts == ASSUME Base, NEW e \in Ends, Calls(e), BurstInv PROVE BurstInv'
<1>0. CallStep(e) /\ CallOk(e)'  BY CallSteps
<1>1. /\ UNCHANGED <<test, closed, pc, amount, left, bursts, begun>> /\ OpOf(pc[e]) # "none" /\ ~Returned(e)
      /\ interrupted \subseteq interrupted'
  BY <1>0 DEF CallStep, Loops, sender, receiver, results, Copies, Reads, Returns
<1>2. closed \subseteq closed' /\ "client" \in Ends /\ "server" \in Ends BY <1>1, Typed
<1>a. Asked("client")' = Asked("client")
  <2>1. CASE e = "client"
    <3>1. isburst' <=> isburst  BY <1>1, Kept
    <3>2. OpOf(pc["client"]) # "none" /\ pc["client"] \in {"synch", "loop", "finish", "await", "report", "done", "failed", "burst", "write",
                       "congest burst", "congest write", "rate burst", "rate write", "event", "request", "reply"}
      BY <1>1, <2>1 DEF Base, Places
    <3>3. pc["client"] \in {"burst", "write", "congest burst", "congest write", "rate burst", "rate write", "event", "request", "reply"}
      BY <3>2, Ops
    <3> QED BY <3>1, <3>3, <1>1 DEF Asked, Limit, Less, Is
  <2>2. CASE e # "client"  BY <2>2, <1>0, <1>2, OtherKept
  <2> QED BY <2>1, <2>2
<1>3. CASE e = "server"
  <2>1. Moved("client")' = Moved("client")  BY <1>0, <1>2, <1>3, OtherKept
  <2>2. sent'["client"] = sent["client"]
    <3>1. sent \in [Ends -> Nat]  BY Typed
    <3>2. sent' = sent \/ \E n : sent' = [sent EXCEPT !["server"] = @ + n]
      BY <1>0, <1>3 DEF CallStep, Copies, Reads, Returns
    <3> QED BY <3>1, <3>2, <1>2
  <2> QED BY <1>1, <1>2, <1>a, <2>1, <2>2, ClientStands
<1>4. CASE e = "client" /\ sent'["client"] = sent["client"] /\ Moved("client")' = Moved("client")
  BY <1>1, <1>2, <1>a, <1>4, ClientStands
<1>5. CASE e = "client" /\ \E n \in Nat \ {0} : Copies("client", n)
  <2>1. PICK n \in Nat \ {0} : Copies("client", n)  BY <1>5
  <2>n. sent["client"] \in Nat /\ Moved("client") \in Nat /\ "client" \in Ends /\ sent \in [Ends -> Nat]
    BY Numbers, MovedIs, Typed
  <2>2. sent'["client"] = sent["client"] + n /\ Moved("client")' = Moved("client") + n /\ interrupted' = interrupted /\ Sending
    BY <2>1, <2>n DEF Copies, Sending
  <2>3. Sending' /\ pc'["client"] \notin {"synch", "loop"}
    <3>1. pc["client"] \notin {"synch", "loop"}  BY <2>2, Ops DEF Sending
    <3> QED BY <2>2, <3>1, <1>1 DEF Sending
  <2>4. Loop' = Loop /\ FirstPayload' = FirstPayload /\ (Framed' <=> Framed) /\ (Is("ModeTime")' <=> Is("ModeTime"))
    BY <1>1, Kept
  <2>5. Rest' = Rest  BY <1>1, <1>a, <2>4 DEF Rest
  <2>6. Open' <=> Open  BY <1>1, <2>4 DEF Open
  <2>7. ASSUME Open PROVE Chained' /\ LastBurst' /\ RateCut'
    <3>0. BurstsOk  BY <2>7, BurstInvIs
    <3>1. bursts # <<>>  BY <3>0, <2>2, LastOf DEF BurstsOk
    <3>2. LastIs  BY <3>0, <3>1, LastOf DEF BurstsOk
    <3>3. Chained' /\ Last' = Last  BY <3>0, <1>1, ChainedKept DEF BurstsOk
    <3>4. Moved("client") + n <= Asked("client") /\ Asked("client") \in Nat
      <4>1. OpOf(pc["client"]) # "none"  BY <1>1, <1>5
      <4>2. CallOk("client")' /\ pc'["client"] = pc["client"]  BY <1>0, <1>1, <1>5
      <4>3. \/ ~Returned("client")' /\ call'["client"].done < call'["client"].len /\ call'["client"].len = Asked("client")'
               /\ call'["client"].done \in Nat /\ call'["client"].len \in Nat
            \/ Returned("client")' /\ Asked("client")' \in Nat \ {0}
        <5>1. OpOf(pc["client"]) # "returned"  BY DEF OpOf
        <5>2. pc["client"] \notin {"finish", "failed"}  BY <4>1, Ops
        <5> QED BY <4>1, <4>2, <5>1, <5>2 DEF CallOk, Returned
      <4>4. CASE Returned("client")' /\ Asked("client")' \in Nat \ {0}
        <5>1. Result("client")' = Asked("client")  BY <2>1, <4>4 DEF Copies
        <5>2. Moved("client")' = IF Result("client")' > 0 THEN Result("client")' ELSE 0
          BY <4>4 DEF Moved
        <5>3. Moved("client")' = Asked("client")  BY <5>1, <5>2, <4>4, <1>a
        <5> QED BY <5>3, <2>2, <4>4, <1>a
      <4>5. CASE ~Returned("client")'
        <5>1. Moved("client")' = call'["client"].done  BY <4>5 DEF Moved
        <5>2. call'["client"].done < Asked("client") /\ call'["client"].done \in Nat /\ Asked("client") \in Nat  BY <4>3, <4>5, <1>a
        <5> QED BY <5>1, <5>2, <2>2
      <4> QED BY <4>3, <4>4, <4>5
    <3>5. Asked("client") <= Rest
      <4>1. Framed /\ Asked("client") \in Int  BY <2>7, <3>4 DEF Open
      <4> QED BY <4>1, <2>2, AskedRest
    <3>6. sent["client"] - Moved("client") + Rest = End(Last)  BY <2>2, <3>2 DEF LastIs
    <3>7. End(Last) \in Nat /\ Last.at \in Nat /\ Last.at <= sent["client"]
      <4>1. Len(bursts) \in 1 .. Len(bursts)  BY <3>1, BurstIs
      <4>2. Last.at \in Nat /\ End(Last) \in Nat  BY <4>1, BurstIs DEF Last
      <4> QED BY <4>2, <3>2 DEF LastIs
    <3>8. Rest \in Nat
      <4>1. left \in Nat  BY Numbers
      <4> QED BY <4>1, <3>4 DEF Rest
    <3>9. sent["client"] + n <= End(Last) /\ Last.at <= sent["client"] + n
          /\ (sent["client"] + n) - (Moved("client") + n) + Rest = End(Last)
      <4> DEFINE a == Asked("client") s == sent["client"] m == Moved("client") r == Rest x == End(Last) y == Last.at
      <4>1. /\ n \in Nat /\ a \in Nat /\ s \in Nat /\ m \in Nat /\ r \in Nat /\ x \in Nat /\ y \in Nat
            /\ m + n <= a /\ a <= r /\ s - m + r = x /\ y <= s
        BY <2>1, <2>n, <3>4, <3>5, <3>6, <3>7, <3>8
      <4> HIDE DEF a, s, m, r, x, y
      <4>2. s + n <= x /\ y <= s + n /\ (s + n) - (m + n) + r = x  BY <4>1
      <4> QED BY <4>2 DEF s, m, r, x, y
    <3>10. LastBurst'
      <4>1. End(Last)' = End(Last)  BY <3>3 DEF End
      <4>2. /\ Last.size < Header => Loop = "events" /\ ~Is("ModeTime") /\ (pc["client"] = "event" => amount = Asked("client"))
        BY <3>2 DEF LastIs
      <4>3. /\ (Last.at <= sent["client"])' /\ (sent["client"] <= End(Last))'
            /\ (sent["client"] - Moved("client") + Rest = End(Last))'
        <5>1. Last'.at = Last.at  BY <3>3
        <5>2. Last'.at <= sent'["client"]  BY <5>1, <3>9, <2>2
        <5>3. sent'["client"] <= End(Last)'  BY <4>1, <3>9, <2>2
        <5>4. sent'["client"] - Moved("client")' + Rest' = End(Last)'  BY <4>1, <3>9, <2>2, <2>5
        <5> QED BY <5>2, <5>3, <5>4
      <4>4. (Last.size < Header => Loop = "events" /\ ~Is("ModeTime") /\ (pc["client"] = "event" => amount = Asked("client")))'
        BY <4>2, <3>3, <2>4, <1>1, <1>a
      <4>5. LastIs'  BY <4>3, <4>4, <2>3 DEF LastIs
      <4> QED BY <4>5, <3>1, <1>1 DEF LastBurst, LastIs
    <3>11. RateCut'  BY <3>0, <2>2, <2>4, <1>1 DEF BurstsOk, RateCut
    <3> QED BY <3>3, <3>10, <3>11
  <2>8. ~Framed' => bursts' = <<>>  BY <1>1, <2>4 DEF BurstInv
  <2> QED BY <2>6, <2>7, <2>8 DEF BurstInv
<1>6. CASE e = "client" /\ ~(\E n \in Nat \ {0} : Copies("client", n)) /\ Framed
  <2>1. OpOf(pc["client"]) \notin {"recv", "recvn"}
    <3>1. pc["client"] \in {"synch", "loop", "finish", "await", "report", "done", "failed", "burst", "write",
                       "congest burst", "congest write", "rate burst", "rate write", "event", "request", "reply"}
          /\ pc["client"] \notin {"request", "reply"}
      BY <1>6 DEF Base, Places, Framed
    <3> QED BY <3>1, Ops
  <2>2. Returns("client") /\ Moved("client")' = Moved("client") /\ sent' = sent
    BY <1>0, <1>6, <2>1 DEF CallStep, Reads, Returns
  <2> QED BY <1>4, <1>6, <2>2
<1>7. CASE e = "client" /\ ~Framed
  <2>1. ~Framed' /\ bursts' = <<>> /\ ~Open'  BY <1>1, <1>7, Kept DEF BurstInv, Open
  <2> QED BY <2>1 DEF BurstInv
<1> QED BY <1>3, <1>5, <1>6, <1>7 DEF Ends
-----------------------------------------------------------------------------
(* The bursts at the server.                                               *)
\* Where the bursts are.
Along == Base /\ Open /\ BurstsOk

\* The bursts lie one behind the other.
LEMMA BurstsOrder ==
  ASSUME Along
  PROVE  /\ \A i, j \in 1 .. Len(bursts) : i < j => End(bursts[i]) <= bursts[j].at
         /\ \A i \in 1 .. Len(bursts) : FirstPayload <= bursts[i].at
         /\ \A k \in Nat : k < Len(bursts) => k + 1 \in 1 .. Len(bursts) /\ bursts[k + 1].at = Pos(k)
         /\ \A k \in Nat : k <= Len(bursts) => Pos(k) \in Nat
         /\ FirstPayload \in Nat
<1>1. Len(bursts) \in Nat /\ FirstPayload \in Nat  BY BurstIs, Settings DEF Along, Base
<1>2. /\ \A i, j \in 1 .. Len(bursts) : i < j => End(bursts[i]) <= bursts[j].at
      /\ \A i \in 1 .. Len(bursts) - 1 : End(bursts[i]) = bursts[i + 1].at
      /\ bursts # <<>> => bursts[1].at = FirstPayload
  BY DEF Along, BurstsOk, Chained
<1>3. \A i \in 1 .. Len(bursts) : bursts[i].at \in Nat /\ End(bursts[i]) \in Nat /\ End(bursts[i]) > bursts[i].at
  BY BurstIs DEF Along
<1>4. ASSUME NEW i \in 1 .. Len(bursts) PROVE FirstPayload <= bursts[i].at
  <2>1. bursts # <<>> /\ 1 \in 1 .. Len(bursts)  BY <1>1, <1>4, BurstIs DEF Along
  <2>2. CASE i = 1  BY <2>1, <2>2, <1>1, <1>2
  <2>3. CASE i # 1
    <3>1. End(bursts[1]) <= bursts[i].at  BY <2>1, <2>3, <1>2
    <3>2. FirstPayload < End(bursts[1]) /\ End(bursts[1]) \in Nat  BY <2>1, <1>2, <1>3
    <3>3. bursts[i].at \in Nat  BY <1>3
    <3> QED BY <3>1, <3>2, <3>3, <1>1
  <2> QED BY <2>2, <2>3
<1>5. ASSUME NEW k \in Nat, k < Len(bursts) PROVE k + 1 \in 1 .. Len(bursts) /\ bursts[k + 1].at = Pos(k)
  <2>1. k + 1 \in 1 .. Len(bursts)  BY <1>1, <1>5
  <2>2. CASE k = 0
    <3>1. bursts # <<>>  BY <2>1, BurstIs DEF Along
    <3>2. k + 1 = 1  BY <2>2
    <3> QED BY <2>1, <3>1, <3>2, <2>2, <1>2 DEF Pos
  <2>3. CASE k # 0
    <3>1. k \in 1 .. Len(bursts) - 1  BY <2>3, <1>1, <1>5
    <3> QED BY <2>1, <2>3, <3>1, <1>2 DEF Pos
  <2> QED BY <2>2, <2>3
<1>6. ASSUME NEW k \in Nat, k <= Len(bursts) PROVE Pos(k) \in Nat
  <2>1. CASE k = 0  BY <2>1, <1>1 DEF Pos
  <2>2. CASE k # 0
    <3>1. k \in 1 .. Len(bursts)  BY <2>2, <1>1, <1>6
    <3> QED BY <2>2, <3>1, <1>3 DEF Pos
  <2> QED BY <2>1, <2>2
<1> QED BY <1>1, <1>2, <1>4, <1>5, <1>6

\* The header at the end of burst k is that of the next one, and says its size.
LEMMA SizeIs ==
  ASSUME Along, NEW k \in Nat, k < Len(bursts)
  PROVE  SizeAt(Pos(k)) = bursts[k + 1].size
<1>1. k + 1 \in 1 .. Len(bursts) /\ bursts[k + 1].at = Pos(k)  BY BurstsOrder
<1>2. DOMAIN bursts = 1 .. Len(bursts)  BY Typed, LenProperties DEF Along
<1>3. ASSUME NEW i \in 1 .. Len(bursts), i # k + 1 PROVE bursts[i].at # bursts[k + 1].at
  <2>0. Len(bursts) \in Nat /\ \A j \in 1 .. Len(bursts) : bursts[j].at \in Nat /\ End(bursts[j]) \in Nat /\ End(bursts[j]) > bursts[j].at
    BY BurstIs DEF Along
  <2>1. CASE i < k + 1
    <3>1. End(bursts[i]) <= bursts[k + 1].at  BY <2>1, <1>1, BurstsOrder
    <3>2. End(bursts[i]) > bursts[i].at /\ End(bursts[i]) \in Nat /\ bursts[i].at \in Nat  BY <2>0
    <3>3. bursts[k + 1].at \in Nat  BY <2>0, <1>1
    <3> QED BY <3>1, <3>2, <3>3
  <2>2. CASE k + 1 < i
    <3>1. End(bursts[k + 1]) <= bursts[i].at  BY <2>2, <1>1, BurstsOrder
    <3>2. End(bursts[k + 1]) > bursts[k + 1].at /\ End(bursts[k + 1]) \in Nat /\ bursts[k + 1].at \in Nat  BY <2>0, <1>1
    <3>3. bursts[i].at \in Nat  BY <2>0
    <3> QED BY <3>1, <3>2, <3>3
  <2> QED BY <2>0, <2>1, <2>2, <1>1, <1>3
<1>4. {i \in DOMAIN bursts : bursts[i].at = Pos(k)} = {k + 1, k + 1}  BY <1>1, <1>2, <1>3
<1>5. Max({k + 1, k + 1}) = k + 1  BY MaxOf
<1>6. {k + 1, k + 1} # {}  OBVIOUS
<1> QED BY <1>4, <1>5, <1>6 DEF SizeAt
\* The burst that the server is at: the last whole one or the one behind it.
LEMMA ReachedIs ==
  ASSUME Base
  PROVE  /\ nleft = 0 => Reached = whole
         /\ nleft > 0 => Reached = whole + 1
         /\ nleft \in Nat /\ whole \in Nat /\ Reached \in Nat
<1>1. nleft \in Nat /\ whole \in Nat  BY Typed
<1> QED BY <1>1 DEF Reached

\* Where the server reads, there are bursts to be looked for.
LEMMA ReadingOpen ==
  ASSUME Base, BurstInv, Reading, isburst PROVE Along
<1>1. Loop # "bounce"  BY DEF Base, Places, Reading
<1>2. "server" \notin closed  BY DEF Base, Ended, Reading
<1> QED BY <1>1, <1>2, BurstInvIs DEF Along, Open, Framed

\* A header that has been read is that of the burst that is next.
LEMMA HeaderIs ==
  ASSUME Base, BurstInv, ReadInv, pc["server"] = "header", Returned("server"), Result("server") = Header
  PROVE  /\ nleft = 0 /\ whole < Len(bursts) /\ Along
         /\ taken["client"] = Pos(whole) + Header
         /\ SizeAt(taken["client"] - Header) = bursts[whole + 1].size
         /\ bursts[whole + 1].size \in Nat /\ bursts[whole + 1].size >= Header
         /\ End(bursts[whole + 1]) = Pos(whole) + bursts[whole + 1].size
<1>1. isburst /\ nleft = 0  BY DEF Base, Shapes
<1>2. Reading  BY DEF Reading
<1>3. Along  BY <1>1, <1>2, ReadingOpen
<1>n. Header \in Nat \ {0} /\ taken["client"] \in Nat /\ sent["client"] \in Nat /\ whole \in Nat /\ Len(bursts) \in Nat
  BY Numbers, Typed, BurstIs
<1>4. Moved("server") = Header /\ ~HeaderLost
  <2>1. Header > 0 /\ ~(Header < 0)  BY <1>n
  <2> QED BY <2>1 DEF Moved, HeaderLost
<1>5. taken["client"] - Header + 0 = Pos(whole) /\ whole <= Len(bursts)
  <2>1. Reached = whole  BY <1>1, ReachedIs
  <2> QED BY <2>1, <1>1, <1>2, <1>4 DEF ReadInv
<1>6. Pos(whole) \in Nat  BY <1>3, <1>5, <1>n, BurstsOrder
<1>7. taken["client"] = Pos(whole) + Header  BY <1>5, <1>6, <1>n
<1>8. taken["client"] <= sent["client"]  BY Typed
<1>9. sent["client"] > Pos(whole)  BY <1>6, <1>7, <1>8, <1>n
<1>10. whole # Len(bursts)
  <2>1. SUFFICES ASSUME whole = Len(bursts) PROVE FALSE  OBVIOUS
  <2>2. CASE bursts = <<>>
    <3>1. Pos(whole) = FirstPayload  BY <2>1, <2>2, BurstIs DEF Pos
    <3>2. pc["client"] # "synch"  BY DEF Base, Ended
    <3>3. sent["client"] = FirstPayload  BY <2>2, <3>2, <1>3, LastOf DEF Along, BurstsOk
    <3> QED BY <3>1, <3>3, <1>9, <1>n
  <2>3. CASE bursts # <<>>
    <3>1. Pos(whole) = End(Last)  BY <2>1, <2>3, BurstIs DEF Pos, Last
    <3>2. sent["client"] <= End(Last)  BY <2>3, <1>3, LastOf DEF Along, BurstsOk, LastIs
    <3> QED BY <3>1, <3>2, <1>6, <1>9, <1>n
  <2> QED BY <2>2, <2>3
<1>11. whole < Len(bursts)  BY <1>5, <1>10, <1>n
<1>12. taken["client"] - Header = Pos(whole)  BY <1>6, <1>7, <1>n
<1>13. SizeAt(taken["client"] - Header) = bursts[whole + 1].size
  BY <1>3, <1>11, <1>12, <1>n, SizeIs
<1>14. whole + 1 \in 1 .. Len(bursts) /\ bursts[whole + 1].at = Pos(whole)
  BY <1>3, <1>11, <1>n, BurstsOrder
<1>15. bursts[whole + 1].size \in Nat  BY <1>14, BurstIs
<1>16. bursts[whole + 1].size >= Header
  <2>1. CASE whole + 1 = Len(bursts)
    <3>1. bursts # <<>>  BY <1>14, BurstIs
    <3>2. sent["client"] <= End(Last) /\ Last = bursts[whole + 1]
      BY <2>1, <3>1, <1>3, LastOf DEF Along, BurstsOk, LastIs, Last
    <3>3. sent["client"] <= Pos(whole) + bursts[whole + 1].size  BY <3>2, <1>14 DEF End
    <3> QED BY <3>3, <1>6, <1>7, <1>8, <1>15, <1>n
  <2>2. CASE whole + 1 # Len(bursts)
    <3>1. whole + 1 \in 1 .. Len(bursts) - 1  BY <2>2, <1>14, <1>n
    <3> QED BY <3>1, <1>3 DEF Along, BurstsOk, Chained
  <2> QED BY <2>1, <2>2
<1>17. End(bursts[whole + 1]) = Pos(whole) + bursts[whole + 1].size  BY <1>14 DEF End
<1> QED BY <1>1, <1>3, <1>7, <1>11, <1>13, <1>15, <1>16, <1>17

\* So what the server takes for a header says a size.
LEMMA HeadersFit == ASSUME Base, BurstInv, ReadInv PROVE HeaderFits
BY HeaderIs DEF HeaderFits

\* A step that leaves the server where it is leaves ReadInv.
LEMMA ReaderStands ==
  ASSUME Base, ReadInv, UNCHANGED <<test, nleft, whole>>,
         pc'["server"] = pc["server"], begun'["server"] = begun["server"], taken'["client"] = taken["client"],
         Moved("server")' = Moved("server"), Result("server")' = Result("server"), Returned("server")' <=> Returned("server"),
         bursts' = bursts \/ \E b : bursts' = Append(bursts, b)
  PROVE  ReadInv'
<1>1. /\ Loop' = Loop /\ (isburst' <=> isburst) /\ FirstPayload' = FirstPayload  BY Kept
<1>2. (HeaderLost' <=> HeaderLost) /\ (Reading' <=> Reading) /\ Reached' = Reached
  BY DEF HeaderLost, Reading, Reached
<1>3. Len(bursts') \in Nat /\ Len(bursts') >= Len(bursts) /\ \A i \in 1 .. Len(bursts) : bursts'[i] = bursts[i]
  <2>1. bursts \in Seq([at : Nat, size : Nat \ {0}]) /\ Len(bursts) \in Nat  BY Typed, BurstIs
  <2>2. CASE bursts' = bursts  BY <2>1, <2>2
  <2>3. ASSUME NEW b, bursts' = Append(bursts, b) PROVE <1>3
    <3>1. bursts \in Seq(Range(bursts) \cup {b})
      BY <2>1 DEF Range
    <3> QED BY <3>1, <2>1, <2>3, AppendProperties
  <2> QED BY <2>2, <2>3
<1>4. Reached \in Nat /\ Reached <= Len(bursts) /\ Len(bursts) \in Nat
  BY ReachedIs, BurstIs DEF ReadInv
<1>5. Reached' <= Len(bursts')  BY <1>2, <1>3, <1>4
<1>6. Pos(Reached)' = Pos(Reached) /\ (nleft > 0 => bursts'[Reached] = bursts[Reached])
  <2>1. CASE Reached = 0
    <3>1. ~(nleft > 0)
      <4>1. nleft > 0 => Reached = whole + 1 /\ whole \in Nat  BY ReachedIs
      <4>2. ASSUME whole \in Nat PROVE whole + 1 # 0  BY <4>2
      <4> QED BY <4>1, <4>2, <2>1
    <3> QED BY <2>1, <3>1, <1>1, <1>2 DEF Pos
  <2>2. CASE Reached # 0
    <3>1. Reached \in 1 .. Len(bursts)  BY <2>2, <1>4
    <3>2. bursts'[Reached] = bursts[Reached]  BY <3>1, <1>3
    <3> QED BY <3>2, <2>2, <1>2 DEF Pos, End
  <2> QED BY <2>1, <2>2
<1>7. pc'["server"] = "synch" => nleft' = 0 /\ whole' = 0 /\ (Loop' # "bounce" => taken'["client"] = begun'["server"])
  BY <1>1 DEF ReadInv
<1>8. Reading' /\ isburst' =>
       /\ ~HeaderLost' => taken'["client"] - Moved("server")' + nleft' = Pos(Reached)'
       /\ nleft' > 0 => nleft' + Header <= bursts'[Reached'].size
       /\ pc'["server"] = "recv" => begun'["server"] \in {0, Header}
  <2>1. Reading /\ isburst =>
       /\ ~HeaderLost => taken["client"] - Moved("server") + nleft = Pos(Reached)
       /\ nleft > 0 => nleft + Header <= bursts[Reached].size
       /\ pc["server"] = "recv" => begun["server"] \in {0, Header}
    BY DEF ReadInv
  <2> QED BY <2>1, <1>1, <1>2, <1>6
<1>9. /\ Reading' /\ ~isburst' /\ pc'["server"] = "recv" => begun'["server"] = 0
      /\ Reading' => taken'["client"] >= FirstPayload'
  BY <1>1, <1>2 DEF ReadInv
<1> QED BY <1>5, <1>7, <1>8, <1>9 DEF ReadInv

\* ReadInv is kept by the client, which can only add a burst ...
LEMMA ClientReads == ASSUME Base, Client, ReadInv PROVE ReadInv'
<1>1. ServerSame  BY ClientSteps
<1>2. /\ UNCHANGED <<test, nleft, whole>> /\ taken'["client"] = taken["client"]
  BY <1>1, PeerOf DEF ServerSame, Same
<1>3. /\ pc'["server"] = pc["server"] /\ begun'["server"] = begun["server"] /\ Moved("server")' = Moved("server")
      /\ Result("server")' = Result("server") /\ (Returned("server")' <=> Returned("server"))
  BY <1>1, ServerKept
<1>4. bursts' = bursts \/ \E b : bursts' = Append(bursts, b)
  <2>1. ClientDoes  BY ClientSorts
  <2>2. ClientBounces => bursts' = bursts  BY BounceSorts DEF Bounces
  <2> QED BY <2>1, <2>2 DEF ClientDoes, StartsBurst, StartsWrite, Resumes, EndsWrite,
      FailsWrite, Leaves, Starts, Held
<1> QED BY <1>2, <1>3, <1>4, ReaderStands

\* ... by timers and signals ...
LEMMA ClockReads == ASSUME Base, NEW e \in Ends, Time(e) \/ Signal(e), ReadInv PROVE ReadInv'
<1>1. UNCHANGED <<test, taken, call, pc, bursts, begun, nleft, whole>>
  BY DEF Time, Signal, Elapse, Interrupt, wire, bytes, Loops, sender, receiver, results
<1>2. Moved("server")' = Moved("server") /\ Result("server")' = Result("server") /\ (Returned("server")' <=> Returned("server"))
  BY <1>1 DEF Moved, Returned, Result
<1> QED BY <1>1, <1>2, ReaderStands

\* ... by the kernel, which reads a part of a burst or of its header ...
LEMMA CallsReads == ASSUME Base, NEW e \in Ends, Calls(e), ReadInv PROVE ReadInv'
<1>0. CallStep(e)  BY CallSteps
<1>1. /\ UNCHANGED <<test, pc, bursts, begun, nleft, whole>> /\ OpOf(pc[e]) # "none" /\ ~Returned(e)
      /\ "client" \in Ends /\ "server" \in Ends
  BY <1>0, Typed DEF CallStep, Loops, sender, receiver, results
<1>2. CASE e = "client"
  <2>1. /\ Moved("server")' = Moved("server")
        /\ Result("server")' = Result("server") /\ (Returned("server")' <=> Returned("server"))
    BY <1>0, <1>1, <1>2, OtherKept
  <2>2. taken'["client"] = taken["client"]
    <3>1. taken' = taken \/ \E n : taken' = [taken EXCEPT !["server"] = @ + n]
      BY <1>0, <1>2, PeerOf DEF CallStep, Copies, Reads, Returns
    <3> QED BY <3>1, Typed
  <2> QED BY <1>1, <2>1, <2>2, ReaderStands
<1>3. CASE e = "server"
  <2>1. pc["server"] \in {"header", "recv", "answering", "listening"}
    <3>1. pc["server"] \in {"synch", "finish", "done", "loop", "header", "recv", "received",
                       "answer", "answering", "listen", "listening"}  BY DEF Base, Places
    <3>2. OpOf(pc["server"]) # "none"  BY <1>1, <1>3
    <3> QED BY <3>1, <3>2, Ops
  <2>2. /\ Loop' = Loop /\ (isburst' <=> isburst) /\ FirstPayload' = FirstPayload
        /\ (Reading' <=> Reading) /\ Reached' = Reached /\ Pos(Reached)' = Pos(Reached)
    BY <1>1, Kept DEF Reading, Reached, Pos, End
  <2>n. taken["client"] \in Nat /\ Moved("server") \in Nat /\ nleft \in Nat /\ FirstPayload \in Nat
    BY Typed, MovedIs, Settings DEF Base
  <2>3. CASE Reading
    <3>1. OpOf(pc["server"]) \in {"recv", "recvn"} /\ (OpOf(pc["server"]) = "recvn" <=> pc["server"] = "header")
      BY <2>1, <2>3, Ops DEF Reading
    <3>2. \/ taken'["client"] - Moved("server")' = taken["client"] - Moved("server") /\ taken'["client"] >= taken["client"]
             /\ taken'["client"] \in Nat /\ Moved("server")' \in Nat
          \/ HeaderLost' /\ taken'["client"] = taken["client"]
      <4>1. CASE \E n \in Nat \ {0} : Reads("server", n)
        <5>1. PICK n \in Nat \ {0} : Reads("server", n)  BY <4>1
        <5>2. taken'["client"] = taken["client"] + n /\ Moved("server")' = Moved("server") + n
          BY <5>1, Typed, PeerOf DEF Reads
        <5> QED BY <5>2, <2>n
      <4>2. CASE Returns("server")
        <5>1. taken' = taken /\ Returned("server")'  BY <4>2 DEF Returns
        <5>2. CASE Moved("server")' = Moved("server")  BY <5>1, <5>2, <2>n
        <5>3. CASE ~(Moved("server")' = Moved("server"))
          <6>1. OpOf(pc["server"]) = "recvn" /\ Result("server")' < 0  BY <4>2, <5>3 DEF Returns
          <6>2. HeaderLost'  BY <6>1, <5>1, <3>1, <1>1 DEF HeaderLost
          <6> QED BY <6>2, <5>1
        <5> QED BY <5>2, <5>3
      <4>3. ~(\E n \in Nat \ {0} : Copies("server", n))  BY <3>1 DEF Copies
      <4> QED BY <4>1, <4>2, <4>3, <1>0, <1>3 DEF CallStep
    <3>3. ~HeaderLost  BY <1>1, <1>3 DEF HeaderLost
    <3>4. /\ isburst => taken["client"] - Moved("server") + nleft = Pos(Reached)
          /\ isburst => (nleft > 0 => nleft + Header <= bursts[Reached].size) /\ (pc["server"] = "recv" => begun["server"] \in {0, Header})
          /\ (~isburst /\ pc["server"] = "recv" => begun["server"] = 0)
          /\ taken["client"] >= FirstPayload /\ Reached <= Len(bursts)
      BY <2>3, <3>3 DEF ReadInv
    <3>5. isburst /\ ~HeaderLost' => taken'["client"] - Moved("server")' + nleft = Pos(Reached)
      BY <3>2, <3>4
    <3>6. taken'["client"] >= FirstPayload
      <4>1. taken'["client"] = taken["client"] \/ (taken'["client"] >= taken["client"] /\ taken'["client"] \in Nat)  BY <3>2
      <4>2. taken["client"] >= FirstPayload  BY <3>4
      <4> QED BY <4>1, <4>2, <2>n
    <3>7. pc'["server"] # "synch"  BY <2>1, <1>1
    <3> QED BY <3>4, <3>5, <3>6, <3>7, <2>2, <1>1 DEF ReadInv
  <2>4. CASE ~Reading
    <3>1. ~Reading' /\ pc'["server"] # "synch"  BY <2>1, <2>2, <2>4, <1>1
    <3> QED BY <3>1, <2>2, <1>1 DEF ReadInv
  <2> QED BY <2>3, <2>4
<1> QED BY <1>2, <1>3 DEF Ends
\* The server has no call, or one that has just begun.
LEMMA IdleMoves ==
  ASSUME Base, NEW l, Idles(l) PROVE Moved("server")' = 0 /\ ~Returned("server")' /\ pc'["server"] = l
<1>1. call'["server"] = NoCall /\ pc'["server"] = l  BY Typed DEF Idles
<1>2. call'["server"].op = "none" /\ call'["server"].done = 0  BY <1>1 DEF NoCall
<1> QED BY <1>1, <1>2 DEF Moved, Returned

\* ... and has moved nothing yet.
LEMMA AskedMoves ==
  ASSUME Base, NEW l, AskedBy(l) PROVE Moved("server")' = 0 /\ ~Returned("server")' /\ pc'["server"] = l
<1>1. call'["server"] = [op |-> OpOf(l), len |-> Asked("server")', done |-> 0] /\ pc'["server"] = l
  BY Typed DEF AskedBy
<1>2. call'["server"].op = OpOf(l) /\ call'["server"].done = 0  BY <1>1
<1>3. OpOf(l) # "returned"  BY DEF OpOf
<1> QED BY <1>1, <1>2, <1>3 DEF Moved, Returned

\* At a place without a call nothing has been moved.
LEMMA NoneMoved ==
  ASSUME Base, NEW e \in Ends, OpOf(pc[e]) = "none", e = "server" PROVE Moved(e) = 0 /\ ~Returned(e)
<1>1. call[e] = NoCall  BY DEF Base, Calling, CallOk
<1> QED BY <1>1 DEF Moved, Returned, NoCall

\* ... and by the server: a header opens the burst, a payload counts down what
\* is left of it, and with the last byte it is whole.
LEMMA ServerReads ==
  ASSUME Base, Server, BurstInv, ReadInv PROVE ReadInv'
<1>0. HeaderFits /\ ClientSame /\ Base'  BY HeadersFit, ServerSteps, ServerBase
<1>1. ServerDoes  BY <1>0, ServerSorts DEF HeaderFits
<1>2. test' = test /\ bursts' = bursts  BY <1>0 DEF ClientSame
<1>3. /\ Loop' = Loop /\ (isburst' <=> isburst) /\ FirstPayload' = FirstPayload /\ First' = First
  BY <1>2, Kept
<1>n. /\ taken["client"] \in Nat /\ Moved("server") \in Nat /\ nleft \in Nat /\ whole \in Nat /\ FirstPayload \in Nat /\ Header \in Nat \ {0}
      /\ begun["server"] \in Nat /\ Len(bursts) \in Nat /\ "server" \in Ends /\ "client" \in Ends
      /\ taken \in [Ends -> Nat] /\ begun \in [Ends -> Nat] /\ DOMAIN pc = Ends /\ DOMAIN call = Ends
  BY Typed, MovedIs, Settings, BurstIs DEF Base
<1>r. /\ Reached <= Len(bursts) /\ Reached \in Nat
      /\ Reading /\ isburst /\ ~HeaderLost => taken["client"] - Moved("server") + nleft = Pos(Reached)
      /\ Reading /\ isburst /\ nleft > 0 => nleft + Header <= bursts[Reached].size
      /\ Reading => taken["client"] >= FirstPayload
  BY ReachedIs DEF ReadInv
<1>4. ASSUME NEW k \in Nat PROVE (Pos(k))' = Pos(k)  BY <1>2, <1>3 DEF Pos, End
\* Where the whole bursts and what is left of the next are as before.
<1>5. ASSUME nleft' = nleft, whole' = whole PROVE Reached' = Reached /\ Pos(Reached)' = Pos(Reached)
  BY <1>5, <1>2, <1>3 DEF Reached, Pos, End
<1>6. ASSUME nleft' = nleft, whole' = whole, pc'["server"] # "synch", ~Reading' PROVE ReadInv'
  BY <1>2, <1>5, <1>6, <1>r DEF ReadInv
<1>7. ASSUME nleft' = nleft, whole' = whole, taken' = taken, Reading, Reading', ~HeaderLost,
             Moved("server") = 0, Moved("server")' = 0, pc'["server"] = "recv" => begun'["server"] = 0
      PROVE  ReadInv'
  <2>1. pc'["server"] # "synch"  BY <1>7 DEF Reading
  <2>2. isburst => taken["client"] - Moved("server")' + nleft = Pos(Reached)  BY <1>7, <1>r
  <2> QED BY <2>1, <2>2, <1>2, <1>3, <1>5, <1>7, <1>r DEF ReadInv
<1>10. ASSUME NEW n \in Nat, ReadsFirst(n) PROVE ReadInv'
  <2>1. /\ pc["server"] = "synch" /\ taken' = [taken EXCEPT !["client"] = @ + n]
        /\ UNCHANGED <<call, nleft, whole>>
    BY <1>10 DEF ReadsFirst
  <2>2. taken'["client"] = taken["client"] + n  BY <2>1, <1>n
  <2>3. nleft = 0 /\ whole = 0 /\ (Loop # "bounce" => taken["client"] = begun["server"])
    BY <2>1 DEF ReadInv
  <2>4. CASE begun["server"] + n = First
    <3>1. /\ pc' = [pc EXCEPT !["server"] = IF Loop = "bounce" THEN "answer" ELSE "loop"]
          /\ begun' = [begun EXCEPT !["server"] = 0]
      BY <1>10, <2>4 DEF ReadsFirst
    <3>2. CASE Loop = "bounce"
      <4>1. pc'["server"] = "answer"  BY <3>1, <3>2, <1>n
      <4> QED BY <4>1, <2>1, <1>6 DEF Reading
    <3>3. CASE Loop # "bounce"
      <4>1. pc'["server"] = "loop"  BY <3>1, <3>3, <1>n
      <4>2. First = FirstPayload  BY <3>3 DEF First, Loop
      <4>3. taken'["client"] = FirstPayload  BY <2>2, <2>3, <2>4, <3>3, <4>2
      <4>4. OpOf(pc["server"]) = "none"  BY <2>1, Ops
      <4>5. Moved("server")' = 0
        <5>1. Moved("server") = 0  BY <4>4, <1>n, NoneMoved
        <5> QED BY <5>1, <2>1 DEF Moved, Returned, Result
      <4>6. Reached = 0 /\ Reached' = 0 /\ Pos(Reached)' = FirstPayload
        <5>1. Reached = 0  BY <2>3, ReachedIs
        <5> QED BY <5>1, <1>5, <2>1 DEF Pos
      <4>7. taken'["client"] - Moved("server")' + nleft' = FirstPayload
        BY <4>3, <4>5, <2>1, <2>3, <1>n
      <4>8. Reached' <= Len(bursts')  BY <4>6, <1>2, <1>n
      <4>9. ~(nleft' > 0)  BY <2>1, <2>3
      <4>10. FirstPayload >= FirstPayload  BY <1>n
      <4> QED BY <4>1, <4>3, <4>6, <4>7, <4>8, <4>9, <4>10, <1>3 DEF ReadInv
    <3> QED BY <3>2, <3>3
  <2>5. CASE begun["server"] + n # First
    <3>1. pc' = pc /\ begun' = [begun EXCEPT !["server"] = begun["server"] + n]
      BY <1>10, <2>5 DEF ReadsFirst
    <3>2. begun'["server"] = begun["server"] + n  BY <3>1, <1>n
    <3>3. ~Reading'  BY <3>1, <2>1 DEF Reading
    <3>4. Reached' <= Len(bursts')  BY <2>1, <1>2, <1>5, <1>r
    <3> QED BY <3>2, <3>3, <3>4, <2>1, <2>2, <2>3, <1>3 DEF ReadInv
  <2> QED BY <2>4, <2>5
<1>11. CASE GivesUp
  <2>1. Idles("finish") /\ UNCHANGED <<nleft, whole>>  BY <1>11 DEF GivesUp
  <2>2. pc'["server"] = "finish"  BY <2>1, IdleMoves
  <2> QED BY <2>1, <2>2, <1>6 DEF Reading
<1>12. CASE AsksHeader
  <2>1. pc["server"] = "loop" /\ AskedBy("header") /\ UNCHANGED <<taken, nleft, whole>>
    BY <1>12 DEF AsksHeader, Quiet
  <2>2. Moved("server")' = 0 /\ pc'["server"] = "header"  BY <2>1, AskedMoves
  <2>3. Moved("server") = 0 /\ ~HeaderLost  BY <2>1, <1>n, Ops, NoneMoved DEF HeaderLost
  <2> QED BY <2>1, <2>2, <2>3, <1>7 DEF Reading
<1>13. CASE AsksPayload
  <2>1. pc["server"] = "loop" /\ AskedBy("recv") /\ UNCHANGED <<taken, nleft, whole>> /\ begun' = [begun EXCEPT !["server"] = 0]
    BY <1>13 DEF AsksPayload, Quiet
  <2>2. Moved("server")' = 0 /\ pc'["server"] = "recv" /\ begun'["server"] = 0
    BY <2>1, <1>n, AskedMoves
  <2>3. Moved("server") = 0 /\ ~HeaderLost  BY <2>1, <1>n, Ops, NoneMoved DEF HeaderLost
  <2> QED BY <2>1, <2>2, <2>3, <1>7 DEF Reading
<1>14. CASE ReadsOn
  <2>1. /\ pc["server"] = "received" /\ UNCHANGED <<taken, call, nleft, whole>>
        /\ pc' = [pc EXCEPT !["server"] = IF Enough THEN "finish" ELSE "loop"]
    BY <1>14 DEF ReadsOn, Quiet
  <2>2. pc'["server"] = IF Enough THEN "finish" ELSE "loop"  BY <2>1, <1>n
  <2>3. Moved("server") = 0 /\ ~HeaderLost  BY <2>1, <1>n, Ops, NoneMoved DEF HeaderLost
  <2>4. Moved("server")' = 0  BY <2>1, <2>3 DEF Moved, Returned, Result
  <2>5. CASE Enough  BY <2>1, <2>2, <2>5, <1>6 DEF Reading
  <2>6. CASE ~Enough  BY <2>1, <2>2, <2>3, <2>4, <2>6, <1>7 DEF Reading
  <2> QED BY <2>5, <2>6
<1>15. CASE Departs
  <2>1. UNCHANGED <<nleft, whole>> /\ pc' = [pc EXCEPT !["server"] = "done"]  BY <1>15 DEF Departs
  <2>2. pc'["server"] = "done"  BY <2>1, <1>n
  <2> QED BY <2>1, <2>2, <1>6 DEF Reading
<1>16. CASE Answers
  <2>1. Loop' = "bounce" /\ UNCHANGED <<nleft, whole>>  BY <1>16, <1>3 DEF Answers
  <2>2. \E l \in {"answering", "listen", "answer", "listening"} : AskedBy(l) \/ Idles(l)
    BY <1>16 DEF Answers
  <2>3. pc'["server"] \in {"answering", "listen", "answer", "listening"}
    BY <2>2, AskedMoves, IdleMoves
  <2> QED BY <2>1, <2>3, <1>6 DEF Reading
<1>17. CASE GetsHeader
  <2>1. /\ pc["server"] = "header" /\ Returned("server") /\ Result("server") = Header
        /\ nleft' = SizeAt(taken["client"] - Header) - Header /\ taken' = taken
    BY <1>17 DEF GetsHeader, Quiet
  <2> DEFINE size == bursts[whole + 1].size
  <2>2. /\ nleft = 0 /\ whole < Len(bursts) /\ Along
        /\ taken["client"] = Pos(whole) + Header
        /\ SizeAt(taken["client"] - Header) = size
        /\ size \in Nat /\ size >= Header
        /\ End(bursts[whole + 1]) = Pos(whole) + size
    BY <2>1, HeaderIs
  <2>3. nleft' = size - Header  BY <2>1, <2>2
  <2>4. Pos(whole) \in Nat  BY <2>2, <1>n, BurstsOrder
  <2> HIDE DEF size
  <2>e. taken["client"] >= FirstPayload  BY <1>r, <2>1 DEF Reading
  <2>6. CASE nleft' = 0
    <3>1. whole' = whole + 1 /\ Idles("received")  BY <1>17, <2>6 DEF GetsHeader
    <3>2. Moved("server")' = 0 /\ pc'["server"] = "received"  BY <3>1, IdleMoves
    <3>3. Reached' = whole + 1
      <4>1. ~(nleft' > 0) /\ whole' \in Nat  BY <2>6, <3>1, <1>n
      <4>2. Reached' = whole' + 0  BY <4>1 DEF Reached
      <4> QED BY <4>1, <4>2, <3>1
    <3>4. size = Header  BY <2>2, <2>3, <2>6, <1>n
    <3>5. taken'["client"] - Moved("server")' + nleft' = Pos(whole) + size
      BY <3>2, <3>4, <2>1, <2>2, <2>4, <2>6, <1>n
    <3>6. Reached' <= Len(bursts')  BY <3>3, <2>2, <1>2, <1>n
    <3>7. Pos(Reached)' = Pos(whole) + size
      <4>1. Pos(Reached)' = (IF Reached' = 0 THEN FirstPayload' ELSE End(bursts[Reached])')
        BY DEF Pos
      <4>2. Reached' # 0  BY <3>3, <1>n
      <4>3. End(bursts[Reached])' = End(bursts[whole + 1])  BY <3>3, <1>2 DEF End
      <4> QED BY <4>1, <4>2, <4>3, <2>2 DEF size
    <3>8. ~(nleft' > 0)  BY <2>6
    <3> QED BY <3>2, <3>5, <3>6, <3>7, <3>8, <2>1, <2>e, <1>3 DEF ReadInv
  <2>7. CASE nleft' # 0
    <3>1. begun' = [begun EXCEPT !["server"] = Header] /\ whole' = whole /\ AskedBy("recv")
      BY <1>17, <2>7 DEF GetsHeader
    <3>2. Moved("server")' = 0 /\ pc'["server"] = "recv" /\ begun'["server"] = Header
      BY <3>1, <1>n, AskedMoves
    <3>3. nleft' > 0 /\ nleft' \in Nat  BY <2>2, <2>3, <2>7, <1>n
    <3>4. Reached' = whole + 1
      <4>1. Reached' = whole' + 1  BY <3>3 DEF Reached
      <4> QED BY <4>1, <3>1
    <3>5. taken'["client"] - Moved("server")' + nleft' = Pos(whole) + size
      <4>1. taken["client"] - 0 + (size - Header) = Pos(whole) + size  BY <2>2, <2>4, <1>n
      <4> QED BY <4>1, <3>2, <2>1, <2>3
    <3>6. Reached' <= Len(bursts')  BY <3>4, <2>2, <1>2, <1>n
    <3>7. Pos(Reached)' = Pos(whole) + size
      <4>1. Pos(Reached)' = (IF Reached' = 0 THEN FirstPayload' ELSE End(bursts[Reached])')
        BY DEF Pos
      <4>2. Reached' # 0  BY <3>4, <1>n
      <4>3. End(bursts[Reached])' = End(bursts[whole + 1])  BY <3>4, <1>2 DEF End
      <4> QED BY <4>1, <4>2, <4>3, <2>2 DEF size
    <3>8. nleft' + Header <= bursts'[Reached'].size
      <4>1. bursts'[Reached'].size = size  BY <3>4, <1>2 DEF size
      <4>2. size - Header + Header <= size  BY <2>2, <1>n
      <4> QED BY <4>1, <4>2, <2>3
    <3>9. isburst'  BY <2>1, <1>3 DEF Base, Shapes
    <3> QED BY <3>2, <3>5, <3>6, <3>7, <3>8, <3>9, <2>1, <2>e, <1>3 DEF ReadInv
  <2> QED BY <2>6, <2>7
<1>18. CASE GetsPayload
  <2> DEFINE n == Result("server")
  <2>1. /\ pc["server"] = "recv" /\ Returned("server") /\ Idles("received") /\ taken' = taken
        /\ nleft' = (IF isburst /\ n > 0 THEN nleft - n ELSE nleft)
        /\ whole' = (IF isburst /\ n > 0 /\ nleft = n THEN whole + 1 ELSE whole)
    BY <1>18 DEF GetsPayload, Quiet
  <2>2. /\ nleft' \in Nat /\ n \in Int /\ (isburst /\ n > 0 => n <= nleft)
        /\ Moved("server") = (IF n > 0 THEN n ELSE 0)
    <3>1. Moved("server") = (IF n > 0 THEN n ELSE 0)  BY <2>1 DEF Moved
    <3> QED BY <3>1, <1>18, PayloadFits
  <2>3. Moved("server")' = 0 /\ pc'["server"] = "received"  BY <2>1, IdleMoves
  <2>4. Reading /\ ~HeaderLost /\ Reading'  BY <2>1, <2>3 DEF Reading, HeaderLost
  <2> HIDE DEF n
  <2>5. CASE ~isburst
    <3>1. nleft' = nleft /\ whole' = whole  BY <2>1, <2>5
    <3>2. Reached' <= Len(bursts')  BY <3>1, <1>2, <1>5, <1>r
    <3> QED BY <3>1, <3>2, <2>1, <2>3, <2>4, <2>5, <1>3, <1>r DEF ReadInv
  <2>6. CASE isburst /\ ~(n > 0)
    <3>1. nleft' = nleft /\ whole' = whole /\ Moved("server") = 0  BY <2>1, <2>2, <2>6
    <3> QED BY <3>1, <2>1, <2>3, <2>4, <1>7
  <2>7. CASE isburst /\ n > 0
    <3>1. nleft > 0  BY <2>1, <2>7 DEF Base, Shapes
    <3>2. Reached = whole + 1 /\ Moved("server") = n  BY <3>1, <2>2, <2>7, ReachedIs
    <3>3. taken["client"] - n + nleft = Pos(Reached) /\ nleft + Header <= bursts[Reached].size
      BY <3>1, <3>2, <2>4, <2>7, <1>r
    <3>4. nleft' = nleft - n  BY <2>1, <2>7
    <3>5. Reached' = whole + 1
      <4>1. CASE nleft = n
        <5>1. whole' = whole + 1 /\ nleft' = 0  BY <4>1, <3>4, <2>1, <2>2, <2>7
        <5> QED BY <5>1, <1>n DEF Reached
      <4>2. CASE nleft # n
        <5>1. whole' = whole /\ nleft' > 0  BY <4>2, <3>4, <2>1, <2>2, <2>7, <1>n
        <5> QED BY <5>1 DEF Reached
      <4> QED BY <4>1, <4>2
    <3>6. Pos(Reached)' = Pos(Reached) /\ Reached' = Reached /\ Reached' <= Len(bursts') /\ bursts'[Reached'] = bursts[Reached]
      <4>1. Reached' = Reached  BY <3>2, <3>5
      <4> QED BY <4>1, <1>2, <1>3, <1>r DEF Pos, End
    <3>7. taken'["client"] - Moved("server")' + nleft' = Pos(Reached)
      <4>1. taken["client"] - 0 + (nleft - n) = taken["client"] - n + nleft  BY <1>n, <2>2
      <4> QED BY <4>1, <3>3, <3>4, <2>1, <2>3
    <3>8. nleft' + Header <= bursts[Reached].size
      <4>1. bursts[Reached].size \in Nat
        <5>1. Reached \in 1 .. Len(bursts)  BY <3>2, <1>r, <1>n
        <5> QED BY <5>1, BurstIs
      <4>2. nleft - n + Header <= bursts[Reached].size
        <5> DEFINE size == bursts[Reached].size
        <5>1. size \in Nat /\ nleft + Header <= size  BY <4>1, <3>3, <2>7
        <5>2. n \in Int /\ n > 0  BY <2>2, <2>7
        <5>3. nleft \in Nat /\ Header \in Nat  BY <1>n
        <5> HIDE DEF size
        <5>4. nleft - n + Header <= size  BY <5>1, <5>2, <5>3
        <5> QED BY <5>4 DEF size
      <4> QED BY <4>2, <3>4
    <3> QED BY <3>6, <3>7, <3>8, <2>1, <2>3, <2>4, <2>7, <1>3, <1>r DEF ReadInv
  <2> QED BY <2>5, <2>6, <2>7
<1> QED BY <1>1, <1>10, <1>11, <1>12, <1>13, <1>14, <1>15, <1>16, <1>17, <1>18 DEF ServerDoes
-----------------------------------------------------------------------------
(* The invariant.                                                          *)
Aligned == Base /\ BurstInv /\ ReadInv

\* Before the test nothing is sent, read or asked for.
LEMMA AlignedInit == Init => Aligned
<1> SUFFICES ASSUME Init PROVE Aligned
  OBVIOUS
<1> USE DEF Init, ConnectionInit
<1>1. pc["client"] = "synch" /\ pc["server"] = "synch" /\ DOMAIN pc = Ends /\ call["client"] = NoCall /\ call["server"] = NoCall
      /\ begun["server"] = 0 /\ begun["client"] = 0 /\ sent["client"] = 0 /\ sent["server"] = 0 /\ taken["client"] = 0 /\ taken["server"] = 0
      /\ total["client"] = 0 /\ reported["client"] = 0
  BY DEF Ends
<1>2. Types
  <2>1. test.amount \in Nat  BY TestsAssumption
  <2>2. /\ sent \in [Ends -> Nat] /\ taken \in [Ends -> Nat] /\ dropped \in [Ends -> Nat]
        /\ begun \in [Ends -> Nat] /\ total \in [Ends -> Int] /\ reported \in [Ends -> Nat]
    OBVIOUS
  <2>3. bursts \in Seq([at : Nat, size : Nat \ {0}])  BY EmptySeq
  <2> QED BY <2>1, <2>2, <2>3, <1>1 DEF Types
<1>3. Places  BY <1>1 DEF Places
<1>4. Calling
  <2>1. OpOf("synch") = "none"  BY Ops
  <2>2. CallOk("client") /\ CallOk("server")  BY <1>1, <2>1 DEF CallOk
  <2>3. NoCall \in [op : {"none", "write", "writen", "recv", "recvn", "returned"}, len : Int, done : Nat]
    BY DEF NoCall
  <2>4. call \in [Ends -> [op : {"none", "write", "writen", "recv", "recvn", "returned"}, len : Int, done : Nat]]
    BY <2>3
  <2> QED BY <2>2, <2>4 DEF Calling
<1>5. Shapes
  <2>1. First \in Nat  BY <1>2, Settings
  <2>2. begun["server"] <= First  BY <2>1, <1>1
  <2>3. nleft = 0 /\ whole = 0  OBVIOUS
  <2> HIDE DEF Init, ConnectionInit
  <2> QED BY <2>2, <2>3, <1>1 DEF Shapes
<1>6. Ended  BY <1>1 DEF Ended
<1>7. Cut  BY <1>1, Ops DEF Cut
<1>8. Base  BY <1>2, <1>3, <1>4, <1>5, <1>6, <1>7 DEF Base
<1>9. Len(bursts) = 0 /\ bursts = <<>>  OBVIOUS
<1>10. BurstInv
  <2>1. Chained
    <3>1. 1 .. 0 = {} /\ 1 .. 0 - 1 = {}  OBVIOUS
    <3> QED BY <3>1, <1>9 DEF Chained
  <2>2. LastBurst  BY <1>1, <1>9, Ops DEF LastBurst, Sending
  <2>3. RateCut  BY <1>1 DEF RateCut
  <2> QED BY <2>1, <2>2, <2>3, <1>9 DEF BurstInv
<1>11. ReadInv
  <2>1. Reached = 0  BY <1>8, ReachedIs
  <2> QED BY <2>1, <1>1, <1>9 DEF ReadInv, Reading
<1> QED BY <1>8, <1>10, <1>11 DEF Aligned

\* A step that changes nothing keeps the invariant.
LEMMA AlignedStutter == Aligned /\ UNCHANGED vars => Aligned'
<1> SUFFICES ASSUME Aligned, UNCHANGED vars PROVE Aligned'
  OBVIOUS
<1>1. UNCHANGED <<test, sent, taken, dropped, shut, closed, call, over, late, interrupted, pc, amount, left, bursts,
                  total, reported, begun, nleft, whole, peerclose, rounds>>
  BY DEF vars, wire, bytes, signals, sender, receiver, results
<1>2. /\ Loop' = Loop /\ (isburst' <=> isburst) /\ FirstPayload' = FirstPayload /\ First' = First /\ (Framed' <=> Framed)
      /\ \A f : Is(f)' <=> Is(f)
  BY <1>1, Kept
<1>3. \A e \in Ends : Asked(e)' = Asked(e) /\ Moved(e)' = Moved(e) /\ Result(e)' = Result(e) /\ (Returned(e)' <=> Returned(e))
  BY <1>1, <1>2 DEF Asked, Limit, Less, Moved, Result, Returned
<1>4. "client" \in Ends /\ "server" \in Ends /\ closed \subseteq closed' /\ interrupted \subseteq interrupted'
  BY <1>1 DEF Ends
<1>5. Base'
  <2>1. Types'  BY <1>1 DEF Aligned, Base, Types
  <2>2. Places'  BY <1>1, <1>2 DEF Aligned, Base, Places
  <2>3. \A e \in Ends : CallOk(e) => CallOk(e)'  BY <1>1, <1>3 DEF CallOk
  <2>4. Calling'  BY <1>1, <1>4, <2>3 DEF Aligned, Base, Calling
  <2>5. Shapes'  BY <1>1, <1>2 DEF Aligned, Base, Shapes
  <2>6. Ended'  BY <1>1, <1>2 DEF Aligned, Base, Ended
  <2>7. Cut'  BY <1>1, <1>3, <1>4 DEF Aligned, Base, Cut
  <2> QED BY <2>1, <2>2, <2>4, <2>5, <2>6, <2>7 DEF Base
<1>6. BurstInv'  BY <1>1, <1>3, <1>4, ClientStands DEF Aligned
<1>7. ReadInv'  BY <1>1, <1>3, <1>4, ReaderStands DEF Aligned
<1> QED BY <1>5, <1>6, <1>7 DEF Aligned

\* Every step keeps it.
LEMMA AlignedStep == Aligned /\ [Next]_vars => Aligned'
<1> SUFFICES ASSUME Aligned, [Next]_vars PROVE Aligned'
  OBVIOUS
<1>0. Base /\ BurstInv /\ ReadInv  BY DEF Aligned
<1>1. CASE Client  BY <1>0, <1>1, ClientBase, ClientBursts, ClientReads DEF Aligned
<1>2. CASE Server  BY <1>0, <1>2, HeadersFit, ServerBase, ServerBursts, ServerReads DEF Aligned
<1>3. ASSUME NEW e \in Ends, Calls(e) PROVE Aligned'
  BY <1>0, <1>3, CallsBase, CallsBursts, CallsReads DEF Aligned
<1>4. ASSUME NEW e \in Ends, Time(e) \/ Signal(e) PROVE Aligned'
  BY <1>0, <1>4, ClockBase, ClockBursts, ClockReads DEF Aligned
<1>5. CASE UNCHANGED vars  BY <1>5, AlignedStutter
<1> QED BY <1>1, <1>2, <1>3, <1>4, <1>5 DEF Next

\* Who has read at least the header of a burst is behind its beginning.
LEMMA Behind ==
  ASSUME NEW t \in Nat, NEW l \in Nat, NEW a \in Nat, NEW size \in Nat, NEW h \in Nat,
         t + l = a + size, l + h <= size
  PROVE  a <= t
OBVIOUS

\* The invariant gives the property: the server is behind the last whole burst
\* or inside the next one, so that it counts the whole ones rightly.
LEMMA AlignedFrames == Aligned => FramesAligned
<1> SUFFICES ASSUME Aligned PROVE FramesAligned
  OBVIOUS
<1>0. Base /\ BurstInv /\ ReadInv  BY DEF Aligned
<1>n. /\ Len(bursts) \in Nat /\ (bursts = <<>> <=> Len(bursts) = 0) /\ whole \in Nat /\ nleft \in Nat /\ taken["client"] \in Nat
      /\ Header \in Nat \ {0} /\ DOMAIN bursts = 1 .. Len(bursts) /\ "server" \in Ends
  BY <1>0, BurstIs, Typed, Numbers, LenProperties
<1>1. ASSUME "server" \notin closed PROVE \A i \in 1 .. Len(bursts) - 1 : End(bursts[i]) = bursts[i + 1].at
  <2>1. CASE Framed
    BY <2>1, <1>0, <1>1, BurstInvIs DEF Open, BurstsOk, Chained
  <2>2. CASE ~Framed
    <3>1. Len(bursts) = 0  BY <2>2, <1>0, <1>n, BurstInvIs
    <3>2. 1 .. 0 - 1 = {}  OBVIOUS
    <3> QED BY <3>1, <3>2
  <2> QED BY <2>1, <2>2
<1>2. ASSUME At("server", "header"), call["server"].op = "recvn"
      PROVE  taken["client"] - call["server"].done \in {FirstPayload} \cup {End(bursts[i]) : i \in DOMAIN bursts}
  <2>1. pc["server"] = "header" /\ ~Returned("server") /\ isburst /\ nleft = 0
    BY <1>0, <1>2 DEF At, Returned, Base, Shapes
  <2>2. Reading /\ ~HeaderLost  BY <2>1 DEF Reading, HeaderLost
  <2>3. Moved("server") = call["server"].done /\ Moved("server") \in Nat
    BY <2>1, <1>0, <1>n, MovedIs DEF Moved
  <2>4. Reached = whole  BY <2>1, <1>0, ReachedIs
  <2>5. taken["client"] - call["server"].done + 0 = Pos(whole) /\ whole <= Len(bursts)
    BY <2>1, <2>2, <2>3, <2>4, <1>0 DEF ReadInv
  <2>6. taken["client"] - call["server"].done = Pos(whole)
    <3>1. taken["client"] - call["server"].done + 0 = taken["client"] - call["server"].done
      BY <1>n, <2>3
    <3> QED BY <3>1, <2>5
  <2>7. CASE whole = 0  BY <2>6, <2>7 DEF Pos
  <2>8. CASE whole # 0
    <3>1. whole \in DOMAIN bursts  BY <2>5, <2>8, <1>n
    <3> QED BY <3>1, <2>6, <2>8 DEF Pos
  <2> QED BY <2>7, <2>8
<1>3. ASSUME At("server", "loop"), isburst
      PROVE  whole = Cardinality({i \in DOMAIN bursts : End(bursts[i]) <= taken["client"]})
  <2>1. pc["server"] = "loop" /\ Reading /\ ~HeaderLost  BY <1>3 DEF At, Reading, HeaderLost
  <2>2. Along  BY <2>1, <1>0, <1>3, ReadingOpen
  <2>3. Moved("server") = 0  BY <2>1, <1>0, <1>n, Ops, NoneMoved
  <2>4. /\ taken["client"] - 0 + nleft = Pos(Reached) /\ Reached <= Len(bursts)
        /\ nleft > 0 => nleft + Header <= bursts[Reached].size
    BY <2>1, <2>3, <1>0, <1>3 DEF ReadInv
  <2>5. taken["client"] + nleft = Pos(Reached)
    <3>1. taken["client"] - 0 + nleft = taken["client"] + nleft  BY <1>n
    <3> QED BY <3>1, <2>4
  <2>o. /\ \A i, j \in 1 .. Len(bursts) : i < j => End(bursts[i]) <= bursts[j].at
        /\ \A i \in 1 .. Len(bursts) : FirstPayload <= bursts[i].at /\ bursts[i].at \in Nat /\ bursts[i].size \in Nat
                                      /\ End(bursts[i]) \in Nat /\ End(bursts[i]) > bursts[i].at
        /\ FirstPayload \in Nat
    BY <2>2, <1>0, BurstsOrder, BurstIs
  <2>6. whole <= Len(bursts)
    <3>1. nleft = 0 \/ nleft > 0  BY <1>n
    <3> QED BY <3>1, <2>4, <1>0, <1>n, ReachedIs
\* The bursts read are those up to whole.
  <2>7. ASSUME NEW i \in 1 .. Len(bursts), i <= whole PROVE End(bursts[i]) <= taken["client"]
    <3>1. whole \in 1 .. Len(bursts) /\ whole # 0  BY <2>6, <2>7, <1>n
    <3>2. CASE nleft = 0
      <4>1. taken["client"] = End(bursts[whole])
        <5>1. Reached = whole /\ Pos(whole) = End(bursts[whole])
          BY <3>1, <3>2, <1>0, ReachedIs DEF Pos
        <5>2. taken["client"] + 0 = taken["client"]  BY <1>n
        <5> QED BY <5>1, <5>2, <2>5, <3>2
      <4>2. CASE i = whole  BY <4>1, <4>2, <1>n
      <4>3. CASE i # whole
        <5>1. End(bursts[i]) <= bursts[whole].at  BY <3>1, <4>3, <2>7, <2>o, <1>n
        <5>2. bursts[whole].at \in Nat /\ End(bursts[whole]) > bursts[whole].at /\ End(bursts[i]) \in Nat  BY <3>1, <2>o
        <5> QED BY <5>1, <5>2, <4>1, <1>n
      <4> QED BY <4>2, <4>3
    <3>3. CASE nleft > 0
      <4>1. Reached = whole + 1 /\ whole + 1 \in 1 .. Len(bursts)
        BY <3>3, <2>4, <1>0, <1>n, ReachedIs
      <4>2. taken["client"] + nleft = bursts[whole + 1].at + bursts[whole + 1].size /\ nleft + Header <= bursts[whole + 1].size
        <5>1. Pos(whole + 1) = End(bursts[whole + 1])
          <6>1. whole + 1 # 0  BY <1>n
          <6> QED BY <6>1 DEF Pos
        <5> QED BY <5>1, <4>1, <3>3, <2>4, <2>5 DEF End
      <4>3. End(bursts[i]) <= bursts[whole + 1].at
        <5>1. i < whole + 1  BY <2>7, <1>n
        <5> QED BY <5>1, <4>1, <2>o
      <4>4. bursts[whole + 1].at \in Nat /\ bursts[whole + 1].size \in Nat /\ End(bursts[i]) \in Nat
        BY <4>1, <2>o
      <4>5. bursts[whole + 1].at <= taken["client"]  BY <4>2, <4>4, <1>n, Behind
      <4> QED BY <4>3, <4>4, <4>5, <1>n
    <3> QED BY <3>2, <3>3, <1>n
  <2>8. ASSUME NEW i \in 1 .. Len(bursts), whole < i PROVE ~(End(bursts[i]) <= taken["client"])
    <3>1. CASE nleft = 0
      <4>1. taken["client"] = Pos(whole)
        <5>1. Reached = whole  BY <3>1, <1>0, ReachedIs
        <5>2. taken["client"] + 0 = taken["client"]  BY <1>n
        <5> QED BY <5>1, <5>2, <2>5, <3>1
      <4>2. Pos(whole) <= bursts[i].at
        <5>1. CASE whole = 0  BY <5>1, <2>o DEF Pos
        <5>2. CASE whole # 0
          <6>1. whole \in 1 .. Len(bursts)  BY <5>2, <2>6, <1>n
          <6> QED BY <6>1, <5>2, <2>8, <2>o DEF Pos
        <5> QED BY <5>1, <5>2
      <4>3. bursts[i].at \in Nat /\ End(bursts[i]) \in Nat /\ End(bursts[i]) > bursts[i].at  BY <2>o
      <4> QED BY <4>1, <4>2, <4>3, <1>n
    <3>2. CASE nleft > 0
      <4>1. Reached = whole + 1 /\ whole + 1 \in 1 .. Len(bursts)
        BY <3>2, <2>4, <1>0, <1>n, ReachedIs
      <4>2. taken["client"] + nleft = End(bursts[whole + 1])
        <5>1. whole + 1 # 0  BY <1>n
        <5> QED BY <5>1, <4>1, <2>5 DEF Pos
      <4>3. End(bursts[whole + 1]) <= End(bursts[i])
        <5>1. CASE i = whole + 1  BY <5>1, <4>1, <2>o
        <5>2. CASE i # whole + 1
          <6>1. End(bursts[whole + 1]) <= bursts[i].at  BY <5>2, <4>1, <2>8, <2>o, <1>n
          <6>2. bursts[i].at \in Nat /\ End(bursts[i]) > bursts[i].at /\ End(bursts[i]) \in Nat /\ End(bursts[whole + 1]) \in Nat
            BY <4>1, <2>o
          <6> QED BY <6>1, <6>2
        <5> QED BY <5>1, <5>2
      <4>4. End(bursts[i]) \in Nat /\ End(bursts[whole + 1]) \in Nat  BY <4>1, <2>o
      <4> QED BY <4>2, <4>3, <4>4, <3>2, <1>n
    <3> QED BY <3>1, <3>2, <1>n
  <2>9. {i \in DOMAIN bursts : End(bursts[i]) <= taken["client"]} = 1 .. whole
    <3>1. ASSUME NEW i PROVE i \in DOMAIN bursts /\ End(bursts[i]) <= taken["client"] <=> i \in 1 .. whole
      <4>1. i \in 1 .. whole => i \in 1 .. Len(bursts) /\ i <= whole  BY <2>6, <1>n
      <4>2. i \in 1 .. Len(bursts) /\ ~(whole < i) => i \in 1 .. whole  BY <1>n
      <4> QED BY <4>1, <4>2, <2>7, <2>8, <1>n
    <3> QED BY <3>1
  <2>10. Cardinality(1 .. whole) = whole
    <3>1. Cardinality(1 .. whole) = IF 1 > whole THEN 0 ELSE whole - 1 + 1  BY <1>n, FS_Interval
    <3>2. CASE whole = 0  BY <3>1, <3>2
    <3>3. CASE whole # 0  BY <3>1, <3>3, <1>n
    <3> QED BY <3>2, <3>3
  <2> QED BY <2>9, <2>10
<1> QED BY <1>1, <1>2, <1>3 DEF FramesAligned

\* The inductive invariant of a TCP test with bursts: places, calls and types of
\* both ends (Base), what the last burst has been sent (BurstInv) and where in
\* the bursts the server is (ReadInv), in every loop of Client.cpp and Server.cpp.
THEOREM AlignedInvariant == Spec => []Aligned
<1>1. Init => Aligned  BY AlignedInit
<1>2. Aligned /\ [Next]_vars => Aligned'  BY AlignedStep
<1> QED BY <1>1, <1>2, PTL DEF Spec

\* The server finds every burst: bursts follow each other without a gap, a header
\* is only looked for where one begins, and whole bursts are counted rightly
\* (Server.cpp:190, Client.cpp:700), for every set of tests, buffer and header
\* length, and however reads and writes are cut, fail, or end by a signal.
THEOREM Frames == Spec => []FramesAligned
<1>1. Aligned => FramesAligned  BY AlignedFrames
<1> QED BY <1>1, AlignedInvariant, PTL
-----------------------------------------------------------------------------
(* The bounceback.                                                         *)
\* The bytes of n requests, and of n replies.
Requests(n) == n * test.len
Replies(n) == n * test.reply

\* Multiples of a length: one more, and none.
LEMMA Product ==
  ASSUME NEW m \in Nat, NEW l \in Nat PROVE m * l \in Nat /\ (m + 1) * l = m * l + l /\ 0 * l = 0
OBVIOUS

\* ... in their order.
LEMMA Times ==
  ASSUME NEW m \in Nat, NEW n \in Nat, NEW l \in Nat, m <= n PROVE m * l <= n * l
OBVIOUS

\* What holds q messages has q of them.
LEMMA Quotient ==
  ASSUME NEW q \in Nat, NEW l \in Nat \ {0}, NEW t \in Nat, q * l <= t
  PROVE  t \div l \in Nat /\ q <= t \div l
<1> DEFINE d == t \div l
<1>1. d \in Nat /\ t < (d + 1) * l /\ (d + 1) * l \in Nat
  OBVIOUS
<1> HIDE DEF d
<1>2. ASSUME d + 1 <= q PROVE FALSE
  <2>1. (d + 1) * l <= q * l  BY <1>1, <1>2, Times
  <2>2. q * l \in Nat  BY Product
  <2> QED BY <1>1, <2>1, <2>2
<1> QED BY <1>1, <1>2 DEF d

\* Bytes make whole messages in one way only.
LEMMA Equal ==
  ASSUME NEW a \in Nat, NEW b \in Nat, NEW l \in Nat, NEW m \in Nat, m < l, a * l = b * l + m
  PROVE  a = b
<1>0. a * l \in Nat /\ b * l \in Nat  BY Product
<1>1. ASSUME b + 1 <= a PROVE FALSE
  <2>1. (b + 1) * l <= a * l /\ (b + 1) * l = b * l + l  BY <1>1, Times, Product
  <2> QED BY <1>0, <2>1
<1>2. ASSUME a + 1 <= b PROVE FALSE
  <2>1. (a + 1) * l <= b * l /\ (a + 1) * l = a * l + l  BY <1>2, Times, Product
  <2> QED BY <1>0, <2>1
<1> QED BY <1>1, <1>2

\* The client after some rounds: of the next one it has sent what its writes
\* have moved, and of the reply it has read what is not thrown away.
ClientLock ==
  /\ sent["client"] <= Requests(rounds) + test.len
  /\ Replies(rounds) <= taken["server"]
  /\ pc["client"] = "synch" => rounds = 0 /\ taken["server"] = 0 /\ dropped["client"] = 0
  /\ pc["client"] = "loop" /\ InProgress("client") =>
       sent["client"] = Requests(rounds) /\ taken["server"] = Replies(rounds) + dropped["client"]
  /\ pc["client"] = "request" =>
       /\ sent["client"] = Requests(rounds) + begun["client"] + Moved("client")
       /\ taken["server"] = Replies(rounds) + dropped["client"]
  /\ pc["client"] = "reply" =>
       /\ sent["client"] = Requests(rounds) + test.len
       /\ taken["server"] = Replies(rounds) + dropped["client"] + begun["client"] + Moved("client")

\* The server after q answers, in the same way.
ServerLock(q) ==
  /\ pc["server"] = "synch" =>
       q = 0 /\ sent["server"] = 0 /\ taken["client"] = begun["server"] /\ dropped["server"] = 0
  /\ pc["server"] \in {"answer", "answering"} =>
       /\ sent["server"] = Replies(q) + begun["server"] + Moved("server")
       /\ taken["client"] = Requests(q) + test.len + dropped["server"]
  /\ pc["server"] \in {"listen", "listening"} =>
       /\ sent["server"] = Replies(q)
       /\ taken["client"] = Requests(q) + dropped["server"] + Moved("server")
  /\ pc["server"] \in {"finish", "done"} => sent["server"] <= Replies(q) /\ Requests(q) <= taken["client"]
\* What the two ends of a bounceback owe each other.
LockInv == Is("BounceBack") => ClientLock /\ \E q \in Nat : ServerLock(q)

\* What a bounceback is.
LEMMA BounceIs ==
  ASSUME Base, Is("BounceBack")
  PROVE  /\ Loop = "bounce" /\ HasEnd("client") /\ First = test.len /\ FirstPayload = 0
         /\ pc["client"] \in {"synch", "loop", "finish", "await", "report", "done", "failed", "request", "reply"}
         /\ pc["server"] \in {"synch", "finish", "done", "answer", "answering", "listen", "listening"}
         /\ test.len \in Nat \ {0} /\ test.reply \in Nat \ {0} /\ rounds \in Nat
         /\ Requests(rounds) \in Nat /\ Replies(rounds) \in Nat
         /\ Requests(rounds + 1) = Requests(rounds) + test.len /\ Replies(rounds + 1) = Replies(rounds) + test.reply
<1>1. Loop = "bounce" /\ First = test.len /\ FirstPayload = 0  BY DEF Loop, First, FirstPayload
<1>2. HasEnd("client")
  <2>1. "BounceBack" \in test.flags => "ModeTime" \in test.flags  BY Typed, TestsAssumption
  <2> QED BY <2>1 DEF HasEnd, Is
<1>3. /\ pc["client"] \in {"synch", "loop", "finish", "await", "report", "done", "failed", "request", "reply"}
      /\ pc["server"] \in {"synch", "finish", "done", "answer", "answering", "listen", "listening"}
  BY <1>1 DEF Base, Places
<1>4. test.len \in Nat \ {0} /\ test.reply \in Nat \ {0} /\ rounds \in Nat  BY Typed, Settings DEF Base
<1>5. /\ Requests(rounds) \in Nat /\ Replies(rounds) \in Nat
      /\ Requests(rounds + 1) = Requests(rounds) + test.len /\ Replies(rounds + 1) = Replies(rounds) + test.reply
  BY <1>4, Product DEF Requests, Replies
<1> QED BY <1>1, <1>2, <1>3, <1>4, <1>5

\* What a step of a bounceback client is.
LEMMA BounceClient ==
  ASSUME Base, Is("BounceBack"), Client
  PROVE  \/ (StartSynch \/ LoopEnds \/ Finish \/ AwaitServerCloseEvent \/ ClientCloses) /\ rounds' = rounds
         \/ ClientBounces
<1>1. /\ Loop = "bounce"
      /\ pc["client"] \in {"synch", "loop", "finish", "await", "report", "done", "failed", "request", "reply"}
  BY BounceIs
<1>2. ~SelectTimeout /\ ~StreamBurst /\ ~StreamTooLate /\ ~StreamWrite /\ ~CongestBurst /\ ~CongestWrite
      /\ ~RateBurst /\ ~RateWrite /\ ~EventWrite
  BY <1>1 DEF SelectTimeout, StreamBurst, StreamTooLate, StreamWrite, CongestBurst, CongestWrite, RateBurst,
              RateWrite, EventWrite, Round
<1>3. ~StreamBurstWritten /\ ~StreamWritten /\ ~CongestWritten /\ ~RateBurstWritten /\ ~RateWritten /\ ~EventWritten
  BY <1>1 DEF StreamBurstWritten, StreamWritten, CongestWritten, RateBurstWritten, RateWritten, EventWritten, At
<1> QED BY <1>2, <1>3 DEF Client, ClientTraffic

\* The same for the server.
LEMMA BounceServer ==
  ASSUME Base, Is("BounceBack"), Server
  PROVE  \/ (FirstRead \/ NothingFirst \/ ServerCloses) /\ rounds' = rounds
         \/ ServerBounces
<1>1. /\ Loop = "bounce"
      /\ pc["server"] \in {"synch", "finish", "done", "answer", "answering", "listen", "listening"}
  BY BounceIs
<1>2. ~ReadHeader /\ ~HeaderRead /\ ~HeaderMissing /\ ~ReadPayload /\ ~PayloadRead /\ ~NextRead /\ ~ServerLoopEnds
  BY <1>1 DEF ReadHeader, HeaderRead, HeaderMissing, ReadPayload, PayloadRead, NextRead, ServerLoopEnds, At
<1> QED BY <1>2 DEF Server, ServerTraffic

\* A test that has ended for the client does not go on.
LEMMA ServerProgress ==
  ASSUME Base, Is("BounceBack"), Server, InProgress("client")' PROVE InProgress("client")
<1>0. late \subseteq Ends /\ DOMAIN pc = Ends  BY Typed
<1>1. late \subseteq late'
  <2>1. CASE ServerBounces
    BY <2>1 DEF ServerBounces, ServerBounceEnds, WriteBB, Answered, ReadBB, RequestRead, Stays, signals, Seen
  <2>2. CASE FirstRead \/ NothingFirst \/ ServerCloses
    BY <2>2 DEF FirstRead, NothingFirst, ServerCloses, Stays, signals
  <2> QED BY <2>1, <2>2, BounceServer
<1>2. /\ test' = test /\ amount' = amount /\ interrupted' = interrupted
      /\ ("client" \in peerclose' <=> "client" \in peerclose)
  BY ServerSteps DEF ClientSame, Same
<1>3. \A f : Is(f)' <=> Is(f)  BY <1>2, Kept
<1> QED BY <1>1, <1>2, <1>3 DEF InProgress, HasEnd

\* ... neither for what the kernel or the clock does.
LEMMA OtherProgress ==
  ASSUME Base, NEW e \in Ends, Calls(e) \/ Time(e) \/ Signal(e), InProgress("client")' PROVE InProgress("client")
<1>1. /\ test' = test /\ amount' = amount /\ late' = late /\ peerclose' = peerclose /\ interrupted \subseteq interrupted'
  <2>1. CASE Calls(e)
    <3>1. CallStep(e)  BY <2>1, CallSteps
    <3>2. interrupted \subseteq interrupted'  BY <3>1 DEF CallStep, Copies, Reads, Returns
    <3> QED BY <3>1, <3>2 DEF CallStep, Loops, sender
  <2>2. CASE Time(e) \/ Signal(e)
    BY <2>2 DEF Time, Signal, Elapse, Interrupt, Loops, sender
  <2> QED BY <2>1, <2>2
<1>2. \A f : Is(f)' <=> Is(f)  BY <1>1, Kept
<1> QED BY <1>1, <1>2 DEF InProgress, HasEnd

\* A new call has moved nothing, and none neither.
LEMMA NewMoves ==
  ASSUME Base, NEW e \in Ends, NEW o, NEW n, o # "returned",
         call' = [call EXCEPT ![e] = [op |-> o, len |-> n, done |-> 0]]
  PROVE  Moved(e)' = 0 /\ ~Returned(e)'
<1>1. call'[e] = [op |-> o, len |-> n, done |-> 0]  BY Typed
<1>2. call'[e].op = o /\ call'[e].done = 0  BY <1>1
<1> QED BY <1>2 DEF Moved, Returned

\* ... as at a place without a call.
LEMMA NoneMoves ==
  ASSUME Base, NEW e \in Ends, call' = [call EXCEPT ![e] = NoCall]
  PROVE  Moved(e)' = 0 /\ ~Returned(e)'
BY NewMoves DEF NoCall

\* The client in a round.
LEMMA ClientLocks ==
  ASSUME Base, Is("BounceBack"), Client, ClientLock PROVE ClientLock'
<1>n. /\ sent["client"] \in Nat /\ taken["server"] \in Nat /\ sent["server"] \in Nat /\ taken["server"] <= sent["server"]
      /\ dropped["client"] \in Nat /\ begun["client"] \in Nat /\ Moved("client") \in Nat /\ "client" \in Ends
      /\ DOMAIN pc = Ends /\ DOMAIN begun = Ends /\ DOMAIN sent = Ends /\ DOMAIN taken = Ends /\ "server" \in Ends
  BY Typed, MovedIs DEF Ends, Base, Places
<1>b. /\ HasEnd("client") /\ FirstPayload = 0 /\ test.len \in Nat \ {0} /\ test.reply \in Nat \ {0} /\ rounds \in Nat
      /\ Requests(rounds) \in Nat /\ Replies(rounds) \in Nat
      /\ Requests(rounds + 1) = Requests(rounds) + test.len /\ Replies(rounds + 1) = Replies(rounds) + test.reply
      /\ pc["client"] \in {"synch", "loop", "finish", "await", "report", "done", "failed", "request", "reply"}
  BY BounceIs
<1>t. test' = test /\ interrupted' = interrupted /\ (\A f : Is(f)' <=> Is(f)) /\ (HasEnd("client")' <=> HasEnd("client"))
  <2>1. test' = test /\ interrupted' = interrupted  BY ClientSteps DEF ServerSame
  <2> QED BY <2>1, <1>n, Kept
<1>k. ASSUME rounds' = rounds PROVE Requests(rounds)' = Requests(rounds) /\ Replies(rounds)' = Replies(rounds)
  BY <1>t, <1>k DEF Requests, Replies
<1>a. ASSUME rounds' = rounds + 1
      PROVE  Requests(rounds)' = Requests(rounds) + test.len /\ Replies(rounds)' = Replies(rounds) + test.reply
  BY <1>t, <1>a, <1>b DEF Requests, Replies
<1>p. \A l : Go("client", l) => pc'["client"] = l
  BY <1>n DEF Go
\* An end that has been seen stays one.
<1>e. ASSUME ~InProgress("client"), late' = late, peerclose' = peerclose, amount' = amount PROVE ~InProgress("client")'
  BY <1>t, <1>e DEF InProgress
<1>1. CASE StartSynch
  <2>1. /\ pc["client"] = "synch" /\ pc'["client"] = "loop" /\ sent'["client"] = 0 /\ taken' = taken
        /\ dropped' = dropped /\ rounds' = rounds
    BY <1>1, <1>n, <1>p, <1>b, BounceClient
       DEF StartSynch, At, ClientBounces, BounceBegin, BounceWritten, BounceRead, Round
  <2>2. rounds = 0 /\ taken["server"] = 0 /\ dropped["client"] = 0  BY <2>1 DEF ClientLock
  <2>3. Requests(rounds)' = 0 /\ Replies(rounds)' = 0
    BY <2>1, <2>2, <1>k, <1>b, Product DEF Requests, Replies
  <2> QED BY <2>1, <2>2, <2>3, <1>t, <1>b DEF ClientLock
<1>2. CASE (LoopEnds \/ Finish \/ ClientCloses) /\ rounds' = rounds
  <2>1. /\ pc'["client"] \in {"finish", "await", "report", "done", "failed"} /\ sent' = sent /\ taken' = taken
    BY <1>2, <1>n, <1>p DEF LoopEnds, Finish, ClientCloses, Close, At, Stays, wire, bytes
  <2> QED BY <2>1, <1>2, <1>k, <1>t DEF ClientLock
<1>3. CASE AwaitServerCloseEvent /\ rounds' = rounds
  <2>1. /\ pc'["client"] \in {"await", "report"} /\ sent' = sent
        /\ taken'["server"] = sent["server"]
    BY <1>3, <1>n, <1>p DEF AwaitServerCloseEvent, At
  <2>2. Replies(rounds) <= taken'["server"]  BY <2>1, <1>n, <1>b DEF ClientLock
  <2> QED BY <2>1, <2>2, <1>3, <1>k, <1>t DEF ClientLock
<1>4. CASE BounceBegin
  <2>1. /\ pc["client"] = "loop" /\ InProgress("client")
        /\ sent' = sent /\ taken' = taken /\ dropped' = dropped /\ rounds' = rounds
    BY <1>4 DEF BounceBegin, Round, At, wire, bytes
  <2>2. sent["client"] = Requests(rounds) /\ taken["server"] = Replies(rounds) + dropped["client"]
    BY <2>1 DEF ClientLock
  <2>3. CASE pc' = pc
    BY <2>1, <2>2, <2>3, <1>k, <1>t, <1>n, <1>b DEF ClientLock
  <2>4. CASE Begun("client", 0) /\ Call("client", "writen", test.len) /\ Go("client", "request")
    <3>1. pc'["client"] = "request" /\ begun'["client"] = 0  BY <2>4, <1>p, <1>n DEF Begun
    <3>2. Moved("client")' = 0  BY <2>4, <1>n, NewMoves DEF Call
    <3>3. sent'["client"] = Requests(rounds)' + begun'["client"] + Moved("client")'
      BY <3>1, <3>2, <2>1, <2>2, <1>k, <1>b
    <3>4. sent'["client"] <= Requests(rounds)' + test.len  BY <2>1, <2>2, <1>k, <1>b
    <3>5. taken'["server"] = Replies(rounds)' + dropped'["client"] /\ Replies(rounds)' <= taken'["server"]
      BY <2>1, <2>2, <1>k, <1>b, <1>n
    <3> QED BY <3>1, <3>3, <3>4, <3>5, <1>t DEF ClientLock
  <2> QED BY <2>3, <2>4, <1>4 DEF BounceBegin
<1>5. CASE BounceWritten
  <2>1. /\ pc["client"] = "request" /\ Returned("client") /\ UNCHANGED <<sent, taken, dropped, rounds, peerclose, amount>>
    BY <1>5 DEF BounceWritten, At, wire, bytes, sender
  <2>2. /\ Result("client") \in Nat /\ Moved("client") = Result("client")
    <3>1. OpOf(pc["client"]) # "none" /\ OpOf(pc["client"]) = "writen"  BY <2>1, Ops
    <3>2. Result("client") \in Int /\ Result("client") >= 0
          /\ Moved("client") = (IF Result("client") > 0 THEN Result("client") ELSE 0)
      BY <3>1, <2>1, <1>n, ResultIs
    <3> QED BY <3>2
  <2>3. /\ sent["client"] = Requests(rounds) + begun["client"] + Result("client")
        /\ taken["server"] = Replies(rounds) + dropped["client"]
        /\ sent["client"] <= Requests(rounds) + test.len
    BY <2>1, <2>2 DEF ClientLock
  <2>4. CASE /\ begun["client"] + Result("client") = test.len /\ Begun("client", 0)
             /\ Call("client", "recvn", test.reply) /\ Go("client", "reply")
    <3>1. pc'["client"] = "reply" /\ begun'["client"] = 0  BY <2>4, <1>p, <1>n DEF Begun
    <3>2. Moved("client")' = 0  BY <2>4, <1>n, NewMoves DEF Call
    <3>3. sent'["client"] = Requests(rounds)' + test.len
      <4>1. sent["client"] = Requests(rounds) + test.len  BY <2>3, <2>4, <2>2, <1>b, <1>n
      <4> QED BY <4>1, <2>1, <1>k
    <3>4. taken'["server"] = Replies(rounds)' + dropped'["client"] + begun'["client"] + Moved("client")'
      BY <3>1, <3>2, <2>1, <2>3, <1>k, <1>b, <1>n
    <3>5. Replies(rounds)' <= taken'["server"]  BY <2>1, <2>3, <1>k, <1>b, <1>n
    <3>6. sent'["client"] <= Requests(rounds)' + test.len  BY <2>1, <2>3, <1>k
    <3> QED BY <3>1, <3>3, <3>4, <3>5, <3>6, <1>t DEF ClientLock
  <2>5. CASE /\ Begun("client", begun["client"] + Result("client"))
             /\ Call("client", "writen", test.len - (begun["client"] + Result("client"))) /\ UNCHANGED <<pc, total>>
    <3>1. pc'["client"] = "request" /\ begun'["client"] = begun["client"] + Result("client")  BY <2>1, <2>5, <1>n DEF Begun
    <3>2. Moved("client")' = 0  BY <2>5, <1>n, NewMoves DEF Call
    <3>3. sent'["client"] = Requests(rounds)' + begun'["client"] + Moved("client")'
      <4>1. sent["client"] = Requests(rounds) + (begun["client"] + Result("client")) + 0  BY <2>3, <2>2, <1>b, <1>n
      <4> QED BY <4>1, <3>1, <3>2, <2>1, <1>k
    <3>4. taken'["server"] = Replies(rounds)' + dropped'["client"]  BY <2>1, <2>3, <1>k
    <3>5. Replies(rounds)' <= taken'["server"]  BY <2>1, <2>3, <1>k, <1>b, <1>n
    <3>6. sent'["client"] <= Requests(rounds)' + test.len  BY <2>1, <2>3, <1>k
    <3> QED BY <3>1, <3>3, <3>4, <3>5, <3>6, <1>t DEF ClientLock
  <2>6. CASE ~InProgress("client") /\ Finishes("client", "loop") /\ UNCHANGED <<late, begun, total>>
    <3>1. pc'["client"] = "loop" /\ ~InProgress("client")'  BY <2>1, <2>6, <1>p, <1>e DEF Finishes
    <3>5. Replies(rounds)' <= taken'["server"]  BY <2>1, <2>3, <1>k, <1>b, <1>n
    <3>6. sent'["client"] <= Requests(rounds)' + test.len  BY <2>1, <2>3, <1>k
    <3> QED BY <3>1, <3>5, <3>6, <1>t DEF ClientLock
  <2> QED BY <2>4, <2>5, <2>6, <1>5 DEF BounceWritten
<1>6. CASE BounceRead
  <2>1. /\ pc["client"] = "reply" /\ Returned("client") /\ UNCHANGED <<sent, taken, dropped, amount>>
    BY <1>6 DEF BounceRead, At, wire, bytes, sender
  <2>2. /\ Result("client") \in Int /\ Moved("client") = (IF Result("client") > 0 THEN Result("client") ELSE 0)
    <3>1. OpOf(pc["client"]) # "none"  BY <2>1, Ops
    <3> QED BY <3>1, <2>1, <1>n, ResultIs
  <2>3. /\ sent["client"] = Requests(rounds) + test.len
        /\ taken["server"] = Replies(rounds) + dropped["client"] + begun["client"] + Moved("client")
    BY <2>1 DEF ClientLock
  <2>4. Replies(rounds) <= taken["server"]  BY DEF ClientLock
  <2>k. ASSUME rounds' = rounds
        PROVE  Replies(rounds)' <= taken'["server"] /\ sent'["client"] = Requests(rounds)' + test.len
               /\ sent'["client"] <= Requests(rounds)' + test.len
    BY <2>k, <2>1, <2>3, <2>4, <1>k, <1>b
  <2>5. CASE /\ Result("client") > 0 /\ begun["client"] + Result("client") = test.reply
             /\ rounds' = rounds + 1 /\ Finishes("client", "loop")
    <3>1. pc'["client"] = "loop"  BY <2>5, <1>p DEF Finishes
    <3>2. taken["server"] = Replies(rounds) + test.reply + dropped["client"]
      BY <2>2, <2>3, <2>5, <1>b, <1>n
    <3>3. sent'["client"] = Requests(rounds)' /\ taken'["server"] = Replies(rounds)' + dropped'["client"]
      BY <2>1, <2>3, <2>5, <3>2, <1>a
    <3>4. Requests(rounds)' \in Nat /\ Replies(rounds)' \in Nat  BY <1>a, <1>b, <2>5
    <3>5. Replies(rounds)' <= taken'["server"] /\ sent'["client"] <= Requests(rounds)' + test.len
      BY <3>3, <3>4, <2>1, <1>b, <1>n
    <3> QED BY <3>1, <3>3, <3>5, <1>t DEF ClientLock
  <2>6. CASE /\ Result("client") > 0 /\ Begun("client", begun["client"] + Result("client"))
             /\ Call("client", "recvn", test.reply - (begun["client"] + Result("client")))
             /\ UNCHANGED <<pc, peerclose, rounds, reported>>
    <3>1. pc'["client"] = "reply" /\ begun'["client"] = begun["client"] + Result("client")  BY <2>1, <2>6, <1>n DEF Begun
    <3>2. Moved("client")' = 0  BY <2>6, <1>n, NewMoves DEF Call
    <3>3. taken["server"] = Replies(rounds) + dropped["client"] + (begun["client"] + Result("client")) + 0
      BY <2>2, <2>3, <2>6, <1>b, <1>n
    <3>4. taken'["server"] = Replies(rounds)' + dropped'["client"] + begun'["client"] + Moved("client")'
      BY <3>1, <3>2, <3>3, <2>1, <2>6, <1>k
    <3> QED BY <3>1, <3>4, <2>6, <2>k, <1>t DEF ClientLock
  <2>7. CASE /\ ~InProgress("client") /\ Finishes("client", "loop") /\ UNCHANGED <<late, begun, peerclose, rounds, reported>>
    <3>1. pc'["client"] = "loop" /\ ~InProgress("client")'  BY <2>1, <2>7, <1>p, <1>e DEF Finishes
    <3> QED BY <3>1, <2>7, <2>k, <1>t DEF ClientLock
  <2>8. CASE /\ peerclose' = peerclose \cup {"client"} /\ Finishes("client", "loop") /\ UNCHANGED <<late, begun, rounds, reported>>
    <3>1. pc'["client"] = "loop" /\ ~InProgress("client")'  BY <2>8, <1>p DEF Finishes, InProgress
    <3> QED BY <3>1, <2>8, <2>k, <1>t DEF ClientLock
  <2>9. CASE /\ Result("client") = Again /\ late' = Seen("client") /\ UNCHANGED <<begun, peerclose, rounds, reported>>
             /\ IF Continues("client")
                  THEN Call("client", "recvn", test.reply - begun["client"]) /\ UNCHANGED pc
                  ELSE Finishes("client", "loop")
    <3>0. Moved("client") = 0  BY <2>2, <2>9 DEF Again
    <3>1. CASE Continues("client")
      <4>1. pc'["client"] = "reply" /\ begun' = begun  BY <2>1, <2>9, <3>1
      <4>2. Moved("client")' = 0  BY <2>9, <3>1, <1>n, NewMoves DEF Call
      <4>3. taken'["server"] = Replies(rounds)' + dropped'["client"] + begun'["client"] + Moved("client")'
        BY <4>1, <4>2, <3>0, <2>1, <2>3, <2>9, <1>k
      <4> QED BY <4>1, <4>3, <2>9, <2>k, <1>t DEF ClientLock
    <3>2. CASE ~Continues("client")
      <4>1. pc'["client"] = "loop"  BY <2>9, <3>2, <1>p DEF Finishes
      <4>2. ~InProgress("client")'
        <5>1. CASE ~InProgress("client")
          <6>1. late \subseteq late'  BY <2>9 DEF Seen
          <6> QED BY <5>1, <6>1, <2>1, <2>9, <1>t DEF InProgress
        <5>2. CASE Past("client")
          <6>1. "client" \in late'  BY <5>2, <2>9 DEF Seen
          <6> QED BY <6>1, <1>t, <1>b DEF InProgress
        <5> QED BY <5>1, <5>2, <3>2 DEF Continues
      <4> QED BY <4>1, <4>2, <2>9, <2>k, <1>t DEF ClientLock
    <3> QED BY <3>1, <3>2
  <2>10. CASE Go("client", "failed") /\ UNCHANGED <<call, late, begun, peerclose, rounds, reported>>
    <3>1. pc'["client"] = "failed"  BY <2>10, <1>p
    <3> QED BY <3>1, <2>10, <2>k, <1>t DEF ClientLock
  <2> QED BY <2>5, <2>6, <2>7, <2>8, <2>9, <2>10, <1>6 DEF BounceRead
<1> QED BY <1>1, <1>2, <1>3, <1>4, <1>5, <1>6, BounceClient DEF ClientBounces

\* What the server has written of an answer is a part of one.
LEMMA AnswerFits ==
  ASSUME Base, Is("BounceBack"), pc["server"] \in {"answer", "answering"}
  PROVE  begun["server"] + Moved("server") <= test.reply
<1>n. begun["server"] \in Nat /\ Moved("server") \in Nat /\ "server" \in Ends /\ test.reply \in Nat \ {0}
  BY Typed, MovedIs, BounceIs
<1>0. begun["server"] < test.reply  BY DEF Base, Shapes
<1>1. CASE pc["server"] = "answer"
  <2>1. Moved("server") = 0  BY <1>1, <1>n, Ops, NoneMoved
  <2> QED BY <2>1, <1>0, <1>n
<1>2. CASE pc["server"] = "answering"
  <2>1. OpOf(pc["server"]) # "none" /\ Asked("server") = test.reply - begun["server"]  BY <1>2, Ops DEF Asked
  <2>2. Moved("server") <= Asked("server")
    <3>1. CASE Returned("server")
      <4>1. Result("server") \in Int /\ Result("server") <= Asked("server") /\ Asked("server") \in Nat
            /\ Moved("server") = (IF Result("server") > 0 THEN Result("server") ELSE 0)
        BY <2>1, <3>1, <1>n, ResultIs
      <4> QED BY <4>1
    <3>2. CASE ~Returned("server")
      <4>1. call["server"].done < call["server"].len /\ call["server"].len = Asked("server")
            /\ call["server"].done \in Nat /\ call["server"].len \in Nat
        BY <2>1, <3>2 DEF Base, Calling, CallOk
      <4> QED BY <4>1, <3>2 DEF Moved
    <3> QED BY <3>1, <3>2
  <2> QED BY <2>1, <2>2, <1>n
<1> QED BY <1>1, <1>2

\* The server has not begun more answers than it has read requests.
LEMMA ServerEven ==
  ASSUME Base, Is("BounceBack"), NEW q \in Nat, ServerLock(q)
  PROVE  \E r \in Nat : sent["server"] <= Replies(r) /\ Requests(r) <= taken["client"]
<1>n. /\ sent["server"] \in Nat /\ taken["client"] \in Nat /\ dropped["server"] \in Nat /\ begun["server"] \in Nat
      /\ Moved("server") \in Nat
  BY Typed, MovedIs
<1>b. /\ test.len \in Nat \ {0} /\ test.reply \in Nat \ {0}
      /\ pc["server"] \in {"synch", "finish", "done", "answer", "answering", "listen", "listening"}
  BY BounceIs
<1>q. /\ Requests(q) \in Nat /\ Replies(q) \in Nat /\ Requests(0) = 0 /\ Replies(0) = 0
      /\ Requests(q + 1) = Requests(q) + test.len /\ Replies(q + 1) = Replies(q) + test.reply
  BY <1>b, Product DEF Requests, Replies
<1>1. CASE pc["server"] = "synch"
  <2>1. sent["server"] <= Replies(0) /\ Requests(0) <= taken["client"]
    BY <1>1, <1>n, <1>q DEF ServerLock
  <2> QED BY <2>1
<1>2. CASE pc["server"] \in {"answer", "answering"}
  <2>1. sent["server"] = Replies(q) + begun["server"] + Moved("server")
        /\ taken["client"] = Requests(q) + test.len + dropped["server"]
    BY <1>2 DEF ServerLock
  <2>2. begun["server"] + Moved("server") <= test.reply  BY <1>2, AnswerFits
  <2>3. sent["server"] <= Replies(q + 1) /\ Requests(q + 1) <= taken["client"]
    BY <2>1, <2>2, <1>n, <1>q, <1>b
  <2> QED BY <2>3
<1>3. CASE pc["server"] \in {"listen", "listening"}
  <2>1. sent["server"] = Replies(q) /\ taken["client"] = Requests(q) + dropped["server"] + Moved("server")
    BY <1>3 DEF ServerLock
  <2> QED BY <2>1, <1>n, <1>q
<1>4. CASE pc["server"] \in {"finish", "done"}
  BY <1>4 DEF ServerLock
<1> QED BY <1>1, <1>2, <1>3, <1>4, <1>b

\* The server between requests and answers.
LEMMA ServerLocks ==
  ASSUME Base, Is("BounceBack"), Server, NEW q \in Nat, ServerLock(q) PROVE \E r \in Nat : ServerLock(r)'
<1>n. /\ sent["server"] \in Nat /\ taken["client"] \in Nat /\ dropped["server"] \in Nat /\ begun["server"] \in Nat
      /\ Moved("server") \in Nat /\ "server" \in Ends /\ "client" \in Ends
      /\ DOMAIN pc = Ends /\ DOMAIN begun = Ends /\ DOMAIN sent = Ends /\ DOMAIN taken = Ends /\ DOMAIN dropped = Ends
  BY Typed, MovedIs DEF Ends, Base, Places
<1>b. /\ First = test.len /\ test.len \in Nat \ {0} /\ test.reply \in Nat \ {0}
      /\ pc["server"] \in {"synch", "finish", "done", "answer", "answering", "listen", "listening"}
  BY BounceIs
<1>q. /\ Requests(q) \in Nat /\ Replies(q) \in Nat /\ Requests(0) = 0 /\ Replies(0) = 0
      /\ Requests(q + 1) = Requests(q) + test.len /\ Replies(q + 1) = Replies(q) + test.reply
  BY <1>b, Product DEF Requests, Replies
<1>t. test' = test  BY ServerSteps DEF ClientSame
<1>k. \A r : Requests(r)' = Requests(r) /\ Replies(r)' = Replies(r)
  BY <1>t DEF Requests, Replies
<1>p. \A l : Go("server", l) => pc'["server"] = l
  BY <1>n DEF Go
\* The server leaves: answers are no more than requests.
<1>s. ASSUME pc'["server"] \in {"finish", "done"}, UNCHANGED <<sent, taken>> PROVE \E r \in Nat : ServerLock(r)'
  <2>1. PICK r \in Nat : sent["server"] <= Replies(r) /\ Requests(r) <= taken["client"]  BY ServerEven
  <2>2. sent'["server"] <= Replies(r)' /\ Requests(r)' <= taken'["client"]  BY <2>1, <1>s, <1>k
  <2>3. ServerLock(r)'  BY <2>2, <1>s DEF ServerLock
  <2> QED BY <2>3
<1>1. CASE FirstRead
  <2>0. /\ pc["server"] = "synch" /\ UNCHANGED <<sent, dropped, call>>
        /\ q = 0 /\ sent["server"] = 0 /\ taken["client"] = begun["server"] /\ dropped["server"] = 0
    BY <1>1 DEF FirstRead, At, ServerLock
  <2>1. PICK n \in Int : /\ taken' = [taken EXCEPT !["client"] = @ + n]
                 /\ IF begun["server"] + n = First
                      THEN Begun("server", 0) /\ Go("server", IF Is("BounceBack") THEN "answer" ELSE "loop")
                      ELSE Begun("server", begun["server"] + n) /\ pc' = pc
    <3>1. First - begun["server"] \in Int /\ Available("server") \in Int
      <4>1. First \in Nat /\ begun["server"] \in Nat  BY <1>n, <1>b
      <4>2. sent["client"] \in Nat /\ taken["client"] \in Nat  BY <1>n, Typed
      <4>3. Available("server") = sent["client"] - taken["client"]  BY PeerOf DEF Available
      <4> QED BY <4>1, <4>2, <4>3
    <3>2. Min({First - begun["server"], Available("server")}) \in Int  BY <3>1, MinOf DEF Less
    <3> QED BY <3>2, <1>1 DEF FirstRead
  <2>2. taken'["client"] = begun["server"] + n  BY <2>0, <2>1, <1>n
  <2>3. CASE begun["server"] + n = First
    <3>1. pc'["server"] = "answer" /\ begun'["server"] = 0  BY <2>1, <2>3, <1>p, <1>n DEF Begun
    <3>2. Moved("server")' = 0
      <4>1. Moved("server") = 0  BY <2>0, <1>n, Ops, NoneMoved
      <4> QED BY <4>1, <2>0 DEF Moved, Returned, Result
    <3>3. sent'["server"] = Replies(0)' + begun'["server"] + Moved("server")'  BY <3>1, <3>2, <2>0, <1>k, <1>q
    <3>4. taken'["client"] = Requests(0)' + test.len + dropped'["server"]  BY <2>2, <2>3, <2>0, <1>k, <1>q, <1>b
    <3>5. ServerLock(0)'  BY <3>1, <3>3, <3>4, <1>t DEF ServerLock
    <3> QED BY <3>5
  <2>4. CASE begun["server"] + n # First
    <3>1. pc'["server"] = "synch" /\ begun'["server"] = begun["server"] + n  BY <2>0, <2>1, <2>4, <1>n DEF Begun
    <3>2. ServerLock(0)'  BY <3>1, <2>0, <2>2 DEF ServerLock
    <3> QED BY <3>2
  <2> QED BY <2>3, <2>4
<1>2. CASE NothingFirst \/ ServerCloses \/ ServerBounceEnds
  <2>1. pc'["server"] \in {"finish", "done"} /\ UNCHANGED <<sent, taken>>
    BY <1>2, <1>p DEF NothingFirst, ServerCloses, ServerBounceEnds, ServerLeaves, Stays, wire, bytes
  <2> QED BY <2>1, <1>s
<1>3. CASE WriteBB
  <2>1. /\ pc["server"] = "answer" /\ pc'["server"] = "answering" /\ UNCHANGED <<sent, taken, dropped, begun>>
    BY <1>3, <1>p DEF WriteBB, At, Stays, wire, bytes
  <2>2. Moved("server")' = 0 /\ Moved("server") = 0
    BY <1>3, <2>1, <1>n, Ops, NewMoves, NoneMoved DEF WriteBB, Call
  <2>3. ServerLock(q)'  BY <2>1, <2>2, <1>k, <1>t DEF ServerLock
  <2> QED BY <2>3
<1>4. CASE ReadBB
  <2>1. /\ pc["server"] = "listen" /\ pc'["server"] = "listening" /\ UNCHANGED <<sent, taken, dropped, begun>>
    BY <1>4, <1>p DEF ReadBB, At, Stays, wire, bytes
  <2>2. Moved("server")' = 0 /\ Moved("server") = 0
    BY <1>4, <2>1, <1>n, Ops, NewMoves, NoneMoved DEF ReadBB, Call
  <2>3. ServerLock(q)'  BY <2>1, <2>2, <1>k, <1>t DEF ServerLock
  <2> QED BY <2>3
<1>5. CASE Answered
  <2>1. /\ pc["server"] = "answering" /\ Returned("server") /\ UNCHANGED <<sent, taken, dropped>>
        /\ call' = [call EXCEPT !["server"] = NoCall]
    BY <1>5 DEF Answered, At, wire, bytes
  <2>2. /\ Result("server") \in Nat /\ Moved("server") = Result("server")
    <3>1. OpOf(pc["server"]) # "none" /\ OpOf(pc["server"]) = "writen"  BY <2>1, Ops
    <3>2. Result("server") \in Int /\ Result("server") >= 0
          /\ Moved("server") = (IF Result("server") > 0 THEN Result("server") ELSE 0)
      BY <3>1, <2>1, <1>n, ResultIs
    <3> QED BY <3>2
  <2>3. Moved("server")' = 0  BY <2>1, <1>n, NoneMoves
  <2>4. /\ sent["server"] = Replies(q) + begun["server"] + Result("server")
        /\ taken["client"] = Requests(q) + test.len + dropped["server"]
    BY <2>1, <2>2 DEF ServerLock
  <2>5. CASE begun["server"] + Result("server") = test.reply /\ Begun("server", 0) /\ Go("server", "listen")
    <3>1. pc'["server"] = "listen" /\ begun'["server"] = 0  BY <2>5, <1>p, <1>n DEF Begun
    <3>2. sent["server"] = Replies(q + 1)  BY <2>2, <2>4, <2>5, <1>q, <1>n, <1>b
    <3>3. taken["client"] = Requests(q + 1) + dropped["server"] + 0  BY <2>4, <1>q, <1>n, <1>b
    <3>4. ServerLock(q + 1)'  BY <3>1, <3>2, <3>3, <2>1, <2>3, <1>k, <1>t DEF ServerLock
    <3> QED BY <3>4
  <2>6. CASE Begun("server", begun["server"] + Result("server")) /\ Go("server", "answer")
    <3>1. pc'["server"] = "answer" /\ begun'["server"] = begun["server"] + Result("server")  BY <2>6, <1>p, <1>n DEF Begun
    <3>2. sent["server"] = Replies(q) + (begun["server"] + Result("server")) + 0  BY <2>2, <2>4, <1>q, <1>n
    <3>3. ServerLock(q)'  BY <3>1, <3>2, <2>1, <2>3, <2>4, <1>k, <1>t DEF ServerLock
    <3> QED BY <3>3
  <2> QED BY <2>5, <2>6, <1>5 DEF Answered
<1>6. CASE RequestRead
  <2>1. /\ pc["server"] = "listening" /\ Returned("server") /\ UNCHANGED <<sent, taken, begun>>
    BY <1>6 DEF RequestRead, At
  <2>2. /\ Result("server") \in Int /\ Moved("server") = (IF Result("server") > 0 THEN Result("server") ELSE 0)
    <3>1. OpOf(pc["server"]) # "none"  BY <2>1, Ops
    <3> QED BY <3>1, <2>1, <1>n, ResultIs
  <2>4. /\ sent["server"] = Replies(q)
        /\ taken["client"] = Requests(q) + dropped["server"] + Moved("server")
        /\ begun["server"] = 0
    BY <2>1 DEF ServerLock, Base, Shapes
  <2>5. CASE Result("server") = test.len /\ Finishes("server", "answer") /\ UNCHANGED <<dropped, peerclose>>
    <3>1. pc'["server"] = "answer" /\ Moved("server")' = 0  BY <2>5, <1>p, <1>n, NoneMoves DEF Finishes
    <3>2. sent["server"] = Replies(q) + 0 + 0  BY <2>4, <1>q
    <3>3. taken["client"] = Requests(q) + test.len + dropped["server"]  BY <2>2, <2>4, <2>5, <1>q, <1>n, <1>b
    <3>4. ServerLock(q)'  BY <3>1, <3>2, <3>3, <2>1, <2>4, <2>5, <1>k, <1>t DEF ServerLock
    <3> QED BY <3>4
  <2>6. CASE /\ Result("server") > 0 /\ Finishes("server", "listen")
             /\ dropped' = [dropped EXCEPT !["server"] = @ + Result("server")]
    <3>1. pc'["server"] = "listen" /\ Moved("server")' = 0 /\ dropped'["server"] = dropped["server"] + Result("server")
      BY <2>6, <1>p, <1>n, NoneMoves DEF Finishes
    <3>2. taken["client"] = Requests(q) + (dropped["server"] + Result("server")) + 0  BY <2>2, <2>4, <2>6, <1>q, <1>n
    <3>3. ServerLock(q)'  BY <3>1, <3>2, <2>1, <2>4, <1>k, <1>t DEF ServerLock
    <3> QED BY <3>3
  <2>7. CASE Result("server") \in {0, Again} /\ Finishes("server", "listen") /\ dropped' = dropped
    <3>1. pc'["server"] = "listen" /\ Moved("server")' = 0 /\ Moved("server") = 0
      <4>1. pc'["server"] = "listen"  BY <2>7, <1>p DEF Finishes
      <4>2. Moved("server")' = 0  BY <2>7, <1>n, NoneMoves DEF Finishes
      <4>3. ~(Result("server") > 0)  BY <2>7 DEF Again
      <4> QED BY <4>1, <4>2, <4>3, <2>2
    <3>2. ServerLock(q)'  BY <3>1, <2>1, <2>4, <2>7, <1>k, <1>t DEF ServerLock
    <3> QED BY <3>2
  <2>8. CASE ServerLeaves
    <3>1. pc'["server"] = "finish"  BY <2>8, <1>p DEF ServerLeaves
    <3> QED BY <3>1, <2>1, <1>s
  <2> QED BY <2>5, <2>6, <2>7, <2>8, <1>6 DEF RequestRead
<1> QED BY <1>1, <1>2, <1>3, <1>4, <1>5, <1>6, BounceServer DEF ServerBounces

\* A step that leaves the client where it is.
LEMMA ClientLockStays ==
  ASSUME Base, ClientLock, test' = test, rounds' = rounds, pc'["client"] = pc["client"], sent'["client"] = sent["client"],
         taken'["server"] = taken["server"], dropped'["client"] = dropped["client"], begun'["client"] = begun["client"],
         Moved("client")' = Moved("client"), InProgress("client")' => InProgress("client")
  PROVE  ClientLock'
<1>1. Requests(rounds)' = Requests(rounds) /\ Replies(rounds)' = Replies(rounds)  BY DEF Requests, Replies
<1> QED BY <1>1 DEF ClientLock

\* ... and the server.
LEMMA ServerLockStays ==
  ASSUME Base, NEW q \in Nat, ServerLock(q), test' = test, pc'["server"] = pc["server"], sent'["server"] = sent["server"],
         taken'["client"] = taken["client"], dropped'["server"] = dropped["server"], begun'["server"] = begun["server"],
         Moved("server")' = Moved("server")
  PROVE  ServerLock(q)'
<1>1. Requests(q)' = Requests(q) /\ Replies(q)' = Replies(q)  BY DEF Requests, Replies
<1> QED BY <1>1 DEF ServerLock

\* The client's call goes on.
LEMMA ClientLockCalls ==
  ASSUME Base, Is("BounceBack"), ClientLock, Calls("client") PROVE ClientLock'
<1>0. CallStep("client")  BY CallSteps DEF Ends
<1>1. /\ UNCHANGED <<test, rounds, pc, begun>> /\ OpOf(pc["client"]) # "none" /\ Moved("client") \in Nat
      /\ sent["client"] \in Nat /\ taken["server"] \in Nat /\ dropped["client"] \in Nat /\ begun["client"] \in Nat
      /\ DOMAIN sent = Ends /\ DOMAIN taken = Ends /\ DOMAIN dropped = Ends /\ "client" \in Ends /\ "server" \in Ends
  BY <1>0, Typed, MovedIs DEF CallStep, Loops, results, Ends
<1>2. Requests(rounds)' = Requests(rounds) /\ Replies(rounds)' = Replies(rounds)  BY <1>1 DEF Requests, Replies
<1>3. Requests(rounds) \in Nat /\ Replies(rounds) \in Nat /\ test.len \in Nat /\ test.reply \in Nat
      /\ pc["client"] \in {"synch", "loop", "finish", "await", "report", "done", "failed", "request", "reply"}
  BY BounceIs
<1>4. pc["client"] \in {"request", "reply"}
  <2>1. pc["client"] \notin {"synch", "loop", "finish", "await", "report", "done", "failed"}  BY <1>1, Ops
  <2> QED BY <2>1, <1>3
<1>5. ASSUME NEW n \in Nat \ {0}, Copies("client", n) PROVE ClientLock'
  <2>1. pc["client"] = "request" /\ sent'["client"] = sent["client"] + n /\ Moved("client")' = Moved("client") + n
        /\ UNCHANGED <<taken, dropped>>
    BY <1>4, <1>5, <1>1, Ops DEF Copies
  <2>2. /\ sent["client"] = Requests(rounds) + begun["client"] + Moved("client")
        /\ taken["server"] = Replies(rounds) + dropped["client"]
    BY <2>1 DEF ClientLock
  <2>3. sent'["client"] = Requests(rounds)' + begun'["client"] + Moved("client")'
    BY <2>1, <2>2, <1>1, <1>2, <1>3
  <2>4. sent'["client"] <= Requests(rounds)' + test.len
    <3>1. Asked("client") = test.len - begun["client"]  BY <2>1 DEF Asked
    <3>2. Moved("client")' <= Asked("client")
      <4>1. Base'  BY CallsBase DEF Ends
      <4>2. OpOf(pc["client"]) # "none" /\ Asked("client")' = Asked("client")
        <5>1. Asked("client")' = test'.len - begun'["client"]  BY <2>1, <1>1 DEF Asked
        <5> QED BY <5>1, <3>1, <1>1
      <4>3. CASE Returned("client")'
        <5>1. Result("client")' = Asked("client")  BY <4>3, <1>5 DEF Copies
        <5>2. Moved("client")' = IF Result("client")' > 0 THEN Result("client")' ELSE 0  BY <4>3 DEF Moved
        <5>3. Asked("client") \in Nat
          <6>1. CallOk("client") /\ ~Returned("client") /\ call["client"].op = OpOf(pc["client"])
                /\ call["client"].len = Asked("client") /\ call["client"].len \in Nat
            BY <1>0, <1>1, <2>1, Ops DEF Base, Calling, CallOk, CallStep
          <6> QED BY <6>1
        <5> QED BY <5>1, <5>2, <5>3
      <4>4. CASE ~Returned("client")'
        <5>1. CallOk("client")'  BY CallSteps DEF Ends
        <5>2. call'["client"].done < call'["client"].len /\ call'["client"].len = Asked("client")'
              /\ call'["client"].done \in Nat /\ call'["client"].len \in Nat
          BY <5>1, <4>2, <4>4, <1>1 DEF CallOk
        <5> QED BY <5>2, <4>2, <4>4 DEF Moved
      <4> QED BY <4>3, <4>4
    <3>3. Moved("client")' \in Int /\ begun["client"] \in Nat  BY <2>1, <1>1
    <3>4. begun["client"] + Moved("client")' <= test.len  BY <3>1, <3>2, <3>3, <1>3
    <3>5. sent'["client"] = Requests(rounds) + (begun["client"] + Moved("client")')
      BY <2>3, <3>3, <1>1, <1>2, <1>3
    <3> QED BY <3>3, <3>4, <3>5, <1>2, <1>3
  <2>5. Replies(rounds)' <= taken'["server"] /\ taken'["server"] = Replies(rounds)' + dropped'["client"]
    BY <2>1, <2>2, <1>1, <1>2, <1>3
  <2> QED BY <2>1, <2>3, <2>4, <2>5, <1>1 DEF ClientLock
<1>6. ASSUME NEW n \in Nat \ {0}, Reads("client", n) PROVE ClientLock'
  <2>1. pc["client"] = "reply" /\ taken'["server"] = taken["server"] + n /\ Moved("client")' = Moved("client") + n
        /\ UNCHANGED <<sent, dropped>>
    BY <1>4, <1>6, <1>1, Ops, PeerOf DEF Reads
  <2>2. /\ sent["client"] = Requests(rounds) + test.len
        /\ taken["server"] = Replies(rounds) + dropped["client"] + begun["client"] + Moved("client")
    BY <2>1 DEF ClientLock
  <2>3. /\ taken'["server"] = Replies(rounds)' + dropped'["client"] + begun'["client"] + Moved("client")'
        /\ Replies(rounds)' <= taken'["server"]
    BY <2>1, <2>2, <1>1, <1>2, <1>3
  <2>4. sent'["client"] = Requests(rounds)' + test.len /\ sent'["client"] <= Requests(rounds)' + test.len
    BY <2>1, <2>2, <1>2, <1>3
  <2> QED BY <2>1, <2>3, <2>4, <1>1 DEF ClientLock
<1>7. CASE Returns("client")
  <2>1. UNCHANGED <<sent, taken>>  BY <1>7 DEF Returns
  <2>2. CASE Moved("client")' = Moved("client") /\ UNCHANGED <<dropped, interrupted>>
    <3>1. pc["client"] # "loop"  BY <1>4
    <3> QED BY <2>1, <2>2, <3>1, <1>1, <1>2 DEF ClientLock
  <2>3. CASE /\ OpOf(pc["client"]) = "recvn" /\ Moved("client")' = 0
             /\ dropped' = [dropped EXCEPT !["client"] = @ + Moved("client")]
    <3>1. pc["client"] = "reply"  BY <2>3, <1>4, Ops
    <3>2. /\ sent["client"] = Requests(rounds) + test.len
          /\ taken["server"] = Replies(rounds) + dropped["client"] + begun["client"] + Moved("client")
      BY <3>1 DEF ClientLock
    <3>3. taken["server"] = Replies(rounds) + (dropped["client"] + Moved("client")) + begun["client"] + 0
      BY <3>2, <1>1, <1>3
    <3>4. dropped'["client"] = dropped["client"] + Moved("client")  BY <2>3, <1>1
    <3>5. sent["client"] <= Requests(rounds) + test.len /\ Replies(rounds) <= taken["server"]  BY DEF ClientLock
    <3> QED BY <2>1, <2>3, <3>1, <3>2, <3>3, <3>4, <3>5, <1>1, <1>2 DEF ClientLock
  <2> QED BY <2>2, <2>3, <1>7 DEF Returns
<1> QED BY <1>0, <1>5, <1>6, <1>7 DEF CallStep

\* The server's call goes on.
LEMMA ServerLockCalls ==
  ASSUME Base, Is("BounceBack"), NEW q \in Nat, ServerLock(q), Calls("server") PROVE ServerLock(q)'
<1>0. CallStep("server")  BY CallSteps DEF Ends
<1>1. /\ UNCHANGED <<test, pc, begun>> /\ OpOf(pc["server"]) # "none" /\ Moved("server") \in Nat
      /\ sent["server"] \in Nat /\ taken["client"] \in Nat /\ dropped["server"] \in Nat /\ begun["server"] \in Nat
      /\ DOMAIN sent = Ends /\ DOMAIN taken = Ends /\ DOMAIN dropped = Ends /\ "client" \in Ends /\ "server" \in Ends
  BY <1>0, Typed, MovedIs DEF CallStep, Loops
<1>2. Requests(q)' = Requests(q) /\ Replies(q)' = Replies(q)  BY <1>1 DEF Requests, Replies
<1>3. /\ test.len \in Nat \ {0} /\ test.reply \in Nat \ {0}
      /\ pc["server"] \in {"synch", "finish", "done", "answer", "answering", "listen", "listening"}
  BY BounceIs
<1>4. Requests(q) \in Nat /\ Replies(q) \in Nat  BY <1>3, Product DEF Requests, Replies
<1>5. pc["server"] \in {"answering", "listening"}
  <2>1. pc["server"] \notin {"synch", "finish", "done", "answer", "listen"}  BY <1>1, Ops
  <2> QED BY <2>1, <1>3
<1>6. ASSUME NEW n \in Nat \ {0}, Copies("server", n) PROVE ServerLock(q)'
  <2>1. pc["server"] = "answering" /\ sent'["server"] = sent["server"] + n /\ Moved("server")' = Moved("server") + n
        /\ UNCHANGED <<taken, dropped>>
    BY <1>5, <1>6, <1>1, Ops DEF Copies
  <2>2. sent["server"] = Replies(q) + begun["server"] + Moved("server")
        /\ taken["client"] = Requests(q) + test.len + dropped["server"]
    BY <2>1 DEF ServerLock
  <2>3. sent'["server"] = Replies(q) + begun["server"] + (Moved("server") + n)  BY <2>1, <2>2, <1>1, <1>4
  <2>4. sent'["server"] = Replies(q)' + begun'["server"] + Moved("server")'  BY <2>1, <2>3, <1>1, <1>2
  <2>5. taken'["client"] = Requests(q)' + test'.len + dropped'["server"]  BY <2>1, <2>2, <1>1, <1>2
  <2> QED BY <2>1, <2>4, <2>5, <1>1 DEF ServerLock
<1>7. ASSUME NEW n \in Nat \ {0}, Reads("server", n) PROVE ServerLock(q)'
  <2>1. pc["server"] = "listening" /\ taken'["client"] = taken["client"] + n /\ Moved("server")' = Moved("server") + n
        /\ UNCHANGED <<sent, dropped>>
    BY <1>5, <1>7, <1>1, Ops, PeerOf DEF Reads
  <2>2. sent["server"] = Replies(q) /\ taken["client"] = Requests(q) + dropped["server"] + Moved("server")
    BY <2>1 DEF ServerLock
  <2>3. taken'["client"] = Requests(q) + dropped["server"] + (Moved("server") + n)  BY <2>1, <2>2, <1>1, <1>4
  <2>4. taken'["client"] = Requests(q)' + dropped'["server"] + Moved("server")' /\ sent'["server"] = Replies(q)'
    BY <2>1, <2>2, <2>3, <1>2
  <2> QED BY <2>1, <2>4, <1>1 DEF ServerLock
<1>8. CASE Returns("server")
  <2>1. UNCHANGED <<sent, taken>>  BY <1>8 DEF Returns
  <2>2. CASE Moved("server")' = Moved("server") /\ dropped' = dropped
    BY <2>1, <2>2, <1>1, ServerLockStays
  <2>3. CASE /\ OpOf(pc["server"]) = "recvn" /\ Moved("server")' = 0
             /\ dropped' = [dropped EXCEPT !["server"] = @ + Moved("server")]
    <3>1. pc["server"] = "listening"  BY <2>3, <1>5, Ops
    <3>2. sent["server"] = Replies(q) /\ taken["client"] = Requests(q) + dropped["server"] + Moved("server")
      BY <3>1 DEF ServerLock
    <3>3. taken["client"] = Requests(q) + (dropped["server"] + Moved("server")) + 0  BY <3>2, <1>1, <1>4
    <3>4. dropped'["server"] = dropped["server"] + Moved("server")  BY <2>3, <1>1
    <3>5. taken'["client"] = Requests(q)' + dropped'["server"] + Moved("server")'  BY <2>1, <2>3, <3>3, <3>4, <1>2
    <3>6. sent'["server"] = Replies(q)'  BY <2>1, <3>2, <1>2
    <3> QED BY <3>1, <3>5, <3>6, <1>1 DEF ServerLock
  <2> QED BY <2>2, <2>3, <1>8 DEF Returns
<1> QED BY <1>0, <1>6, <1>7, <1>8 DEF CallStep

\* Before the first request nothing has been sent.
LEMMA LockInit == Init => LockInv
<1> SUFFICES ASSUME Init, Is("BounceBack") PROVE ClientLock /\ \E q \in Nat : ServerLock(q)
  BY DEF LockInv
<1>1. /\ pc["client"] = "synch" /\ pc["server"] = "synch" /\ begun["server"] = 0 /\ rounds = 0
      /\ sent["client"] = 0 /\ sent["server"] = 0 /\ taken["client"] = 0 /\ taken["server"] = 0
      /\ dropped["client"] = 0 /\ dropped["server"] = 0
  BY DEF Init, ConnectionInit, Ends
<1>2. test.len \in Nat /\ test.reply \in Nat  BY TestsAssumption DEF Init
<1>3. Requests(rounds) = 0 /\ Replies(rounds) = 0  BY <1>1, <1>2, Product DEF Requests, Replies
<1>4. ClientLock  BY <1>1, <1>2, <1>3 DEF ClientLock
<1>5. ServerLock(0)  BY <1>1 DEF ServerLock
<1> QED BY <1>4, <1>5

\* Every step keeps what the two owe each other.
LEMMA LockStep == Aligned /\ LockInv /\ [Next]_vars => LockInv'
<1> SUFFICES ASSUME Aligned, LockInv, [Next]_vars PROVE LockInv'
  OBVIOUS
<1>0. Base /\ HeaderFits /\ "client" \in Ends /\ "server" \in Ends
  BY HeadersFit DEF Aligned, Ends
<1>t. test' = test
  BY <1>0, ClientSteps, ServerSteps, CallSteps
     DEF Next, ServerSame, ClientSame, CallStep, Time, Signal, Elapse, Interrupt, vars
<1> SUFFICES ASSUME Is("BounceBack") PROVE ClientLock' /\ \E r \in Nat : ServerLock(r)'
  BY <1>t, Kept DEF LockInv
<1>l. ClientLock /\ \E q \in Nat : ServerLock(q)  BY DEF LockInv
<1>q. PICK q \in Nat : ServerLock(q)  BY <1>l
<1>1. CASE Client
  <2>1. ClientLock'  BY <1>0, <1>1, <1>l, ClientLocks
  <2>2. ServerSame  BY <1>0, <1>1, ClientSteps
  <2>3. Moved("server")' = Moved("server")  BY <2>2, <1>0, ServerKept
  <2>4. ServerLock(q)'  BY <2>2, <2>3, <1>0, <1>q, PeerOf, ServerLockStays DEF ServerSame, Same
  <2> QED BY <2>1, <2>4
<1>2. CASE Server
  <2>1. \E r \in Nat : ServerLock(r)'  BY <1>0, <1>2, <1>q, ServerLocks
  <2>2. ClientSame  BY <1>0, <1>2, ServerSteps
  <2>3. Moved("client")' = Moved("client")  BY <2>2, <1>0, ClientKept
  <2>4. InProgress("client")' => InProgress("client")  BY <1>0, <1>2, ServerProgress
  <2>5. rounds' = rounds
    BY <1>2 DEF Server, ServerBounces, ServerBounceEnds, WriteBB, Answered, ReadBB, RequestRead
  <2>6. ClientLock'  BY <2>2, <2>3, <2>4, <2>5, <1>0, <1>l, PeerOf, ClientLockStays DEF ClientSame, Same
  <2> QED BY <2>1, <2>6
<1>3. CASE Calls("client")
  <2>1. ClientLock'  BY <1>0, <1>3, <1>l, ClientLockCalls
  <2>2. CallStep("client")  BY <1>0, <1>3, CallSteps
  <2>3. Moved("server")' = Moved("server")  BY <2>2, <1>0, OtherKept
  <2>4. /\ UNCHANGED <<pc, begun>> /\ sent'["server"] = sent["server"] /\ taken'["client"] = taken["client"]
        /\ dropped'["server"] = dropped["server"]
    BY <2>2, <1>0, Typed, PeerOf DEF CallStep, Loops, Copies, Reads, Returns
  <2>5. ServerLock(q)'  BY <2>3, <2>4, <1>0, <1>t, <1>q, ServerLockStays
  <2> QED BY <2>1, <2>5
<1>4. CASE Calls("server")
  <2>1. ServerLock(q)'  BY <1>0, <1>4, <1>q, ServerLockCalls
  <2>2. CallStep("server")  BY <1>0, <1>4, CallSteps
  <2>3. Moved("client")' = Moved("client")  BY <2>2, <1>0, OtherKept
  <2>4. /\ UNCHANGED <<pc, begun, rounds>> /\ sent'["client"] = sent["client"] /\ taken'["server"] = taken["server"]
        /\ dropped'["client"] = dropped["client"]
    BY <2>2, <1>0, Typed, PeerOf DEF CallStep, Loops, Copies, Reads, Returns
  <2>5. InProgress("client")' => InProgress("client")  BY <1>0, <1>4, OtherProgress
  <2>6. ClientLock'  BY <2>3, <2>4, <2>5, <1>0, <1>t, <1>l, ClientLockStays
  <2> QED BY <2>1, <2>6
<1>5. ASSUME NEW e \in Ends, Time(e) \/ Signal(e) PROVE ClientLock' /\ ServerLock(q)'
  <2>1. UNCHANGED <<sent, taken, dropped, call, pc, begun, rounds>>
    BY <1>5 DEF Time, Signal, Elapse, Interrupt, wire, bytes, Loops
  <2>2. Moved("client")' = Moved("client") /\ Moved("server")' = Moved("server")
    BY <2>1 DEF Moved, Returned, Result
  <2>3. InProgress("client")' => InProgress("client")  BY <1>0, <1>5, OtherProgress
  <2>4. ClientLock'  BY <2>1, <2>2, <2>3, <1>0, <1>t, <1>l, ClientLockStays
  <2>5. ServerLock(q)'  BY <2>1, <2>2, <1>0, <1>t, <1>q, ServerLockStays
  <2> QED BY <2>4, <2>5
<1>6. CASE UNCHANGED vars
  <2>1. UNCHANGED <<test, sent, taken, dropped, call, late, interrupted, pc, amount, begun, peerclose, rounds>>
    BY <1>6 DEF vars, wire, bytes, signals, sender
  <2>2. Moved("client")' = Moved("client") /\ Moved("server")' = Moved("server")
    BY <2>1 DEF Moved, Returned, Result
  <2>3. InProgress("client")' => InProgress("client")  BY <2>1, Kept DEF InProgress, HasEnd
  <2>4. ClientLock'  BY <2>1, <2>2, <2>3, <1>0, <1>l, ClientLockStays
  <2>5. ServerLock(q)'  BY <2>1, <2>2, <1>0, <1>q, ServerLockStays
  <2> QED BY <2>4, <2>5
<1> QED BY <1>1, <1>2, <1>3, <1>4, <1>5, <1>6 DEF Next, Ends

\* A recvn that has not returned has not read all.
LEMMA RecvnShort ==
  ASSUME Base, NEW e \in Ends, pc[e] \in {"reply", "listening"}, call[e].op = "recvn"
  PROVE  Moved(e) < Asked(e) /\ Asked(e) \in Nat
<1>1. OpOf(pc[e]) # "none" /\ pc[e] \notin {"finish", "failed"} /\ ~Returned(e)  BY Ops DEF Returned
<1>2. CallOk(e)  BY DEF Base, Calling, Ends
<1>3. call[e].len = Asked(e) /\ call[e].done < call[e].len /\ call[e].len \in Nat
  BY <1>1, <1>2 DEF CallOk
<1> QED BY <1>1, <1>3 DEF Moved

\* Two ends that wait for each other for ever have thrown away a part of a
\* message: without that the rounds of both would be the same, and not.
LEMMA LockStalled ==
  ASSUME Base, LockInv, Is("BounceBack"), Stalled PROVE dropped["client"] + dropped["server"] > 0
<1>n. /\ sent["client"] \in Nat /\ taken["client"] \in Nat /\ sent["server"] \in Nat /\ taken["server"] \in Nat
      /\ dropped["client"] \in Nat /\ dropped["server"] \in Nat /\ begun["client"] \in Nat /\ rounds \in Nat
      /\ Moved("client") \in Nat /\ Moved("server") \in Nat /\ "client" \in Ends /\ "server" \in Ends
  BY Typed, MovedIs
<1>b. /\ test.len \in Nat \ {0} /\ test.reply \in Nat \ {0} /\ Requests(rounds) \in Nat /\ Replies(rounds) \in Nat
      /\ Requests(rounds + 1) = Requests(rounds) + test.len
  BY BounceIs
<1>1. PICK q \in Nat : ServerLock(q)  BY DEF LockInv
<1>q. Requests(q) \in Nat /\ Replies(q) \in Nat  BY <1>b, Product DEF Requests, Replies
<1>2. /\ pc["client"] = "reply" /\ pc["server"] = "listening" /\ call["client"].op = "recvn" /\ call["server"].op = "recvn"
      /\ Available("client") = 0 /\ Available("server") = 0
  BY DEF Stalled, At
<1>m. begun["client"] \in Nat /\ Moved("client") \in Nat /\ Moved("server") \in Nat  BY <1>n
<1>3. taken["server"] = sent["server"] /\ taken["client"] = sent["client"]
  <2>1. sent["server"] - taken["server"] = 0 /\ sent["client"] - taken["client"] = 0
    BY <1>2, PeerOf DEF Available
  <2>2. /\ sent["client"] \in Nat /\ taken["client"] \in Nat /\ sent["server"] \in Nat /\ taken["server"] \in Nat
    BY <1>n
  <2> QED BY <2>1, <2>2
<1>4. /\ sent["client"] = Requests(rounds) + test.len
      /\ taken["server"] = Replies(rounds) + dropped["client"] + begun["client"] + Moved("client")
  BY <1>2 DEF LockInv, ClientLock
<1>5. sent["server"] = Replies(q) /\ taken["client"] = Requests(q) + dropped["server"] + Moved("server")
  BY <1>1, <1>2 DEF ServerLock
<1>6. Moved("server") < test.len
  <2>1. Asked("server") = test.len  BY <1>2 DEF Asked
  <2> QED BY <2>1, <1>2, <1>n, RecvnShort
<1>7. begun["client"] + Moved("client") < test.reply
  <2>1. Asked("client") = test.reply - begun["client"]  BY <1>2 DEF Asked
  <2>2. Moved("client") < test.reply - begun["client"]  BY <2>1, <1>2, <1>n, RecvnShort
  <2> QED BY <2>2, <1>n, <1>b
<1>8. ASSUME dropped["client"] = 0, dropped["server"] = 0 PROVE FALSE
  <2>1. Requests(rounds + 1) = Requests(q) + Moved("server")
    <3>1. taken["client"] = Requests(q) + 0 + Moved("server")  BY <1>5, <1>8
    <3>2. Requests(q) + 0 + Moved("server") = Requests(q) + Moved("server")  BY <1>q, <1>m
    <3> QED BY <3>1, <3>2, <1>3, <1>4, <1>b
  <2>2. Replies(q) = Replies(rounds) + (begun["client"] + Moved("client"))
    <3>1. taken["server"] = Replies(rounds) + 0 + begun["client"] + Moved("client")  BY <1>4, <1>8
    <3>2. Replies(rounds) + 0 + begun["client"] + Moved("client") = Replies(rounds) + (begun["client"] + Moved("client"))
      BY <1>b, <1>m
    <3> QED BY <3>1, <3>2, <1>3, <1>5
  <2>3. rounds + 1 = q
    <3>1. rounds + 1 \in Nat  BY <1>n
    <3> QED BY <2>1, <3>1, <1>6, <1>n, <1>b, Equal DEF Requests
  <2>4. q = rounds
    <3>1. begun["client"] + Moved("client") \in Nat  BY <1>n
    <3> QED BY <2>2, <3>1, <1>7, <1>n, <1>b, Equal DEF Replies
  <2> QED BY <2>3, <2>4, <1>n
<1> QED BY <1>8, <1>n

\* What the two owe each other makes them take turns.
LEMMA LockedTurns == Aligned /\ LockInv => Lockstep
<1> SUFFICES ASSUME Aligned, LockInv, Is("BounceBack")
             PROVE  Alternate /\ (Stalled => dropped["client"] + dropped["server"] > 0)
  BY DEF Lockstep
<1>0. Base /\ ClientLock  BY DEF Aligned, LockInv
<1>b. /\ test.len \in Nat \ {0} /\ test.reply \in Nat \ {0}
      /\ Requests(rounds + 1) = Requests(rounds) + test.len
  BY <1>0, BounceIs
<1>1. sent["client"] <= (rounds + 1) * test.len /\ rounds * test.reply <= taken["server"]
  BY <1>0, <1>b DEF ClientLock, Requests, Replies
<1>2. sent["server"] <= (taken["client"] \div test.len) * test.reply
  <2>1. PICK r \in Nat : sent["server"] <= Replies(r) /\ Requests(r) <= taken["client"]
    BY <1>0, ServerEven DEF LockInv
  <2> DEFINE d == taken["client"] \div test.len
  <2>2. d \in Nat /\ r <= d
    <3>1. taken["client"] \in Nat  BY <1>0, Typed
    <3> QED BY <2>1, <3>1, <1>b, Quotient DEF Requests
  <2> HIDE DEF d
  <2>3. r * test.reply <= d * test.reply  BY <2>2, <1>b, Times
  <2>4. r * test.reply \in Nat /\ d * test.reply \in Nat /\ sent["server"] \in Nat
    BY <2>2, <1>b, <1>0, Product, Typed
  <2>5. sent["server"] <= r * test.reply  BY <2>1 DEF Replies
  <2>6. sent["server"] <= d * test.reply  BY <2>3, <2>4, <2>5
  <2> QED BY <2>6 DEF d
<1> QED BY <1>0, <1>1, <1>2, LockStalled DEF Alternate

\* Request and reply of a bounceback alternate, and the two ends never wait for
\* each other unless recvn has thrown away a part of a message (Client.cpp:1200,
\* Server.cpp:330, socket_io.c:155), for every length of both, buffer and cut.
THEOREM Locks == Spec => []Lockstep
<1>1. Init => Aligned /\ LockInv  BY AlignedInit, LockInit
<1>2. (Aligned /\ LockInv) /\ [Next]_vars => (Aligned /\ LockInv)'  BY AlignedStep, LockStep
<1>3. Aligned /\ LockInv => Lockstep  BY LockedTurns
<1> QED BY <1>1, <1>2, <1>3, PTL DEF Spec
-----------------------------------------------------------------------------
(* What the reports say of what was sent.                                 *)
\* The places of a write.
Writes == {"burst", "write", "congest burst", "congest write", "rate burst", "rate write", "event"}
\* What the write that the client is in has moved.
Moving == IF Sending THEN Moved("client") ELSE 0
Frozen == /\ sent'["client"] = sent["client"] /\ total'["client"] = total["client"]
          /\ reported'["client"] = reported["client"] /\ amount' = amount

\* Outside of a bounceback the client is sending at the places of a write.
LEMMA SendingIs ==
  ASSUME Base, Loop # "bounce" PROVE Sending <=> pc["client"] \in Writes
<1>1. pc["client"] \in {"synch", "loop", "finish", "await", "report", "done", "failed"} \cup Writes
  BY DEF Base, Places, Writes
<1>2. CASE pc["client"] \in Writes
  <2>1. OpOf(pc["client"]) \in {"write", "writen"}  BY <1>2, Ops DEF Writes
  <2> QED BY <1>2, <2>1 DEF Sending
<1>3. CASE pc["client"] \in {"synch", "loop", "finish", "await", "report", "done", "failed"}
  <2>1. OpOf(pc["client"]) = "none"  BY <1>3, Ops
  <2>2. pc["client"] \notin Writes  BY <1>3 DEF Writes
  <2> QED BY <2>1, <2>2 DEF Sending
<1> QED BY <1>1, <1>2, <1>3

\* What a write has moved is a number.
LEMMA MovingIs == ASSUME Base PROVE Moving \in Nat /\ (pc["client"] \in {"synch", "loop", "finish", "await", "report", "done", "failed"} => Moving = 0 /\ ~Sending)
<1>1. Moved("client") \in Nat  BY MovedIs DEF Ends
<1>2. ASSUME pc["client"] \in {"synch", "loop", "finish", "await", "report", "done", "failed"} PROVE ~Sending
  BY <1>2, Ops DEF Sending
<1> QED BY <1>1, <1>2 DEF Moving

\* A new call of the client, or none, has moved nothing.
LEMMA FreshMoves ==
  ASSUME Base, NEW l, l \in Writes, Fresh(l) PROVE Moving' = 0
<1>1. OpOf(l) # "returned"  BY Ops DEF Writes
<1>2. Moved("client")' = 0  BY <1>1, NewMoves DEF Fresh, Ends
<1> QED BY <1>2 DEF Moving

\* A write begins.
LEMMA BeginFacts ==
  ASSUME Base, (\E l, size : StartsBurst(l, size)) \/ (\E l : StartsWrite(l))
  PROVE  /\ pc["client"] = "loop" /\ pc'["client"] \in Writes /\ Moving = 0 /\ Moving' = 0 /\ Frozen
         /\ (pc'["client"] = "rate write" => begun'["client"] = 0)
<1>1. PICK l : Fresh(l) /\ l \in Writes /\ (l = "rate write" => begun' = [begun EXCEPT !["client"] = 0])
  BY DEF StartsBurst, StartsWrite, Writes
<1>2. pc["client"] = "loop" /\ Frozen
  BY DEF StartsBurst, StartsWrite, Frozen, Starting, Held
<1>3. Moving = 0  BY <1>2, MovingIs
<1>4. Moving' = 0  BY <1>1, FreshMoves
<1>5. pc'["client"] = l  BY <1>1 DEF Fresh
<1>6. l = "rate write" => begun'["client"] = 0  BY <1>1, Typed
<1> QED BY <1>1, <1>2, <1>3, <1>4, <1>5, <1>6

\* A write ends.
LEMMA EndFacts ==
  ASSUME Base, NEW n \in Nat, EndsWrite(n)
  PROVE  /\ pc["client"] \in Writes /\ pc'["client"] = "loop" /\ Moving' = 0
         /\ Moving = Moved("client") /\ Sending
         /\ Moving <= Asked("client") /\ Asked("client") \in Nat
         /\ sent'["client"] = sent["client"] /\ bursts' = bursts
         /\ amount' = (IF Is("ModeTime") THEN amount ELSE IF amount >= n THEN amount - n ELSE 0)
         /\ pc["client"] # "event" /\ (pc["client"] = "rate write" => begun["client"] = 0)
              => n = Moving /\ total'["client"] = total["client"] + n
         /\ Loop # "congest" => reported'["client"] = reported["client"] + Add(n)
<1>1. /\ pc["client"] \in Writes /\ Returned("client") /\ pc' = [pc EXCEPT !["client"] = "loop"]
      /\ call' = [call EXCEPT !["client"] = NoCall] /\ sent' = sent /\ bursts' = bursts
      /\ n = Moved("client") + (IF pc["client"] = "rate write" THEN begun["client"] ELSE 0)
  BY DEF EndsWrite, Held, Writes
<1>2. Moving' = 0
  <2>1. Moved("client")' = 0  BY <1>1, NoneMoves DEF Ends
  <2> QED BY <2>1 DEF Moving
<1>3. Sending /\ OpOf(pc["client"]) # "none"
  <2>1. OpOf(pc["client"]) \in {"write", "writen"}  BY <1>1, Ops DEF Writes
  <2> QED BY <2>1 DEF Sending
<1>4. Moving = Moved("client") /\ Moved("client") \in Nat  BY <1>3, MovedIs DEF Moving, Ends
<1>5. Moving <= Asked("client") /\ Asked("client") \in Nat
  <2>1. Result("client") \in Int /\ Asked("client") \in Nat \ {0} /\ Result("client") <= Asked("client")
        /\ Moved("client") = (IF Result("client") > 0 THEN Result("client") ELSE 0)
    BY <1>1, <1>3, ResultIs DEF Ends
  <2> QED BY <2>1, <1>4
<1>6. ASSUME pc["client"] # "event", pc["client"] = "rate write" => begun["client"] = 0
      PROVE n = Moving /\ total'["client"] = total["client"] + n
  <2>1. n = Moving
    <3>1. n = Moved("client") + 0  BY <1>1, <1>6
    <3> QED BY <3>1, <1>4
  <2>2. Total("client", n) \/ (Total("client", 0) /\ Result("client") = Again)
    BY <1>6 DEF EndsWrite
  <2>3. Result("client") = Again => Moved("client") = 0
    <3>1. ~(Again > 0)  BY DEF Again
    <3> QED BY <3>1, <1>1 DEF Moved
  <2>4. Total("client", n)
    <3>1. Result("client") = Again => n = 0  BY <2>1, <2>3, <1>4
    <3> QED BY <3>1, <2>2
  <2>5. total'["client"] = (IF total["client"] + n >= -2 THEN total["client"] + n ELSE -2)
    BY <2>4, TotalIs DEF Base, Ends
  <2>6. total["client"] \in Int /\ total["client"] >= 0  BY Typed
  <2>7. total["client"] + n >= -2  BY <2>6
  <2> QED BY <2>1, <2>5, <2>7
<1>7. ASSUME Loop # "congest" PROVE reported'["client"] = reported["client"] + Add(n)
  <2>1. Report("client", Add(n))  BY <1>7 DEF EndsWrite
  <2> QED BY <2>1, Typed DEF Report
<1>8. amount' = (IF Is("ModeTime") THEN amount ELSE IF amount >= n THEN amount - n ELSE 0)
  BY DEF EndsWrite
<1>9. pc'["client"] = "loop"  BY <1>1, Typed
<1> QED BY <1>1, <1>2, <1>3, <1>4, <1>5, <1>6, <1>7, <1>8, <1>9

\* A write fails.
LEMMA FailFacts ==
  ASSUME Base, FailsWrite
  PROVE  /\ pc["client"] \in Writes /\ pc'["client"] \in {"finish", "failed"} /\ Moving' = 0 /\ Frozen /\ bursts' = bursts
         /\ pc'["client"] = "finish" => Moving = 0 /\ pc["client"] \in {"write", "congest write", "rate write"}
         /\ pc'["client"] = "failed" => pc["client"] \in {"burst", "congest burst"}
<1>1. /\ pc["client"] \in Writes /\ Returned("client") /\ Frozen /\ bursts' = bursts
      /\ \/ pc' = [pc EXCEPT !["client"] = "failed"] /\ pc["client"] \in {"burst", "congest burst"}
         \/ pc' = [pc EXCEPT !["client"] = "finish"] /\ Result("client") = Fatal
            /\ pc["client"] \in {"write", "congest write", "rate write"}
  BY DEF FailsWrite, Writes, Frozen, Held
<1>2. pc' = [pc EXCEPT !["client"] = pc'["client"]] /\ pc'["client"] \in {"finish", "failed"}
  BY <1>1, Typed
<1>3. ~Sending'  BY <1>2, Ops DEF Sending
<1>4. Moving' = 0  BY <1>3 DEF Moving
<1>5. Result("client") = Fatal => Moving = 0
  <2>1. ~(Fatal > 0)  BY DEF Fatal
  <2> QED BY <2>1, <1>1 DEF Moving, Moved
<1>6. pc'["client"] = "finish" => Result("client") = Fatal /\ pc["client"] \in {"write", "congest write", "rate write"}
  BY <1>1, Typed
<1>7. pc'["client"] = "failed" => pc["client"] \in {"burst", "congest burst"}
  BY <1>1, Typed
<1> QED BY <1>1, <1>2, <1>4, <1>5, <1>6, <1>7

\* The client comes to its end.
LEMMA LeaveFacts ==
  ASSUME Base, Leaves
  PROVE  /\ sent'["client"] = sent["client"] /\ amount' = amount /\ total'["client"] = total["client"] /\ bursts' = bursts
         /\ Moving = 0 /\ Moving' = 0
         /\ \/ /\ reported'["client"] = reported["client"]
               /\ \/ pc["client"] = "loop" /\ pc'["client"] \in {"loop", "finish"}
                  \/ pc["client"] = "finish" /\ pc'["client"] \in {"await", "report"}
                  \/ pc["client"] = "await" /\ pc'["client"] \in {"await", "report"}
                  \/ pc["client"] = "failed" /\ pc'["client"] = "failed"
            \/ /\ pc["client"] = "report" /\ pc'["client"] = "done"
               /\ reported'["client"] = reported["client"] + (IF one_report THEN total["client"] ELSE 0)
<1>0. /\ sent'["client"] = sent["client"] /\ amount' = amount /\ total'["client"] = total["client"] /\ bursts' = bursts
  BY DEF Leaves
<1>1. /\ \/ /\ reported'["client"] = reported["client"]
               /\ \/ pc["client"] = "loop" /\ pc'["client"] \in {"loop", "finish"}
                  \/ pc["client"] = "finish" /\ pc'["client"] \in {"await", "report"}
                  \/ pc["client"] = "await" /\ pc'["client"] \in {"await", "report"}
                  \/ pc["client"] = "failed" /\ pc'["client"] = "failed"
            \/ /\ pc["client"] = "report" /\ pc'["client"] = "done"
               /\ reported'["client"] = reported["client"] + (IF one_report THEN total["client"] ELSE 0)
  <2>1. reported \in [Ends -> Nat] /\ "client" \in Ends /\ DOMAIN pc = Ends  BY Typed
  <2> QED BY <2>1 DEF Leaves, Report
<1>2. Moving = 0  BY <1>1, MovingIs
<1>3. pc'["client"] \in {"loop", "finish", "await", "report", "failed", "done"}  BY <1>1
<1>4. ~Sending'  BY <1>3, Ops DEF Sending
<1> QED BY <1>0, <1>1, <1>2, <1>4 DEF Moving

\* The client begins.
LEMMA StartFacts ==
  ASSUME Base, Starts
  PROVE  /\ pc["client"] = "synch" /\ pc'["client"] = "loop" /\ sent'["client"] = FirstPayload /\ total'["client"] = 0
         /\ reported'["client"] = FirstPayload /\ Moving' = 0 /\ bursts = <<>> /\ bursts' = bursts
         /\ amount' = (IF Is("ModeTime") THEN test.amount ELSE test.amount - FirstPayload)
<1>1. pc["client"] = "synch" /\ pc'["client"] = "loop" /\ sent'["client"] = FirstPayload
      /\ reported'["client"] = reported["client"] + FirstPayload /\ total' = total /\ bursts' = bursts
      /\ amount' = (IF Is("ModeTime") THEN amount ELSE amount - FirstPayload)
  BY Typed DEF Starts, Report
<1>2. total["client"] = 0 /\ reported["client"] = 0 /\ amount = test.amount /\ bursts = <<>>
  BY <1>1 DEF Base, Ended
<1>3. FirstPayload \in Nat  BY Settings DEF Base
<1>4. 0 + FirstPayload = FirstPayload  BY <1>3
<1>5. ~Sending'  BY <1>1, Ops DEF Sending
<1> QED BY <1>1, <1>2, <1>4, <1>5 DEF Moving

\* The kernel goes on with a write of the client.
LEMMA CallFacts ==
  ASSUME Base, Loop # "bounce", Calls("client")
  PROVE  /\ pc["client"] \in Writes /\ UNCHANGED <<test, pc, total, reported, amount, left, bursts, begun, closed, shut>>
         /\ interrupted' = interrupted
         /\ \E n \in Nat : sent'["client"] = sent["client"] + n /\ Moving' = Moving + n
<1>0. CallStep("client")  BY CallSteps DEF Ends
<1>1. /\ UNCHANGED <<test, pc, total, reported, amount, left, bursts, begun, closed, shut>>
      /\ OpOf(pc["client"]) # "none"
  BY <1>0 DEF CallStep, Loops, sender, receiver, results
<1>2. pc["client"] \in Writes
  <2>1. pc["client"] \in {"synch", "loop", "finish", "await", "report", "done", "failed"} \cup Writes
    BY DEF Base, Places, Writes
  <2> QED BY <2>1, <1>1, Ops
<1>3. OpOf(pc["client"]) \in {"write", "writen"}  BY <1>2, Ops DEF Writes
<1>4. Sending /\ Sending'  BY <1>3, <1>1 DEF Sending
<1>5. Moved("client") \in Nat /\ sent \in [Ends -> Nat] /\ sent["client"] \in Nat /\ "client" \in Ends  BY MovedIs, Typed
<1>6. CASE \E n \in Nat \ {0} : Copies("client", n)
  <2>1. PICK n \in Nat \ {0} : Copies("client", n)  BY <1>6
  <2>2. sent'["client"] = sent["client"] + n /\ Moved("client")' = Moved("client") + n /\ interrupted' = interrupted
    BY <2>1, <1>5 DEF Copies
  <2>3. Moving' = Moving + n  BY <2>2, <1>4 DEF Moving
  <2> QED BY <2>2, <2>3, <1>1, <1>2
<1>7. CASE Returns("client")
  <2>1. sent' = sent /\ Moved("client")' = Moved("client") /\ interrupted' = interrupted
    BY <1>3, <1>7 DEF Returns
  <2>2. sent'["client"] = sent["client"] + 0 /\ Moved("client") = Moved("client") + 0  BY <2>1, <1>5
  <2>3. Moving' = Moving + 0  BY <2>1, <2>2, <1>4 DEF Moving
  <2> QED BY <2>1, <2>2, <2>3, <1>1, <1>2
<1>8. ~(\E n \in Nat \ {0} : Reads("client", n))  BY <1>3 DEF Reads
<1> QED BY <1>0, <1>6, <1>7, <1>8 DEF CallStep

\* A step that is not one of the client or of its call.
Aside == \/ Server \/ Calls("server") \/ (\E e \in Ends : Time(e) \/ Signal(e)) \/ UNCHANGED vars

\* It leaves the client and its bytes where they are.
ClientStays ==
  /\ UNCHANGED <<test, amount, left, bursts>>
  /\ pc'["client"] = pc["client"] /\ begun'["client"] = begun["client"] /\ sent'["client"] = sent["client"]
  /\ total'["client"] = total["client"] /\ reported'["client"] = reported["client"]
  /\ Moved("client")' = Moved("client") /\ Moving' = Moving
  /\ ("client" \in shut' <=> "client" \in shut)
  /\ interrupted \subseteq interrupted' /\ closed \subseteq closed'
\* Such a step does so.
LEMMA AsideStays ==
  ASSUME Base, Aside PROVE ClientStays
<1>0. "client" \in Ends /\ "server" \in Ends /\ sent \in [Ends -> Nat]  BY Typed
<1>m. ASSUME Moved("client")' = Moved("client"), pc'["client"] = pc["client"] PROVE Moving' = Moving
  BY <1>m DEF Moving, Sending
<1>1. CASE Server
  <2>1. ClientSame  BY <1>1, ServerSteps
  <2>2. Moved("client")' = Moved("client")  BY <2>1, ClientKept
  <2>3. closed \subseteq closed'
    <3>1. \A e \in closed : e = "client" \/ e = "server"  BY Typed DEF Ends
    <3>2. "client" \in closed => "client" \in closed'  BY <2>1 DEF ClientSame, Same
    <3>3. "server" \in closed => "server" \in closed'
      BY <1>1 DEF Server, ServerTraffic, ServerBounces, FirstRead, NothingFirst, ReadHeader, HeaderRead, HeaderMissing,
        ReadPayload, PayloadRead, NextRead, ServerLoopEnds, ServerCloses, Close, Stays, wire, ServerBounceEnds, WriteBB,
        Answered, ReadBB, RequestRead
    <3> QED BY <3>1, <3>2, <3>3
  <2> QED BY <2>1, <2>2, <2>3, <1>m DEF ClientSame, Same, ClientStays
<1>2. CASE Calls("server")
  <2>1. CallStep("server")  BY <1>2, <1>0, CallSteps
  <2>2. Moved("client")' = Moved("client")  BY <2>1, <1>0, OtherKept
  <2>3. UNCHANGED <<test, amount, left, bursts, pc, begun, total, reported, shut, closed>>
    BY <2>1 DEF CallStep, Loops, sender, receiver, results
  <2>4. sent'["client"] = sent["client"] /\ interrupted \subseteq interrupted'
    <3>1. sent' = sent \/ \E n : sent' = [sent EXCEPT !["server"] = @ + n]
      BY <2>1 DEF CallStep, Copies, Reads, Returns
    <3>2. interrupted \subseteq interrupted'  BY <2>1 DEF CallStep, Copies, Reads, Returns
    <3> QED BY <3>1, <3>2, <1>0
  <2> QED BY <2>2, <2>3, <2>4, <1>m DEF ClientStays
<1>3. CASE (\E e \in Ends : Time(e) \/ Signal(e)) \/ UNCHANGED vars
  <2>1. UNCHANGED <<test, amount, left, bursts, pc, begun, total, reported, sent, call, shut, closed>> /\ interrupted \subseteq interrupted'
    BY <1>3 DEF Time, Signal, Elapse, Interrupt, vars, wire, bytes, signals, Loops, sender, receiver, results
  <2>2. Moved("client")' = Moved("client")  BY <2>1 DEF Moved, Returned, Result
  <2> QED BY <2>1, <2>2, <1>m DEF ClientStays
<1> QED BY <1>1, <1>2, <1>3 DEF Aside

\* A step is one of the client, one of its call, or none of them.
LEMMA StepSorts ==
  ASSUME [Next]_vars PROVE Client \/ Calls("client") \/ Aside
BY DEF Next, Aside, Ends

\* What a step leaves of the settings that the reports depend on.
LEMMA AccountsKept ==
  ASSUME test' = test
  PROVE  /\ Loop' = Loop /\ (isburst' <=> isburst) /\ FirstPayload' = FirstPayload /\ (one_report' <=> one_report)
         /\ (Unlimited' <=> Unlimited) /\ (Is("ModeTime")' <=> Is("ModeTime")) /\ (Is("Reverse")' <=> Is("Reverse"))
         /\ (Framed' <=> Framed)
<1>1. /\ Loop' = Loop /\ (isburst' <=> isburst) /\ FirstPayload' = FirstPayload /\ (one_report' <=> one_report)
      /\ (Is("ModeTime")' <=> Is("ModeTime")) /\ (Is("Reverse")' <=> Is("Reverse")) /\ (Framed' <=> Framed)
      /\ (HasEnd("server")' <=> HasEnd("server"))
  BY Kept DEF Ends
<1> QED BY <1>1 DEF Unlimited
-----------------------------------------------------------------------------
\* The first payload is sent before the loop.
HasFirst == pc["client"] # "synch" => FirstPayload <= sent["client"]

\* ... and stays sent.
LEMMA FirstStep ==
  ASSUME Aligned, HasFirst, [Next]_vars, Loop # "bounce" PROVE HasFirst'
<1>0. Base /\ sent["client"] \in Nat /\ FirstPayload \in Nat /\ test' = test /\ FirstPayload' = FirstPayload
  <2>1. Base  BY DEF Aligned
  <2>2. test' = test
    <3>1. Client => test' = test  BY <2>1, ClientSteps DEF ServerSame
    <3>2. Calls("client") => test' = test  BY <2>1, CallSteps DEF CallStep, Ends
    <3>3. Aside => test' = test  BY <2>1, AsideStays DEF ClientStays
    <3> QED BY <3>1, <3>2, <3>3, StepSorts
  <2> QED BY <2>1, <2>2, Typed, Settings, AccountsKept DEF Base
<1>1. CASE Client
  <2>c. ClientDoes /\ (ClientBounces => Bounces)  BY <1>0, <1>1, ClientSorts, BounceSorts
  <2>1. CASE Starts  BY <2>1, <1>0, StartFacts DEF HasFirst
  <2>2. CASE ~Starts
    <3>1. sent'["client"] = sent["client"] /\ pc["client"] # "synch"
      <4>1. CASE (\E l, size : StartsBurst(l, size)) \/ (\E l : StartsWrite(l))
        BY <4>1, <1>0, BeginFacts DEF Frozen
      <4>2. CASE Resumes  BY <4>2 DEF Resumes, Held
      <4>3. CASE \E n \in Nat : EndsWrite(n)  BY <4>3, <1>0, EndFacts DEF Writes
      <4>4. CASE FailsWrite  BY <4>4, <1>0, FailFacts DEF Frozen, Writes
      <4>5. CASE Leaves
        <5>1. pc["client"] # "synch"  BY <4>5 DEF Leaves
        <5> QED BY <5>1, <4>5, <1>0, LeaveFacts
      <4>6. ~Bounces  BY DEF Bounces
      <4> QED BY <2>2, <2>c, <4>1, <4>2, <4>3, <4>4, <4>5, <4>6 DEF ClientDoes
    <3> QED BY <3>1, <1>0 DEF HasFirst
  <2> QED BY <2>1, <2>2, <1>0 DEF HasFirst
<1>2. CASE Calls("client")
  <2>1. PICK n \in Nat : sent'["client"] = sent["client"] + n /\ pc' = pc  BY <1>0, <1>2, CallFacts
  <2>2. ASSUME pc["client"] # "synch" PROVE FirstPayload <= sent["client"] + n  BY <2>2, <1>0, <2>1 DEF HasFirst
  <2> QED BY <2>1, <2>2, <1>0 DEF HasFirst
<1>3. CASE Aside
  <2>1. ClientStays  BY <1>0, <1>3, AsideStays
  <2> QED BY <2>1, <1>0 DEF HasFirst, ClientStays
<1> QED BY <1>1, <1>2, <1>3, StepSorts

\* A call has not moved more than it was asked for.
LEMMA MovedFits ==
  ASSUME Base, NEW e \in Ends, OpOf(pc[e]) # "none"
  PROVE  Moved(e) \in Nat /\ Asked(e) \in Nat /\ Moved(e) <= Asked(e) /\ (~Returned(e) => Moved(e) < Asked(e))
<1>1. Moved(e) \in Nat  BY MovedIs
<1>2. CASE Returned(e)
  <2>1. /\ Result(e) \in Int /\ Asked(e) \in Nat \ {0} /\ Result(e) <= Asked(e)
        /\ Moved(e) = (IF Result(e) > 0 THEN Result(e) ELSE 0)
    BY <1>2, ResultIs
  <2> QED BY <2>1, <1>1, <1>2
<1>3. CASE ~Returned(e)
  <2>1. Moved(e) = call[e].done  BY <1>3 DEF Moved
  <2>2. CallOk(e)  BY DEF Base, Calling, Ends
  <2>3. call[e].len = Asked(e) /\ call[e].done \in Nat /\ call[e].len \in Nat /\ call[e].done < call[e].len
    BY <2>2, <1>3 DEF CallOk
  <2> QED BY <2>1, <2>3
<1> QED BY <1>2, <1>3
-----------------------------------------------------------------------------
\* What was sent and what is left make the amount of the test, in a stream.
AmountInv ==
  Loop = "stream" /\ ~isburst /\ ~Is("ModeTime") /\ pc["client"] # "synch" =>
    sent["client"] + amount = test.amount + Moving

\* So not more than that is sent.
LEMMA SentAmount ==
  ASSUME Base, AmountInv, Loop = "stream", ~isburst, ~Is("ModeTime")
  PROVE  sent["client"] <= test.amount
<1>n. sent["client"] \in Nat /\ amount \in Nat /\ test.amount \in Nat /\ Moving \in Nat
  BY Numbers, MovingIs, Settings DEF Base
<1>1. CASE pc["client"] = "synch"
  <2>1. sent["client"] = 0  BY <1>1 DEF Base, Ended
  <2> QED BY <2>1, <1>n
<1>2. CASE pc["client"] # "synch"
  <2>1. sent["client"] + amount = test.amount + Moving  BY <1>2 DEF AmountInv
  <2>2. Moving <= amount
    <3>1. CASE ~Sending
      <4>1. Moving = 0  BY <3>1 DEF Moving
      <4> QED BY <4>1, <1>n
    <3>2. CASE Sending
      <4>1. pc["client"] \in Writes  BY <3>2, SendingIs
      <4>2. pc["client"] = "write"
        <5>1. pc["client"] \in {"burst", "write"}  BY <4>1 DEF Writes, Base, Places
        <5>2. pc["client"] # "burst"  BY DEF Base, Shapes
        <5> QED BY <5>1, <5>2
      <4>3. Asked("client") = Limit  BY <4>2 DEF Asked
      <4>4. Limit = Less(amount, test.len)  BY DEF Limit
      <4>5. test.len \in Nat  BY Numbers
      <4>6. Limit <= amount  BY <4>4, <4>5, <1>n DEF Less
      <4>7. Moved("client") <= Asked("client") /\ Asked("client") \in Nat
        <5>1. OpOf(pc["client"]) # "none"  BY <4>2, Ops
        <5> QED BY <5>1, MovedFits DEF Ends
      <4>8. Moving = Moved("client")  BY <3>2 DEF Moving
      <4> QED BY <4>3, <4>6, <4>7, <4>8, <1>n
    <3> QED BY <3>1, <3>2
  <2> QED BY <2>1, <2>2, <1>n
<1> QED BY <1>1, <1>2

\* Every step keeps the amount.
LEMMA AmountStep ==
  ASSUME Base, AmountInv, [Next]_vars PROVE AmountInv'
<1>n. /\ sent["client"] \in Nat /\ amount \in Nat /\ test.amount \in Nat /\ Moving \in Nat
      /\ FirstPayload \in Nat /\ FirstPayload <= test.amount
  BY Numbers, MovingIs, Settings DEF Base
<1>c. Client => ServerSame  BY ClientSteps
<1>s. test' = test
  <2>1. Calls("client") => test' = test  BY CallSteps DEF CallStep, Ends
  <2>2. Aside => test' = test  BY AsideStays DEF ClientStays
  <2> QED BY <2>1, <2>2, <1>c, StepSorts DEF ServerSame
<1>k. Loop' = Loop /\ (isburst' <=> isburst) /\ (Is("ModeTime")' <=> Is("ModeTime"))  BY <1>s, AccountsKept
<1> SUFFICES ASSUME Loop = "stream", ~isburst, ~Is("ModeTime"), pc'["client"] # "synch"
             PROVE  sent'["client"] + amount' = test.amount + Moving'
  BY <1>s, <1>k DEF AmountInv
<1>a. pc["client"] # "synch" => sent["client"] + amount = test.amount + Moving  BY DEF AmountInv
<1>1. CASE Client
  <2>c. ClientDoes /\ (ClientBounces => Bounces)  BY <1>1, ClientSorts, BounceSorts
  <2>1. CASE (\E l, size : StartsBurst(l, size)) \/ (\E l : StartsWrite(l))
    <3>1. pc["client"] = "loop" /\ Moving = 0 /\ Moving' = 0 /\ Frozen  BY <2>1, BeginFacts
    <3>2. sent["client"] + amount = test.amount + Moving  BY <3>1, <1>a
    <3> QED BY <3>1, <3>2 DEF Frozen
  <2>2. ~Resumes  BY DEF Resumes, Base, Shapes
  <2>3. CASE \E n \in Nat : EndsWrite(n)
    <3>1. PICK n \in Nat : EndsWrite(n)  BY <2>3
    <3>2. /\ pc["client"] \in Writes /\ Moving' = 0 /\ Sending /\ Moving = Moved("client")
          /\ Moving <= Asked("client") /\ Asked("client") \in Nat /\ sent'["client"] = sent["client"]
          /\ amount' = (IF amount >= n THEN amount - n ELSE 0)
          /\ pc["client"] # "event" /\ (pc["client"] = "rate write" => begun["client"] = 0) => n = Moving
      BY <3>1, EndFacts
    <3>3. pc["client"] = "write"
      <4>1. pc["client"] \in {"burst", "write"}  BY <3>2 DEF Writes, Base, Places
      <4>2. pc["client"] # "burst"  BY DEF Base, Shapes
      <4> QED BY <4>1, <4>2
    <3>4. n = Moving  BY <3>2, <3>3
    <3>5. sent["client"] <= test.amount  BY SentAmount
    <3>6. sent["client"] + amount = test.amount + Moving  BY <3>3, <1>a
    <3>7. amount >= Moving  BY <3>5, <3>6, <1>n
    <3>8. amount' = amount - Moving  BY <3>2, <3>4, <3>7
    <3>9. sent["client"] + (amount - Moving) = test.amount + 0  BY <3>6, <1>n
    <3> QED BY <3>2, <3>8, <3>9
  <2>4. CASE FailsWrite
    <3>1. /\ pc["client"] \in Writes /\ pc'["client"] \in {"finish", "failed"} /\ Moving' = 0 /\ Frozen
          /\ pc'["client"] = "finish" => Moving = 0
          /\ pc'["client"] = "failed" => pc["client"] \in {"burst", "congest burst"}
      BY <2>4, FailFacts
    <3>2. pc["client"] \notin {"burst", "congest burst"}  BY DEF Base, Shapes, Places
    <3>3. sent["client"] + amount = test.amount + Moving /\ Moving = 0
      BY <3>1, <3>2, <1>a DEF Writes
    <3> QED BY <3>1, <3>3 DEF Frozen
  <2>5. CASE Leaves
    <3>1. sent'["client"] = sent["client"] /\ amount' = amount /\ Moving = 0 /\ Moving' = 0 /\ pc["client"] # "synch"
      BY <2>5, LeaveFacts
    <3> QED BY <3>1, <1>a
  <2>6. CASE Starts
    <3>1. sent'["client"] = FirstPayload /\ amount' = test.amount - FirstPayload /\ Moving' = 0
      BY <2>6, StartFacts
    <3>2. FirstPayload + (test.amount - FirstPayload) = test.amount + 0  BY <1>n
    <3> QED BY <3>1, <3>2
  <2>7. ~Bounces  BY DEF Bounces
  <2> QED BY <2>1, <2>2, <2>3, <2>4, <2>5, <2>6, <2>7, <2>c DEF ClientDoes
<1>2. CASE Calls("client")
  <2>1. PICK n \in Nat : sent'["client"] = sent["client"] + n /\ Moving' = Moving + n /\ amount' = amount /\ pc' = pc
    BY <1>2, CallFacts
  <2>2. sent["client"] + amount = test.amount + Moving  BY <2>1, <1>a
  <2>3. (sent["client"] + n) + amount = test.amount + (Moving + n)  BY <2>2, <1>n
  <2> QED BY <2>1, <2>3
<1>3. CASE Aside
  <2>1. ClientStays  BY <1>3, AsideStays
  <2> QED BY <2>1, <1>a DEF ClientStays
<1> QED BY <1>1, <1>2, <1>3, StepSorts
-----------------------------------------------------------------------------
\* What the client's report has, before its end.
Unreported == IF one_report THEN 0 ELSE total["client"]
\* Every byte that was sent is in the total, and in the report.
Counted ==
  /\ sent["client"] = FirstPayload + total["client"] + Moving
  /\ reported["client"] = FirstPayload + Unreported

\* A write of the rate loop that does not go on with a burst.
Uncut == pc["client"] = "rate write" => begun["client"] = 0

\* A sum of three.
LEMMA Sums ==
  ASSUME NEW a \in Nat, NEW b \in Nat, NEW c \in Nat
  PROVE  a + b + c = a + (b + c) /\ a + b + c = a + (b + c) + 0 /\ a + 0 + b = a + b + 0 /\ a + 0 = a
OBVIOUS

\* Where every step of the client counts.
LEMMA CountedClient ==
  ASSUME Base, Client, Counted, Loop \in {"stream", "rate"}, ~Resumes, pc["client"] # "synch",
         Uncut
  PROVE  /\ pc'["client"] \notin {"failed", "done"} => Counted'
         /\ pc'["client"] = "done" => reported'["client"] = sent'["client"]
         /\ Uncut'
<1>n. /\ sent["client"] \in Nat /\ total["client"] \in Nat /\ reported["client"] \in Nat /\ Moving \in Nat /\ FirstPayload \in Nat
  <2>1. total["client"] \in Int /\ total["client"] >= 0 /\ reported["client"] \in Nat  BY Typed
  <2>2. total["client"] \in Nat  BY <2>1
  <2> QED BY <2>1, <2>2, Numbers, MovingIs, Settings DEF Base
<1>s. ServerSame /\ test' = test  BY ClientSteps DEF ServerSame
<1>k. Loop' = Loop /\ FirstPayload' = FirstPayload /\ (one_report' <=> one_report)  BY <1>s, AccountsKept
<1>f. ASSUME Frozen, Moving = 0, Moving' = 0 PROVE Counted'
  BY <1>f, <1>k DEF Counted, Frozen, Unreported
<1>c. ClientDoes /\ (ClientBounces => Bounces)  BY ClientSorts, BounceSorts
<1>1. CASE (\E l, size : StartsBurst(l, size)) \/ (\E l : StartsWrite(l))
  <2>1. /\ Frozen /\ Moving = 0 /\ Moving' = 0 /\ pc'["client"] \in Writes /\ (pc'["client"] = "rate write" => begun'["client"] = 0)
    BY <1>1, BeginFacts
  <2> QED BY <2>1, <1>f DEF Writes, Uncut
<1>2. CASE \E n \in Nat : EndsWrite(n)
  <2>1. PICK n \in Nat : EndsWrite(n)  BY <1>2
  <2>2. /\ pc["client"] \in Writes /\ pc'["client"] = "loop" /\ Moving' = 0 /\ sent'["client"] = sent["client"]
        /\ pc["client"] # "event" => n = Moving /\ total'["client"] = total["client"] + n
        /\ reported'["client"] = reported["client"] + Add(n)
    BY <2>1, EndFacts DEF Uncut
  <2>3. pc["client"] # "event"  BY DEF Base, Places
  <2>4. n = Moving /\ total'["client"] = total["client"] + Moving  BY <2>2, <2>3
  <2>5. sent'["client"] = FirstPayload + total'["client"] + Moving'
    <3>1. FirstPayload + total["client"] + Moving = FirstPayload + (total["client"] + Moving) + 0  BY <1>n, Sums
    <3>2. sent["client"] = FirstPayload + total["client"] + Moving  BY DEF Counted
    <3> QED BY <3>1, <3>2, <2>2, <2>4
  <2>6. reported'["client"] = FirstPayload + Unreported'
    <3>1. reported["client"] = FirstPayload + Unreported  BY DEF Counted
    <3>2. CASE one_report
      <4>1. Unreported = 0 /\ Unreported' = 0 /\ Add(n) = 0  BY <3>2, <1>k DEF Unreported, Add
      <4>2. reported'["client"] = FirstPayload + 0 + 0  BY <4>1, <3>1, <2>2
      <4>3. FirstPayload + 0 + 0 = FirstPayload + 0  BY <1>n
      <4> QED BY <4>1, <4>2, <4>3
    <3>3. CASE ~one_report
      <4>1. Unreported = total["client"] /\ Unreported' = total'["client"] /\ Add(n) = Moving
        BY <3>3, <1>k, <2>4 DEF Unreported, Add
      <4>2. FirstPayload + total["client"] + Moving = FirstPayload + (total["client"] + Moving)  BY <1>n, Sums
      <4>3. reported'["client"] = FirstPayload + total["client"] + Moving  BY <4>1, <3>1, <2>2
      <4>4. Unreported' = total["client"] + Moving  BY <4>1, <2>4
      <4> QED BY <4>2, <4>3, <4>4
    <3> QED BY <3>2, <3>3
  <2> QED BY <2>2, <2>5, <2>6, <1>k DEF Counted, Uncut
<1>3. CASE FailsWrite
  <2>1. /\ pc'["client"] \in {"finish", "failed"} /\ Moving' = 0 /\ Frozen
        /\ pc'["client"] = "finish" => Moving = 0
    BY <1>3, FailFacts
  <2> QED BY <2>1, <1>f DEF Uncut
<1>4. CASE Leaves
  <2>1. /\ sent'["client"] = sent["client"] /\ amount' = amount /\ total'["client"] = total["client"]
        /\ Moving = 0 /\ Moving' = 0
        /\ \/ reported'["client"] = reported["client"] /\ pc'["client"] \in {"loop", "finish", "await", "report", "failed"}
           \/ /\ pc'["client"] = "done"
              /\ reported'["client"] = reported["client"] + (IF one_report THEN total["client"] ELSE 0)
    BY <1>4, LeaveFacts
  <2>4. Uncut'  BY <2>1 DEF Uncut
  <2>2. CASE reported'["client"] = reported["client"] /\ pc'["client"] \in {"loop", "finish", "await", "report", "failed"}
    BY <2>1, <2>2, <2>4, <1>f DEF Frozen
  <2>3. CASE pc'["client"] = "done" /\ reported'["client"] = reported["client"] + (IF one_report THEN total["client"] ELSE 0)
    <3>1. reported["client"] = FirstPayload + Unreported /\ sent["client"] = FirstPayload + total["client"] + 0
      BY <2>1 DEF Counted
    <3>2. CASE one_report  
      <4>1. Unreported = 0  BY <3>2 DEF Unreported
      <4>2. reported'["client"] = FirstPayload + 0 + total["client"]  BY <4>1, <3>1, <3>2, <2>3
      <4>3. FirstPayload + 0 + total["client"] = FirstPayload + total["client"] + 0  BY <1>n, Sums
      <4>4. reported'["client"] = sent["client"]  BY <4>2, <4>3, <3>1
      <4> QED BY <4>4, <2>1, <2>3, <2>4
    <3>3. CASE ~one_report
      <4>1. Unreported = total["client"]  BY <3>3 DEF Unreported
      <4>2. reported'["client"] = FirstPayload + total["client"] + 0  BY <4>1, <3>1, <3>3, <2>3
      <4> QED BY <4>2, <3>1, <2>1, <2>3, <2>4
    <3> QED BY <3>2, <3>3
  <2> QED BY <2>1, <2>2, <2>3
<1>5. ~Starts  BY DEF Starts
<1>6. ~Bounces  BY DEF Bounces
<1> QED BY <1>1, <1>2, <1>3, <1>4, <1>5, <1>6, <1>c DEF ClientDoes

\* What has been counted stays so while the kernel writes ...
LEMMA CountedCalls ==
  ASSUME Base, Loop # "bounce", Calls("client"), Counted PROVE Counted'
<1>1. PICK n \in Nat : sent'["client"] = sent["client"] + n /\ Moving' = Moving + n /\ UNCHANGED <<test, total, reported>>
  BY CallFacts
<1>2. FirstPayload' = FirstPayload /\ (one_report' <=> one_report)  BY <1>1, AccountsKept
<1>n. total["client"] \in Int /\ Moving \in Nat /\ FirstPayload \in Nat
  BY Typed, MovingIs, Settings DEF Base
<1>3. sent["client"] = FirstPayload + total["client"] + Moving  BY DEF Counted
<1>4. FirstPayload + total["client"] + Moving + n = FirstPayload + total["client"] + (Moving + n)  BY <1>n
<1>5. sent'["client"] = FirstPayload + total["client"] + (Moving + n)  BY <1>1, <1>3, <1>4
<1> QED BY <1>1, <1>2, <1>5 DEF Counted, Unreported

\* ... and while others do.
LEMMA CountedStays == ASSUME ClientStays, Counted PROVE Counted'
<1>1. FirstPayload' = FirstPayload /\ (one_report' <=> one_report)  BY AccountsKept DEF ClientStays
<1> QED BY <1>1 DEF Counted, Unreported, ClientStays

\* The client begins to count.
LEMMA CountedStarts == ASSUME Base, Starts, test' = test PROVE Counted'
<1>1. sent'["client"] = FirstPayload /\ total'["client"] = 0 /\ reported'["client"] = FirstPayload /\ Moving' = 0
  BY StartFacts
<1>2. FirstPayload' = FirstPayload /\ (one_report' <=> one_report) /\ FirstPayload \in Nat
  BY AccountsKept, Settings DEF Base
<1>3. FirstPayload + 0 + 0 = FirstPayload /\ FirstPayload + 0 = FirstPayload  BY <1>2
<1>4. Unreported' = 0  BY <1>1 DEF Unreported
<1> QED BY <1>1, <1>2, <1>3, <1>4 DEF Counted

\* A step that is not one of the server or of its call.
Beside == \/ Client \/ Calls("client") \/ (\E e \in Ends : Time(e) \/ Signal(e)) \/ UNCHANGED vars

\* It leaves the server and its bytes where they are.
ServerStays ==
  /\ UNCHANGED <<test, nleft, whole>>
  /\ pc'["server"] = pc["server"] /\ begun'["server"] = begun["server"] /\ taken'["client"] = taken["client"]
  /\ total'["server"] = total["server"] /\ reported'["server"] = reported["server"]
  /\ Moved("server")' = Moved("server") /\ Result("server")' = Result("server") /\ Asked("server")' = Asked("server")
  /\ (Returned("server")' <=> Returned("server")) /\ ("server" \in peerclose' <=> "server" \in peerclose)
  /\ \A i \in 1 .. Len(bursts) : bursts'[i] = bursts[i]
\* Such a step does so.
LEMMA BesideStays ==
  ASSUME Base, Beside PROVE ServerStays
<1>0. /\ "client" \in Ends /\ "server" \in Ends /\ taken \in [Ends -> Nat] /\ Len(bursts) \in Nat
      /\ bursts \in Seq([at : Nat, size : Nat \ {0}]) /\ sent["client"] \in Nat
  BY Typed, BurstIs
<1>1. CASE Client
  <2>1. ServerSame  BY <1>1, ClientSteps
  <2>2. /\ Asked("server")' = Asked("server") /\ Moved("server")' = Moved("server") /\ Result("server")' = Result("server")
        /\ (Returned("server")' <=> Returned("server"))
    BY <2>1, ServerKept
  <2>3. taken'["client"] = taken["client"]  BY <2>1, PeerOf DEF ServerSame, Same
  <2>4. \A i \in 1 .. Len(bursts) : bursts'[i] = bursts[i]
    <3>1. ClientDoes /\ (ClientBounces => Bounces)  BY <1>1, ClientSorts, BounceSorts
    <3>2. CASE \E l, size : StartsBurst(l, size)
      <4>1. PICK l, size : StartsBurst(l, size)  BY <3>2
      <4> DEFINE b == [at |-> sent["client"], size |-> size]  set == [at : Nat, size : Nat \ {0}]
      <4>2. b \in set /\ bursts \in Seq(set) /\ bursts' = Append(bursts, b)  BY <4>1, <1>0 DEF StartsBurst
      <4> HIDE DEF b, set
      <4> QED BY <4>2, AppendProperties
    <3>3. CASE ~(\E l, size : StartsBurst(l, size))
      <4>1. bursts' = bursts
        BY <3>1, <3>3 DEF ClientDoes, StartsWrite, Resumes, EndsWrite, FailsWrite, Leaves, Starts, Bounces, Held
      <4> QED BY <4>1, <1>0
    <3> QED BY <3>2, <3>3
  <2> QED BY <2>1, <2>2, <2>3, <2>4 DEF ServerSame, Same, ServerStays
<1>2. CASE Calls("client")
  <2>1. CallStep("client")  BY <1>2, <1>0, CallSteps
  <2>2. /\ Asked("server")' = Asked("server") /\ Moved("server")' = Moved("server") /\ Result("server")' = Result("server")
        /\ (Returned("server")' <=> Returned("server"))
    BY <2>1, <1>0, OtherKept
  <2>3. UNCHANGED <<test, nleft, whole, pc, begun, total, reported, bursts, peerclose>>
    BY <2>1 DEF CallStep, Loops, sender, receiver, results
  <2>4. taken'["client"] = taken["client"]
    <3>1. taken' = taken \/ \E n : taken' = [taken EXCEPT !["server"] = @ + n]
      BY <2>1, PeerOf DEF CallStep, Copies, Reads, Returns
    <3> QED BY <3>1, <1>0
  <2> QED BY <2>2, <2>3, <2>4, <1>0 DEF ServerStays
<1>3. CASE (\E e \in Ends : Time(e) \/ Signal(e)) \/ UNCHANGED vars
  <2>1. UNCHANGED <<test, nleft, whole, bursts, pc, begun, total, reported, taken, call, peerclose, left, amount>>
    BY <1>3 DEF Time, Signal, Elapse, Interrupt, vars, wire, bytes, signals, Loops, sender, receiver, results
  <2>2. Moved("server")' = Moved("server") /\ Result("server")' = Result("server") /\ (Returned("server")' <=> Returned("server"))
    BY <2>1 DEF Moved, Returned, Result
  <2>3. Asked("server")' = Asked("server")
    <3>1. isburst' <=> isburst  BY <2>1, Kept
    <3> QED BY <2>1, <3>1 DEF Asked, Limit, Less, Is
  <2> QED BY <2>1, <2>2, <2>3, <1>0 DEF ServerStays
<1> QED BY <1>1, <1>2, <1>3 DEF Beside

\* A step is one of the server, one of its call, or none of them.
LEMMA ServerStepSorts ==
  ASSUME [Next]_vars PROVE Server \/ Calls("server") \/ Beside
BY DEF Next, Beside, Ends
-----------------------------------------------------------------------------
\* What the server has read and not yet reported.
Pending == IF pc["server"] = "synch" THEN begun["server"]
           ELSE IF pc["server"] = "header" THEN Moved("server")
           ELSE IF pc["server"] = "recv" THEN begun["server"] + Moved("server")
           ELSE 0
\* What it has read and will not report.
Lost == taken["client"] - (reported["server"] + Pending)
\* How much that may be at the end.
Missing == IF isburst THEN whole + (IF nleft > 0 THEN 1 ELSE Header - 1) ELSE 0

\* Not more than a byte of every burst and a header that came late is lost.
LostInv ==
  /\ 0 <= Lost
  /\ pc["server"] \in {"synch", "loop", "header", "recv", "received"} /\ ~HeaderLost => Lost <= Reached
  /\ pc["server"] = "recv" /\ begun["server"] # 0 => Lost < Reached
  /\ pc["server"] \in {"finish", "done"} \/ HeaderLost => Lost <= Missing

\* What these depend on are numbers.
LEMMA PendingIs ==
  ASSUME Base
  PROVE  /\ Pending \in Nat /\ Lost \in Int /\ taken["client"] \in Nat /\ reported["server"] \in Nat /\ begun["server"] \in Nat
         /\ Moved("server") \in Nat /\ Reached \in Nat /\ Header \in Nat \ {0}
         /\ Missing \in Nat /\ Reached <= Missing
<1>1. /\ taken["client"] \in Nat /\ reported["server"] \in Nat /\ begun["server"] \in Nat /\ Moved("server") \in Nat
  BY Typed, MovedIs
<1>2. Pending \in Nat  BY <1>1 DEF Pending
<1>3. Lost \in Int  BY <1>1, <1>2 DEF Lost
<1>4. Missing \in Nat /\ Reached <= Missing
  <2>1. nleft \in Nat /\ whole \in Nat /\ Header \in Nat \ {0}  BY Typed, Numbers
  <2>2. CASE isburst
    <3>1. CASE nleft > 0
      <4>1. Missing = whole + 1 /\ Reached = whole + 1  BY <2>2, <3>1, ReachedIs DEF Missing
      <4> QED BY <4>1, <2>1
    <3>2. CASE ~(nleft > 0)
      <4>1. Missing = whole + (Header - 1) /\ Reached = whole  BY <2>1, <2>2, <3>2, ReachedIs DEF Missing
      <4> QED BY <4>1, <2>1
    <3> QED BY <3>1, <3>2
  <2>3. CASE ~isburst
    <3>1. nleft = 0 /\ whole = 0  BY <2>3 DEF Base, Shapes
    <3> QED BY <2>3, <3>1, ReachedIs DEF Missing
  <2> QED BY <2>2, <2>3
<1> QED BY <1>1, <1>2, <1>3, <1>4, ReachedIs, Numbers

\* What the reporter adds for a read.
LEMMA ReadReported ==
  ASSUME Base, NEW n \in Int, ReportRead(n)
  PROVE  reported'["server"] = (IF n > 0 THEN reported["server"] + n ELSE reported["server"])
BY Typed DEF ReportRead, Report

\* A step beside the server loses nothing.
LEMMA LostStays ==
  ASSUME Base, LostInv, ServerStays PROVE LostInv'
<1>1. Pending' = Pending /\ Lost' = Lost /\ Reached' = Reached /\ (HeaderLost' <=> HeaderLost)
  BY DEF ServerStays, Pending, Lost, Reached, HeaderLost
<1>2. Missing' = Missing
  <2>1. isburst' <=> isburst  BY AccountsKept DEF ServerStays
  <2> QED BY <2>1 DEF ServerStays, Missing
<1> QED BY <1>1, <1>2 DEF ServerStays, LostInv

\* The sums of a step of the server.
LEMMA LostSums ==
  ASSUME NEW t \in Nat, NEW r \in Nat, NEW p \in Nat, NEW m \in Nat
  PROVE  /\ t - (r + m + 0) = t - (r + m) /\ t - (r + m + p) = t - (r + (p + m)) /\ t - (r + 0) = t - (r + m) + m
         /\ (t + m) - (r + (p + m)) = t - (r + p) /\ (t + m) - (r + p + m + 0) = t - (r + p)
OBVIOUS

\* At the first read nothing is lost.
LEMMA LostFirst ==
  ASSUME Base, ReadInv, LostInv, Loop # "bounce", NEW n \in Nat, ReadsFirst(n), test' = test
  PROVE  LostInv'
<1>1. /\ pc["server"] = "synch" /\ taken' = [taken EXCEPT !["client"] = @ + n] /\ nleft' = nleft /\ whole' = whole
      /\ \/ /\ begun["server"] + n = FirstPayload /\ pc' = [pc EXCEPT !["server"] = "loop"]
            /\ ReportRead(FirstPayload)
         \/ /\ pc' = pc /\ reported' = reported /\ begun' = [begun EXCEPT !["server"] = begun["server"] + n]
  BY DEF ReadsFirst, First, Loop
<1>2. taken["client"] = begun["server"] /\ Reached = 0
  <2>1. taken["client"] = begun["server"] /\ nleft = 0 /\ whole = 0  BY <1>1 DEF ReadInv
  <2> QED BY <2>1, ReachedIs
<1>n. taken["client"] \in Nat /\ reported["server"] \in Nat /\ begun["server"] \in Nat /\ FirstPayload \in Nat
  BY PendingIs, Settings DEF Base
<1>3. Lost = taken["client"] - (reported["server"] + begun["server"])  BY <1>1 DEF Lost, Pending
<1>4. ~HeaderLost  BY <1>1 DEF HeaderLost
<1>5. reported["server"] = 0
  <2>1. 0 <= Lost  BY DEF LostInv
  <2> QED BY <2>1, <1>2, <1>3, <1>n
<1>6. Reached' = 0
  <2>1. Reached' = Reached  BY <1>1 DEF Reached
  <2> QED BY <2>1, <1>2
<1>7. taken'["client"] = begun["server"] + n  BY <1>1, <1>2, Typed
<1>8. Lost' = 0 /\ pc'["server"] \in {"synch", "loop"}
  <2>1. CASE begun["server"] + n = FirstPayload /\ pc' = [pc EXCEPT !["server"] = "loop"] /\ ReportRead(FirstPayload)
    <3>1. pc'["server"] = "loop"  BY <2>1, Typed
    <3>2. reported'["server"] = FirstPayload
      <4>1. reported'["server"] = (IF FirstPayload > 0 THEN 0 + FirstPayload ELSE 0)  BY <2>1, <1>5, <1>n, ReadReported
      <4> QED BY <4>1, <1>n
    <3>3. Pending' = 0  BY <3>1 DEF Pending
    <3>4. FirstPayload - (FirstPayload + 0) = 0  BY <1>n
    <3>5. taken'["client"] = FirstPayload  BY <1>7, <2>1
    <3> QED BY <3>1, <3>2, <3>3, <3>4, <3>5 DEF Lost
  <2>2. CASE pc' = pc /\ reported' = reported /\ begun' = [begun EXCEPT !["server"] = begun["server"] + n]
    <3>1. pc'["server"] = "synch" /\ reported'["server"] = 0 /\ begun'["server"] = begun["server"] + n
      BY <2>2, <1>1, <1>5, Typed
    <3>2. Pending' = begun["server"] + n  BY <3>1 DEF Pending
    <3>3. (begun["server"] + n) - (0 + (begun["server"] + n)) = 0  BY <1>n
    <3> QED BY <3>1, <3>2, <3>3, <1>7 DEF Lost
  <2> QED BY <2>1, <2>2, <1>1
<1>9. ~HeaderLost'  BY <1>8 DEF HeaderLost
<1> QED BY <1>6, <1>8, <1>9 DEF LostInv

\* A server that leaves has lost what a header left that came late.
LEMMA LostLeaves ==
  ASSUME Base, ReadInv, LostInv, HasFirst, Loop # "bounce", GivesUp, ClientSame
  PROVE  LostInv'
<1>n. /\ taken["client"] \in Nat /\ reported["server"] \in Nat /\ begun["server"] \in Nat /\ Moved("server") \in Nat
      /\ Reached \in Nat /\ Missing \in Nat /\ Reached <= Missing /\ Header \in Nat \ {0} /\ Lost \in Int
  BY PendingIs
<1>1. pc'["server"] = "finish" /\ reported' = reported /\ taken' = taken /\ Missing' = Missing
  <2>1. pc'["server"] = "finish" /\ UNCHANGED <<reported, taken, nleft, whole>>  BY IdleMoves DEF GivesUp, Quiet
  <2>2. isburst' <=> isburst  BY AccountsKept DEF ClientSame
  <2> QED BY <2>1, <2>2 DEF Missing
<1>2. Lost' = taken["client"] - (reported["server"] + 0)
  <2>1. Pending' = 0  BY <1>1 DEF Pending
  <2> QED BY <2>1, <1>1 DEF Lost
<1>3. ~HeaderLost'  BY <1>1 DEF HeaderLost
<1>5. SUFFICES Lost' \in Int /\ 0 <= Lost' /\ Lost' <= Missing
  BY <1>1, <1>3 DEF LostInv
<1>6. CASE pc["server"] = "synch"
  <2>1. "client" \in shut /\ Available("server") = 0 /\ begun["server"] < First  BY <1>6 DEF GivesUp
  <2>2. pc["client"] # "synch"  BY <2>1 DEF Base, Ended
  <2>3. FirstPayload <= sent["client"] /\ First = FirstPayload  BY <2>2 DEF HasFirst, First, Loop
  <2>4. sent["client"] - taken["client"] = 0  BY <2>1, PeerOf DEF Available
  <2>5. taken["client"] = begun["server"]  BY <1>6 DEF ReadInv
  <2>6. sent["client"] \in Nat /\ FirstPayload \in Nat  BY Typed, Settings DEF Base
  <2>7. sent["client"] = taken["client"]  BY <2>4, <2>6, <1>n
  <2>8. begun["server"] < FirstPayload /\ FirstPayload <= begun["server"]  BY <2>1, <2>3, <2>5, <2>7
  <2> QED BY <2>8, <2>6, <1>n
<1>7. CASE pc["server"] = "loop"
  <2>1. Pending = 0 /\ ~HeaderLost  BY <1>7 DEF Pending, HeaderLost
  <2>2. Lost' = Lost  BY <2>1, <1>2 DEF Lost
  <2>3. 0 <= Lost /\ Lost <= Reached  BY <1>7, <2>1 DEF LostInv
  <2> QED BY <2>2, <2>3, <1>n
<1>8. CASE pc["server"] = "header"
  <2>1. Lost = taken["client"] - (reported["server"] + Moved("server"))  BY <1>8 DEF Lost, Pending
  <2>2. Lost' = Lost + Moved("server")  BY <2>1, <1>2, <1>n, LostSums
  <2>3. 0 <= Lost  BY DEF LostInv
  <2>4. CASE HeaderLost
    <3>1. Moved("server") = 0
      <4>1. Returned("server") /\ Result("server") < 0  BY <2>4 DEF HeaderLost
      <4>2. Result("server") \in Int
        <5>1. OpOf(pc["server"]) # "none"  BY <1>8, Ops
        <5> QED BY <4>1, <5>1, ResultIs DEF Ends
      <4>3. ~(Result("server") > 0)  BY <4>1, <4>2
      <4> QED BY <4>1, <4>3 DEF Moved
    <3>2. Lost <= Missing  BY <2>4 DEF LostInv
    <3>3. Lost' = Lost  BY <3>1, <2>2, <1>n
    <3> QED BY <3>2, <3>3, <2>3, <1>n
  <2>5. CASE ~HeaderLost
    <3>1. Lost <= Reached  BY <1>8, <2>5 DEF LostInv
    <3>2. Moved("server") <= Header - 1
      <4>1. OpOf(pc["server"]) # "none" /\ Asked("server") = Header  BY <1>8, Ops DEF Asked
      <4>2. Returned("server") /\ Result("server") # Header  BY <1>8 DEF GivesUp
      <4>3. /\ Result("server") \in Int /\ Result("server") <= Header
            /\ Moved("server") = (IF Result("server") > 0 THEN Result("server") ELSE 0)
        BY <4>1, <4>2, ResultIs DEF Ends
      <4> QED BY <4>2, <4>3, <1>n
    <3>3. Missing = Reached + (Header - 1)
      <4>1. isburst /\ nleft = 0  BY <1>8 DEF Base, Shapes
      <4>2. Reached = whole /\ ~(nleft > 0)  BY <4>1, ReachedIs
      <4> QED BY <4>1, <4>2 DEF Missing
    <3> QED BY <3>1, <3>2, <3>3, <2>2, <2>3, <1>n
  <2> QED BY <2>4, <2>5
<1>9. pc["server"] \in {"synch", "loop", "header"}
  <2>1. pc["server"] \notin {"answer", "listen", "listening"}  BY DEF Base, Places
  <2> QED BY <2>1 DEF GivesUp
<1> QED BY <1>6, <1>7, <1>8, <1>9

\* A payload that ends with an error is reported without its last byte.
LEMMA LostPayload ==
  ASSUME Base, ReadInv, LostInv, GetsPayload
  PROVE  LostInv'
<1> DEFINE n == Result("server")
<1>n. /\ taken["client"] \in Nat /\ reported["server"] \in Nat /\ begun["server"] \in Nat /\ Moved("server") \in Nat
      /\ Reached \in Nat /\ Header \in Nat \ {0} /\ Lost \in Int
  BY PendingIs
<1>1. /\ pc["server"] = "recv" /\ Returned("server") /\ taken' = taken /\ pc'["server"] = "received"
      /\ nleft' = (IF isburst /\ n > 0 THEN nleft - n ELSE nleft)
      /\ whole' = (IF isburst /\ n > 0 /\ nleft = n THEN whole + 1 ELSE whole)
      /\ ReportRead(begun["server"] + IF n = Fatal THEN 0 ELSE n)
  BY IdleMoves DEF GetsPayload, Quiet
<1>2. n \in Int /\ n >= -2 /\ nleft' \in Nat /\ (isburst /\ n > 0 => n <= nleft)  BY PayloadFits
<1>3. Moved("server") = (IF n > 0 THEN n ELSE 0)  BY <1>1 DEF Moved
<1>4. Lost = taken["client"] - (reported["server"] + (begun["server"] + Moved("server")))  BY <1>1 DEF Lost, Pending
<1>5. Lost' = taken["client"] - (reported'["server"] + 0)
  <2>1. Pending' = 0  BY <1>1 DEF Pending
  <2> QED BY <2>1, <1>1 DEF Lost
<1>6. 0 <= Lost /\ Lost <= Reached /\ (begun["server"] # 0 => Lost < Reached)
  <2>1. ~HeaderLost  BY <1>1 DEF HeaderLost
  <2> QED BY <2>1, <1>1 DEF LostInv
<1>7. Reached' = Reached
  <2>0. nleft \in Nat /\ whole \in Nat  BY Typed
  <2>1. CASE isburst /\ n > 0
    <3>1. nleft > 0 /\ nleft' = nleft - n  BY <1>1, <1>2, <2>0, <2>1
    <3>2. CASE nleft = n
      <4>1. nleft' = 0 /\ whole' = whole + 1  BY <3>1, <3>2, <1>1, <2>0, <2>1
      <4> QED BY <4>1, <3>1, <2>0 DEF Reached
    <3>3. CASE nleft # n
      <4>1. nleft' > 0 /\ whole' = whole  BY <3>1, <3>3, <1>1, <1>2, <2>0, <2>1
      <4> QED BY <4>1, <3>1 DEF Reached
    <3> QED BY <3>2, <3>3
  <2>2. CASE ~(isburst /\ n > 0)
    <3>1. nleft' = nleft /\ whole' = whole  BY <2>2, <1>1
    <3> QED BY <3>1 DEF Reached
  <2> QED BY <2>1, <2>2
<1> DEFINE k == begun["server"] + IF n = Fatal THEN 0 ELSE n
<1>8. reported'["server"] = (IF k > 0 THEN reported["server"] + k ELSE reported["server"])
  <2>1. k \in Int  BY <1>2, <1>n DEF Fatal
  <2> QED BY <2>1, <1>1, ReadReported
<1>9. Lost' \in Int /\ 0 <= Lost' /\ Lost' <= Reached
  <2>1. CASE n > 0
    <3>1. k = begun["server"] + n /\ k > 0 /\ Moved("server") = n  BY <2>1, <1>2, <1>3, <1>n DEF Fatal
    <3>2. reported'["server"] = reported["server"] + (begun["server"] + Moved("server"))  BY <3>1, <1>8
    <3> HIDE DEF n, k
    <3>3. Lost' = taken["client"] - (reported["server"] + (begun["server"] + Moved("server")) + 0)  BY <3>2, <1>5
    <3>4. begun["server"] + Moved("server") \in Nat  BY <1>n
    <3>5. Lost' = Lost  BY <3>3, <3>4, <1>4, <1>n, LostSums
    <3> QED BY <3>5, <1>6, <1>n
  <2>2. CASE n = 0 \/ n = Fatal
    <3>1. k = begun["server"] /\ Moved("server") = 0  BY <2>2, <1>2, <1>3, <1>n DEF Fatal
    <3>2. reported'["server"] = reported["server"] + (begun["server"] + Moved("server"))
      <4>1. begun["server"] + Moved("server") = begun["server"]  BY <3>1, <1>n
      <4>2. reported'["server"] = (IF begun["server"] > 0 THEN reported["server"] + begun["server"] ELSE reported["server"])
        BY <3>1, <1>8
      <4> HIDE DEF n, k
      <4>3. reported'["server"] = reported["server"] + begun["server"]  BY <4>2, <1>n
      <4> QED BY <4>1, <4>3
    <3> HIDE DEF n, k
    <3>3. Lost' = taken["client"] - (reported["server"] + (begun["server"] + Moved("server")) + 0)  BY <3>2, <1>5
    <3>4. begun["server"] + Moved("server") \in Nat  BY <1>n
    <3>5. Lost' = Lost  BY <3>3, <3>4, <1>4, <1>n, LostSums
    <3> QED BY <3>5, <1>6, <1>n
  <2>3. CASE n = -1
    <3>1. k = begun["server"] - 1 /\ Moved("server") = 0  BY <2>3, <1>2, <1>3, <1>n DEF Fatal
    <3>2. Lost = taken["client"] - (reported["server"] + begun["server"])
      <4>1. begun["server"] + Moved("server") = begun["server"]  BY <3>1, <1>n
      <4> QED BY <4>1, <1>4
    <3>3. reported'["server"] = (IF begun["server"] - 1 > 0 THEN reported["server"] + (begun["server"] - 1) ELSE reported["server"])
      BY <3>1, <1>8
    <3> HIDE DEF n, k
    <3>4. CASE begun["server"] = 0
      <4>1. reported'["server"] = reported["server"]  BY <3>3, <3>4
      <4>2. Lost' = Lost  BY <4>1, <3>2, <3>4, <1>5
      <4> QED BY <4>2, <1>6, <1>n
    <3>5. CASE begun["server"] # 0
      <4>1. reported'["server"] = reported["server"] + (begun["server"] - 1)
        <5>1. CASE begun["server"] = 1  BY <5>1, <3>3, <1>n
        <5>2. CASE begun["server"] # 1
          <6>1. begun["server"] - 1 > 0  BY <5>2, <3>5, <1>n
          <6> QED BY <6>1, <3>3
        <5> QED BY <5>1, <5>2
      <4>2. taken["client"] - (reported["server"] + (begun["server"] - 1) + 0) = taken["client"] - (reported["server"] + begun["server"]) + 1
        BY <1>n
      <4>3. Lost' = Lost + 1  BY <4>1, <4>2, <3>2, <1>5
      <4>4. 0 <= Lost /\ Lost < Reached  BY <1>6, <3>5
      <4> QED BY <4>3, <4>4, <1>n
    <3> QED BY <3>4, <3>5
  <2> QED BY <2>1, <2>2, <2>3, <1>2 DEF Fatal
<1>10. ~HeaderLost'  BY <1>1 DEF HeaderLost
<1> QED BY <1>1, <1>7, <1>9, <1>10 DEF LostInv

\* A header that was read is reported, or belongs to the read that follows.
LEMMA LostHeader ==
  ASSUME Base, ReadInv, LostInv, HeaderFits, GetsHeader
  PROVE  LostInv'
<1>n. /\ taken["client"] \in Nat /\ reported["server"] \in Nat /\ Reached \in Nat /\ Header \in Nat \ {0} /\ Lost \in Int
      /\ whole \in Nat
  BY PendingIs, Typed
<1>1. /\ pc["server"] = "header" /\ Returned("server") /\ Result("server") = Header /\ taken' = taken
      /\ IF nleft' = 0
           THEN whole' = whole + 1 /\ ReportRead(Header) /\ Idles("received")
           ELSE begun' = [begun EXCEPT !["server"] = Header] /\ UNCHANGED <<whole, reported>> /\ AskedBy("recv")
  BY DEF GetsHeader, Quiet
<1>2. nleft = 0 /\ Reached = whole
  <2>1. nleft = 0  BY <1>1 DEF Base, Shapes
  <2> QED BY <2>1, ReachedIs
<1>3. ~HeaderLost /\ Moved("server") = Header
  <2>1. Result("server") > 0  BY <1>1, <1>n
  <2> QED BY <2>1, <1>1, <1>n DEF HeaderLost, Moved
<1>4. Lost = taken["client"] - (reported["server"] + Header)  BY <1>1, <1>3 DEF Lost, Pending
<1>5. 0 <= Lost /\ Lost <= whole  BY <1>1, <1>2, <1>3 DEF LostInv
<1>6. CASE nleft' = 0
  <2>1. pc'["server"] = "received" /\ whole' = whole + 1  BY <1>1, <1>6, IdleMoves
  <2>2. reported'["server"] = reported["server"] + Header
    <3>1. ReportRead(Header)  BY <1>1, <1>6
    <3>2. reported'["server"] = (IF Header > 0 THEN reported["server"] + Header ELSE reported["server"])
      BY <3>1, <1>n, ReadReported
    <3> QED BY <3>2, <1>n
  <2>3. Pending' = 0  BY <2>1 DEF Pending
  <2>4. Lost' = Lost
    <3>1. Lost' = taken["client"] - (reported["server"] + Header + 0)  BY <2>2, <2>3, <1>1 DEF Lost
    <3> QED BY <3>1, <1>4, <1>n, LostSums
  <2>5. Reached' = whole + 1
    <3>1. ~(0 > 0) /\ whole + 1 + 0 = whole + 1  BY <1>n
    <3>2. Reached' = whole + 1 + 0  BY <3>1, <2>1, <1>6 DEF Reached
    <3> QED BY <3>1, <3>2
  <2>6. 0 <= Lost' /\ Lost' <= Reached'  BY <2>4, <2>5, <1>5, <1>n
  <2>7. ~HeaderLost'  BY <2>1 DEF HeaderLost
  <2> QED BY <2>1, <2>6, <2>7 DEF LostInv
<1>7. CASE nleft' # 0
  <2>1. pc'["server"] = "recv" /\ Moved("server")' = 0 /\ whole' = whole /\ reported' = reported
    BY <1>1, <1>7, AskedMoves
  <2>2. begun'["server"] = Header  BY <1>1, <1>7, Typed
  <2>3. Pending' = Header
    <3>1. Pending' = Header + 0  BY <2>1, <2>2 DEF Pending
    <3> QED BY <3>1, <1>n
  <2>4. Lost' = Lost  BY <2>1, <2>3, <1>1, <1>4 DEF Lost
  <2>5. Reached' = whole + 1
    <3>1. nleft' > 0
      <4>1. nleft' \in Nat
        <5>1. nleft' = SizeAt(taken["client"] - Header) - Header  BY DEF GetsHeader
        <5> QED BY <5>1, <1>1, <1>n DEF HeaderFits
      <4> QED BY <4>1, <1>7
    <3> QED BY <3>1, <2>1 DEF Reached
  <2>6. 0 <= Lost' /\ Lost' < Reached' /\ Lost' <= Reached'  BY <2>4, <2>5, <1>5, <1>n
  <2>7. ~HeaderLost'  BY <2>1 DEF HeaderLost
  <2> QED BY <2>1, <2>6, <2>7 DEF LostInv
<1> QED BY <1>6, <1>7

\* A step of the server that reports nothing loses nothing.
LEMMA LostQuiet ==
  ASSUME Base, ReadInv, LostInv, ClientSame, taken' = taken, reported' = reported, nleft' = nleft, whole' = whole,
         \/ pc["server"] = "loop" /\ pc'["server"] \in {"header", "recv"} /\ Moved("server")' = 0 /\ ~Returned("server")'
            /\ (pc'["server"] = "recv" => begun'["server"] = 0)
         \/ pc["server"] = "received" /\ pc'["server"] \in {"loop", "finish"}
         \/ pc["server"] = "finish" /\ pc'["server"] = "done"
  PROVE  LostInv'
<1>n. /\ Reached \in Nat /\ Missing \in Nat /\ Reached <= Missing /\ Lost \in Int
  BY PendingIs
<1>1. Pending = 0 /\ ~HeaderLost /\ pc["server"] \in {"loop", "received", "finish"}  BY DEF Pending, HeaderLost
<1>2. Pending' = 0 /\ ~HeaderLost'  BY DEF Pending, HeaderLost
<1>3. Lost' = Lost /\ Reached' = Reached /\ Missing' = Missing
  <2>1. isburst' <=> isburst  BY AccountsKept DEF ClientSame
  <2> QED BY <2>1, <1>1, <1>2 DEF Lost, Reached, Missing
<1>4. 0 <= Lost  BY DEF LostInv
<1>5. CASE pc["server"] \in {"loop", "received"}
  <2>1. Lost <= Reached  BY <1>1, <1>5 DEF LostInv
  <2>3. Lost <= Missing  BY <2>1, <1>n
  <2>4. pc'["server"] = "recv" => begun'["server"] = 0  BY <1>5
  <2> QED BY <2>1, <2>3, <2>4, <1>2, <1>3, <1>4 DEF LostInv
<1>6. CASE pc["server"] = "finish"
  <2>1. pc'["server"] = "done" /\ Lost <= Missing  BY <1>6 DEF LostInv
  <2> QED BY <2>1, <1>2, <1>3, <1>4 DEF LostInv
<1> QED BY <1>1, <1>5, <1>6

\* What a call of the server reads is pending, or lost with a header.
LEMMA LostCalls ==
  ASSUME Base, ReadInv, LostInv, Calls("server"), Loop # "bounce"
  PROVE  LostInv'
<1>0. CallStep("server")  BY CallSteps DEF Ends
<1>1. /\ UNCHANGED <<test, pc, bursts, begun, nleft, whole, reported>> /\ OpOf(pc["server"]) # "none" /\ ~Returned("server")
  BY <1>0 DEF CallStep, Loops, sender, receiver, results
<1>2. pc["server"] \in {"header", "recv"}
  <2>1. pc["server"] \in {"synch", "finish", "done", "loop", "received", "header", "recv"}  BY DEF Base, Places
  <2> QED BY <2>1, <1>1, Ops
<1>3. OpOf(pc["server"]) \in {"recv", "recvn"} /\ (OpOf(pc["server"]) = "recvn" => pc["server"] = "header")
  BY <1>2, Ops
<1>n. /\ taken["client"] \in Nat /\ reported["server"] \in Nat /\ begun["server"] \in Nat /\ Moved("server") \in Nat
      /\ Reached \in Nat /\ Missing \in Nat /\ Reached <= Missing /\ Header \in Nat \ {0} /\ Lost \in Int
  BY PendingIs
<1>4. ~HeaderLost /\ Reached' = Reached /\ Missing' = Missing
  <2>1. isburst' <=> isburst  BY <1>1, AccountsKept
  <2> QED BY <2>1, <1>1 DEF HeaderLost, Reached, Missing
<1>5. 0 <= Lost /\ Lost <= Reached /\ (pc["server"] = "recv" /\ begun["server"] # 0 => Lost < Reached)
  BY <1>2, <1>4 DEF LostInv
<1>7. Lost <= Missing  BY <1>5, <1>n
<1>8. ASSUME Lost' = Lost PROVE LostInv'
  BY <1>8, <1>1, <1>2, <1>4, <1>5, <1>7 DEF LostInv
<1>c. ~(\E n \in Nat \ {0} : Copies("server", n))  BY <1>3 DEF Copies
<1>m. Moved("server")' \in Nat
  <2>1. CASE \E n \in Nat \ {0} : Reads("server", n)
    <3>1. \E n \in Nat \ {0} : Moved("server")' = Moved("server") + n  BY <2>1 DEF Reads
    <3> QED BY <3>1, <1>n
  <2>2. CASE Returns("server")  BY <2>2, <1>n DEF Returns
  <2> QED BY <2>1, <2>2, <1>c, <1>0 DEF CallStep
<1> DEFINE b == IF pc["server"] = "recv" THEN begun["server"] ELSE 0
<1>9. /\ Lost = taken["client"] - (reported["server"] + (b + Moved("server"))) /\ b \in Nat
      /\ Lost' = taken'["client"] - (reported["server"] + (b + Moved("server")'))
  <2>1. CASE pc["server"] = "header"
    <3>1. pc["server"] # "recv" /\ pc'["server"] # "recv"  BY <2>1, <1>1
    <3>2. Pending = Moved("server") /\ Pending' = Moved("server")' /\ b = 0  BY <2>1, <3>1, <1>1 DEF Pending
    <3>4. 0 + Moved("server") = Moved("server") /\ 0 + Moved("server")' = Moved("server")'  BY <1>m, <1>n
    <3> QED BY <3>2, <3>4, <1>1 DEF Lost
  <2>2. CASE pc["server"] = "recv"
    <3>1. Pending = begun["server"] + Moved("server") /\ Pending' = begun["server"] + Moved("server")' /\ b = begun["server"]
      BY <2>2, <1>1 DEF Pending
    <3> QED BY <3>1, <1>1, <1>n DEF Lost
  <2> QED BY <2>1, <2>2, <1>2
<1>10. CASE \E n \in Nat \ {0} : Reads("server", n)
  <2>1. PICK n \in Nat \ {0} : Reads("server", n)  BY <1>10
  <2>2. taken'["client"] = taken["client"] + n /\ Moved("server")' = Moved("server") + n
    BY <2>1, PeerOf, Typed DEF Reads
  <2>3. (taken["client"] + n) - (reported["server"] + (b + (Moved("server") + n))) = taken["client"] - (reported["server"] + (b + Moved("server")))
    <3>1. b \in Nat  BY <1>9
    <3> HIDE DEF b
    <3> QED BY <3>1, <1>n, <2>1
  <2>4. Lost' = Lost
    <3> HIDE DEF b
    <3> QED BY <2>2, <2>3, <1>9
  <2> QED BY <2>4, <1>8
<1>11. CASE Returns("server") /\ Moved("server")' = Moved("server")
  <2>1. taken' = taken  BY <1>11 DEF Returns
  <2>2. Lost' = Lost
    <3> HIDE DEF b
    <3> QED BY <2>1, <1>9, <1>11
  <2> QED BY <2>2, <1>8
<1>12. CASE Returns("server") /\ ~(Moved("server")' = Moved("server"))
  <2>1. taken' = taken /\ OpOf(pc["server"]) = "recvn" /\ Result("server")' < 0 /\ Moved("server")' = 0 /\ Returned("server")'
    BY <1>12 DEF Returns
  <2>2. pc["server"] = "header"  BY <2>1, <1>3
  <2>3. HeaderLost'  BY <2>1, <2>2, <1>1 DEF HeaderLost
  <2>4. Lost' = Lost + Moved("server")
    <3>1. b = 0  BY <2>2
    <3> HIDE DEF b
    <3>2. Lost' = taken["client"] - (reported["server"] + (0 + 0)) /\ Lost = taken["client"] - (reported["server"] + (0 + Moved("server")))
      BY <3>1, <2>1, <1>9
    <3> QED BY <3>2, <1>n
  <2>5. Moved("server") <= Header - 1 /\ Missing = Reached + (Header - 1)
    <3>1. OpOf(pc["server"]) # "none" /\ Asked("server") = Header  BY <2>2, Ops DEF Asked
    <3>2. Moved("server") < Header  BY <3>1, <1>1, MovedFits DEF Ends
    <3>3. isburst /\ nleft = 0  BY <2>2 DEF Base, Shapes
    <3>4. Reached = whole /\ ~(nleft > 0)  BY <3>3, ReachedIs
    <3> QED BY <3>2, <3>3, <3>4, <1>n DEF Missing
  <2>6. 0 <= Lost' /\ Lost' <= Missing  BY <2>4, <2>5, <1>5, <1>n
  <2>7. pc'["server"] # "recv"  BY <2>2, <1>1
  <2> QED BY <2>3, <2>6, <2>7, <1>1, <1>4 DEF LostInv
<1> QED BY <1>0, <1>10, <1>11, <1>12, <1>c DEF CallStep

\* Every step keeps what may be lost.
LEMMA LostStep ==
  ASSUME Aligned, HasFirst, LostInv, Loop # "bounce", [Next]_vars PROVE LostInv'
<1>0. Base /\ BurstInv /\ ReadInv  BY DEF Aligned
<1>1. CASE Beside  BY <1>0, <1>1, BesideStays, LostStays
<1>2. CASE Calls("server")  BY <1>0, <1>2, LostCalls
<1>3. CASE Server
  <2>0. HeaderFits /\ ClientSame  BY <1>0, <1>3, HeadersFit, ServerSteps
  <2>1. ServerDoes  BY <2>0, <1>0, <1>3, ServerSorts DEF HeaderFits
  <2>2. CASE \E n \in Nat : ReadsFirst(n)  BY <2>2, <2>0, <1>0, LostFirst DEF ClientSame
  <2>3. CASE GivesUp  BY <2>3, <2>0, <1>0, LostLeaves
  <2>4. CASE AsksHeader
    <3>1. pc["server"] = "loop" /\ AskedBy("header") /\ UNCHANGED <<taken, reported, nleft, whole>>
      BY <2>4 DEF AsksHeader, Quiet
    <3>2. pc'["server"] = "header" /\ Moved("server")' = 0 /\ ~Returned("server")'  BY <3>1, <1>0, AskedMoves
    <3> QED BY <3>1, <3>2, <2>0, <1>0, LostQuiet
  <2>5. CASE GetsHeader  BY <2>5, <2>0, <1>0, LostHeader
  <2>6. CASE AsksPayload
    <3>1. pc["server"] = "loop" /\ AskedBy("recv") /\ UNCHANGED <<taken, reported, nleft, whole>>
          /\ begun' = [begun EXCEPT !["server"] = 0]
      BY <2>6 DEF AsksPayload, Quiet
    <3>2. pc'["server"] = "recv" /\ Moved("server")' = 0 /\ ~Returned("server")'  BY <3>1, <1>0, AskedMoves
    <3>3. begun'["server"] = 0  BY <3>1, <1>0, Typed
    <3> QED BY <3>1, <3>2, <3>3, <2>0, <1>0, LostQuiet
  <2>7. CASE GetsPayload  BY <2>7, <1>0, LostPayload
  <2>8. CASE ReadsOn
    <3>1. pc["server"] = "received" /\ pc'["server"] \in {"loop", "finish"} /\ UNCHANGED <<taken, reported, nleft, whole>>
      BY <2>8, <1>0, Typed DEF ReadsOn, Quiet
    <3> QED BY <3>1, <2>0, <1>0, LostQuiet
  <2>9. CASE Departs
    <3>1. pc["server"] = "finish" /\ pc'["server"] = "done" /\ UNCHANGED <<taken, reported, nleft, whole>>
      BY <2>9, <1>0, Typed DEF Departs
    <3> QED BY <3>1, <2>0, <1>0, LostQuiet
  <2>10. ~Answers  BY DEF Answers
  <2> QED BY <2>1, <2>2, <2>3, <2>4, <2>5, <2>6, <2>7, <2>8, <2>9, <2>10 DEF ServerDoes
<1> QED BY <1>1, <1>2, <1>3, ServerStepSorts

-----------------------------------------------------------------------------
\* The tests whose server has no end of its own, and that nobody interrupts.
ToEOF == Unlimited /\ interrupted = {} /\ Loop # "bounce" /\ pc["client"] # "failed"
\* The client sends no more, and all of it has been read.
ReadAll == "client" \in shut /\ taken["client"] = sent["client"]
\* The server has the amount of a reverse test, and there is no more than that.
AtAmount == /\ taken["client"] = test.amount /\ sent["client"] = test.amount
            /\ Loop = "stream" /\ ~isburst /\ ~Is("ModeTime") /\ Is("Reverse")
\* It reads bursts, and is between two of them.
Between == isburst /\ nleft = 0 /\ taken["client"] - Pos(whole) \in 0 .. Header - 1

\* The server's total has not more than its report.
TotalInv ==
  /\ pc["server"] = "synch" => total["server"] = 0
  /\ Reading => FirstPayload <= reported["server"] /\ FirstPayload + total["server"] <= reported["server"]

\* A payload without bytes is the end of the stream or a timeout; a header that
\* a timeout has cut belongs to the next burst.
EOFReads ==
  /\ pc["server"] = "recv" /\ Returned("server") => Result("server") # Fatal /\ (Result("server") = 0 => ReadAll)
  /\ HeaderLost => Between
\* A server takes the client for gone, and leaves, where it should.
EOFLeaves ==
  /\ "server" \in peerclose /\ pc["server"] \notin {"finish", "done"} => ReadAll /\ pc["server"] \in {"received", "loop"}
  /\ pc["server"] \in {"finish", "done"} => ReadAll \/ AtAmount \/ Between
EOFInv == ToEOF => EOFReads /\ EOFLeaves

\* Not more than the amount is sent.
Bounded == Loop = "stream" /\ ~isburst /\ ~Is("ModeTime") => sent["client"] <= test.amount
\* That is what the amount gives.
LEMMA AmountBound == Base /\ AmountInv => Bounded
BY SentAmount DEF Bounded

\* Such a server has no end of its own, and answers nothing.
LEMMA ToEOFIs ==
  ASSUME Base, ToEOF
  PROVE  /\ Loop # "bounce" /\ ~HasEnd("server") /\ interrupted = {}
         /\ (Is("Reverse") /\ ~Is("ModeTime") => Loop = "stream" /\ ~isburst)
         /\ sent["server"] = 0 /\ taken["server"] = 0
<1>1. Loop # "bounce"  BY DEF ToEOF
<1> QED BY <1>1 DEF ToEOF, Unlimited, Base, Ended

\* What a call of the server returns without bytes.
LEMMA RecvCalls ==
  ASSUME Base, ToEOF, Calls("server"), pc["server"] = "recv", Returned("server")'
  PROVE  \/ Result("server")' \in Nat \ {0}
         \/ Result("server")' = 0 /\ ReadAll /\ taken' = taken
         \/ Result("server")' = Again
<1>0. CallStep("server")  BY CallSteps DEF Ends
<1>1. sent["server"] = 0 /\ taken["server"] = 0 /\ ~Returned("server") /\ OpOf("recv") = "recv"
  BY <1>0, ToEOFIs, Ops DEF CallStep
<1>2. call["server"].op = "recv" /\ call["server"].done = 0
  <2>1. CallOk("server")  BY DEF Base, Calling
  <2>2. OpOf(pc["server"]) = "recv"  BY <1>1
  <2> QED BY <2>1, <2>2, <1>1 DEF CallOk
<1>n. taken["client"] \in Nat /\ sent["client"] \in Nat /\ call \in [Ends -> CallType] /\ "server" \in Ends
  BY Typed
<1>r. ASSUME NEW n, Return("server", n) PROVE Result("server")' = n
  <2>1. call'["server"] = [op |-> "returned", len |-> n, done |-> 0]  BY <1>r, <1>n DEF Return, CallType
  <2> QED BY <2>1 DEF Result
<1>3. CASE Receive("server")
  <2> DEFINE n == Min({call["server"].len - call["server"].done, Available("server")})
  <2>1. n > 0 /\ Return("server", call["server"].done + n)  BY <1>3, <1>2 DEF Receive
  <2>2. n \in Int
    <3>1. Available("server") = sent["client"] - taken["client"]  BY PeerOf DEF Available
    <3>2. Available("server") \in Int  BY <3>1, <1>n
    <3>3. call["server"].len \in Int  BY <1>n DEF CallType
    <3>4. call["server"].len - call["server"].done \in Int  BY <3>3, <1>2
    <3>5. n = Less(call["server"].len - call["server"].done, Available("server"))  BY <3>2, <3>4, MinOf
    <3> QED BY <3>2, <3>4, <3>5 DEF Less
  <2> HIDE DEF n
  <2>3. Result("server")' = call["server"].done + n  BY <2>1, <1>r
  <2> QED BY <2>1, <2>2, <2>3, <1>2
<1>4. CASE RecvEnds("server")
  <2>1. ~Reset("server")  BY <1>1 DEF Reset
  <2>2. /\ taken' = taken
        /\ \/ Available("server") = 0 /\ "client" \in shut /\ Return("server", 0)
           \/ Return("server", Again)
    BY <1>4, <2>1, PeerOf DEF RecvEnds, wire, bytes
  <2>3. CASE Return("server", Again)  BY <2>3, <1>r
  <2>4. CASE Available("server") = 0 /\ "client" \in shut /\ Return("server", 0)
    <3>1. sent["client"] - taken["client"] = 0  BY <2>4, PeerOf DEF Available
    <3>2. taken["client"] = sent["client"]  BY <3>1, <1>n
    <3>3. Result("server")' = 0  BY <2>4, <1>r
    <3> QED BY <3>2, <3>3, <2>2, <2>4 DEF ReadAll
  <2> QED BY <2>2, <2>3, <2>4
<1>5. Receive("server") \/ RecvEnds("server")
  BY <1>2 DEF Calls, Kernel, Copy, WriteFails, WritenEnds, RecvnEnds
<1> QED BY <1>3, <1>4, <1>5

\* The client sends more or as much, and no more once it has closed its side.
LEMMA SentGrows ==
  ASSUME Base, Loop # "bounce", [Next]_vars
  PROVE  /\ test' = test /\ sent["client"] <= sent'["client"] /\ sent'["client"] \in Nat
         /\ ("client" \in shut => "client" \in shut' /\ sent'["client"] = sent["client"])
         /\ (pc["client"] = "failed" => pc'["client"] = "failed")
         /\ interrupted \subseteq interrupted'
<1>n. sent["client"] \in Nat /\ FirstPayload \in Nat  BY Numbers, Settings DEF Base
<1>e. "client" \in shut => pc["client"] \in {"await", "report", "done", "failed"}  BY DEF Base, Ended
<1>1. CASE Client
  <2>c. ClientDoes /\ (ClientBounces => Bounces)  BY <1>1, ClientSorts, BounceSorts
  <2>s. test' = test /\ interrupted' = interrupted  BY <1>1, ClientSteps DEF ServerSame
  <2>1. CASE (\E l, size : StartsBurst(l, size)) \/ (\E l : StartsWrite(l))
    <3>1. pc["client"] = "loop" /\ sent'["client"] = sent["client"]  BY <2>1, BeginFacts DEF Frozen
    <3> QED BY <3>1, <2>s, <1>n, <1>e
  <2>2. CASE Resumes
    <3>1. pc["client"] = "rate burst" /\ sent'["client"] = sent["client"]  BY <2>2 DEF Resumes, Held
    <3>2. pc["client"] \notin {"await", "report", "done", "failed"}  BY <3>1
    <3>3. sent["client"] <= sent["client"]  BY <1>n
    <3> QED BY <3>1, <3>2, <3>3, <2>s, <1>n, <1>e
  <2>3. CASE \E n \in Nat : EndsWrite(n)
    <3>1. pc["client"] \in Writes /\ sent'["client"] = sent["client"]  BY <2>3, EndFacts
    <3>2. pc["client"] \notin {"await", "report", "done", "failed"}  BY <3>1 DEF Writes
    <3> QED BY <3>1, <3>2, <2>s, <1>n, <1>e
  <2>4. CASE FailsWrite
    <3>1. pc["client"] \in Writes /\ sent'["client"] = sent["client"]  BY <2>4, FailFacts DEF Frozen
    <3>2. pc["client"] \notin {"await", "report", "done", "failed"}  BY <3>1 DEF Writes
    <3> QED BY <3>1, <3>2, <2>s, <1>n, <1>e
  <2>5. CASE Leaves
    <3>1. sent'["client"] = sent["client"] /\ (pc["client"] = "failed" => pc'["client"] = "failed")  BY <2>5, LeaveFacts
    <3>2. "client" \in shut => "client" \in shut'  BY <2>5 DEF Leaves
    <3> QED BY <3>1, <3>2, <2>s, <1>n
  <2>6. CASE Starts
    <3>1. pc["client"] = "synch" /\ sent'["client"] = FirstPayload  BY <2>6, StartFacts
    <3>2. sent["client"] = 0  BY <3>1 DEF Base, Ended
    <3> QED BY <3>1, <3>2, <2>s, <1>n, <1>e
  <2>7. ~Bounces  BY DEF Bounces
  <2> QED BY <2>1, <2>2, <2>3, <2>4, <2>5, <2>6, <2>7, <2>c DEF ClientDoes
<1>2. CASE Calls("client")
  <2>1. /\ pc["client"] \in Writes /\ test' = test /\ pc' = pc /\ interrupted' = interrupted
        /\ \E n \in Nat : sent'["client"] = sent["client"] + n
    BY <1>2, CallFacts
  <2>2. pc["client"] \notin {"await", "report", "done", "failed"}  BY <2>1 DEF Writes
  <2>3. sent["client"] <= sent'["client"] /\ sent'["client"] \in Nat  BY <2>1, <1>n
  <2> QED BY <2>1, <2>2, <2>3, <1>e
<1>3. CASE Aside
  <2>1. ClientStays  BY <1>3, AsideStays
  <2>2. sent["client"] <= sent["client"]  BY <1>n
  <2> QED BY <2>1, <2>2, <1>n DEF ClientStays
<1> QED BY <1>1, <1>2, <1>3, StepSorts

\* A test without an end at the server was so before.
LEMMA EOFBack ==
  ASSUME Base, Loop # "bounce", [Next]_vars, ToEOF' PROVE ToEOF /\ interrupted' = {}
<1>1. test' = test /\ (pc["client"] = "failed" => pc'["client"] = "failed") /\ interrupted \subseteq interrupted'
  BY SentGrows
<1>2. Loop' = Loop /\ (Unlimited' <=> Unlimited)  BY <1>1, AccountsKept
<1> QED BY <1>1, <1>2 DEF ToEOF

\* What was all is all.
LEMMA AllStays ==
  ASSUME Base, Loop # "bounce", [Next]_vars, Bounded', taken'["client"] = taken["client"]
  PROVE  (ReadAll => ReadAll') /\ (AtAmount => AtAmount')
<1>1. test' = test /\ sent["client"] <= sent'["client"] /\ sent'["client"] \in Nat
      /\ ("client" \in shut => "client" \in shut' /\ sent'["client"] = sent["client"])
  BY SentGrows
<1>2. Loop' = Loop /\ (isburst' <=> isburst) /\ (Is("ModeTime")' <=> Is("ModeTime")) /\ (Is("Reverse")' <=> Is("Reverse"))
  BY <1>1, AccountsKept
<1>3. ReadAll => ReadAll'  BY <1>1 DEF ReadAll
<1>4. ASSUME AtAmount PROVE AtAmount'
  <2>1. sent'["client"] <= test.amount  BY <1>1, <1>2, <1>4 DEF Bounded, AtAmount
  <2>2. sent["client"] = test.amount  BY <1>4 DEF AtAmount
  <2>3. sent'["client"] = test.amount
    <3>1. test.amount \in Nat  BY Settings DEF Base
    <3> QED BY <2>1, <2>2, <3>1, <1>1
  <2> QED BY <2>3, <1>1, <1>2, <1>4 DEF AtAmount
<1> QED BY <1>3, <1>4

\* A server between two bursts stays there while it reads nothing.
LEMMA BetweenStays ==
  ASSUME Base, ReadInv, Between, UNCHANGED <<test, nleft, whole>>, taken'["client"] = taken["client"],
         \A i \in 1 .. Len(bursts) : bursts'[i] = bursts[i]
  PROVE  Between'
<1>1. (isburst' <=> isburst) /\ FirstPayload' = FirstPayload  BY AccountsKept
<1>2. whole \in Nat /\ whole <= Len(bursts) /\ Len(bursts) \in Nat
  <2>1. nleft = 0  BY DEF Between
  <2> QED BY <2>1, ReachedIs, BurstIs DEF ReadInv
<1>3. Pos(whole)' = Pos(whole)
  <2>1. CASE whole = 0  BY <2>1, <1>1 DEF Pos
  <2>2. CASE whole # 0
    <3>1. whole \in 1 .. Len(bursts)  BY <2>2, <1>2
    <3>2. bursts'[whole] = bursts[whole]  BY <3>1
    <3> QED BY <3>2, <2>2 DEF Pos, End
  <2> QED BY <2>1, <2>2
<1> QED BY <1>1, <1>3 DEF Between

\* A server that has read a part of a header is between two bursts.
LEMMA PartBetween ==
  ASSUME Base, BurstInv, ReadInv, pc["server"] = "header", ~HeaderLost, Moved("server") <= Header - 1
  PROVE  Between
<1>1. isburst /\ nleft = 0 /\ Reading  BY DEF Base, Shapes, Reading
<1>2. Along  BY <1>1, ReadingOpen
<1>3. Reached = whole /\ whole \in Nat /\ whole <= Len(bursts)  BY <1>1, ReachedIs DEF ReadInv
<1>4. taken["client"] - Moved("server") + 0 = Pos(whole)  BY <1>1, <1>3 DEF ReadInv
<1>n. taken["client"] \in Nat /\ Moved("server") \in Nat /\ Header \in Nat \ {0}  BY PendingIs
<1>5. Pos(whole) \in Nat  BY <1>2, <1>3, BurstsOrder
<1>6. taken["client"] - Pos(whole) = Moved("server")  BY <1>4, <1>5, <1>n
<1> QED BY <1>1, <1>6, <1>n DEF Between

\* A step beside the server leaves its accounts.
LEMMA EOFBeside ==
  ASSUME Base, ReadInv, Loop # "bounce", [Next]_vars, Beside, Bounded', EOFInv PROVE EOFInv'
<1> SUFFICES ASSUME ToEOF' PROVE EOFReads' /\ EOFLeaves'  BY DEF EOFInv
<1>1. EOFReads /\ EOFLeaves  BY EOFBack DEF EOFInv
<1>2. ServerStays  BY BesideStays
<1>3. (ReadAll => ReadAll') /\ (AtAmount => AtAmount')  BY <1>2, AllStays DEF ServerStays
<1>4. Between => Between'  BY <1>2, BetweenStays DEF ServerStays
<1>5. HeaderLost' => HeaderLost  BY <1>2 DEF ServerStays, HeaderLost
<1>6. EOFReads'  BY <1>1, <1>2, <1>3, <1>4, <1>5 DEF ServerStays, EOFReads
<1>7. EOFLeaves'  BY <1>1, <1>2, <1>3, <1>4 DEF ServerStays, EOFLeaves
<1> QED BY <1>6, <1>7

\* What a report adds the total does not exceed.
LEMMA TotalAdds ==
  ASSUME Base, NEW k \in Int, Total("server", k), ReportRead(k), test' = test,
         FirstPayload <= reported["server"], FirstPayload + total["server"] <= reported["server"]
  PROVE  FirstPayload' <= reported'["server"] /\ FirstPayload' + total'["server"] <= reported'["server"]
<1>n. reported["server"] \in Nat /\ FirstPayload \in Nat /\ total["server"] \in Int
  BY Typed, Settings DEF Base
<1>1. total'["server"] = (IF total["server"] + k >= -2 THEN total["server"] + k ELSE -2)
  BY TotalIs DEF Base, Ends
<1>2. reported'["server"] = (IF k > 0 THEN reported["server"] + k ELSE reported["server"])  BY ReadReported
<1>3. FirstPayload' = FirstPayload  BY AccountsKept
<1>4. FirstPayload <= reported'["server"] /\ reported'["server"] \in Nat /\ reported'["server"] >= reported["server"] + k
  BY <1>2, <1>n
<1>5. FirstPayload + total'["server"] <= reported'["server"]
  <2>1. CASE total["server"] + k >= -2
    <3>1. total'["server"] = total["server"] + k  BY <2>1, <1>1
    <3> QED BY <3>1, <1>4, <1>n
  <2>2. CASE ~(total["server"] + k >= -2)
    <3>1. total'["server"] = -2  BY <2>2, <1>1
    <3> QED BY <3>1, <1>4, <1>n
  <2> QED BY <2>1, <2>2
<1> QED BY <1>3, <1>4, <1>5

\* Every step keeps the total of the server below its report.
LEMMA TotalStep ==
  ASSUME Aligned, TotalInv, Loop # "bounce", [Next]_vars PROVE TotalInv'
<1>0. Base /\ BurstInv /\ ReadInv  BY DEF Aligned
<1>1. test' = test /\ FirstPayload' = FirstPayload
  <2>1. test' = test  BY <1>0, SentGrows
  <2> QED BY <2>1, AccountsKept
<1>n. reported["server"] \in Nat /\ FirstPayload \in Nat  BY <1>0, PendingIs, Settings DEF Base
<1>2. CASE Beside
  <2>1. ServerStays  BY <1>0, <1>2, BesideStays
  <2>2. Reading' <=> Reading  BY <2>1 DEF ServerStays, Reading
  <2> QED BY <2>1, <2>2, <1>1 DEF TotalInv, ServerStays
<1>3. CASE Calls("server")
  <2>1. CallStep("server")  BY <1>0, <1>3, CallSteps DEF Ends
  <2>2. UNCHANGED <<pc, total, reported>>  BY <2>1 DEF CallStep, Loops, results
  <2> QED BY <2>2, <1>1 DEF TotalInv, Reading
<1>4. CASE Server
  <2>0. HeaderFits  BY <1>0, HeadersFit
  <2>1. ServerDoes  BY <2>0, <1>0, <1>4, ServerSorts DEF HeaderFits
  <2>2. CASE \E n \in Nat : ReadsFirst(n)
    <3>1. PICK n \in Nat : ReadsFirst(n)  BY <2>2
    <3>2. /\ pc["server"] = "synch" /\ total' = total
          /\ \/ pc' = [pc EXCEPT !["server"] = "loop"] /\ ReportRead(FirstPayload)
             \/ pc' = pc
      BY <3>1 DEF ReadsFirst, First, Loop
    <3>3. total'["server"] = 0  BY <3>2 DEF TotalInv
    <3>4. CASE pc' = pc  BY <3>2, <3>3, <3>4 DEF TotalInv, Reading
    <3>5. CASE pc' = [pc EXCEPT !["server"] = "loop"] /\ ReportRead(FirstPayload)
      <4>1. reported'["server"] = (IF FirstPayload > 0 THEN reported["server"] + FirstPayload ELSE reported["server"])
        BY <3>5, <1>0, <1>n, ReadReported
      <4>2. FirstPayload <= reported'["server"] /\ FirstPayload + 0 <= reported'["server"]  BY <4>1, <1>n
      <4> QED BY <4>2, <3>3, <1>1 DEF TotalInv
    <3> QED BY <3>2, <3>4, <3>5
  <2>3. CASE GivesUp \/ Departs
    <3>1. pc'["server"] \in {"finish", "done"}  BY <2>3, <1>0, IdleMoves, Typed DEF GivesUp, Departs
    <3> QED BY <3>1 DEF TotalInv, Reading
  <2>4. CASE AsksHeader \/ AsksPayload \/ ReadsOn
    <3>1. pc["server"] \in {"loop", "received"} /\ UNCHANGED <<total, reported>>
      BY <2>4 DEF AsksHeader, AsksPayload, ReadsOn
    <3>2. pc'["server"] # "synch"
      <4>1. CASE AsksHeader \/ AsksPayload
        <5>1. AskedBy("header") \/ AskedBy("recv")  BY <4>1 DEF AsksHeader, AsksPayload
        <5> QED BY <5>1, <1>0, AskedMoves
      <4>2. CASE ReadsOn
        <5>1. pc' = [pc EXCEPT !["server"] = IF Enough THEN "finish" ELSE "loop"]  BY <4>2 DEF ReadsOn
        <5> HIDE DEF Enough
        <5> QED BY <5>1, <1>0, Typed
      <4> QED BY <2>4, <4>1, <4>2
    <3> QED BY <3>1, <3>2, <1>1 DEF TotalInv, Reading
  <2>5. CASE GetsHeader
    <3>1. /\ pc["server"] = "header"
          /\ \/ Total("server", Header) /\ ReportRead(Header) /\ Idles("received")
             \/ UNCHANGED <<total, reported>> /\ AskedBy("recv")
      BY <2>5 DEF GetsHeader
    <3>2. FirstPayload <= reported["server"] /\ FirstPayload + total["server"] <= reported["server"]
      BY <3>1 DEF TotalInv, Reading
    <3>3. pc'["server"] # "synch"  BY <3>1, <1>0, IdleMoves, AskedMoves
    <3>4. Header \in Int  BY <1>0, Numbers
    <3> QED BY <3>1, <3>2, <3>3, <3>4, <1>0, <1>1, TotalAdds DEF TotalInv
  <2>6. CASE GetsPayload
    <3> DEFINE n == Result("server")  k == begun["server"] + IF n = Fatal THEN 0 ELSE n
    <3>1. pc["server"] = "recv" /\ Idles("received") /\ Total("server", k) /\ ReportRead(k)
      BY <2>6 DEF GetsPayload
    <3>2. FirstPayload <= reported["server"] /\ FirstPayload + total["server"] <= reported["server"]
      BY <3>1 DEF TotalInv, Reading
    <3>3. pc'["server"] # "synch"  BY <3>1, <1>0, IdleMoves
    <3>4. k \in Int
      <4>1. n \in Int  BY <2>6, <1>0, PayloadFits
      <4>2. begun["server"] \in Nat  BY <1>0, Typed
      <4> HIDE DEF n
      <4> QED BY <4>1, <4>2
    <3> HIDE DEF n, k
    <3> QED BY <3>1, <3>2, <3>3, <3>4, <1>0, <1>1, TotalAdds DEF TotalInv
  <2>7. ~Answers  BY DEF Answers
  <2> QED BY <2>1, <2>2, <2>3, <2>4, <2>5, <2>6, <2>7 DEF ServerDoes
<1> QED BY <1>2, <1>3, <1>4, ServerStepSorts

\* Such a server gives up where there is no more, or at a header.
LEMMA EOFEnds ==
  ASSUME Base, BurstInv, ReadInv, HasFirst, ToEOF, EOFReads, EOFLeaves, GivesUp, ReadAll => ReadAll', Between => Between'
  PROVE  EOFReads' /\ EOFLeaves'
<1>n. taken["client"] \in Nat /\ begun["server"] \in Nat /\ sent["client"] \in Nat /\ FirstPayload \in Nat /\ Header \in Nat \ {0}
  BY PendingIs, Typed, Settings DEF Base
<1>b. Loop # "bounce" /\ interrupted = {} /\ ~HasEnd("server")  BY ToEOFIs
<1>1. pc'["server"] = "finish"  BY IdleMoves DEF GivesUp
<1>2. SUFFICES ReadAll \/ Between
  BY <1>1 DEF EOFReads, EOFLeaves, HeaderLost
<1>3. CASE pc["server"] = "synch"
  <2>1. "client" \in shut /\ Available("server") = 0 /\ begun["server"] < First  BY <1>3 DEF GivesUp
  <2>2. pc["client"] # "synch"  BY <2>1 DEF Base, Ended
  <2>3. FirstPayload <= sent["client"] /\ First = FirstPayload  BY <2>2, <1>b DEF HasFirst, First, Loop
  <2>4. sent["client"] - taken["client"] = 0  BY <2>1, PeerOf DEF Available
  <2>5. taken["client"] = begun["server"]  BY <1>3, <1>b DEF ReadInv
  <2>6. sent["client"] = taken["client"]  BY <2>4, <1>n
  <2>7. begun["server"] < FirstPayload /\ FirstPayload <= begun["server"]  BY <2>1, <2>3, <2>5, <2>6
  <2> QED BY <2>7, <1>n
<1>4. CASE pc["server"] = "loop"
  <2>1. "server" \in peerclose
    <3>1. ~InProgress("server")  BY <1>4 DEF GivesUp
    <3> QED BY <3>1, <1>b DEF InProgress
  <2> QED BY <2>1, <1>4 DEF EOFLeaves
<1>5. CASE pc["server"] = "header"
  <2>1. CASE HeaderLost  BY <2>1 DEF EOFReads
  <2>2. CASE ~HeaderLost
    <3>1. Returned("server") /\ Result("server") # Header  BY <1>5 DEF GivesUp
    <3>2. OpOf(pc["server"]) # "none" /\ Asked("server") = Header  BY <1>5, Ops DEF Asked
    <3>3. /\ Result("server") \in Int /\ Result("server") <= Header
          /\ Moved("server") = (IF Result("server") > 0 THEN Result("server") ELSE 0)
      BY <3>1, <3>2, ResultIs DEF Ends
    <3>4. Moved("server") <= Header - 1  BY <3>1, <3>3, <1>n
    <3> QED BY <3>4, <2>2, <1>5, PartBetween
  <2> QED BY <2>1, <2>2
<1>6. pc["server"] \in {"synch", "loop", "header"}
  <2>1. pc["server"] \notin {"answer", "listen", "listening"}  BY <1>b DEF Base, Places
  <2> QED BY <2>1 DEF GivesUp
<1> QED BY <1>3, <1>4, <1>5, <1>6

\* A server reads on while it takes the client for there.
LEMMA EOFAsks ==
  ASSUME Base, Loop # "bounce", EOFLeaves,
         (\E n \in Nat : ReadsFirst(n)) \/ AsksHeader \/ GetsHeader \/ AsksPayload
  PROVE  EOFReads' /\ EOFLeaves'
<1>1. /\ pc'["server"] \in {"synch", "loop", "header", "recv", "received"} /\ ~Returned("server")'
      /\ "server" \notin peerclose'
  <2>1. CASE \E n \in Nat : ReadsFirst(n)
    <3>1. /\ pc["server"] = "synch" /\ peerclose' = peerclose /\ call' = call
          /\ (pc' = pc \/ pc' = [pc EXCEPT !["server"] = "loop"])
      BY <2>1 DEF ReadsFirst
    <3>2. OpOf(pc["server"]) = "none"  BY <3>1, Ops
    <3>3. ~Returned("server")  BY <3>2, NoneMoved DEF Ends
    <3> QED BY <3>1, <3>3, Typed DEF EOFLeaves, Returned
  <2>2. CASE AsksHeader \/ AsksPayload
    <3>1. "server" \notin peerclose' /\ (AskedBy("header") \/ AskedBy("recv"))  BY <2>2 DEF AsksHeader, AsksPayload
    <3> QED BY <3>1, AskedMoves
  <2>3. CASE GetsHeader
    <3>1. pc["server"] = "header" /\ peerclose' = peerclose /\ (Idles("received") \/ AskedBy("recv"))
      BY <2>3 DEF GetsHeader
    <3> QED BY <3>1, IdleMoves, AskedMoves DEF EOFLeaves
  <2> QED BY <2>1, <2>2, <2>3
<1> QED BY <1>1 DEF EOFReads, EOFLeaves, HeaderLost

\* After the last payload there is none.
LEMMA EOFPayload ==
  ASSUME Base, EOFReads, EOFLeaves, GetsPayload, ReadAll => ReadAll'
  PROVE  EOFReads' /\ EOFLeaves'
<1> DEFINE n == Result("server")
<1>1. /\ pc["server"] = "recv" /\ Returned("server") /\ pc'["server"] = "received" /\ ~Returned("server")'
      /\ peerclose' = IF n \in {0, Fatal} THEN peerclose \cup {"server"} ELSE peerclose
  BY IdleMoves DEF GetsPayload
<1>2. "server" \notin peerclose /\ n # Fatal /\ (n = 0 => ReadAll)  BY <1>1 DEF EOFLeaves, EOFReads
<1>3. "server" \in peerclose' => ReadAll'  BY <1>1, <1>2
<1> QED BY <1>1, <1>3 DEF EOFReads, EOFLeaves, HeaderLost

\* A server that has enough has the amount, and no more was sent.
LEMMA EOFEnough ==
  ASSUME Base, LostInv, TotalInv, ToEOF, Bounded, pc["server"] = "received", Enough
  PROVE  AtAmount
<1>1. Loop = "stream" /\ ~isburst /\ ~Is("ModeTime") /\ Is("Reverse") /\ total["server"] >= test.amount
  BY ToEOFIs DEF Enough
<1>2. sent["client"] <= test.amount  BY <1>1 DEF Bounded
<1>3. FirstPayload + total["server"] <= reported["server"]  BY DEF TotalInv, Reading
<1>4. 0 <= taken["client"] - (reported["server"] + 0)  BY DEF LostInv, Lost, Pending
<1>n. /\ taken["client"] \in Nat /\ reported["server"] \in Nat /\ FirstPayload \in Nat /\ sent["client"] \in Nat
      /\ test.amount \in Nat /\ total["server"] \in Int /\ taken["client"] <= sent["client"]
  BY PendingIs, Typed, Settings DEF Base
<1>5. taken["client"] = test.amount /\ sent["client"] = test.amount
  <2>1. ASSUME NEW f \in Nat, NEW v \in Int, NEW r \in Nat, NEW t \in Nat, NEW s \in Nat, NEW a \in Nat,
               f + v <= r, 0 <= t - (r + 0), t <= s, s <= a, v >= a
        PROVE  t = a /\ s = a
    BY <2>1
  <2> QED BY <2>1, <1>1, <1>2, <1>3, <1>4, <1>n
<1> QED BY <1>1, <1>5 DEF AtAmount

\* It goes on or leaves.
LEMMA EOFGoesOn ==
  ASSUME Base, LostInv, TotalInv, ToEOF, EOFLeaves, Bounded, ReadsOn \/ Departs,
         ReadAll => ReadAll', AtAmount => AtAmount', Between => Between'
  PROVE  EOFReads' /\ EOFLeaves'
<1>1. UNCHANGED <<call, peerclose>>  BY DEF ReadsOn, Departs
<1>2. CASE ReadsOn
  <2>1. pc["server"] = "received" /\ pc'["server"] = (IF Enough THEN "finish" ELSE "loop")
    BY <1>2, Typed DEF ReadsOn
  <2>2. Enough => AtAmount'  BY <2>1, EOFEnough
  <2>3. EOFLeaves'  BY <2>1, <2>2, <1>1 DEF EOFLeaves
  <2> QED BY <2>1, <2>3 DEF EOFReads, HeaderLost
<1>3. CASE Departs
  <2>1. pc["server"] = "finish" /\ pc'["server"] = "done"  BY <1>3, Typed DEF Departs
  <2> QED BY <2>1 DEF EOFReads, EOFLeaves, HeaderLost
<1> QED BY <1>2, <1>3

\* A call of the server reads on, or finds the end, or times out.
LEMMA EOFCalled ==
  ASSUME Aligned, ToEOF, EOFLeaves, Calls("server"),
         taken' = taken /\ ReadAll => ReadAll', taken' = taken /\ Between => Between'
  PROVE  EOFReads' /\ EOFLeaves'
<1>0. Base /\ BurstInv /\ ReadInv  BY DEF Aligned
<1>1. CallStep("server")  BY <1>0, CallSteps DEF Ends
<1>2. UNCHANGED <<pc, peerclose>> /\ OpOf(pc["server"]) # "none" /\ ~Returned("server")
  BY <1>1 DEF CallStep, Loops
<1>3. pc["server"] \in {"header", "recv"}
  <2>1. pc["server"] \in {"synch", "finish", "done", "loop", "received", "header", "recv"}
    BY <1>0, ToEOFIs DEF Base, Places
  <2> QED BY <2>1, <1>2, Ops
<1>4. EOFLeaves'  BY <1>2, <1>3 DEF EOFLeaves
<1>5. ASSUME pc'["server"] = "recv", Returned("server")'
      PROVE  Result("server")' # Fatal /\ (Result("server")' = 0 => ReadAll')
  <2>1. \/ Result("server")' \in Nat \ {0}
        \/ Result("server")' = 0 /\ ReadAll /\ taken' = taken
        \/ Result("server")' = Again
    BY <1>0, <1>2, <1>5, RecvCalls
  <2> QED BY <2>1 DEF Again, Fatal
<1>6. ASSUME HeaderLost' PROVE Between'
  <2>1. pc["server"] = "header" /\ Returned("server")' /\ Result("server")' < 0  BY <1>6, <1>2 DEF HeaderLost
  <2>2. Between
    <3>1. ~HeaderLost  BY <1>2 DEF HeaderLost
    <3>2. OpOf(pc["server"]) # "none" /\ Asked("server") = Header  BY <2>1, Ops DEF Asked
    <3>3. Moved("server") < Header /\ Moved("server") \in Nat  BY <3>2, <1>0, <1>2, MovedFits DEF Ends
    <3>4. Moved("server") <= Header - 1  BY <3>3, <1>0, Numbers
    <3> QED BY <3>1, <3>4, <2>1, <1>0, PartBetween
  <2>3. taken' = taken
    <3>1. ~(\E n \in Nat \ {0} : Copies("server", n))  BY <2>1, Ops DEF Copies
    <3>2. ~(\E n \in Nat \ {0} : Reads("server", n))
      <4>1. SUFFICES ASSUME NEW n \in Nat \ {0}, Reads("server", n) PROVE FALSE  OBVIOUS
      <4>2. Result("server")' = Moved("server") + n  BY <2>1, <4>1 DEF Reads
      <4>3. Moved("server") \in Nat  BY <1>0, MovedIs DEF Ends
      <4> QED BY <4>2, <4>3, <2>1
    <3> QED BY <3>1, <3>2, <1>1 DEF CallStep, Returns
  <2> QED BY <2>2, <2>3
<1> QED BY <1>4, <1>5, <1>6 DEF EOFReads

\* Every step keeps the accounts of a server without an end of its own.
LEMMA EOFStep ==
  ASSUME Aligned, HasFirst, LostInv, TotalInv, Bounded, Bounded', EOFInv, Loop # "bounce", [Next]_vars PROVE EOFInv'
<1>0. Base /\ BurstInv /\ ReadInv  BY DEF Aligned
<1> SUFFICES ASSUME ToEOF' PROVE EOFReads' /\ EOFLeaves'  BY DEF EOFInv
<1>1. ToEOF  BY <1>0, EOFBack
<1>2. EOFReads /\ EOFLeaves  BY <1>1 DEF EOFInv
<1>3. taken'["client"] = taken["client"] => (ReadAll => ReadAll') /\ (AtAmount => AtAmount')
  BY <1>0, AllStays
<1>4. CASE Beside
  <2>1. EOFInv'  BY <1>0, <1>4, EOFBeside
  <2> QED BY <2>1 DEF EOFInv
<1>5. CASE Calls("server")
  <2>1. taken' = taken /\ ReadAll => ReadAll'  BY <1>3
  <2>2. CallStep("server")  BY <1>0, <1>5, CallSteps DEF Ends
  <2>3. UNCHANGED <<test, nleft, whole, bursts>>  BY <2>2 DEF CallStep, Loops, sender, receiver
  <2>4. taken' = taken /\ Between => Between'  BY <2>3, <1>0, BetweenStays
  <2> QED BY <2>1, <2>4, <1>1, <1>2, <1>5, EOFCalled
<1>6. CASE Server
  <2>0. HeaderFits /\ ClientSame  BY <1>0, <1>6, HeadersFit, ServerSteps
  <2>1. ServerDoes  BY <2>0, <1>0, <1>6, ServerSorts DEF HeaderFits
  <2>2. UNCHANGED <<taken, nleft, whole>> /\ Between => Between'  BY <2>0, <1>0, BetweenStays DEF ClientSame
  <2>3. CASE GivesUp
    <3>1. UNCHANGED <<taken, nleft, whole>>  BY <2>3 DEF GivesUp, Quiet
    <3> QED BY <3>1, <2>2, <2>3, <1>0, <1>1, <1>2, <1>3, EOFEnds
  <2>4. CASE (\E n \in Nat : ReadsFirst(n)) \/ AsksHeader \/ GetsHeader \/ AsksPayload  BY <2>4, <1>0, <1>2, EOFAsks
  <2>6. CASE GetsPayload
    <3>1. taken' = taken  BY <2>6 DEF GetsPayload, Quiet
    <3> QED BY <3>1, <2>6, <1>0, <1>2, <1>3, EOFPayload
  <2>7. CASE ReadsOn \/ Departs
    <3>1. UNCHANGED <<taken, nleft, whole>>  BY <2>7 DEF ReadsOn, Departs, Quiet
    <3> QED BY <3>1, <2>2, <2>7, <1>0, <1>1, <1>2, <1>3, EOFGoesOn
  <2>8. ~Answers  BY DEF Answers
  <2> QED BY <2>1, <2>3, <2>4, <2>6, <2>7, <2>8 DEF ServerDoes
<1> QED BY <1>4, <1>5, <1>6, ServerStepSorts
-----------------------------------------------------------------------------
\* Every byte sent is in the accounts of the client, up to its end.
Accounting ==
  /\ pc["client"] \notin {"synch", "failed", "done"} => Counted
  /\ pc["client"] = "done" => reported["client"] = sent["client"]
  /\ Uncut

\* They stay so, if no burst is gone on with.
LEMMA CountedNext ==
  ASSUME Base, Loop \in {"stream", "rate"}, [Next]_vars, Client => ~Resumes, Accounting
  PROVE  Accounting'
<1>b. Loop # "bounce"  OBVIOUS
<1>1. CASE Client
  <2>1. CASE pc["client"] = "synch"
    <3>c. ClientDoes /\ (ClientBounces => Bounces) /\ test' = test
      BY <1>1, ClientSorts, BounceSorts, ClientSteps DEF ServerSame
    <3>1. pc["client"] \notin Writes  BY <2>1 DEF Writes
    <3>2. ~((\E l, size : StartsBurst(l, size)) \/ (\E l : StartsWrite(l)))
      BY <2>1 DEF StartsBurst, StartsWrite, Starting
    <3>3. ~Resumes /\ ~(\E n \in Nat : EndsWrite(n)) /\ ~FailsWrite
      BY <2>1 DEF Resumes, EndsWrite, FailsWrite
    <3>4. ~Leaves /\ ~Bounces  BY <2>1 DEF Leaves, Bounces
    <3>5. Starts  BY <3>c, <3>2, <3>3, <3>4 DEF ClientDoes
    <3>6. Counted' /\ pc'["client"] = "loop"  BY <3>c, <3>5, CountedStarts, StartFacts
    <3> QED BY <3>6 DEF Accounting, Uncut
  <2>2. CASE pc["client"] \in {"failed", "done"}
    <3>c. ClientDoes /\ (ClientBounces => Bounces)  BY <1>1, ClientSorts, BounceSorts
    <3>2. ~((\E l, size : StartsBurst(l, size)) \/ (\E l : StartsWrite(l)))
      BY <2>2 DEF StartsBurst, StartsWrite, Starting
    <3>3. ~Resumes /\ ~(\E n \in Nat : EndsWrite(n)) /\ ~FailsWrite
      BY <2>2 DEF Resumes, EndsWrite, FailsWrite
    <3>4. ~Starts /\ ~Bounces  BY <2>2 DEF Starts, Bounces
    <3>5. Leaves  BY <3>c, <3>2, <3>3, <3>4 DEF ClientDoes
    <3>6. pc'["client"] = "failed"  BY <2>2, <3>5, LeaveFacts
    <3> QED BY <3>6 DEF Accounting, Uncut
  <2>3. CASE pc["client"] \notin {"synch", "failed", "done"}
    <3>1. Counted /\ Uncut /\ ~Resumes  BY <1>1, <2>3 DEF Accounting
    <3>2. /\ pc'["client"] \notin {"failed", "done"} => Counted'
          /\ pc'["client"] = "done" => reported'["client"] = sent'["client"]
          /\ Uncut'
      BY <1>1, <2>3, <3>1, CountedClient
    <3> QED BY <3>2 DEF Accounting
  <2> QED BY <2>1, <2>2, <2>3
<1>2. CASE Calls("client")
  <2>1. pc["client"] \in Writes /\ pc' = pc /\ begun' = begun  BY <1>b, <1>2, CallFacts
  <2>2. pc["client"] \notin {"synch", "failed", "done"}  BY <2>1 DEF Writes
  <2>3. Counted'  BY <1>b, <1>2, <2>2, CountedCalls DEF Accounting
  <2> QED BY <2>1, <2>2, <2>3 DEF Accounting, Uncut
<1>3. CASE Aside
  <2>1. ClientStays  BY <1>3, AsideStays
  <2>2. Counted => Counted'  BY <2>1, CountedStays
  <2> QED BY <2>1, <2>2 DEF Accounting, Uncut, ClientStays
<1> QED BY <1>1, <1>2, <1>3, StepSorts
-----------------------------------------------------------------------------
\* A stream counts whatever happens, and a rate without bursts.
StreamInv == Loop = "stream" \/ (Loop = "rate" /\ ~isburst) => Accounting

\* Every step of these counts.
LEMMA StreamStep ==
  ASSUME Base, StreamInv, Loop # "bounce", [Next]_vars PROVE StreamInv'
<1>1. Loop' = Loop /\ (isburst' <=> isburst)  BY SentGrows, AccountsKept
<1> SUFFICES ASSUME Loop = "stream" \/ (Loop = "rate" /\ ~isburst) PROVE Accounting'  BY <1>1 DEF StreamInv
<1>2. ~Resumes  BY DEF Resumes, Base, Places, Shapes
<1> QED BY <1>2, CountedNext DEF StreamInv

\* A burst of the rate loop, and what of it a write goes on with and will report.
Whole == Max({test.len, Header})
Owed == IF pc["client"] = "rate write" THEN begun["client"] ELSE 0

\* Of bursts with a rate everything is reported but the burst in which a write
\* has failed.
RateInv ==
  Loop = "rate" /\ isburst =>
    /\ pc["client"] \in {"loop", "rate burst", "rate write"} => sent["client"] = reported["client"] + Owed + Moving
    /\ pc["client"] = "rate burst" => left = Whole
    /\ pc["client"] = "rate write" => begun["client"] <= Whole
    /\ pc["client"] \in {"finish", "await", "report", "done"} =>
         reported["client"] <= sent["client"] /\ sent["client"] <= reported["client"] + Whole

\* What the rate depends on are numbers.
LEMMA RateNumbers ==
  ASSUME Base
  PROVE  /\ Whole \in Nat \ {0} /\ sent["client"] \in Nat /\ reported["client"] \in Nat /\ begun["client"] \in Nat
         /\ Owed \in Nat /\ Moving \in Nat /\ left \in Nat
<1>1. test.len \in Nat \ {0} /\ Header \in Nat \ {0} /\ sent["client"] \in Nat /\ begun["client"] \in Nat /\ left \in Nat
  BY Numbers
<1>2. Whole = (IF test.len >= Header THEN test.len ELSE Header)  BY <1>1, MaxOf DEF Whole
<1>3. Whole \in Nat \ {0}  BY <1>1, <1>2
<1>4. Owed \in Nat  BY <1>1 DEF Owed
<1> QED BY <1>1, <1>3, <1>4, Typed, MovingIs

\* Every step of the client keeps what it owes the report.
LEMMA RateClient ==
  ASSUME Base, Client, RateInv, Loop = "rate", isburst, test' = test PROVE RateInv'
<1>n. /\ Whole \in Nat \ {0} /\ sent["client"] \in Nat /\ reported["client"] \in Nat /\ begun["client"] \in Nat
      /\ Owed \in Nat /\ Moving \in Nat /\ left \in Nat
  BY RateNumbers
<1>k. Whole' = Whole  BY DEF Whole
<1>r. ~one_report  BY DEF one_report, isburst
<1>p. pc["client"] \notin {"burst", "write", "congest burst", "congest write", "event"}  BY DEF Base, Places
<1>c. ClientDoes /\ (ClientBounces => Bounces)  BY ClientSorts, BounceSorts
<1>z. \A m \in Nat : m + 0 = m /\ m + 0 + 0 = m  OBVIOUS
<1>1. CASE (\E l, size : StartsBurst(l, size)) \/ (\E l : StartsWrite(l))
  <2>1. /\ pc["client"] = "loop" /\ Moving = 0 /\ Moving' = 0 /\ Frozen /\ pc'["client"] \in Writes
        /\ (pc'["client"] = "rate write" => begun'["client"] = 0)
    BY <1>1, BeginFacts
  <2>2. Owed = 0 /\ Owed' = 0  BY <2>1 DEF Owed
  <2>3. sent["client"] = reported["client"] + 0 + 0  BY <2>1, <2>2 DEF RateInv
  <2>4. pc'["client"] = "rate burst" => left' = Whole
    <3>1. CASE \E l, size : StartsBurst(l, size)
      <4>1. PICK l, size : StartsBurst(l, size)  BY <3>1
      <4>2. pc'["client"] = l /\ (l = "rate burst" => left' = size /\ size = Whole)
        BY <4>1 DEF StartsBurst, Fresh, Whole
      <4> QED BY <4>2
    <3>2. CASE \E l : StartsWrite(l)
      <4>1. PICK l : StartsWrite(l)  BY <3>2
      <4>2. pc'["client"] = l /\ l # "rate burst"  BY <4>1 DEF StartsWrite, Fresh
      <4> QED BY <4>2
    <3> QED BY <1>1, <3>1, <3>2
  <2>5. 0 <= Whole  BY <1>n
  <2>6. pc'["client"] \notin {"finish", "await", "report", "done"}  BY <2>1 DEF Writes
  <2> QED BY <2>1, <2>2, <2>3, <2>4, <2>5, <2>6, <1>k DEF RateInv, Frozen
<1>2. CASE Resumes
  <2>1. /\ pc["client"] = "rate burst" /\ Returned("client") /\ Result("client") < left /\ Fresh("rate write")
        /\ begun' = [begun EXCEPT !["client"] = Result("client")] /\ sent' = sent /\ reported' = reported
    BY <1>2 DEF Resumes, Held
  <2>2. pc'["client"] = "rate write" /\ begun'["client"] = Result("client")
    BY <2>1, Typed DEF Fresh
  <2>3. Moving' = 0  BY <2>1, FreshMoves DEF Writes
  <2>4. Moving = Result("client") /\ Result("client") \in Nat
    <3>1. OpOf(pc["client"]) = "writen" /\ OpOf(pc["client"]) # "none"  BY <2>1, Ops
    <3>2. /\ Result("client") \in Int /\ Result("client") >= 0
          /\ Moved("client") = (IF Result("client") > 0 THEN Result("client") ELSE 0)
      BY <2>1, <3>1, ResultIs DEF Ends
    <3>3. Moved("client") = Result("client")  BY <3>2
    <3> QED BY <3>1, <3>2, <3>3 DEF Moving, Sending
  <2>5. Owed = 0 /\ Owed' = Result("client")  BY <2>1, <2>2 DEF Owed
  <2>6. sent["client"] = reported["client"] + 0 + Result("client") /\ left = Whole  BY <2>1, <2>4, <2>5 DEF RateInv
  <2>7. sent'["client"] = reported'["client"] + Owed' + Moving'
    <3>1. reported["client"] + 0 + Result("client") = reported["client"] + Result("client") + 0  BY <2>4, <1>n
    <3> QED BY <3>1, <2>1, <2>3, <2>5, <2>6
  <2>8. begun'["client"] <= Whole
    <3>1. Result("client") < Whole  BY <2>1, <2>6
    <3> HIDE DEF Whole
    <3>2. ASSUME NEW a \in Nat, NEW b \in Nat, a < b  PROVE a <= b  BY <3>2
    <3> QED BY <3>1, <3>2, <2>2, <2>4, <1>n
  <2> QED BY <2>2, <2>7, <2>8, <1>k DEF RateInv
<1>3. CASE \E n \in Nat : EndsWrite(n)
  <2>1. PICK n \in Nat : EndsWrite(n)  BY <1>3
  <2>2. /\ pc["client"] \in Writes /\ pc'["client"] = "loop" /\ Moving' = 0 /\ Moving = Moved("client")
        /\ sent'["client"] = sent["client"] /\ reported'["client"] = reported["client"] + n
    BY <2>1, <1>r, EndFacts DEF Add
  <2>3. pc["client"] \in {"rate burst", "rate write"}  BY <2>2, <1>p DEF Writes
  <2>4. n = Moving + Owed  BY <2>1, <2>2, <2>3 DEF EndsWrite, Owed
  <2>5. sent["client"] = reported["client"] + Owed + Moving  BY <2>3 DEF RateInv
  <2>6. Owed' = 0  BY <2>2 DEF Owed
  <2>7. reported["client"] + Owed + Moving = reported["client"] + (Moving + Owed) + 0 + 0  BY <1>n
  <2>8. sent'["client"] = reported'["client"] + Owed' + Moving'  BY <2>2, <2>4, <2>5, <2>6, <2>7
  <2> QED BY <2>2, <2>8 DEF RateInv
<1>4. CASE FailsWrite
  <2>1. /\ pc["client"] \in Writes /\ pc'["client"] \in {"finish", "failed"} /\ Frozen
        /\ pc'["client"] = "finish" => Moving = 0 /\ pc["client"] \in {"write", "congest write", "rate write"}
        /\ pc'["client"] = "failed" => pc["client"] \in {"burst", "congest burst"}
    BY <1>4, FailFacts
  <2>2. pc'["client"] = "finish" /\ Moving = 0 /\ pc["client"] = "rate write"  BY <2>1, <1>p
  <2>3. sent["client"] = reported["client"] + begun["client"] + 0 /\ begun["client"] <= Whole
    BY <2>2 DEF RateInv, Owed
  <2>4. reported["client"] <= sent["client"] /\ sent["client"] <= reported["client"] + Whole  BY <2>3, <1>n
  <2> QED BY <2>1, <2>2, <2>4, <1>k DEF RateInv, Frozen
<1>5. CASE Leaves
  <2>1. /\ sent'["client"] = sent["client"] /\ Moving = 0 /\ Moving' = 0
        /\ \/ /\ reported'["client"] = reported["client"]
              /\ \/ pc["client"] = "loop" /\ pc'["client"] \in {"loop", "finish"}
                 \/ pc["client"] = "finish" /\ pc'["client"] \in {"await", "report"}
                 \/ pc["client"] = "await" /\ pc'["client"] \in {"await", "report"}
                 \/ pc["client"] = "failed" /\ pc'["client"] = "failed"
           \/ /\ pc["client"] = "report" /\ pc'["client"] = "done"
              /\ reported'["client"] = reported["client"] + 0
    BY <1>5, <1>r, LeaveFacts
  <2>2. reported'["client"] = reported["client"]  BY <2>1, <1>n, <1>z
  <2>3. CASE pc["client"] = "loop" /\ pc'["client"] \in {"loop", "finish"}
    <3>1. Owed = 0 /\ Owed' = 0  BY <2>3 DEF Owed
    <3>2. sent["client"] = reported["client"] + 0 + 0  BY <3>1, <2>1, <2>3 DEF RateInv
    <3>3. reported["client"] <= sent["client"] /\ sent["client"] <= reported["client"] + Whole  BY <3>2, <1>n
    <3> QED BY <3>1, <3>2, <3>3, <2>1, <2>2, <2>3, <1>k DEF RateInv
  <2>4. CASE pc["client"] \in {"finish", "await", "report"} /\ pc'["client"] \in {"await", "report", "done"}
    <3>1. reported["client"] <= sent["client"] /\ sent["client"] <= reported["client"] + Whole  BY <2>4 DEF RateInv
    <3> QED BY <3>1, <2>1, <2>2, <2>4, <1>k DEF RateInv
  <2>5. CASE pc'["client"] = "failed"  BY <2>5 DEF RateInv
  <2> QED BY <2>1, <2>3, <2>4, <2>5
<1>6. CASE Starts
  <2>1. pc'["client"] = "loop" /\ sent'["client"] = FirstPayload /\ reported'["client"] = FirstPayload /\ Moving' = 0
    BY <1>6, StartFacts
  <2>2. Owed' = 0  BY <2>1 DEF Owed
  <2>3. FirstPayload = FirstPayload + 0 + 0  BY <1>z, Settings DEF Base
  <2> QED BY <2>1, <2>2, <2>3 DEF RateInv
<1>7. ~Bounces  BY DEF Bounces
<1> QED BY <1>1, <1>2, <1>3, <1>4, <1>5, <1>6, <1>7, <1>c DEF ClientDoes

\* ... and so does every other step.
LEMMA RateStep ==
  ASSUME Base, RateInv, Loop # "bounce", [Next]_vars PROVE RateInv'
<1>1. test' = test  BY SentGrows
<1>2. Loop' = Loop /\ (isburst' <=> isburst) /\ Whole' = Whole  BY <1>1, AccountsKept DEF Whole
<1>3. CASE ~(Loop = "rate" /\ isburst)  BY <1>2, <1>3 DEF RateInv
<1>4. CASE Loop = "rate" /\ isburst
  <2>1. CASE Client  BY <2>1, <1>1, <1>4, RateClient
  <2>2. CASE Calls("client")
    <3>1. PICK n \in Nat : sent'["client"] = sent["client"] + n /\ Moving' = Moving + n
      BY <2>2, CallFacts
    <3>2. pc["client"] \in Writes /\ UNCHANGED <<pc, reported, left, begun>>  BY <2>2, CallFacts
    <3>3. Owed' = Owed  BY <3>2 DEF Owed
    <3>4. pc["client"] \in {"rate burst", "rate write"}
      <4>1. pc["client"] \notin {"burst", "write", "congest burst", "congest write", "event"}  BY <1>4 DEF Base, Places
      <4> QED BY <4>1, <3>2 DEF Writes
    <3>5. sent["client"] = reported["client"] + Owed + Moving  BY <3>4, <1>4 DEF RateInv
    <3>6. sent'["client"] = reported["client"] + Owed + (Moving + n)
      <4>1. reported["client"] \in Nat /\ Owed \in Nat /\ Moving \in Nat  BY RateNumbers
      <4> QED BY <4>1, <3>1, <3>5
    <3> QED BY <3>1, <3>2, <3>3, <3>4, <3>6, <1>2, <1>4 DEF RateInv
  <2>3. CASE Aside
    <3>1. ClientStays  BY <2>3, AsideStays
    <3>2. Owed' = Owed  BY <3>1 DEF ClientStays, Owed
    <3> QED BY <3>1, <3>2, <1>2, <1>4 DEF RateInv, ClientStays
  <2> QED BY <2>1, <2>2, <2>3, StepSorts
<1> QED BY <1>3, <1>4

\* The inductive invariant of the accounts.
AccountInv ==
  Loop # "bounce" => HasFirst /\ AmountInv /\ StreamInv /\ RateInv /\ LostInv /\ TotalInv /\ EOFInv

\* It holds at the beginning.
LEMMA AccountInit == Init => AccountInv
<1> SUFFICES ASSUME Init PROVE HasFirst /\ AmountInv /\ StreamInv /\ RateInv /\ LostInv /\ TotalInv /\ EOFInv
  BY DEF AccountInv
<1>1. /\ pc["client"] = "synch" /\ pc["server"] = "synch" /\ begun["server"] = 0
      /\ total["server"] = 0 /\ reported["server"] = 0 /\ taken["client"] = 0 /\ peerclose = {}
  BY DEF Init, ConnectionInit, Ends
<1>2. HasFirst /\ AmountInv  BY <1>1 DEF HasFirst, AmountInv
<1>3. StreamInv  BY <1>1 DEF StreamInv, Accounting, Uncut
<1>4. RateInv  BY <1>1 DEF RateInv
<1>5. LostInv
  <2>1. Lost = 0
    <3>1. 0 - (0 + 0) = 0  OBVIOUS
    <3> QED BY <3>1, <1>1 DEF Lost, Pending
  <2>2. Base /\ ~HeaderLost  BY <1>1, AlignedInit DEF Aligned, HeaderLost
  <2>3. 0 <= Reached  BY <2>2, PendingIs
  <2> QED BY <2>1, <2>2, <2>3, <1>1 DEF LostInv
<1>6. TotalInv  BY <1>1 DEF TotalInv, Reading
<1>7. EOFInv  BY <1>1 DEF EOFInv, EOFReads, EOFLeaves, HeaderLost
<1> QED BY <1>2, <1>3, <1>4, <1>5, <1>6, <1>7

\* ... and after every step.
LEMMA AccountStep ==
  Aligned /\ Aligned' /\ AccountInv /\ [Next]_vars => AccountInv'
<1>b. Base' /\ AmountInv' => Bounded'  BY AmountBound, PTL
<1> SUFFICES ASSUME Aligned, Aligned', AccountInv, [Next]_vars PROVE AccountInv'
  OBVIOUS
<1>0. Base /\ Base'  BY DEF Aligned
<1>1. test' = test
  <2>1. Client => test' = test  BY <1>0, ClientSteps DEF ServerSame
  <2>2. Calls("client") => test' = test  BY <1>0, CallSteps DEF CallStep, Ends
  <2>3. Aside => test' = test  BY <1>0, AsideStays DEF ClientStays
  <2> QED BY <2>1, <2>2, <2>3, StepSorts
<1>2. Loop' = Loop  BY <1>1, AccountsKept
<1> SUFFICES ASSUME Loop # "bounce"
             PROVE  HasFirst' /\ AmountInv' /\ StreamInv' /\ RateInv' /\ LostInv' /\ TotalInv' /\ EOFInv'
  BY <1>2 DEF AccountInv
<1>3. HasFirst /\ AmountInv /\ StreamInv /\ RateInv /\ LostInv /\ TotalInv /\ EOFInv  BY DEF AccountInv
<1>4. HasFirst' /\ AmountInv' /\ StreamInv' /\ RateInv' /\ LostInv' /\ TotalInv'
  BY <1>0, <1>3, FirstStep, AmountStep, StreamStep, RateStep, LostStep, TotalStep
<1>5. Bounded /\ Bounded'
  <2>1. Bounded  BY <1>0, <1>3, AmountBound
  <2> QED BY <2>1, <1>0, <1>4, <1>b
<1>6. EOFInv'  BY <1>3, <1>5, EOFStep
<1> QED BY <1>4, <1>6

\* At the end of both sides the accounts are what the reports should say.
LEMMA AccountsEnd == ASSUME Aligned, AccountInv PROVE Accounted
<1>0. Base  BY DEF Aligned
<1>1. ASSUME At("client", "done"), Loop \in {"stream", "rate"}
      PROVE  IF Loop = "rate" /\ isburst
               THEN sent["client"] - reported["client"] \in 0 .. Max({test.len, Header})
               ELSE sent["client"] = reported["client"]
  <2>1. CASE Loop = "rate" /\ isburst
    <3>1. reported["client"] <= sent["client"] /\ sent["client"] <= reported["client"] + Whole
      BY <1>1, <2>1 DEF AccountInv, RateInv, At
    <3>2. reported["client"] \in Nat /\ sent["client"] \in Nat /\ Whole \in Nat  BY <1>0, RateNumbers
    <3>3. sent["client"] - reported["client"] \in 0 .. Whole  BY <3>1, <3>2
    <3> QED BY <3>3, <2>1 DEF Whole
  <2>2. CASE ~(Loop = "rate" /\ isburst)
    <3>1. reported["client"] = sent["client"]
      BY <1>1, <2>2 DEF AccountInv, StreamInv, Accounting, At
    <3> QED BY <3>1, <2>2
  <2> QED BY <2>1, <2>2
<1>2. ASSUME At("server", "done"), Loop # "bounce"
      PROVE  IF isburst
               THEN taken["client"] - reported["server"] \in 0 .. whole + (IF nleft > 0 THEN 1 ELSE Header - 1)
               ELSE taken["client"] = reported["server"]
  <2>1. LostInv /\ pc["server"] = "done"  BY <1>2 DEF AccountInv, At
  <2>2. Lost = taken["client"] - (reported["server"] + 0)  BY <2>1 DEF Lost, Pending
  <2>3. 0 <= Lost /\ Lost <= Missing  BY <2>1 DEF LostInv
  <2>4. taken["client"] \in Nat /\ reported["server"] \in Nat /\ Missing \in Nat  BY <1>0, PendingIs
  <2>5. taken["client"] - reported["server"] \in 0 .. Missing  BY <2>2, <2>3, <2>4
  <2>6. CASE isburst  BY <2>5, <2>6 DEF Missing
  <2>7. CASE ~isburst
    <3>1. Missing = 0  BY <2>7 DEF Missing
    <3>2. taken["client"] = reported["server"]  BY <3>1, <2>4, <2>5
    <3> QED BY <3>2, <2>7
  <2> QED BY <2>6, <2>7
<1>3. ASSUME At("server", "done"), Unlimited, Loop # "bounce", interrupted = {}, ~At("client", "failed")
      PROVE  taken["client"] = sent["client"] \/ (isburst /\ BetweenBursts)
  <2>1. ToEOF /\ Loop # "bounce" /\ pc["server"] = "done"  BY <1>3 DEF ToEOF, At
  <2>2. ReadAll \/ AtAmount \/ Between  BY <2>1 DEF AccountInv, EOFInv, EOFLeaves
  <2> QED BY <2>2 DEF ReadAll, AtAmount, Between, BetweenBursts, Pos
<1> QED BY <1>1, <1>2, <1>3 DEF Accounted

\* What was sent is what the two reports say: the client's in a stream and with a
\* rate, but for the burst in which a write fails; the server's of what it has
\* read, but for a header that came late and a byte of every burst; and a server
\* without an end of its own has read everything, or is between two bursts
\* (Client.cpp:757, 1007, Server.cpp:113, 238, 281), for every set of tests,
\* buffer and header length, and however reads and writes are cut or fail.
THEOREM Accounts == Spec => []Accounted
<1>1. Init => Aligned /\ AccountInv  BY AlignedInit, AccountInit
<1>2. (Aligned /\ AccountInv) /\ [Next]_vars => (Aligned /\ AccountInv)'  BY AlignedStep, AccountStep
<1>3. Aligned /\ AccountInv => Accounted  BY AccountsEnd
<1> QED BY <1>1, <1>2, <1>3, PTL DEF Spec
=============================================================================
