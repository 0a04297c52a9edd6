---------------------------- MODULE BounceBack ----------------------------
(***************************************************************************)
(* The bounceback test of iperf2: the client writes a request and waits for*)
(* the whole reply before the next one.  Neither side marks where a message*)
(* begins: both count bytes, over timeouts and incomplete calls.           *)
(* A request has test.len bytes and a reply test.reply.                    *)
(***************************************************************************)
EXTENDS TcpTraffic

VARIABLE rounds  \* requests whose whole reply the client has read

\* InProgress after packetTime has been set to the clock.
Continues(e) == InProgress(e) /\ ~Past(e)

Finishes(e, l) == Go(e, l) /\ call' = [call EXCEPT ![e] = NoCall]

\* A round is one packet for the client's reporter, with both messages.
ReportRound == Report("client", test.len + test.reply)
-----------------------------------------------------------------------------
(* The client.                                                             *)

\* With a period the wait for the frame is followed by an empty report, and by
\* then the time of the test, or of the frame, may be over.
BounceBegin ==
    /\ Round("bounce")
    /\ late' = IF Is("Period") THEN Seen("client") ELSE late
    /\ \/ Is("Period") /\ UNCHANGED <<pc, call, begun>>
       \/ /\ ~(Is("Period") /\ Past("client"))
          /\ Begun("client", 0)
          /\ Call("client", "writen", test.len)
          /\ Go("client", "request")
    /\ UNCHANGED <<test, wire, over, interrupted, sender, results, receiver, peerclose, rounds>>

\* A write that fails cannot be told from an incomplete one.
BounceWritten ==
    LET offset == begun["client"] + Result("client")
    IN  /\ At("client", "request") /\ Returned("client")
        /\ \/ /\ offset = test.len
              /\ Total("client", test.len)
              /\ Begun("client", 0)
              /\ Call("client", "recvn", test.reply)
              /\ Go("client", "reply")
              /\ UNCHANGED late
           \/ /\ offset < test.len /\ InProgress("client")
              /\ late' = Seen("client")
              /\ Begun("client", offset)
              /\ Call("client", "writen", test.len - offset)
              /\ UNCHANGED <<pc, total>>
           \/ /\ offset < test.len /\ ~InProgress("client")
              /\ Finishes("client", "loop")
              /\ UNCHANGED <<late, begun, total>>
        /\ UNCHANGED <<test, wire, over, interrupted, sender, reported, receiver, peerclose, rounds>>

\* Mutant: a timeout begins the next round.
BounceReadOnce ==
    LET n == Result("client")
        offset == begun["client"] + n
    IN  /\ At("client", "reply") /\ Returned("client")
        /\ \/ /\ n > 0 /\ offset = test.reply
              /\ late' = Seen("client") /\ rounds' = rounds + 1
              /\ ReportRound
              /\ Finishes("client", "loop")
              /\ UNCHANGED <<begun, peerclose>>
           \/ /\ n > 0 /\ offset < test.reply /\ InProgress("client")
              /\ late' = Seen("client")
              /\ Begun("client", offset)
              /\ Call("client", "recvn", test.reply - offset)
              /\ UNCHANGED <<pc, peerclose, rounds, reported>>
           \/ /\ n > 0 /\ offset < test.reply /\ ~InProgress("client")
              /\ Finishes("client", "loop")
              /\ UNCHANGED <<late, begun, peerclose, rounds, reported>>
           \/ /\ n = 0
              /\ peerclose' = peerclose \cup {"client"}
              /\ Finishes("client", "loop")
              /\ UNCHANGED <<late, begun, rounds, reported>>
           \/ /\ n = Again
              /\ late' = Seen("client")
              /\ IF FALSE
                   THEN Call("client", "recvn", test.reply - begun["client"]) /\ UNCHANGED pc
                   ELSE Finishes("client", "loop")
              /\ UNCHANGED <<begun, peerclose, rounds, reported>>
           \/ /\ n = Fatal
              /\ Go("client", "failed")
              /\ UNCHANGED <<call, late, begun, peerclose, rounds, reported>>
        /\ UNCHANGED <<test, wire, over, interrupted, sender, total, receiver>>

\* A timeout asks again for all that was asked for, also for the bytes that
\* recvn has read and thrown away.
BounceRead ==
    LET n == Result("client")
        offset == begun["client"] + n
    IN  /\ At("client", "reply") /\ Returned("client")
        /\ \/ /\ n > 0 /\ offset = test.reply
              /\ late' = Seen("client") /\ rounds' = rounds + 1
              /\ ReportRound
              /\ Finishes("client", "loop")
              /\ UNCHANGED <<begun, peerclose>>
           \/ /\ n > 0 /\ offset < test.reply /\ InProgress("client")
              /\ late' = Seen("client")
              /\ Begun("client", offset)
              /\ Call("client", "recvn", test.reply - offset)
              /\ UNCHANGED <<pc, peerclose, rounds, reported>>
           \/ /\ n > 0 /\ offset < test.reply /\ ~InProgress("client")
              /\ Finishes("client", "loop")
              /\ UNCHANGED <<late, begun, peerclose, rounds, reported>>
           \/ /\ n = 0
              /\ peerclose' = peerclose \cup {"client"}
              /\ Finishes("client", "loop")
              /\ UNCHANGED <<late, begun, rounds, reported>>
           \/ /\ n = Again
              /\ late' = Seen("client")
              /\ IF Continues("client")
                   THEN Call("client", "recvn", test.reply - begun["client"]) /\ UNCHANGED pc
                   ELSE Finishes("client", "loop")
              /\ UNCHANGED <<begun, peerclose, rounds, reported>>
           \/ /\ n = Fatal
              /\ Go("client", "failed")
              /\ UNCHANGED <<call, late, begun, peerclose, rounds, reported>>
        /\ UNCHANGED <<test, wire, over, interrupted, sender, total, receiver>>

ClientBounces == BounceBegin \/ BounceWritten \/ BounceRead
-----------------------------------------------------------------------------
(* The server: WriteBB and ReadBBWithRXTimestamp.                          *)

\* Both loops ask InProgress before they begin.
ServerBounceEnds ==
    /\ At("server", "answer") \/ At("server", "listen")
    /\ ~InProgress("server")
    /\ ServerLeaves
    /\ Stays /\ UNCHANGED <<sender, results, begun, receiver, peerclose, rounds>>

WriteBB ==
    /\ At("server", "answer") /\ InProgress("server")
    /\ Call("server", "writen", test.reply - begun["server"])
    /\ Go("server", "answering")
    /\ Stays /\ UNCHANGED <<sender, results, begun, receiver, peerclose, rounds>>

Answered ==
    LET offset == begun["server"] + Result("server")
    IN  /\ At("server", "answering") /\ Returned("server")
        /\ \/ /\ offset = test.reply
              /\ ReportRead(test.reply) /\ Begun("server", 0)
              /\ Go("server", "listen")
              /\ UNCHANGED late
           \/ /\ offset < test.reply
              /\ late' = Seen("server") /\ Begun("server", offset)
              /\ Go("server", "answer")
              /\ UNCHANGED reported
        /\ call' = [call EXCEPT !["server"] = NoCall]
        /\ UNCHANGED <<test, wire, over, interrupted, sender, total, receiver, peerclose, rounds>>

ReadBB ==
    /\ At("server", "listen") /\ InProgress("server")
    /\ Call("server", "recvn", test.len)
    /\ Go("server", "listening")
    /\ Stays /\ UNCHANGED <<sender, results, begun, receiver, peerclose, rounds>>

\* A part of a request is forgotten: the next read is one for a whole one.
RequestRead ==
    LET n == Result("server")
    IN  /\ At("server", "listening") /\ Returned("server")
        /\ \/ /\ n = test.len
              /\ late' = Seen("server")
              /\ ReportRead(n)
              /\ Finishes("server", "answer")
              /\ UNCHANGED <<dropped, peerclose>>
           \/ /\ n > 0 /\ n < test.len
              /\ dropped' = [dropped EXCEPT !["server"] = @ + n]
              /\ Finishes("server", "listen")
              /\ UNCHANGED <<late, reported, peerclose>>
           \/ /\ n = 0
              /\ peerclose' = peerclose \cup {"server"}
              /\ Finishes("server", "listen")
              /\ UNCHANGED <<dropped, late, reported>>
           \/ /\ n = Again
              /\ late' = Seen("server")
              /\ Finishes("server", "listen")
              /\ UNCHANGED <<dropped, reported, peerclose>>
           \/ /\ n = Fatal
              /\ peerclose' = peerclose \cup {"server"}
              /\ ServerLeaves
              /\ UNCHANGED <<dropped, late, reported>>
        /\ UNCHANGED <<test, sent, taken, shut, closed, over, interrupted, sender, total, begun, receiver,
                       rounds>>

ServerBounces == ServerBounceEnds \/ WriteBB \/ Answered \/ ReadBB \/ RequestRead
=============================================================================
