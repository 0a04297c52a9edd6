----------------------------- MODULE L4sTraffic -----------------------------
(***************************************************************************)
(* The L4S loops of iperf2: a client that keeps a window of datagrams in   *)
(* flight (RunUDPL4S of Client.cpp), a server that echoes what it has      *)
(* counted with every datagram (RunUDPL4S of Server.cpp), and the          *)
(* congestion control between them.                                        *)
(*                                                                         *)
(* An ACK is what the server has counted; one that is lost is one that is  *)
(* never read.  Its reserved1 is not initialised, and the client drops an  *)
(* ACK in which it is not zero.  The pacing decides when a burst begins; a *)
(* poll that comes to nothing before changes nothing.                      *)
(***************************************************************************)
EXTENDS UdpTraffic, PragueCC

CONSTANTS Initial,   \* window and burst that the congestion control allows at the start
          Smallest,  \* ... after a timeout: MIN_PKT_WIN and MIN_PKT_BURST
          MaxClock   \* bound on the virtual round trips

ASSUME L4sAssumption ==
    /\ {Initial, Smallest} \subseteq (Nat \ {0}) \X (Nat \ {0})
    /\ MaxClock \in Nat

VARIABLES cc,      \* l4s_pacer of the client
          rx,      \* l4s_pacer of the server
          acks,    \* ACKs on their way
          flight,  \* seqnr, inflight and inburst of the client
          clock,   \* virtual round trips since the start
          mishap   \* history: reductions in one round trip, undone or after a reset

l4svars == <<cc, rx, acks, flight, clock, mishap>>

Window == cc.allowed[1]
Burst == cc.allowed[2]
BurstOver == flight.inflight >= Window \/ flight.inburst >= Burst

L4sInit ==
    /\ cc = Fresh(Initial) /\ rx = Counted /\ acks = {}
    /\ flight = [seqnr |-> 1, inflight |-> 0, inburst |-> 0]
    /\ clock = 0 /\ mishap = {}

\* What may become of the ECN bits: a sender that has been told of an error
\* does not ask for marks any more.
Marks == IF cc.error THEN {"bleached"}
         ELSE {"ect"} \cup ({"ce", "bleached"} \cap test.faults)

\* A datagram that cannot be sent is not reported; a fatal error ends the burst.
L4sWrite ==
    /\ ~BurstOver /\ (flight.inburst = 0 => InProgress) /\ Clock("client") /\ UNCHANGED pc
    /\ \/ /\ \E ecn \in Marks : Send([Datagram(tx.id, BufLen) EXCEPT !.seq = flight.seqnr, !.ecn = ecn])
          /\ Post(Packet(tx.id, BufLen, "ok"))
          /\ tx' = [tx EXCEPT !.id = @ + 1, !.err = "ok", !.seq = flight.seqnr]
          /\ written' = Append(written, tx.id)
          /\ flight' = [seqnr |-> flight.seqnr + 1, inflight |-> flight.inflight + 1,
                        inburst |-> flight.inburst + 1]
       \/ \E err \in {"again", "fatal"} :
             /\ Fails(err) /\ UNCHANGED sent
             /\ tx' = [tx EXCEPT !.err = err, !.seq = flight.seqnr]
             /\ flight' = IF err = "fatal" THEN [flight EXCEPT !.inburst = Burst] ELSE flight
    /\ UNCHANGED <<cc, rx, acks, clock, mishap>>

Polling == BurstOver \/ (flight.inburst = 0 /\ InProgress)

\* A second reduction before the round trips of the first one have passed.
Again(ack, now) ==
    LET before == Considered(cc, ack, flight.seqnr, FALSE, now)
        after == LossesDone(cc, ack, flight.seqnr, FALSE, now)
        Since(m) == m.sent > 0 /\ ~RttPassed(m, ack, now)
    IN  \/ MoreLost(before, ack) /\ Since(cc.loss)
        \/ MoreMarked(after, ack) /\ (Since(cc.cwr) \/ Since(cc.loss))

Processed(a, now, short, allowed) ==
    /\ clock' = now
    /\ cc' = ACKReceived(cc, a, flight.seqnr, short, now, allowed)
    /\ flight' = [flight EXCEPT !.inflight = flight.seqnr - a.received - a.lost, !.inburst = 0]
    /\ mishap' = mishap \cup (IF Undoes(cc, a) THEN {"undone"} ELSE {})
                        \cup (IF Again(a, now) THEN {"again"} ELSE {})
Ignored == flight' = [flight EXCEPT !.inburst = 0] /\ UNCHANGED <<cc, clock, mishap>>

\* An ACK is read, and may come once more.
Ack(a) ==
    /\ Polling /\ a \in acks
    /\ \/ /\ \/ acks' = acks \ {a} /\ UNCHANGED faults
             \/ Fault("Duplicate") /\ UNCHANGED acks
          /\ IF Stale(cc, a) THEN Ignored
             ELSE \E now \in {clock, clock + 1}, short \in test.short, allowed \in test.shapes :
                    now <= MaxClock /\ Processed(a, now, short, allowed)
       \/ Fault("Reserved") /\ acks' = acks \ {a} /\ Ignored
    /\ UNCHANGED <<pc, late, tx, sent, net, written, rx>>

\* Mutant: what was in flight before the timeout still is.
TimeoutInFlight ==
    /\ Polling /\ BurstOver
    /\ IF flight.inflight >= Window
         THEN /\ cc' = ResetCCInfo(cc, clock, Smallest) /\ mishap' = mishap \cup {"reset"}
              /\ flight' = [flight EXCEPT !.inburst = 0]
         ELSE flight' = [flight EXCEPT !.inburst = 0] /\ UNCHANGED <<cc, mishap>>
    /\ UNCHANGED <<pc, late, tx, sent, net, faults, written, rx, acks, clock>>

\* A second without an ACK resets a sender that may not send.
Timeout ==
    /\ Polling /\ BurstOver
    /\ IF flight.inflight >= Window
         THEN /\ cc' = ResetCCInfo(cc, clock, Smallest) /\ mishap' = mishap \cup {"reset"}
              /\ flight' = [flight EXCEPT !.inflight = 0, !.inburst = 0]
         ELSE flight' = [flight EXCEPT !.inburst = 0] /\ UNCHANGED <<cc, mishap>>
    /\ UNCHANGED <<pc, late, tx, sent, net, faults, written, rx, acks, clock>>

RunUDPL4S ==
    \/ L4sWrite \/ Timeout
    \/ \E a \in acks : Ack(a)
    \/ flight.inburst = 0 /\ LoopEnds /\ UNCHANGED l4svars

\* The server echoes every datagram that its loop reads, the last one too.
Echo(d) ==
    LET counts == DataReceivedSequence(rx, d.ecn, d.seq)
    IN  /\ rx' = counts
        /\ acks' = acks \cup {GetACKInfo(counts)}
        /\ UNCHANGED <<cc, flight, clock, mishap>>
=============================================================================
