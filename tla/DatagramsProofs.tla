--------------------------- MODULE DatagramsProofs ---------------------------
(***************************************************************************)
(* Proofs about Datagrams, for any tests, network, window and number of    *)
(* intervals.  A first invariant has that the numbers are dense, a second  *)
(* one that the congestion control of L4S reduces once in a round trip.    *)
(* Then the steps of both ends are put into a few forms, and on those rest *)
(* the invariants of the datagrams under way, of the reports, of the       *)
(* histograms, of a test in which nothing goes wrong, and of the echoes.   *)
(***************************************************************************)
EXTENDS Datagrams, SequenceTheorems, FiniteSetTheorems, TLAPS

TxFields == {"id", "amount", "left", "frame", "before", "remaining", "seq", "ready", "err", "fatal"}
CountFields == {"PacketID", "Datagrams", "Bytes", "Lost", "OutofOrder", "frameID", "frames", "framelost"}

\* The inductive invariant of NumbersDense: until the client has finished its
\* loop, the number of the next datagram follows the last one written.
Numbers ==
    /\ \A i \in DOMAIN written : written[i] = i
    /\ tx.id >= Len(written) + 1
    /\ pc["client"] \in {"synch", "loop", "finish"}
          => sent.Datagrams = Len(written) /\ tx.id = Len(written) + 1

Labels == {"synch", "loop", "finish", "await", "listen", "read", "done"}
ClientTypes ==
    /\ pc \in [Ends -> Labels]
    /\ DOMAIN tx = TxFields /\ tx.id \in Nat
    /\ DOMAIN sent = CountFields /\ sent.Datagrams \in Nat
    /\ written \in Seq(Nat)

DenseInv == ClientTypes /\ Numbers

-----------------------------------------------------------------------------
(* The numbers.                                                            *)

\* What a step does to the three that NumbersDense compares: n numbers are used.
Uses(n) == DOMAIN tx' = DOMAIN tx /\ tx'.id = tx.id + n /\ tx'.seq \in {tx.seq, flight.seqnr}
Counts(n) == DOMAIN sent' = DOMAIN sent /\ sent'.Datagrams = sent.Datagrams + n

\* A datagram of its own, a write that failed, and what comes after the loop.
NumberStep ==
    \/ Uses(1) /\ Counts(1) /\ written' = Append(written, tx.id)
         /\ pc["client"] \in {"synch", "loop"} /\ pc' = [pc EXCEPT !["client"] = "loop"]
    \/ Uses(0) /\ Counts(0) /\ UNCHANGED written
         /\ pc["client"] \in {"synch", "loop"}
         /\ \E l \in {"loop", "finish"} : pc' = [pc EXCEPT !["client"] = l]
    \/ (Uses(0) \/ Uses(1)) /\ (Counts(0) \/ Counts(1)) /\ UNCHANGED written
         /\ \E l \in {"await", "done"} : pc' = [pc EXCEPT !["client"] = l]

\* The reporter of the client counts a packet, whatever becomes of its frame,
\* unless it is empty.
LEMMA ClientPacketCounts ==
    ASSUME NEW s, NEW p, DOMAIN s = CountFields, s.Datagrams \in Nat, p.empty \in BOOLEAN
    PROVE  /\ DOMAIN ClientPacket(s, p) = CountFields
           /\ ClientPacket(s, p).Datagrams = s.Datagrams + (IF p.empty THEN 0 ELSE 1)
<1> DEFINE framed == IF p.err = "ok" THEN FrameWritten(s, p) ELSE s
<1>1. DOMAIN framed = CountFields /\ framed.Datagrams = s.Datagrams
  BY DEF FrameWritten, CountFields
<1> HIDE DEF framed
<1>2. ClientPacket(s, p) = [framed EXCEPT !.PacketID = p.id,
                       !.Bytes = @ + (IF p.err = "ok" THEN p.bytes ELSE 0),
                       !.Datagrams = @ + (IF p.empty THEN 0 ELSE 1)]
  BY DEF ClientPacket, framed
<1> QED BY <1>1, <1>2 DEF CountFields

\* ... and so Post, of a packet with or without an error.
LEMMA PostCounts ==
    ASSUME NEW id, NEW bytes, NEW err, NEW p, ClientTypes, Post(p),
           p.empty = Packet(id, bytes, err).empty
    PROVE  Counts(IF err = "ok" THEN 1 ELSE 0)
<1>1. p.empty = (err # "ok") BY DEF Packet
<1>2. DOMAIN sent = CountFields /\ sent.Datagrams \in Nat BY DEF ClientTypes
<1> QED BY <1>1, <1>2, ClientPacketCounts DEF Post, Counts

\* What has no number of its own changes no number.
LEMMA StepKeepsDense ==
    ASSUME DenseInv, NumberStep
    PROVE  DenseInv'
<1> USE DEF DenseInv, ClientTypes
<1>1. ClientTypes'
  <2>1. pc' \in [Ends -> Labels] BY DEF NumberStep, Labels
  <2>2. DOMAIN tx' = TxFields /\ tx'.id \in Nat BY DEF NumberStep, Uses
  <2>3. DOMAIN sent' = CountFields /\ sent'.Datagrams \in Nat BY DEF NumberStep, Counts
  <2>4. written' \in Seq(Nat) BY AppendProperties DEF NumberStep
  <2> QED BY <2>1, <2>2, <2>3, <2>4
<1>2. Numbers'
  <2>1. CASE written' = Append(written, tx.id) /\ Uses(1) /\ Counts(1)
               /\ pc["client"] \in {"synch", "loop"}
    <3>1. Len(written') = Len(written) + 1 BY <2>1, AppendProperties
    <3>2. sent.Datagrams = Len(written) /\ tx.id = Len(written) + 1 BY <2>1 DEF Numbers
    <3>3. \A i \in DOMAIN written' : written'[i] = i
      BY <2>1, <3>2, AppendProperties DEF Numbers
    <3>4. Len(written) \in Nat BY LenProperties
    <3> QED BY <2>1, <3>1, <3>2, <3>3, <3>4 DEF Numbers, Uses, Counts
  <2>2. CASE Uses(0) /\ Counts(0) /\ UNCHANGED written /\ pc["client"] \in {"synch", "loop"}
    <3>1. Len(written) \in Nat BY LenProperties
    <3> QED BY <2>2, <3>1 DEF Numbers, Uses, Counts
  <2>3. CASE (Uses(0) \/ Uses(1)) /\ UNCHANGED written
               /\ \E l \in {"await", "done"} : pc' = [pc EXCEPT !["client"] = l]
    <3>1. Len(written) \in Nat BY LenProperties
    <3>2. pc'["client"] \notin {"synch", "loop", "finish"} BY <2>3 DEF Ends
    <3> QED BY <2>3, <3>1, <3>2 DEF Numbers, Uses
  <2> QED BY <2>1, <2>2, <2>3 DEF NumberStep
<1> QED BY <1>1, <1>2

\* The first payload has the first number, or it is not sent and has none.
LEMMA StartSynchNumbers == ClientTypes /\ StartSynch => NumberStep
<1> SUFFICES ASSUME ClientTypes, StartSynch PROVE NumberStep OBVIOUS
<1>1. CASE /\ Post(Packet(tx.id, BufLen, "ok")) /\ written' = Append(written, tx.id)
           /\ tx' = [tx EXCEPT !.id = @ + 1, !.amount = IF Is("ModeTime") THEN @ ELSE @ - BufLen]
  <2>1. Counts(1) BY <1>1, PostCounts
  <2> QED BY <1>1, <2>1 DEF StartSynch, At, Goto, NumberStep, Uses, ClientTypes, TxFields
<1>2. CASE UNCHANGED <<tx, sent, written>>
  BY <1>2 DEF StartSynch, At, Goto, NumberStep, Uses, Counts, ClientTypes, Ends
<1> QED BY <1>1, <1>2 DEF StartSynch

\* The loop is left without another number.
LEMMA LoopEndsNumbers == ClientTypes /\ At("client", "loop") /\ LoopEnds => NumberStep
  BY DEF LoopEnds, At, Goto, NumberStep, Uses, Counts, ClientTypes

\* A failed write of RunUDP has no number.
LEMMA RunUDPNumbers == ClientTypes /\ At("client", "loop") /\ RunUDP => NumberStep
<1> SUFFICES ASSUME ClientTypes, At("client", "loop"), UdpWrite PROVE NumberStep
  BY LoopEndsNumbers DEF RunUDP
<1> DEFINE n == IF Is("ModeTime") THEN BufLen ELSE Least(tx.amount, BufLen)
           amount == Deduct(n)
<1>1. CASE /\ Post(Packet(tx.id, n, "ok")) /\ written' = Append(written, tx.id) /\ UNCHANGED pc
           /\ tx' = [tx EXCEPT !.id = @ + 1, !.amount = amount, !.err = "ok"]
  <2> HIDE DEF n, amount
  <2>1. Counts(1) BY <1>1, PostCounts
  <2> QED BY <1>1, <2>1 DEF At, NumberStep, Uses, ClientTypes, TxFields, Ends, Labels
<1>2. CASE /\ Fails("again") /\ Post(Packet(tx.id, 0, "again"))
           /\ tx' = [tx EXCEPT !.err = "again"] /\ UNCHANGED pc
  <2>1. Counts(0) BY <1>2, PostCounts
  <2> QED BY <1>2, <2>1 DEF Fails, At, NumberStep, Uses, ClientTypes, TxFields, Ends, Labels
<1>3. CASE /\ Fails("fatal") /\ Goto("client", "finish")
           /\ tx' = [tx EXCEPT !.err = "fatal"] /\ UNCHANGED sent
  BY <1>3 DEF Fails, At, Goto, NumberStep, Uses, Counts, ClientTypes, TxFields
<1> HIDE DEF n, amount
<1> QED BY <1>1, <1>2, <1>3 DEF UdpWrite, n, amount

\* A failed write of RunUDPIsochronous is reported with the number before, and
\* has none of its own.
LEMMA RunIsochNumbers == ClientTypes /\ At("client", "loop") /\ RunUDPIsochronous => NumberStep
<1> SUFFICES ASSUME ClientTypes, At("client", "loop"), RunUDPIsochronous PROVE NumberStep
  OBVIOUS
<1> DEFINE last == ~Is("ModeTime") /\ tx.amount < BufLen
           n == IF last THEN tx.amount ELSE Least(tx.left, BufLen)
           remaining == IF last THEN tx.amount ELSE tx.left
           left == tx.left - n
           rest == IF left > 0 THEN NotBelow(left, Minimum) ELSE left
           amount == Deduct(n)
           packet == [Packet(tx.id, n, "ok") EXCEPT !.ready = left = 0]
<1>1. CASE IsochTick
  <2>1. \E size, frame :
             tx' = [tx EXCEPT !.left = NotBelow(size, Minimum), !.before = tx.frame, !.frame = frame]
    BY <1>1 DEF IsochTick
  <2>2. UNCHANGED <<pc, sent, written>> BY <1>1 DEF IsochTick
  <2> QED BY <2>1, <2>2 DEF At, NumberStep, Uses, Counts, ClientTypes, TxFields, Ends, Labels
<1>2. CASE IsochEnds
  BY <1>2 DEF IsochEnds, At, Goto, NumberStep, Uses, Counts, ClientTypes
<1>3. CASE IsochWrite
  <2>1. CASE /\ Post(packet) /\ written' = Append(written, tx.id)
             /\ tx' = [tx EXCEPT !.id = @ + 1, !.amount = amount, !.err = "ok", !.ready = left = 0,
                                 !.left = rest, !.remaining = remaining]
    <3>1. packet.empty = Packet(tx.id, n, "ok").empty BY DEF Packet
    <3> HIDE DEF packet, n, left, rest, remaining, amount
    <3>2. Counts(1) BY <2>1, <3>1, PostCounts
    <3>3. UNCHANGED pc BY <1>3 DEF IsochWrite
    <3> QED BY <2>1, <3>2, <3>3 DEF At, NumberStep, Uses, ClientTypes, TxFields, Ends, Labels
  <2>2. ASSUME NEW err \in {"again", "fatal"}, Fails(err), Post(Packet(tx.id - 1, 0, err)),
               tx' = [tx EXCEPT !.err = err, !.fatal = @ \/ err = "fatal", !.remaining = remaining]
        PROVE  NumberStep
    <3>1. Counts(0) BY <2>2, PostCounts
    <3>2. UNCHANGED pc BY <1>3 DEF IsochWrite
    <3> HIDE DEF remaining
    <3> QED BY <2>2, <3>1, <3>2 DEF Fails, At, NumberStep, Uses, ClientTypes, TxFields, Ends, Labels
  <2> QED BY <1>3, <2>1, <2>2 DEF IsochWrite
<1> QED BY <1>1, <1>2, <1>3 DEF RunUDPIsochronous

\* A failed write of RunUDPBurst has no number, and an empty one the number of
\* the next.
LEMMA RunBurstNumbers == ClientTypes /\ At("client", "loop") /\ RunUDPBurst => NumberStep
<1> SUFFICES ASSUME ClientTypes, At("client", "loop"), RunUDPBurst PROVE NumberStep
  OBVIOUS
<1> DEFINE n == IF ~Is("ModeTime") THEN Least(tx.amount, BufLen)
                ELSE IF tx.left > BufLen THEN BufLen ELSE NotBelow(tx.left, Header)
           amount == Deduct(n)
<1>1. CASE BurstTick
  <2>1. PICK size \in test.sizes : tx' = [tx EXCEPT !.left = size] BY <1>1 DEF BurstTick
  <2>2. UNCHANGED <<pc, sent, written>> BY <1>1 DEF BurstTick
  <2> QED BY <2>1, <2>2 DEF At, NumberStep, Uses, Counts, ClientTypes, TxFields, Ends, Labels
<1>2. CASE BurstWrite
  <2>1. UNCHANGED pc BY <1>2 DEF BurstWrite
  <2>2. CASE /\ Post(Packet(tx.id, n, "ok")) /\ written' = Append(written, tx.id)
             /\ tx' = [tx EXCEPT !.id = @ + 1, !.amount = amount, !.left = @ - n, !.err = "ok"]
    <3> HIDE DEF n, amount
    <3>1. Counts(1) BY <2>2, PostCounts
    <3> QED BY <2>1, <2>2, <3>1 DEF At, NumberStep, Uses, ClientTypes, TxFields, Ends, Labels
  <2>3. ASSUME NEW err \in {"again", "timeo"}, Post(Packet(tx.id, 0, err)),
               tx' = [tx EXCEPT !.err = err], UNCHANGED written
        PROVE  NumberStep
    <3>1. Counts(0) BY <2>3, PostCounts
    <3> QED BY <2>1, <2>3, <3>1 DEF At, NumberStep, Uses, ClientTypes, TxFields, Ends, Labels
  <2>4. CASE UNCHANGED <<sent, written>> /\ tx' = [tx EXCEPT !.err = "fatal", !.left = 0]
    BY <2>1, <2>4 DEF At, NumberStep, Uses, Counts, ClientTypes, TxFields, Ends, Labels
  <2> HIDE DEF n, amount
  <2>5. \/ /\ Post(Packet(tx.id, n, "ok")) /\ written' = Append(written, tx.id)
           /\ tx' = [tx EXCEPT !.id = @ + 1, !.amount = amount, !.left = @ - n, !.err = "ok"]
        \/ Post(Packet(tx.id, 0, "timeo")) /\ tx' = [tx EXCEPT !.err = "timeo"] /\ UNCHANGED written
        \/ Post(Packet(tx.id, 0, "again")) /\ tx' = [tx EXCEPT !.err = "again"] /\ UNCHANGED written
        \/ UNCHANGED <<sent, written>> /\ tx' = [tx EXCEPT !.err = "fatal", !.left = 0]
    BY <1>2 DEF BurstWrite, Fails, n, amount
  <2> QED BY <2>2, <2>3, <2>4, <2>5
<1>3. CASE LoopEnds BY <1>3, LoopEndsNumbers
<1> QED BY <1>1, <1>2, <1>3 DEF RunUDPBurst

\* A failed write of RunUDPL4S has no number and is not reported.
LEMMA RunL4SNumbers == ClientTypes /\ At("client", "loop") /\ RunUDPL4S => NumberStep
<1> SUFFICES ASSUME ClientTypes, At("client", "loop"), RunUDPL4S PROVE NumberStep
  OBVIOUS
<1>1. CASE L4sWrite
  <2>1. UNCHANGED pc BY <1>1 DEF L4sWrite
  <2>2. CASE /\ Post(Packet(tx.id, BufLen, "ok")) /\ written' = Append(written, tx.id)
             /\ tx' = [tx EXCEPT !.id = @ + 1, !.err = "ok", !.seq = flight.seqnr]
    <3>1. Counts(1) BY <2>2, PostCounts
    <3> QED BY <2>1, <2>2, <3>1 DEF At, NumberStep, Uses, ClientTypes, TxFields, Ends, Labels
  <2>3. ASSUME NEW err \in {"again", "fatal"}, Fails(err), UNCHANGED sent,
               tx' = [tx EXCEPT !.err = err, !.seq = flight.seqnr]
        PROVE  NumberStep
    BY <2>1, <2>3 DEF Fails, At, NumberStep, Uses, Counts, ClientTypes, TxFields, Ends, Labels
  <2> QED BY <1>1, <2>2, <2>3 DEF L4sWrite
<1>2. CASE UNCHANGED <<pc, tx, sent, written>>
  BY <1>2 DEF At, NumberStep, Uses, Counts, ClientTypes, Ends, Labels
<1>3. CASE LoopEnds BY <1>3, LoopEndsNumbers
<1> QED BY <1>1, <1>2, <1>3 DEF RunUDPL4S, Timeout, Ack

\* The last datagram of the traffic has the next number and may be counted;
\* every other try for an answer has another one.
LEMMA FinishNumbers ==
    ASSUME ClientTypes, Finish \/ AwaitServerFinPacket(TRUE) \/ AwaitServerFinPacket(FALSE)
    PROVE  NumberStep
<1>1. CASE Finish
  <2>1. Uses(0) /\ UNCHANGED written BY <1>1 DEF Finish, Uses, ClientTypes
  <2>2. Counts(0) \/ Counts(1)
    <3>1. CASE Post(Packet(tx.id, BufLen, tx.err)) BY <3>1, PostCounts
    <3>2. CASE UNCHANGED sent BY <3>2 DEF Counts, ClientTypes
    <3> QED BY <1>1, <3>1, <3>2 DEF Finish
  <2>3. \E l \in {"await", "done"} : pc' = [pc EXCEPT !["client"] = l]
    BY <1>1 DEF Finish, Goto
  <2> QED BY <2>1, <2>2, <2>3 DEF NumberStep
<1>2. ASSUME NEW readable \in BOOLEAN, AwaitServerFinPacket(readable)
      PROVE  NumberStep
  <2>1. UNCHANGED <<sent, written>> /\ Counts(0)
    BY <1>2 DEF AwaitServerFinPacket, Counts, ClientTypes
  <2>2. Uses(0) \/ Uses(1) BY <1>2 DEF AwaitServerFinPacket, Uses, ClientTypes, TxFields
  <2>3. \E l \in {"await", "done"} : pc' = [pc EXCEPT !["client"] = l]
    BY <1>2 DEF AwaitServerFinPacket, At, Goto, ClientTypes, Ends, Labels
  <2> QED BY <2>1, <2>2, <2>3 DEF NumberStep
<1> QED BY <1>1, <1>2

\* A step of the client is one of these.
LEMMA ClientNumbers == ClientTypes /\ Client => NumberStep
<1> SUFFICES ASSUME ClientTypes, Client PROVE NumberStep OBVIOUS
<1>1. CASE Loop
  BY <1>1, RunUDPNumbers, RunIsochNumbers, RunBurstNumbers, RunL4SNumbers DEF Loop
<1>2. CASE StartSynch BY <1>2, StartSynchNumbers
<1>3. CASE Finish \/ AwaitServerFinPacket(TRUE) \/ AwaitServerFinPacket(FALSE)
  BY <1>3, FinishNumbers
<1> QED BY <1>1, <1>2, <1>3 DEF Client

\* A step of the server and of the reporters leaves the client where it is.
LEMMA OthersKeepDense ==
    ASSUME DenseInv, UNCHANGED <<tx, sent, written>>,
           pc' = pc \/ \E l \in Labels : pc' = [pc EXCEPT !["server"] = l]
    PROVE  DenseInv'
<1>1. pc' \in [Ends -> Labels] /\ pc'["client"] = pc["client"]
  BY DEF DenseInv, ClientTypes, Ends
<1> QED BY <1>1 DEF DenseInv, ClientTypes, Numbers

LEMMA DenseInit == Init => DenseInv
<1> SUFFICES ASSUME Init PROVE DenseInv OBVIOUS
<1>1. pc \in [Ends -> Labels] /\ pc["client"] = "synch" BY DEF Init, Ends, Labels
<1>2. DOMAIN tx = TxFields /\ tx.id = 1 BY DEF Init, TxFields
<1>3. DOMAIN sent = CountFields /\ sent.Datagrams = 0 BY DEF Init, Nothing, CountFields
<1>4. written \in Seq(Nat) /\ Len(written) = 0 /\ DOMAIN written = {}
  BY EmptySeq DEF Init
<1> QED BY <1>1, <1>2, <1>3, <1>4 DEF DenseInv, ClientTypes, Numbers

LEMMA DenseStep == DenseInv /\ [Next]_vars => DenseInv'
<1> SUFFICES ASSUME DenseInv, [Next]_vars PROVE DenseInv' OBVIOUS
<1>1. CASE Client BY <1>1, ClientNumbers, StepKeepsDense DEF DenseInv
<1>2. CASE Server
  <2>1. UNCHANGED <<tx, sent, written>> BY <1>2 DEF Server, clients
  <2>2. pc' = pc \/ \E l \in {"read", "done"} : pc' = [pc EXCEPT !["server"] = l]
    BY <1>2 DEF Server, Listen, FirstRead, Read, ReadNothing, ServerLoopEnds, Goto
  <2> QED BY <2>1, <2>2, OthersKeepDense DEF Labels
<1>3. CASE IntervalReport \/ ClientIntervalReport \/ \E e \in Ends : Interrupt(e)
  <2>1. UNCHANGED <<pc, tx, sent, written>>
    BY <1>3 DEF IntervalReport, ClientIntervalReport, Interrupt, clients
  <2> QED BY <2>1, OthersKeepDense
<1>4. CASE UNCHANGED vars
  BY <1>4, OthersKeepDense DEF vars, udpvars, clients
<1> QED BY <1>1, <1>2, <1>3, <1>4 DEF Next

\* What is handed to the network is numbered 1, 2, 3... in every test, whatever
\* writes fail in whichever loop, and until the loop is left the client has
\* counted as many (Client.cpp:1436, 1565, 1594).
THEOREM Dense == Spec => []NumbersDense
<1>1. DenseInv => NumbersDense BY DEF DenseInv, Numbers, NumbersDense
<1> QED BY DenseInit, DenseStep, <1>1, PTL DEF Spec
-----------------------------------------------------------------------------
(* The reductions of the congestion control.                               *)

\* The sequence numbers of L4S, which other tests leave at 0.
SeqTypes ==
    /\ tx.seq \in Nat
    /\ DOMAIN flight = {"seqnr", "inflight", "inburst"} /\ flight.seqnr \in Nat
    /\ \A d \in net : d.seq \in Nat

\* What the receiver has counted, now and when it sent the ACKs, and what the
\* sender knows of it: who has counted more received datagrams has not counted
\* fewer that are received or lost.
Sum(x) == x.received + x.lost
Ordered(x, y) == x.received =< y.received => Sum(x) =< Sum(y)
Echoes == acks \cup {rx, cc}
EchoInv ==
    /\ \A x \in Echoes : x.received \in Nat /\ x.lost \in Nat /\ x.received =< rx.received
    /\ \A x, y \in Echoes : Ordered(x, y)

CCFields == {"state", "mode", "allowed", "received", "CE", "lost", "error", "alpha", "lost_window", "lost_rate",
             "loss", "cwr"}
States == {"init", "cong_avoid", "in_loss", "in_cwr"}
CCShape(c) ==
    /\ DOMAIN c = CCFields /\ c.state \in States
    /\ c.loss.sent \in Nat /\ c.loss.ts \in Nat /\ c.cwr.sent \in Nat /\ c.cwr.ts \in Nat

\* The round trips since a reduction have passed, for what the sender knows.
Over(m) == m.sent > 0 => Sum(cc) > m.sent /\ clock > m.ts

\* Outside a reduction its round trips have passed, and a reduction for losses
\* covers the rest of one for marks in which it began.
Reductions ==
    /\ cc.cwr.sent =< flight.seqnr /\ cc.cwr.ts =< clock
    /\ cc.state # "in_loss" => Over(cc.loss)
    /\ cc.state \in {"init", "cong_avoid"} => Over(cc.cwr)
    /\ cc.state = "in_loss" => Over(cc.cwr) \/ (cc.cwr.sent =< cc.loss.sent /\ cc.cwr.ts =< cc.loss.ts)

\* The inductive invariant of ReductionsApart.
Excused == {"undone", "reset"} \cap mishap # {}
ApartInv ==
    /\ SeqTypes /\ EchoInv /\ CCShape(cc) /\ clock \in Nat
    /\ ReductionsApart
    /\ ~Excused => Reductions

\* What a step of ACKReceived leaves as it is.
Kept(c, d) == c.loss = d.loss /\ c.cwr = d.cwr /\ c.lost = d.lost /\ c.CE = d.CE
Remembered(c, d) == c.lost_window = d.lost_window /\ c.lost_rate = d.lost_rate

\* Each step of ACKReceived by itself: what it does to the state of the sender and
\* to what is remembered of the reductions.
LEMMA TakeModeKeeps ==
    ASSUME NEW c, NEW short, CCShape(c)
    PROVE  LET d == TakeMode(c, short) IN
           /\ CCShape(d) /\ Kept(d, c) /\ Remembered(d, c)
           /\ d.state = IF c.state = "init" THEN "cong_avoid" ELSE c.state
  BY DEF TakeMode, CCShape, Kept, Remembered, CCFields, States

LEMMA UpdateAlphaKeeps ==
    ASSUME NEW c, NEW ack, NEW sq, NEW now, CCShape(c)
    PROVE  LET d == UpdateAlpha(c, ack, sq, now) IN
           CCShape(d) /\ Kept(d, c) /\ Remembered(d, c) /\ d.state = c.state
  BY DEF UpdateAlpha, CCShape, Kept, Remembered, CCFields, States

LEMMA UndoLossKeeps ==
    ASSUME NEW c, NEW ack, CCShape(c)
    PROVE  LET d == UndoLoss(c, ack) IN
           /\ CCShape(d) /\ Kept(d, c)
           /\ ~Undoes(c, ack) => d.state = c.state
  BY DEF UndoLoss, CCShape, Kept, CCFields, States

LEMMA EndLossKeeps ==
    ASSUME NEW c, NEW ack, NEW now, CCShape(c)
    PROVE  LET d == EndLoss(c, ack, now) IN
           /\ CCShape(d) /\ Kept(d, c)
           /\ d.state = IF c.state = "in_loss" /\ RttPassed(c.loss, ack, now) THEN "cong_avoid" ELSE c.state
  BY DEF EndLoss, CCShape, Kept, CCFields, States

LEMMA ReduceByLossKeeps ==
    ASSUME NEW c, NEW ack, NEW sq \in Nat, NEW now \in Nat, CCShape(c)
    PROVE  LET d == ReduceByLoss(c, ack, sq, now) IN
           /\ CCShape(d) /\ d.cwr = c.cwr /\ d.CE = c.CE
           /\ d.state = IF MoreLost(c, ack) THEN "in_loss" ELSE c.state
           /\ d.loss.sent = IF MoreLost(c, ack) THEN sq ELSE c.loss.sent
           /\ d.loss.ts = IF MoreLost(c, ack) THEN now ELSE c.loss.ts
  BY DEF ReduceByLoss, CCShape, CCFields, States

LEMMA EndCwrKeeps ==
    ASSUME NEW c, NEW ack, NEW now, CCShape(c)
    PROVE  LET d == EndCwr(c, ack, now) IN
           /\ CCShape(d) /\ d.cwr = c.cwr /\ d.loss = c.loss /\ d.CE = c.CE
           /\ d.state = IF c.state = "in_cwr" /\ RttPassed(c.cwr, ack, now) THEN "cong_avoid" ELSE c.state
  BY DEF EndCwr, CCShape, CCFields, States

LEMMA ReduceByMarksKeeps ==
    ASSUME NEW c, NEW ack, NEW sq \in Nat, NEW now \in Nat, CCShape(c)
    PROVE  LET d == ReduceByMarks(c, ack, sq, now) IN
           /\ CCShape(d) /\ d.loss = c.loss
           /\ d.state = IF MoreMarked(c, ack) THEN "in_cwr" ELSE c.state
           /\ d.cwr.sent = IF MoreMarked(c, ack) THEN sq ELSE c.cwr.sent
           /\ d.cwr.ts = IF MoreMarked(c, ack) THEN now ELSE c.cwr.ts
  BY DEF ReduceByMarks, CCShape, CCFields, States

\* Up to the reduction for losses nothing happens but that a reduction for
\* losses ends when its round trips have passed, if none is undone.
LEMMA ConsideredKeeps ==
    ASSUME NEW c, NEW ack, NEW sq, NEW short, NEW now, CCShape(c)
    PROVE  LET before == Considered(c, ack, sq, short, now) IN
           /\ CCShape(before) /\ Kept(before, c)
           /\ ~Undoes(c, ack) =>
                before.state = IF c.state = "in_loss" /\ RttPassed(c.loss, ack, now) THEN "cong_avoid"
                               ELSE IF c.state = "init" THEN "cong_avoid" ELSE c.state
<1> DEFINE c1 == TakeMode(c, short)
           c2 == UpdateAlpha(c1, ack, sq, now)
           c3 == UndoLoss(c2, ack)
           c4 == EndLoss(c3, ack, now)
<1>1. /\ CCShape(c1) /\ Kept(c1, c) /\ Remembered(c1, c)
      /\ c1.state = IF c.state = "init" THEN "cong_avoid" ELSE c.state
  BY TakeModeKeeps
<1>2. Considered(c, ack, sq, short, now) = c4 BY DEF Considered
<1> HIDE DEF c1
<1>3. CCShape(c2) /\ Kept(c2, c1) /\ Remembered(c2, c1) /\ c2.state = c1.state
  BY <1>1, UpdateAlphaKeeps
<1> HIDE DEF c2
<1>4. CCShape(c3) /\ Kept(c3, c2) /\ (~Undoes(c2, ack) => c3.state = c2.state)
  BY <1>3, UndoLossKeeps
<1>5. Undoes(c2, ack) <=> Undoes(c, ack) BY <1>1, <1>3 DEF Undoes, Kept, Remembered
<1> HIDE DEF c3
<1>6. /\ CCShape(c4) /\ Kept(c4, c3)
      /\ c4.state = IF c3.state = "in_loss" /\ RttPassed(c3.loss, ack, now) THEN "cong_avoid" ELSE c3.state
  BY <1>4, EndLossKeeps
<1> HIDE DEF c4
<1> QED BY <1>1, <1>2, <1>3, <1>4, <1>5, <1>6 DEF Kept

\* All that an ACK makes of the state of the sender, when no reduction is undone.
LEMMA ProcessedState ==
    ASSUME NEW ack, NEW sq \in Nat, NEW short, NEW now \in Nat, NEW allowed, NEW c, CCShape(c)
    PROVE  LET before == Considered(c, ack, sq, short, now)
               after == LossesDone(c, ack, sq, short, now)
               d == ACKReceived(c, ack, sq, short, now, allowed)
           IN  /\ CCShape(d) /\ d.received = ack.received /\ d.lost = ack.lost
               /\ after.state = IF MoreLost(before, ack) THEN "in_loss"
                                ELSE IF before.state = "in_cwr" /\ RttPassed(c.cwr, ack, now) THEN "cong_avoid"
                                ELSE before.state
               /\ d.state = IF MoreMarked(after, ack) THEN "in_cwr" ELSE after.state
               /\ d.loss.sent = IF MoreLost(before, ack) THEN sq ELSE c.loss.sent
               /\ d.loss.ts = IF MoreLost(before, ack) THEN now ELSE c.loss.ts
               /\ d.cwr.sent = IF MoreMarked(after, ack) THEN sq ELSE c.cwr.sent
               /\ d.cwr.ts = IF MoreMarked(after, ack) THEN now ELSE c.cwr.ts
<1> DEFINE before == Considered(c, ack, sq, short, now)
           reduced == ReduceByLoss(before, ack, sq, now)
           after == EndCwr(reduced, ack, now)
           marked == ReduceByMarks(after, ack, sq, now)
           d == ACKReceived(c, ack, sq, short, now, allowed)
<1>1. CCShape(before) /\ Kept(before, c) BY ConsideredKeeps
<1>2. LossesDone(c, ack, sq, short, now) = after BY DEF LossesDone
<1>3. d = [marked EXCEPT !.received = ack.received, !.CE = ack.CE, !.lost = ack.lost,
                         !.error = ack.error, !.allowed = allowed]
  BY <1>2 DEF ACKReceived
<1> HIDE DEF before, d
<1>4. /\ CCShape(reduced) /\ reduced.cwr = before.cwr
      /\ reduced.state = IF MoreLost(before, ack) THEN "in_loss" ELSE before.state
      /\ reduced.loss.sent = IF MoreLost(before, ack) THEN sq ELSE before.loss.sent
      /\ reduced.loss.ts = IF MoreLost(before, ack) THEN now ELSE before.loss.ts
  BY <1>1, ReduceByLossKeeps
<1> HIDE DEF reduced
<1>5. /\ CCShape(after) /\ after.cwr = reduced.cwr /\ after.loss = reduced.loss
      /\ after.state = IF reduced.state = "in_cwr" /\ RttPassed(reduced.cwr, ack, now) THEN "cong_avoid"
                       ELSE reduced.state
  BY <1>4, EndCwrKeeps
<1> HIDE DEF after
<1>6. /\ CCShape(marked) /\ marked.loss = after.loss
      /\ marked.state = IF MoreMarked(after, ack) THEN "in_cwr" ELSE after.state
      /\ marked.cwr.sent = IF MoreMarked(after, ack) THEN sq ELSE after.cwr.sent
      /\ marked.cwr.ts = IF MoreMarked(after, ack) THEN now ELSE after.cwr.ts
  BY <1>5, ReduceByMarksKeeps
<1> HIDE DEF marked
<1>7. /\ CCShape(d) /\ d.received = ack.received /\ d.lost = ack.lost
      /\ d.state = marked.state /\ d.loss = marked.loss /\ d.cwr = marked.cwr
  BY <1>3, <1>6 DEF CCShape, CCFields
<1>8. after.state = IF MoreLost(before, ack) THEN "in_loss"
                    ELSE IF before.state = "in_cwr" /\ RttPassed(c.cwr, ack, now) THEN "cong_avoid"
                    ELSE before.state
  BY <1>1, <1>4, <1>5 DEF Kept
<1> QED BY <1>1, <1>2, <1>4, <1>5, <1>6, <1>7, <1>8 DEF Kept, before, d

\* A sender that reduces has the round trips of the reductions before behind it.
LEMMA ReducesWhenOver ==
    ASSUME NEW a, NEW now \in Nat, NEW short, SeqTypes, CCShape(cc), clock \in Nat, Reductions,
           cc.received \in Nat, cc.lost \in Nat, a.received \in Nat, a.lost \in Nat,
           ~Undoes(cc, a), Sum(cc) =< Sum(a), clock =< now
    PROVE  LET before == Considered(cc, a, flight.seqnr, short, now)
               after == LossesDone(cc, a, flight.seqnr, short, now)
               Passed(m) == m.sent > 0 => RttPassed(m, a, now)
           IN  /\ before.state # "in_loss" => Passed(cc.loss)
               /\ after.state # "in_loss" => Passed(cc.loss)
               /\ after.state = "cong_avoid" => Passed(cc.cwr)
<1> DEFINE before == Considered(cc, a, flight.seqnr, short, now)
           after == LossesDone(cc, a, flight.seqnr, short, now)
           Passed(m) == m.sent > 0 => RttPassed(m, a, now)
<1>1. flight.seqnr \in Nat BY DEF SeqTypes
<1>2. before.state = IF cc.state = "in_loss" /\ RttPassed(cc.loss, a, now) THEN "cong_avoid"
                     ELSE IF cc.state = "init" THEN "cong_avoid" ELSE cc.state
  BY ConsideredKeeps
<1>3. after.state = IF MoreLost(before, a) THEN "in_loss"
                    ELSE IF before.state = "in_cwr" /\ RttPassed(cc.cwr, a, now) THEN "cong_avoid"
                    ELSE before.state
  <2>1. \A allowed : ACKReceived(cc, a, flight.seqnr, short, now, allowed).lost = a.lost =>
          after.state = IF MoreLost(before, a) THEN "in_loss"
                        ELSE IF before.state = "in_cwr" /\ RttPassed(cc.cwr, a, now) THEN "cong_avoid"
                        ELSE before.state
    BY <1>1, ProcessedState
  <2>2. ACKReceived(cc, a, flight.seqnr, short, now, cc.allowed).lost = a.lost
    BY <1>1, ProcessedState
  <2> QED BY <2>1, <2>2
<1> HIDE DEF before, after
<1>4. /\ cc.state # "in_loss" => Passed(cc.loss)
      /\ cc.state \in {"init", "cong_avoid"} => Passed(cc.cwr)
      /\ cc.state = "in_loss" /\ RttPassed(cc.loss, a, now) => Passed(cc.cwr)
  BY DEF Reductions, Over, Sum, RttPassed, CCShape
<1>5. before.state # "in_loss" => Passed(cc.loss) BY <1>2, <1>4
<1>6. before.state = "cong_avoid" => Passed(cc.cwr) BY <1>2, <1>4 DEF CCShape, States
<1>7. after.state # "in_loss" => Passed(cc.loss) BY <1>3, <1>5
<1>8. after.state = "cong_avoid" => Passed(cc.cwr) BY <1>3, <1>6
<1> QED BY <1>5, <1>7, <1>8 DEF before, after

\* So an ACK brings no second reduction in a round trip, and the next one will not.
LEMMA ProcessedApart ==
    ASSUME NEW a, NEW now \in Nat, NEW short, NEW allowed,
           SeqTypes, CCShape(cc), clock \in Nat, Reductions,
           cc.received \in Nat, cc.lost \in Nat, a.received \in Nat, a.lost \in Nat,
           ~Undoes(cc, a), Sum(cc) =< Sum(a), clock =< now,
           clock' = now, flight'.seqnr = flight.seqnr,
           cc' = ACKReceived(cc, a, flight.seqnr, short, now, allowed)
    PROVE  ~Again(a, now) /\ Reductions'
<1> DEFINE Passed(m) == m.sent > 0 => RttPassed(m, a, now)
<1>1. ~Again(a, now)
  <2> DEFINE before == Considered(cc, a, flight.seqnr, FALSE, now)
             after == LossesDone(cc, a, flight.seqnr, FALSE, now)
  <2>1. /\ before.state # "in_loss" => Passed(cc.loss)
        /\ after.state # "in_loss" => Passed(cc.loss)
        /\ after.state = "cong_avoid" => Passed(cc.cwr)
    BY ReducesWhenOver
  <2>2. Again(a, now) <=> \/ MoreLost(before, a) /\ ~Passed(cc.loss)
                          \/ MoreMarked(after, a) /\ (~Passed(cc.cwr) \/ ~Passed(cc.loss))
    BY DEF Again
  <2> HIDE DEF before, after, Passed
  <2> QED BY <2>1, <2>2 DEF MoreLost, MoreMarked
<1>2. Reductions'
  <2> DEFINE before == Considered(cc, a, flight.seqnr, short, now)
             after == LossesDone(cc, a, flight.seqnr, short, now)
  <2>1. /\ before.state # "in_loss" => Passed(cc.loss)
        /\ after.state # "in_loss" => Passed(cc.loss)
        /\ after.state = "cong_avoid" => Passed(cc.cwr)
    BY ReducesWhenOver
  <2>2. flight.seqnr \in Nat BY DEF SeqTypes
  <2>3. /\ CCShape(cc') /\ cc'.received = a.received /\ cc'.lost = a.lost
        /\ after.state = IF MoreLost(before, a) THEN "in_loss"
                         ELSE IF before.state = "in_cwr" /\ RttPassed(cc.cwr, a, now) THEN "cong_avoid"
                         ELSE before.state
        /\ cc'.state = IF MoreMarked(after, a) THEN "in_cwr" ELSE after.state
        /\ cc'.loss.sent = IF MoreLost(before, a) THEN flight.seqnr ELSE cc.loss.sent
        /\ cc'.loss.ts = IF MoreLost(before, a) THEN now ELSE cc.loss.ts
        /\ cc'.cwr.sent = IF MoreMarked(after, a) THEN flight.seqnr ELSE cc.cwr.sent
        /\ cc'.cwr.ts = IF MoreMarked(after, a) THEN now ELSE cc.cwr.ts
    BY <2>2, ProcessedState
  <2>4. before.state = IF cc.state = "in_loss" /\ RttPassed(cc.loss, a, now) THEN "cong_avoid"
                       ELSE IF cc.state = "init" THEN "cong_avoid" ELSE cc.state
    BY ConsideredKeeps
  <2> HIDE DEF before, after
  <2>5. cc'.cwr.sent =< flight'.seqnr /\ cc'.cwr.ts =< clock'
    BY <2>2, <2>3 DEF Reductions, CCShape
  <2>6. ASSUME cc'.state # "in_loss" PROVE Over(cc.loss)'
    <3>1. after.state # "in_loss" /\ ~MoreLost(before, a) BY <2>3, <2>6 DEF MoreMarked
    <3> QED BY <2>1, <2>3, <3>1 DEF Over, Sum, RttPassed
  <2>7. ASSUME cc'.state \in {"init", "cong_avoid"} PROVE Over(cc.cwr)'
    <3>1. ~MoreMarked(after, a) /\ cc'.state = after.state BY <2>3, <2>7
    <3>2. after.state = "cong_avoid" BY <2>3, <2>4, <2>7, <3>1 DEF CCShape, States
    <3> QED BY <2>1, <2>3, <3>1, <3>2 DEF Over, Sum, RttPassed
  <2>8. ASSUME cc'.state = "in_loss"
        PROVE  Over(cc.cwr)' \/ (cc'.cwr.sent =< cc'.loss.sent /\ cc'.cwr.ts =< cc'.loss.ts)
    <3>1. after.state = "in_loss" /\ ~MoreMarked(after, a) BY <2>3, <2>8 DEF MoreMarked
    <3>2. CASE MoreLost(before, a)
      BY <2>2, <2>3, <3>1, <3>2 DEF Reductions, CCShape
    <3>3. CASE ~MoreLost(before, a)
      <4>1. cc.state = "in_loss" BY <2>3, <2>4, <3>1, <3>3
      <4> QED BY <2>3, <3>1, <3>3, <4>1 DEF Reductions, Over, Sum, CCShape
    <3> QED BY <3>2, <3>3
  <2> QED BY <2>5, <2>6, <2>7, <2>8 DEF Reductions
<1> QED BY <1>1, <1>2

\* Every datagram has the sequence number of its write or of the one before.
NetStep == \A d \in net' : d \in net \/ d.seq \in {tx.seq, flight.seqnr}

LEMMA SendStep ==
    ASSUME NEW d, d.seq \in {tx.seq, flight.seqnr}, Send(d)
    PROVE  NetStep
  BY DEF Send, NetStep

\* ... and so each step of the client.
LEMMA ClientNet == Client => NetStep
<1> SUFFICES ASSUME Client PROVE NetStep OBVIOUS
<1>1. \A id, bytes : Datagram(id, bytes).seq = tx.seq BY DEF Datagram
<1>2. \A id, bytes : Send(Datagram(id, bytes)) => NetStep BY <1>1, SendStep
<1>3. CASE UNCHANGED net BY <1>3 DEF NetStep
<1>4. CASE StartSynch BY <1>2, <1>3, <1>4 DEF StartSynch
<1>5. CASE RunUDP BY <1>2, <1>3, <1>5 DEF RunUDP, UdpWrite, Fails, LoopEnds
<1>6. CASE RunUDPIsochronous
  <2>1. ASSUME NEW id, NEW bytes, NEW remaining, Send([Datagram(id, bytes) EXCEPT !.remaining = remaining])
        PROVE  NetStep
    <3> DEFINE d == [Datagram(id, bytes) EXCEPT !.remaining = remaining]
    <3>1. d.seq = tx.seq BY DEF Datagram
    <3>2. Send(d) BY <2>1
    <3> HIDE DEF d
    <3> QED BY <3>1, <3>2, SendStep
  <2> QED BY <1>3, <1>6, <2>1 DEF RunUDPIsochronous, IsochTick, IsochWrite, IsochEnds, Fails
<1>7. CASE RunUDPBurst BY <1>2, <1>3, <1>7 DEF RunUDPBurst, BurstTick, BurstWrite, Fails, LoopEnds
<1>8. CASE RunUDPL4S
  <2>1. ASSUME NEW id, NEW bytes, NEW ecn,
               Send([Datagram(id, bytes) EXCEPT !.seq = flight.seqnr, !.ecn = ecn])
        PROVE  NetStep
    <3> DEFINE d == [Datagram(id, bytes) EXCEPT !.seq = flight.seqnr, !.ecn = ecn]
    <3>1. d.seq = flight.seqnr
      BY DEF Datagram
    <3>2. Send(d) BY <2>1
    <3> HIDE DEF d
    <3> QED BY <3>1, <3>2, SendStep
  <2> QED BY <1>3, <1>8, <2>1 DEF RunUDPL4S, L4sWrite, Fails, Timeout, Ack, LoopEnds
<1>9. CASE Finish BY <1>2, <1>3, <1>9 DEF Finish
<1>10. ASSUME NEW readable \in BOOLEAN, AwaitServerFinPacket(readable) PROVE NetStep
  BY <1>2, <1>3, <1>10 DEF AwaitServerFinPacket
<1> QED BY <1>4, <1>5, <1>6, <1>7, <1>8, <1>9, <1>10 DEF Client, Loop

\* A step of the client numbers on.
LEMMA ClientSeqs ==
    ASSUME ClientTypes, SeqTypes, Client,
           DOMAIN flight' = DOMAIN flight, flight'.seqnr \in Nat
    PROVE  SeqTypes'
<1>1. tx'.seq \in {tx.seq, flight.seqnr} BY ClientNumbers DEF NumberStep, Uses
<1>2. NetStep BY ClientNet
<1> QED BY <1>1, <1>2 DEF SeqTypes, NetStep

\* Whoever takes over what another one has counted, or reads what is under way,
\* leaves the counts in order.
LEMMA EchoesKept ==
    ASSUME EchoInv, rx' = rx,
           \A x \in Echoes' : \E y \in Echoes : x.received = y.received /\ x.lost = y.lost
    PROVE  EchoInv'
  BY DEF EchoInv, Ordered, Sum, Echoes

\* The receiver counts one more received, and not fewer that are received or lost.
LEMMA ReceiverCounts ==
    ASSUME NEW r, NEW ecn, NEW seq \in Nat, r.received \in Nat, r.lost \in Nat
    PROVE  LET s == DataReceivedSequence(r, ecn, seq) IN
           s.received = r.received + 1 /\ s.lost \in Nat /\ Sum(r) =< Sum(s)
  BY DEF DataReceivedSequence, Sum

\* An echo of the receiver is in order with those before it.
LEMMA EchoKeeps ==
    ASSUME NEW d, EchoInv, SeqTypes, d \in net, Echo(d)
    PROVE  EchoInv'
<1>1. /\ rx'.received = rx.received + 1 /\ rx'.lost \in Nat /\ Sum(rx) =< Sum(rx')
      /\ acks' = acks \cup {rx'} /\ cc' = cc
  BY ReceiverCounts DEF Echo, GetACKInfo, EchoInv, Echoes, SeqTypes
<1>2. \A x \in Echoes' : x = rx' \/ x \in Echoes BY <1>1 DEF Echoes
<1>3. \A x \in Echoes : Sum(x) =< Sum(rx') /\ x.received < rx'.received
  <2> TAKE x \in Echoes
  <2>1. rx \in Echoes BY DEF Echoes
  <2>2. Sum(x) =< Sum(rx) /\ x.received =< rx.received BY <2>1 DEF EchoInv, Ordered
  <2>3. Sum(x) \in Int /\ Sum(rx) \in Int /\ rx.received \in Nat /\ x.received \in Nat
    BY <2>1 DEF EchoInv, Sum
  <2> QED BY <1>1, <2>2, <2>3 DEF Sum
<1>4. rx'.received \in Nat BY <1>1 DEF EchoInv, Echoes
<1>5. \A x \in Echoes' : x.received \in Nat /\ x.lost \in Nat /\ x.received =< rx'.received
  BY <1>1, <1>2, <1>3, <1>4 DEF EchoInv
<1>6. \A x, y \in Echoes' : Ordered(x, y)
  <2> TAKE x, y \in Echoes'
  <2>1. CASE x \in Echoes /\ y \in Echoes BY <2>1 DEF EchoInv
  <2>2. CASE y = rx' BY <1>1, <1>2, <1>3, <1>4, <2>2 DEF Ordered, Sum
  <2>3. CASE x = rx' /\ y \in Echoes
    <3>1. y.received < x.received /\ y.received \in Nat /\ x.received \in Nat
      BY <1>3, <1>4, <2>3 DEF EchoInv
    <3> QED BY <3>1 DEF Ordered
  <2> QED BY <1>2, <2>1, <2>2, <2>3
<1> QED BY <1>5, <1>6 DEF EchoInv

\* A step in which no ACK is processed, nothing is echoed and no timer expires.
LEMMA UndisturbedKeeps ==
    ASSUME ApartInv, SeqTypes', acks' \subseteq acks, UNCHANGED <<cc, rx, clock, mishap>>,
           flight'.seqnr >= flight.seqnr
    PROVE  ApartInv'
<1>1. EchoInv'
  <2>1. \A x \in Echoes' : x \in Echoes BY DEF Echoes
  <2> QED BY <2>1, EchoesKept DEF ApartInv
<1>2. ~Excused' => Reductions'
  <2>1. flight.seqnr \in Nat /\ flight'.seqnr \in Nat BY DEF ApartInv, SeqTypes
  <2> QED BY <2>1 DEF ApartInv, Reductions, Excused, Over, Sum, CCShape
<1> QED BY <1>1, <1>2 DEF ApartInv, ReductionsApart

\* A timeout resets the sender, which excuses what comes after it.
LEMMA TimeoutKeeps == ApartInv /\ SeqTypes' /\ Timeout => ApartInv'
<1> SUFFICES ASSUME ApartInv, SeqTypes', Timeout PROVE ApartInv' OBVIOUS
<1>1. CASE flight.inflight >= Window
  <2>1. cc' = ResetCCInfo(cc, clock, Smallest) /\ mishap' = mishap \cup {"reset"}
    BY <1>1 DEF Timeout
  <2>2. UNCHANGED <<rx, acks, clock>> BY DEF Timeout
  <2>3. CCShape(cc') /\ cc'.received = cc.received /\ cc'.lost = cc.lost
    BY <2>1 DEF ResetCCInfo, ApartInv, CCShape, CCFields, States
  <2>4. EchoInv'
    <3>1. \A x \in Echoes' : \E y \in Echoes : x.received = y.received /\ x.lost = y.lost
      BY <2>2, <2>3 DEF Echoes
    <3> QED BY <2>2, <3>1, EchoesKept DEF ApartInv
  <2>5. Excused' BY <2>1 DEF Excused
  <2>6. clock' \in Nat BY <2>2 DEF ApartInv
  <2> QED BY <2>3, <2>4, <2>5, <2>6 DEF ApartInv, ReductionsApart, Excused
<1>2. CASE ~(flight.inflight >= Window)
  <2>1. UNCHANGED <<cc, rx, acks, clock, mishap>> /\ flight' = [flight EXCEPT !.inburst = 0]
    BY <1>2 DEF Timeout
  <2>2. flight'.seqnr = flight.seqnr /\ flight.seqnr \in Nat BY <2>1 DEF ApartInv, SeqTypes
  <2> QED BY <2>1, <2>2, UndisturbedKeeps
<1> QED BY <1>1, <1>2

\* An ACK that is read is in order with what the sender knows, or it is ignored.
LEMMA AckKeeps == ASSUME NEW a \in acks, ApartInv, SeqTypes', Ack(a) PROVE ApartInv'
<1>1. acks' \subseteq acks /\ rx' = rx BY DEF Ack
<1>2. CASE Ignored
  <2>1. UNCHANGED <<cc, clock, mishap>> /\ flight' = [flight EXCEPT !.inburst = 0]
    BY <1>2 DEF Ignored
  <2>2. flight'.seqnr = flight.seqnr /\ flight.seqnr \in Nat BY <2>1 DEF ApartInv, SeqTypes
  <2> QED BY <1>1, <2>1, <2>2, UndisturbedKeeps
<1>3. ASSUME NEW now \in {clock, clock + 1}, NEW short, NEW allowed,
             ~Stale(cc, a), Processed(a, now, short, allowed)
      PROVE  ApartInv'
  <2>1. /\ clock' = now /\ cc' = ACKReceived(cc, a, flight.seqnr, short, now, allowed)
        /\ mishap' = mishap \cup (IF Undoes(cc, a) THEN {"undone"} ELSE {})
                             \cup (IF Again(a, now) THEN {"again"} ELSE {})
    BY <1>3 DEF Processed
  <2>2. flight'.seqnr = flight.seqnr /\ flight.seqnr \in Nat
    BY <1>3 DEF Processed, ApartInv, SeqTypes
  <2>3. now \in Nat /\ clock \in Nat /\ clock =< now BY <1>3 DEF ApartInv
  <2>4. /\ a.received \in Nat /\ a.lost \in Nat
        /\ cc.received \in Nat /\ cc.lost \in Nat /\ Ordered(cc, a)
    BY DEF ApartInv, EchoInv, Echoes
  <2>5. Sum(cc) =< Sum(a) BY <1>3, <2>4 DEF Stale, Ordered
  <2>6. CCShape(cc') /\ cc'.received = a.received /\ cc'.lost = a.lost
    BY <2>1, <2>2, <2>3, ProcessedState DEF ApartInv
  <2>7. EchoInv'
    <3>1. \A x \in Echoes' : \E y \in Echoes : x.received = y.received /\ x.lost = y.lost
      BY <1>1, <2>6 DEF Echoes
    <3> QED BY <1>1, <3>1, EchoesKept DEF ApartInv
  <2>8. CASE Excused'
    BY <2>1, <2>3, <2>6, <2>7, <2>8 DEF ApartInv, ReductionsApart, Excused
  <2>9. CASE ~Excused'
    <3>1. ~Excused /\ ~Undoes(cc, a) BY <2>1, <2>9 DEF Excused
    <3>2. Reductions /\ CCShape(cc) /\ SeqTypes BY <3>1 DEF ApartInv
    <3>3. ~Again(a, now) /\ Reductions'
      BY <2>1, <2>2, <2>3, <2>4, <2>5, <3>1, <3>2, ProcessedApart
    <3>4. mishap' = mishap BY <2>1, <3>1, <3>3
    <3> QED BY <2>1, <2>3, <2>6, <2>7, <3>3, <3>4 DEF ApartInv, ReductionsApart
  <2> QED BY <2>8, <2>9
<1> QED BY <1>2, <1>3 DEF Ack

\* The client leaves its flight as a record, with a sequence number that does not
\* go back.
LEMMA ClientFlight ==
    ASSUME SeqTypes, Client
    PROVE  DOMAIN flight' = DOMAIN flight /\ flight'.seqnr \in Nat /\ flight'.seqnr >= flight.seqnr
<1> DEFINE Follows == /\ DOMAIN flight' = DOMAIN flight
                      /\ flight'.seqnr \in Nat /\ flight'.seqnr >= flight.seqnr
<1>1. ASSUME NEW n, NEW m, flight' = [flight EXCEPT !.inflight = n, !.inburst = m] PROVE Follows
  BY <1>1 DEF SeqTypes
<1>2. ASSUME NEW m, flight' = [flight EXCEPT !.inburst = m] PROVE Follows
  BY <1>2 DEF SeqTypes
<1>3. CASE UNCHANGED flight BY <1>3 DEF SeqTypes
<1>4. CASE L4sWrite
  <2>1. CASE flight' = [seqnr |-> flight.seqnr + 1, inflight |-> flight.inflight + 1,
                        inburst |-> flight.inburst + 1]
    BY <2>1 DEF SeqTypes
  <2>2. flight' = [seqnr |-> flight.seqnr + 1, inflight |-> flight.inflight + 1,
                   inburst |-> flight.inburst + 1]
        \/ flight' = [flight EXCEPT !.inburst = Burst] \/ flight' = flight
    BY <1>4 DEF L4sWrite
  <2> QED BY <1>2, <1>3, <2>1, <2>2
<1>5. CASE Timeout
  <2>1. flight' = [flight EXCEPT !.inflight = 0, !.inburst = 0] \/ flight' = [flight EXCEPT !.inburst = 0]
    BY <1>5 DEF Timeout
  <2> QED BY <1>1, <1>2, <2>1
<1>6. ASSUME NEW a \in acks, Ack(a) PROVE Follows
  <2>1. \/ flight' = [flight EXCEPT !.inflight = flight.seqnr - a.received - a.lost, !.inburst = 0]
        \/ flight' = [flight EXCEPT !.inburst = 0]
    BY <1>6 DEF Ack, Ignored, Processed
  <2> QED BY <1>1, <1>2, <2>1
<1> HIDE DEF Follows
<1>7. L4sWrite \/ Timeout \/ (\E a \in acks : Ack(a)) \/ UNCHANGED flight
  BY DEF Client, Loop, RunUDPL4S, l4svars
<1> QED BY <1>3, <1>4, <1>5, <1>6, <1>7 DEF Follows

LEMMA ApartInit == Init => ApartInv
<1> SUFFICES ASSUME Init PROVE ApartInv OBVIOUS
<1>1. SeqTypes BY DEF Init, L4sInit, SeqTypes
<1>2. EchoInv BY DEF Init, L4sInit, EchoInv, Echoes, Fresh, Counted, Ordered, Sum
<1>3. CCShape(cc) /\ Reductions
  BY DEF Init, L4sInit, Fresh, CCShape, CCFields, States, Reductions, Over
<1> QED BY <1>1, <1>2, <1>3 DEF Init, L4sInit, ApartInv, ReductionsApart

LEMMA ApartStep == ClientTypes /\ ApartInv /\ [Next]_vars => ApartInv'
<1> SUFFICES ASSUME ClientTypes, ApartInv, [Next]_vars PROVE ApartInv' OBVIOUS
<1>1. SeqTypes /\ flight.seqnr \in Nat BY DEF ApartInv, SeqTypes
<1>2. ASSUME UNCHANGED l4svars, SeqTypes' PROVE ApartInv'
  BY <1>1, <1>2, UndisturbedKeeps DEF l4svars
<1>3. CASE Client
  <2>1. flight'.seqnr >= flight.seqnr /\ SeqTypes' BY <1>1, <1>3, ClientFlight, ClientSeqs
  <2>2. CASE UNCHANGED l4svars BY <1>2, <2>1, <2>2
  <2>3. CASE L4sWrite BY <2>1, <2>3, UndisturbedKeeps DEF L4sWrite
  <2>4. CASE Timeout BY <2>1, <2>4, TimeoutKeeps
  <2>5. ASSUME NEW a \in acks, Ack(a) PROVE ApartInv' BY <2>1, <2>5, AckKeeps
  <2>6. ASSUME NEW a \in acks, acks' = acks \ {a}, UNCHANGED <<cc, rx, flight, clock, mishap>>
        PROVE  ApartInv'
    BY <2>1, <2>6, UndisturbedKeeps
  <2> QED BY <1>3, <2>2, <2>3, <2>4, <2>5, <2>6 DEF Client, Loop, RunUDPL4S
<1>4. CASE Server
  <2>1. net' \subseteq net /\ UNCHANGED tx
    BY <1>4 DEF Server, clients, Listen, FirstRead, Read, ReadNothing, ServerLoopEnds, Taken
  <2>2. ASSUME UNCHANGED flight PROVE SeqTypes' BY <1>1, <2>1, <2>2 DEF SeqTypes
  <2>3. CASE UNCHANGED l4svars BY <1>2, <2>2, <2>3 DEF l4svars
  <2>4. ASSUME NEW d \in net, Echo(d) PROVE ApartInv'
    <3>1. UNCHANGED <<cc, flight, clock, mishap>> BY <2>4 DEF Echo
    <3>2. EchoInv' BY <1>1, <2>4, EchoKeeps DEF ApartInv
    <3> QED BY <2>2, <3>1, <3>2 DEF ApartInv, ReductionsApart, Reductions, Excused, Over, Sum
  <2> QED BY <1>4, <2>3, <2>4 DEF Server
<1>5. CASE (IntervalReport \/ ClientIntervalReport \/ \E e \in Ends : Interrupt(e)) /\ UNCHANGED l4svars
  <2>1. UNCHANGED <<tx, net, flight>>
    BY <1>5 DEF IntervalReport, ClientIntervalReport, Interrupt, clients, l4svars
  <2>2. SeqTypes' BY <1>1, <2>1 DEF SeqTypes
  <2> QED BY <1>2, <1>5, <2>2
<1>6. CASE UNCHANGED vars
  <2>1. SeqTypes' BY <1>1, <1>6 DEF SeqTypes, vars, udpvars, clients, l4svars
  <2> QED BY <1>2, <1>6, <2>1 DEF vars
<1> QED BY <1>3, <1>4, <1>5, <1>6 DEF Next

\* The window of L4S is reduced at most once in a round trip, for losses and for
\* marks together, whatever becomes of the datagrams and the ACKs on their way
\* and in whatever order they are read, unless a reduction is undone or a
\* timeout resets the sender (prague_cc.cpp:279, 369).
THEOREM Apart == Spec => []ReductionsApart
<1>1. DenseInv /\ ApartInv /\ [Next]_vars => (DenseInv /\ ApartInv)'
  BY DenseStep, ApartStep DEF DenseInv
<1>2. ApartInv => ReductionsApart BY DEF ApartInv
<1> QED BY DenseInit, ApartInit, <1>1, <1>2, PTL DEF Spec
-----------------------------------------------------------------------------
(* The steps of the client.                                                *)

\* A burst of an amount that is used up: the client would write empty datagrams
\* with the next number and come to no end.
Starved ==
    /\ test.loop = "burst" /\ ~Is("ModeTime") /\ At("client", "loop")
    /\ tx.amount = 0 /\ tx.left > 0

SenderTypes ==
    /\ test \in Tests
    /\ tx.amount \in Int /\ tx.left \in Int
    /\ faults \in 0 .. test.budget /\ tries \in 0 .. RetryCount
    /\ twice \in BOOLEAN /\ (twice => faults < test.budget)

\* The steps of the client.  It writes d, ...
Blamed(errs) == \/ faults' = faults /\ tx'.err = tx.err
                \/ faults > 0 /\ faults' = faults - 1 /\ tx'.err \in {tx.err} \cup errs
Advances(l) == pc' = [pc EXCEPT !["client"] = l]
SameTest == /\ UNCHANGED <<test, interrupted, servers>> /\ (reported' = reported)
            /\ late \subseteq late' /\ late' \subseteq late \cup {"client"}

Writes(d) ==
    /\ ~Starved /\ pc["client"] \in {"synch", "loop"} /\ Advances("loop")
    /\ Send(d) /\ d.id = tx.id /\ d.bytes \in Nat \ {0}
    /\ written' = Append(written, tx.id) /\ tx'.id = tx.id + 1 /\ tx'.err \in {"ok", tx.err}
    /\ sent'.Bytes = sent.Bytes + d.bytes
    /\ tx'.amount \in Int /\ tx'.left \in Int /\ UNCHANGED tries
    /\ test.loop = "l4s" =>
         \/ At("client", "synch") /\ d.seq = tx.seq /\ flight' = flight
         \/ At("client", "loop") /\ d.seq = flight.seqnr /\ flight'.seqnr = flight.seqnr + 1

\* ... or nothing, in a burst of nothing an empty one, ...
Idles ==
    /\ ~Starved /\ pc["client"] \in {"synch", "loop"} /\ \E l \in {"loop", "finish"} : Advances(l)
    /\ UNCHANGED <<net, written, tries>> /\ tx'.id = tx.id /\ Blamed({"again", "fatal"})
    /\ sent'.Bytes = sent.Bytes
    /\ tx'.amount \in Int /\ tx'.left \in Int
    /\ flight'.seqnr = flight.seqnr

Starves(d) ==
    /\ Starved /\ UNCHANGED <<pc, written, tries, l4svars>>
    /\ Send(d) /\ d.id = tx.id /\ d.bytes = 0
    /\ tx' = [tx EXCEPT !.err = "timeo"]
    /\ sent'.Bytes = sent.Bytes

\* ... or one that ends the traffic.
Finishes(d) ==
    /\ At("client", "finish") /\ \E l \in {"await", "done"} : Advances(l)
    /\ \/ Send(d) /\ d.id = -tx.id /\ d.bytes = BufLen /\ Post(Packet(tx.id, BufLen, tx.err))
       \/ faults > 0 /\ faults' = faults - 1 /\ UNCHANGED <<sent, net>>
    /\ UNCHANGED <<tx, written, tries, l4svars>>

Repeats(d) ==
    /\ At("client", "await") /\ UNCHANGED <<sent, written>> /\ flight' = flight
    /\ \/ /\ tries > 0 /\ tries' = tries - 1 /\ pc' = pc
          /\ tx' = [tx EXCEPT !.id = @ + 1]
          /\ \/ Send(d) /\ d.id = -(tx.id + 1) /\ d.bytes = BufLen
             \/ faults > 0 /\ faults' = faults - 1 /\ UNCHANGED net
       \/ Advances("done") /\ UNCHANGED <<tx, tries, net, faults>>

ClientForms ==
    /\ SameTest
    /\ Idles \/ \E d : Writes(d) \/ Starves(d) \/ Finishes(d) \/ Repeats(d)

\* The reporter of the client counts the bytes of what was written.
LEMMA ClientPacketBytes ==
    ASSUME NEW s, NEW p, DOMAIN s = CountFields, s.Bytes \in Int, s.Datagrams \in Nat,
           p.bytes \in Int, p.empty \in BOOLEAN
    PROVE  /\ ClientPacket(s, p).Bytes = s.Bytes + (IF p.err = "ok" THEN p.bytes ELSE 0)
           /\ ClientPacket(s, p).PacketID = p.id
<1> DEFINE framed == IF p.err = "ok" THEN FrameWritten(s, p) ELSE s
<1>1. DOMAIN framed = CountFields /\ framed.Bytes = s.Bytes
  BY DEF FrameWritten, CountFields
<1> HIDE DEF framed
<1>2. ClientPacket(s, p) = [framed EXCEPT !.PacketID = p.id,
                       !.Bytes = @ + (IF p.err = "ok" THEN p.bytes ELSE 0),
                       !.Datagrams = @ + (IF p.empty THEN 0 ELSE 1)]
  BY DEF ClientPacket, framed
<1> QED BY <1>1, <1>2 DEF CountFields

LEMMA PostBytes ==
    ASSUME NEW id, NEW bytes \in Int, NEW err, NEW p, ClientTypes, sent.Bytes \in Int, Post(p),
           p.empty = Packet(id, bytes, err).empty, p.bytes = bytes, p.err = err, p.id = id
    PROVE  sent'.Bytes = sent.Bytes + (IF err = "ok" THEN bytes ELSE 0) /\ sent'.PacketID = id
<1>1. p.empty \in BOOLEAN BY DEF Packet
<1>2. DOMAIN sent = CountFields /\ sent.Datagrams \in Nat BY DEF ClientTypes
<1> QED BY <1>1, <1>2, ClientPacketBytes DEF Post

LEMMA PacketBytes ==
    ASSUME NEW id, NEW bytes \in Int, NEW err, ClientTypes, sent.Bytes \in Int,
           Post(Packet(id, bytes, err))
    PROVE  sent'.Bytes = sent.Bytes + (IF err = "ok" THEN bytes ELSE 0) /\ sent'.PacketID = id
<1> DEFINE p == Packet(id, bytes, err)
<1>1. p.empty = Packet(id, bytes, err).empty /\ p.bytes = bytes /\ p.err = err /\ p.id = id
  BY DEF Packet
<1>2. Post(p) OBVIOUS
<1> HIDE DEF p
<1> QED BY <1>1, <1>2, PostBytes

\* What is written is not empty.
LEMMA Lengths ==
    /\ BufLen \in Nat \ {0} /\ Header \in Nat \ {0} /\ Header =< BufLen
    /\ \A n, m \in Int : NotBelow(n, m) \in Int /\ Least(n, m) \in Int
    /\ \A n, m \in Int : n > 0 /\ m > 0 => Least(n, m) > 0 /\ NotBelow(n, m) > 0
    /\ Minimum \in Int
  BY UdpTrafficAssumption DEF NotBelow, Least, Minimum

LEMMA DeductTypes == ASSUME SenderTypes, NEW n \in Int PROVE Deduct(n) \in Int
  BY DEF SenderTypes, Deduct, NotBelow

\* The first payload.
LEMMA StartSynchForm ==
    ASSUME SenderTypes, ClientTypes, sent.Bytes \in Int, StartSynch, UNCHANGED l4svars
    PROVE  ClientForms
<1>1. SameTest BY DEF StartSynch, SameTest
<1>2. ~Starved BY DEF Starved, StartSynch, At
<1>3. CASE /\ First /\ Send(Datagram(tx.id, BufLen))
           /\ Post(Packet(tx.id, BufLen, "ok"))
           /\ tx' = [tx EXCEPT !.id = @ + 1, !.amount = IF Is("ModeTime") THEN @ ELSE @ - BufLen]
           /\ written' = Append(written, tx.id)
  <2> DEFINE d == Datagram(tx.id, BufLen)
  <2>1. d.id = tx.id /\ d.bytes = BufLen /\ d.seq = tx.seq BY DEF Datagram
  <2>2. sent'.Bytes = sent.Bytes + BufLen
    BY <1>3, Lengths, PacketBytes
  <2>3. /\ tx'.id = tx.id + 1 /\ tx'.err = tx.err /\ tx'.left = tx.left
        /\ tx'.amount = IF Is("ModeTime") THEN tx.amount ELSE tx.amount - BufLen
    BY <1>3 DEF ClientTypes, TxFields
  <2>4. Send(d) BY <1>3
  <2> HIDE DEF d
  <2>5. Writes(d)
    BY <1>2, <1>3, <2>1, <2>2, <2>3, <2>4, Lengths
       DEF Writes, StartSynch, At, Goto, Advances, SenderTypes, l4svars
  <2> QED BY <1>1, <2>5 DEF ClientForms
<1>4. CASE (Fault("again") \/ faults' = faults) /\ UNCHANGED <<tx, sent, net, written>>
  BY <1>1, <1>2, <1>4
     DEF ClientForms, Idles, StartSynch, At, Goto, Advances, SenderTypes, Fault, Blamed, l4svars
<1> QED BY <1>3, <1>4 DEF StartSynch

\* The end of a loop.
LEMMA LoopEndsForm ==
    ASSUME SenderTypes, ClientTypes, At("client", "loop"), LoopEnds, ~Starved,
           UNCHANGED <<tries, l4svars>>, SameTest
    PROVE  ClientForms
  BY DEF LoopEnds, Goto, ClientForms, Idles, Advances, At, Blamed, SenderTypes, l4svars

LEMMA ClockForm ==
    ASSUME Clock("client"), UNCHANGED <<test, interrupted, reported, servers>>
    PROVE  SameTest
  BY DEF Clock, SameTest

LEMMA RunUDPForm ==
    ASSUME SenderTypes, ClientTypes, sent.Bytes \in Int, At("client", "loop"), test.loop = "udp", RunUDP,
           UNCHANGED <<test, interrupted, reported, tries, servers, l4svars>>
    PROVE  ClientForms
<1>1. ~Starved BY DEF Starved
<1>2. CASE LoopEnds
  <2>1. SameTest BY <1>2 DEF LoopEnds, SameTest
  <2> QED BY <1>1, <1>2, <2>1, LoopEndsForm
<1>3. CASE UdpWrite
  <2> DEFINE n == IF Is("ModeTime") THEN BufLen ELSE Least(tx.amount, BufLen)
             amount == Deduct(n)
  <2>1. n \in Nat \ {0}
    <3>1. Is("ModeTime") \/ tx.amount > 0 BY <1>3 DEF UdpWrite, InProgress
    <3>2. tx.amount \in Int /\ BufLen \in Nat /\ BufLen > 0 BY Lengths DEF SenderTypes
    <3>3. CASE Is("ModeTime") BY <3>2, <3>3
    <3>4. CASE ~Is("ModeTime") BY <3>1, <3>2, <3>4 DEF Least
    <3> QED BY <3>3, <3>4
  <2>2. amount \in Int BY <2>1, DeductTypes
  <2>3. SameTest BY <1>3, ClockForm DEF UdpWrite
  <2>4. CASE /\ Send(Datagram(tx.id, n)) /\ Post(Packet(tx.id, n, "ok"))
             /\ tx' = [tx EXCEPT !.id = @ + 1, !.amount = amount, !.err = "ok"]
             /\ written' = Append(written, tx.id) /\ UNCHANGED pc
    <3> HIDE DEF n, amount
    <3> DEFINE d == Datagram(tx.id, n)
    <3>1. d.id = tx.id /\ d.bytes = n BY DEF Datagram
    <3>2. sent'.Bytes = sent.Bytes + n BY <2>1, <2>4, PacketBytes
    <3>3. tx'.id = tx.id + 1 /\ tx'.err = "ok" /\ tx'.left = tx.left /\ tx'.amount = amount
      BY <2>4 DEF ClientTypes, TxFields
    <3>4. Send(d) BY <2>4
    <3> HIDE DEF d
    <3>5. pc' = [pc EXCEPT !["client"] = "loop"] BY <2>4 DEF At, ClientTypes, Ends
    <3>6. Writes(d)
      BY <1>1, <2>1, <2>2, <2>4, <3>1, <3>2, <3>3, <3>4, <3>5 DEF Writes, Advances, At, SenderTypes
    <3> QED BY <2>3, <3>6 DEF ClientForms
  <2>5. ASSUME NEW err \in {"again", "fatal"}, Fails(err), tx' = [tx EXCEPT !.err = err],
               sent'.Bytes = sent.Bytes, pc' = pc \/ pc' = [pc EXCEPT !["client"] = "finish"]
        PROVE  ClientForms
    <3>1. tx'.id = tx.id /\ tx'.err = err /\ tx'.left = tx.left /\ tx'.amount = tx.amount
      BY <2>5 DEF ClientTypes, TxFields
    <3>2. \E l \in {"loop", "finish"} : Advances(l) BY <2>5 DEF At, ClientTypes, Ends, Advances
    <3> QED BY <1>1, <2>3, <2>5, <3>1, <3>2
         DEF ClientForms, Idles, Fails, Fault, Blamed, At, SenderTypes, l4svars
  <2>6. CASE /\ Fails("again") /\ Post(Packet(tx.id, 0, "again"))
             /\ tx' = [tx EXCEPT !.err = "again"] /\ UNCHANGED pc
    <3>1. sent'.Bytes = sent.Bytes BY <2>6, PacketBytes
    <3> QED BY <2>5, <2>6, <3>1
  <2>7. CASE /\ Fails("fatal") /\ Goto("client", "finish")
             /\ tx' = [tx EXCEPT !.err = "fatal"] /\ UNCHANGED sent
    BY <2>5, <2>7 DEF Goto
  <2> HIDE DEF n, amount
  <2> QED BY <1>3, <2>4, <2>6, <2>7 DEF UdpWrite, n, amount
<1> QED BY <1>2, <1>3 DEF RunUDP

\* A write that fails in a loop.
LEMMA FailsForm ==
    ASSUME SenderTypes, ClientTypes, At("client", "loop"), ~Starved, SameTest,
           NEW err \in {"again", "fatal"}, Fails(err), UNCHANGED pc, tries' = tries,
           tx'.id = tx.id, tx'.err = err, tx'.left \in Int, tx'.amount = tx.amount,
           sent'.Bytes = sent.Bytes, flight'.seqnr = flight.seqnr
    PROVE  ClientForms
<1>1. \E l \in {"loop", "finish"} : Advances(l) BY DEF At, ClientTypes, Ends, Advances
<1> QED BY <1>1 DEF ClientForms, Idles, Fails, Fault, Blamed, At, SenderTypes

\* A write of a loop other than that of L4S.
LEMMA WritesForm ==
    ASSUME SenderTypes, ClientTypes, At("client", "loop"), ~Starved, SameTest, test.loop # "l4s",
           NEW d, Send(d), NEW n \in Nat \ {0}, d.id = tx.id, d.bytes = n, UNCHANGED pc, tries' = tries,
           tx'.id = tx.id + 1, tx'.err = "ok", tx'.left \in Int, tx'.amount \in Int,
           sent'.Bytes = sent.Bytes + n, written' = Append(written, tx.id)
    PROVE  ClientForms
<1>1. Advances("loop") BY DEF At, ClientTypes, Ends, Advances
<1>2. Writes(d) BY <1>1 DEF Writes, At
<1> QED BY <1>2 DEF ClientForms

LEMMA IsochForm ==
    ASSUME SenderTypes, ClientTypes, sent.Bytes \in Int, At("client", "loop"), test.loop = "isoch",
           RunUDPIsochronous, UNCHANGED <<test, interrupted, reported, tries, servers, l4svars>>
    PROVE  ClientForms
<1>1. ~Starved BY DEF Starved
<1>2. CASE IsochTick
  <2>1. SameTest BY <1>2 DEF IsochTick, SameTest
  <2>2. PICK size \in test.sizes : \E frame :
             /\ Fault("Slip") \/ UNCHANGED faults
             /\ tx' = [tx EXCEPT !.left = NotBelow(size, Minimum), !.before = tx.frame, !.frame = frame]
    BY <1>2 DEF IsochTick
  <2>3. size \in Int BY TestsAssumption DEF SenderTypes
  <2>4. NotBelow(size, Minimum) \in Int BY <2>3, Lengths
  <2>5. tx'.id = tx.id /\ tx'.err = tx.err /\ tx'.amount = tx.amount /\ tx'.left = NotBelow(size, Minimum)
    BY <2>2 DEF ClientTypes, TxFields
  <2>6. \E l \in {"loop", "finish"} : Advances(l)
    BY <1>2 DEF IsochTick, At, ClientTypes, Ends, Advances
  <2>7. Blamed({"again", "fatal"}) BY <2>2, <2>5 DEF Blamed, Fault
  <2>8. UNCHANGED <<net, written, sent>> BY <1>2 DEF IsochTick
  <2>9. tx'.amount \in Int /\ tx'.left \in Int BY <2>4, <2>5 DEF SenderTypes
  <2> QED BY <1>1, <2>1, <2>5, <2>6, <2>7, <2>8, <2>9 DEF ClientForms, Idles, At, l4svars
<1>3. CASE IsochEnds
  <2>1. SameTest BY <1>3 DEF IsochEnds, SameTest
  <2> QED BY <1>1, <1>3, <2>1 DEF IsochEnds, Goto, ClientForms, Idles, Advances, At, Blamed, SenderTypes, l4svars
<1>4. CASE IsochWrite
  <2> DEFINE last == ~Is("ModeTime") /\ tx.amount < BufLen
             n == IF last THEN tx.amount ELSE Least(tx.left, BufLen)
             remaining == IF last THEN tx.amount ELSE tx.left
             left == tx.left - n
             rest == IF left > 0 THEN NotBelow(left, Minimum) ELSE left
             amount == Deduct(n)
             packet == [Packet(tx.id, n, "ok") EXCEPT !.ready = left = 0]
             d == [Datagram(tx.id, n) EXCEPT !.remaining = remaining]
  <2>1. SameTest BY <1>4, ClockForm DEF IsochWrite
  <2>2. n \in Nat \ {0}
    <3>1. Is("ModeTime") \/ tx.amount > 0 BY <1>4 DEF IsochWrite, InProgress
    <3>2. tx.amount \in Int /\ tx.left \in Int /\ tx.left > 0 /\ BufLen \in Nat /\ BufLen > 0
      BY <1>4, Lengths DEF SenderTypes, IsochWrite
    <3>3. CASE last BY <3>1, <3>2, <3>3
    <3>4. CASE ~last BY <3>2, <3>4 DEF Least
    <3> QED BY <3>3, <3>4
  <2>3. amount \in Int /\ left \in Int
    <3>1. tx.left \in Int BY DEF SenderTypes
    <3> HIDE DEF n
    <3> QED BY <2>2, <3>1, DeductTypes
  <2>4. rest \in Int
    <3> HIDE DEF left
    <3> QED BY <2>3, Lengths
  <2>5. CASE /\ Send(d) /\ Post(packet) /\ written' = Append(written, tx.id)
             /\ tx' = [tx EXCEPT !.id = @ + 1, !.amount = amount, !.err = "ok", !.ready = left = 0,
                                 !.left = rest, !.remaining = remaining]
    <3>1. d.id = tx.id /\ d.bytes = n BY DEF Datagram
    <3>2. packet.empty = Packet(tx.id, n, "ok").empty /\ packet.bytes = n /\ packet.err = "ok" /\ packet.id = tx.id
      BY DEF Packet
    <3> HIDE DEF packet, n, left, rest, remaining, amount, d
    <3>3. sent'.Bytes = sent.Bytes + n
      <4>1. n \in Int /\ Post(packet) BY <2>2, <2>5
      <4>2. ASSUME NEW err, err = "ok", packet.empty = Packet(tx.id, n, err).empty, packet.bytes = n,
                   packet.err = err, packet.id = tx.id
            PROVE  sent'.Bytes = sent.Bytes + n
        BY <4>1, <4>2, PostBytes
      <4> QED BY <3>2, <4>2
    <3>4. tx'.id = tx.id + 1 /\ tx'.err = "ok" /\ tx'.left = rest /\ tx'.amount = amount
      BY <2>5 DEF ClientTypes, TxFields
    <3>5. UNCHANGED pc BY <1>4 DEF IsochWrite
    <3> QED BY <1>1, <2>1, <2>2, <2>3, <2>4, <2>5, <3>1, <3>3, <3>4, <3>5, WritesForm
  <2>6. ASSUME NEW err \in {"again", "fatal"}, Fails(err), Post(Packet(tx.id - 1, 0, err)),
               tx' = [tx EXCEPT !.err = err, !.fatal = @ \/ err = "fatal", !.remaining = remaining]
        PROVE  ClientForms
    <3>1. sent'.Bytes = sent.Bytes BY <2>6, PacketBytes
    <3>2. UNCHANGED pc BY <1>4 DEF IsochWrite
    <3> HIDE DEF remaining
    <3>3. tx'.id = tx.id /\ tx'.err = err /\ tx'.left = tx.left /\ tx'.amount = tx.amount
      BY <2>6 DEF ClientTypes, TxFields
    <3>4. tx'.left \in Int /\ flight'.seqnr = flight.seqnr BY <3>3 DEF SenderTypes, l4svars
    <3> QED BY <1>1, <2>1, <2>6, <3>1, <3>2, <3>3, <3>4, FailsForm
  <2> QED BY <1>4, <2>5, <2>6 DEF IsochWrite
<1> QED BY <1>2, <1>3, <1>4 DEF RunUDPIsochronous

LEMMA BurstForm ==
    ASSUME SenderTypes, ClientTypes, sent.Bytes \in Int, At("client", "loop"), test.loop = "burst",
           RunUDPBurst, UNCHANGED <<test, interrupted, reported, tries, servers, l4svars>>
    PROVE  ClientForms
<1>1. CASE BurstTick
  <2>1. SameTest BY <1>1 DEF BurstTick, SameTest
  <2>2. PICK size \in test.sizes : tx' = [tx EXCEPT !.left = size] BY <1>1 DEF BurstTick
  <2>3. size \in Int BY TestsAssumption DEF SenderTypes
  <2>4. tx'.id = tx.id /\ tx'.err = tx.err /\ tx'.amount = tx.amount /\ tx'.left = size
    BY <2>2 DEF ClientTypes, TxFields
  <2>5. \E l \in {"loop", "finish"} : Advances(l)
    BY <1>1 DEF BurstTick, At, ClientTypes, Ends, Advances
  <2>6. UNCHANGED <<net, written, sent, faults>> BY <1>1 DEF BurstTick
  <2>7. ~Starved BY <1>1 DEF BurstTick, Starved, SenderTypes
  <2> QED BY <2>1, <2>3, <2>4, <2>5, <2>6, <2>7 DEF ClientForms, Idles, Blamed, At, l4svars, SenderTypes
<1>2. CASE tx.left =< 0 /\ LoopEnds
  <2>1. SameTest BY <1>2 DEF LoopEnds, SameTest
  <2>2. ~Starved BY <1>2 DEF Starved, SenderTypes
  <2> QED BY <1>2, <2>1, <2>2, LoopEndsForm
<1>3. CASE BurstWrite
  <2> DEFINE n == IF ~Is("ModeTime") THEN Least(tx.amount, BufLen)
                  ELSE IF tx.left > BufLen THEN BufLen ELSE NotBelow(tx.left, Header)
             amount == Deduct(n)
  <2>1. SameTest /\ UNCHANGED pc BY <1>3, ClockForm DEF BurstWrite
  <2>2. tx.amount \in Int /\ tx.left \in Int /\ tx.left > 0 BY <1>3 DEF BurstWrite, SenderTypes
  <2>3. n \in Int /\ (Starved => n = 0) /\ (n = 0 => Starved)
    <3>1. BufLen \in Nat /\ BufLen > 0 /\ Header \in Nat /\ Header > 0 BY Lengths
    <3>2. CASE Is("ModeTime")
      <4>1. n = IF tx.left > BufLen THEN BufLen ELSE NotBelow(tx.left, Header) BY <3>2
      <4>2. n > 0 /\ n \in Int BY <2>2, <3>1, <4>1 DEF NotBelow
      <4> HIDE DEF n
      <4> QED BY <3>2, <4>2 DEF Starved
    <3>3. CASE ~Is("ModeTime")
      <4>1. n = Least(tx.amount, BufLen) BY <3>3
      <4>2. n \in Int /\ (n = 0 <=> tx.amount = 0) BY <2>2, <3>1, <4>1 DEF Least
      <4> HIDE DEF n
      <4> QED BY <2>2, <3>3, <4>2 DEF Starved
    <3> QED BY <3>2, <3>3
  <2>4. amount \in Int
    <3> HIDE DEF n
    <3> QED BY <2>3, DeductTypes
  <2> HIDE DEF n, amount
  <2>5. CASE /\ n > 0 /\ Send(Datagram(tx.id, n)) /\ Post(Packet(tx.id, n, "ok"))
             /\ tx' = [tx EXCEPT !.id = @ + 1, !.amount = amount, !.left = @ - n, !.err = "ok"]
             /\ written' = Append(written, tx.id)
    <3> DEFINE d == Datagram(tx.id, n)
    <3>1. d.id = tx.id /\ d.bytes = n /\ Send(d) BY <2>5 DEF Datagram
    <3> HIDE DEF d
    <3>2. n \in Nat \ {0} /\ ~Starved BY <2>3, <2>5
    <3>3. sent'.Bytes = sent.Bytes + n BY <2>5, <3>2, PacketBytes
    <3>4. tx'.id = tx.id + 1 /\ tx'.err = "ok" /\ tx'.left = tx.left - n /\ tx'.amount = amount
      BY <2>5 DEF ClientTypes, TxFields
    <3>5. tx'.left \in Int BY <2>2, <2>3, <3>4
    <3> QED BY <2>1, <2>4, <2>5, <3>1, <3>2, <3>3, <3>4, <3>5, WritesForm
  <2>6. CASE /\ n = 0 /\ Send(Datagram(tx.id, 0)) /\ Post(Packet(tx.id, 0, "timeo"))
             /\ tx' = [tx EXCEPT !.err = "timeo"] /\ UNCHANGED written
    <3> DEFINE d == Datagram(tx.id, 0)
    <3>1. d.id = tx.id /\ d.bytes = 0 /\ Send(d) BY <2>6 DEF Datagram
    <3> HIDE DEF d
    <3>2. sent'.Bytes = sent.Bytes BY <2>6, PacketBytes
    <3>3. Starves(d) BY <2>1, <2>3, <2>6, <3>1, <3>2 DEF Starves
    <3> QED BY <2>1, <3>3 DEF ClientForms
  <2>7. ASSUME NEW err \in {"again", "fatal"}, Fails(err), tx'.id = tx.id, tx'.err = err,
               tx'.left \in Int, tx'.amount = tx.amount, sent'.Bytes = sent.Bytes
        PROVE  ClientForms
    <3>1. err \in test.faults BY <2>7 DEF Fails, Fault
    <3>2. ~Starved BY <3>1, TestsAssumption DEF Starved, Is, SenderTypes
    <3> QED BY <2>1, <2>7, <3>2, FailsForm DEF l4svars
  <2>8. CASE Fails("again") /\ Post(Packet(tx.id, 0, "again")) /\ tx' = [tx EXCEPT !.err = "again"]
    <3>1. sent'.Bytes = sent.Bytes BY <2>8, PacketBytes
    <3>2. tx'.id = tx.id /\ tx'.err = "again" /\ tx'.left = tx.left /\ tx'.amount = tx.amount
      BY <2>8 DEF ClientTypes, TxFields
    <3> QED BY <2>2, <2>7, <2>8, <3>1, <3>2
  <2>9. CASE Fails("fatal") /\ UNCHANGED sent /\ tx' = [tx EXCEPT !.err = "fatal", !.left = 0]
    <3>1. tx'.id = tx.id /\ tx'.err = "fatal" /\ tx'.left = 0 /\ tx'.amount = tx.amount
      BY <2>9 DEF ClientTypes, TxFields
    <3> QED BY <2>2, <2>7, <2>9, <3>1
  <2> QED BY <1>3, <2>5, <2>6, <2>8, <2>9 DEF BurstWrite, n, amount
<1> QED BY <1>1, <1>2, <1>3 DEF RunUDPBurst

LEMMA L4SForm ==
    ASSUME SenderTypes, ClientTypes, sent.Bytes \in Int, At("client", "loop"), test.loop = "l4s",
           DOMAIN flight = {"seqnr", "inflight", "inburst"},
           RunUDPL4S, UNCHANGED <<test, interrupted, reported, tries, servers>>
    PROVE  ClientForms
<1>1. ~Starved BY DEF Starved
<1>2. CASE L4sWrite
  <2>1. SameTest /\ UNCHANGED pc BY <1>2, ClockForm DEF L4sWrite
  <2>2. ASSUME NEW ecn, Send([Datagram(tx.id, BufLen) EXCEPT !.seq = flight.seqnr, !.ecn = ecn]),
               Post(Packet(tx.id, BufLen, "ok")),
               tx' = [tx EXCEPT !.id = @ + 1, !.err = "ok", !.seq = flight.seqnr],
               written' = Append(written, tx.id),
               flight' = [seqnr |-> flight.seqnr + 1, inflight |-> flight.inflight + 1,
                          inburst |-> flight.inburst + 1]
        PROVE  ClientForms
    <3> DEFINE d == [Datagram(tx.id, BufLen) EXCEPT !.seq = flight.seqnr, !.ecn = ecn]
    <3>1. d.id = tx.id /\ d.bytes = BufLen /\ d.seq = flight.seqnr BY DEF Datagram
    <3>2. Send(d) BY <2>2
    <3> HIDE DEF d
    <3>3. sent'.Bytes = sent.Bytes + BufLen BY <2>2, Lengths, PacketBytes
    <3>4. tx'.id = tx.id + 1 /\ tx'.err = "ok" /\ tx'.left = tx.left /\ tx'.amount = tx.amount
      BY <2>2 DEF ClientTypes, TxFields
    <3>5. Advances("loop") BY <2>1 DEF At, ClientTypes, Ends, Advances
    <3>6. Writes(d)
      BY <1>1, <2>2, <3>1, <3>2, <3>3, <3>4, <3>5, Lengths DEF Writes, At, SenderTypes
    <3> QED BY <2>1, <3>6 DEF ClientForms
  <2>3. ASSUME NEW err \in {"again", "fatal"}, Fails(err), UNCHANGED sent,
               tx' = [tx EXCEPT !.err = err, !.seq = flight.seqnr],
               flight' = IF err = "fatal" THEN [flight EXCEPT !.inburst = Burst] ELSE flight
        PROVE  ClientForms
    <3>1. tx'.id = tx.id /\ tx'.err = err /\ tx'.left = tx.left /\ tx'.amount = tx.amount
      BY <2>3 DEF ClientTypes, TxFields
    <3>2. flight'.seqnr = flight.seqnr BY <2>3
    <3>3. tx'.left \in Int BY <3>1 DEF SenderTypes
    <3> QED BY <1>1, <2>1, <2>3, <3>1, <3>2, <3>3, FailsForm
  <2> QED BY <1>2, <2>2, <2>3 DEF L4sWrite
<1>3. CASE /\ UNCHANGED <<pc, late, tx, sent, net, written>> /\ flight'.seqnr = flight.seqnr
           /\ faults' = faults \/ (faults > 0 /\ faults' = faults - 1)
  <2>1. SameTest BY <1>3 DEF SameTest
  <2>2. \E l \in {"loop", "finish"} : Advances(l) BY <1>3 DEF At, ClientTypes, Ends, Advances
  <2> QED BY <1>1, <1>3, <2>1, <2>2 DEF ClientForms, Idles, Blamed, At, SenderTypes
<1>4. CASE Timeout
  <2>1. flight'.seqnr = flight.seqnr BY <1>4 DEF Timeout
  <2> QED BY <1>3, <1>4, <2>1 DEF Timeout
<1>5. ASSUME NEW a \in acks, Ack(a) PROVE ClientForms
  <2>1. flight'.seqnr = flight.seqnr BY <1>5 DEF Ack, Ignored, Processed
  <2>2. faults' = faults \/ (faults > 0 /\ faults' = faults - 1) BY <1>5 DEF Ack, Fault
  <2> QED BY <1>3, <1>5, <2>1, <2>2 DEF Ack
<1>6. CASE LoopEnds /\ UNCHANGED l4svars
  <2>1. SameTest BY <1>6 DEF LoopEnds, SameTest
  <2> QED BY <1>1, <1>6, <2>1, LoopEndsForm
<1> QED BY <1>2, <1>4, <1>5, <1>6 DEF RunUDPL4S

LEMMA FinishForm ==
    ASSUME Finish, UNCHANGED l4svars
    PROVE  ClientForms
<1>1. SameTest BY DEF Finish, SameTest
<1>2. At("client", "finish") /\ \E l \in {"await", "done"} : Advances(l) BY DEF Finish, Goto, Advances
<1>3. CASE Send(Datagram(-tx.id, BufLen)) /\ Post(Packet(tx.id, BufLen, tx.err))
  <2> DEFINE d == Datagram(-tx.id, BufLen)
  <2>1. d.id = -tx.id /\ d.bytes = BufLen /\ Send(d) BY <1>3 DEF Datagram
  <2> HIDE DEF d
  <2>2. Finishes(d) BY <1>2, <1>3, <2>1 DEF Finish, Finishes
  <2> QED BY <1>1, <2>2 DEF ClientForms
<1>4. ASSUME NEW err \in {"again", "fatal"}, Fault(err), UNCHANGED <<sent, net>>
      PROVE  ClientForms
  <2>1. Finishes(0) BY <1>2, <1>4 DEF Finish, Finishes, Fault
  <2> QED BY <1>1, <2>1 DEF ClientForms
<1> QED BY <1>3, <1>4 DEF Finish

LEMMA AwaitForm ==
    ASSUME NEW readable \in BOOLEAN, AwaitServerFinPacket(readable), UNCHANGED flight
    PROVE  ClientForms
<1>1. SameTest BY DEF AwaitServerFinPacket, SameTest
<1>2. At("client", "await") /\ UNCHANGED <<sent, written>> BY DEF AwaitServerFinPacket
<1>3. CASE /\ tries > 0 /\ tries' = tries - 1 /\ UNCHANGED pc /\ tx' = [tx EXCEPT !.id = @ + 1]
           /\ Send(Datagram(-(tx.id + 1), BufLen))
  <2> DEFINE d == Datagram(-(tx.id + 1), BufLen)
  <2>1. d.id = -(tx.id + 1) /\ d.bytes = BufLen /\ Send(d) BY <1>3 DEF Datagram
  <2> HIDE DEF d
  <2>2. Repeats(d) BY <1>2, <1>3, <2>1 DEF Repeats
  <2> QED BY <1>1, <2>2 DEF ClientForms
<1>4. CASE /\ tries > 0 /\ tries' = tries - 1 /\ UNCHANGED pc /\ tx' = [tx EXCEPT !.id = @ + 1]
           /\ faults > 0 /\ faults' = faults - 1 /\ UNCHANGED net
  <2>1. Repeats(0) BY <1>2, <1>4 DEF Repeats
  <2> QED BY <1>1, <2>1 DEF ClientForms
<1>5. CASE Goto("client", "done") /\ UNCHANGED <<tx, tries, net, faults>>
  <2>1. Repeats(0) BY <1>2, <1>5 DEF Repeats, Goto, Advances
  <2> QED BY <1>1, <2>1 DEF ClientForms
<1> QED BY <1>3, <1>4, <1>5 DEF AwaitServerFinPacket, Fault

\* A step of the client is one of these.
LEMMA ClientForm ==
    ASSUME SenderTypes, ClientTypes, sent.Bytes \in Int, SeqTypes, Client
    PROVE  ClientForms
<1>1. CASE Loop
  <2>1. At("client", "loop") /\ UNCHANGED <<test, interrupted, reported, tries, servers>> BY <1>1 DEF Loop
  <2>2. DOMAIN flight = {"seqnr", "inflight", "inburst"} BY DEF SeqTypes
  <2> QED BY <1>1, <2>1, <2>2, RunUDPForm, IsochForm, BurstForm, L4SForm DEF Loop
<1>2. CASE StartSynch /\ UNCHANGED l4svars BY <1>2, StartSynchForm
<1>3. CASE Finish /\ UNCHANGED l4svars BY <1>3, FinishForm
<1>4. CASE (AwaitServerFinPacket(FALSE) \/ AwaitServerFinPacket(TRUE)) /\ UNCHANGED flight
  BY <1>4, AwaitForm
<1> QED BY <1>1, <1>2, <1>3, <1>4 DEF Client, l4svars
-----------------------------------------------------------------------------
(* The numbers that are under way.                                         *)

\* The numbers that the client has given to datagrams.
Sending == pc["client"] \in {"synch", "loop", "finish"}
Top == IF Sending THEN tx.id - 1 ELSE tx.id
Given(n) == n \in 1 .. Top \/ (Starved /\ n = tx.id)

\* What is under way or counted was given a number; data was written, the others
\* are ends; a number is under way once, and no more when it has been counted,
\* unless a datagram came twice.
Whence(d) ==
    /\ d.id \in Int /\ d.bytes \in Nat /\ Given(Number(d))
    /\ d.id < 0 => ~Sending /\ -d.id > Len(written)
    /\ d.id >= 0 /\ d.bytes > 0 => d.id =< Len(written)
    /\ d.bytes = 0 => Starved /\ d.id = tx.id
Underway ==
    /\ \A d \in net : Whence(d)
    /\ \A d, e \in net : Number(d) = Number(e) /\ d.bytes > 0 => d = e
    /\ \A n \in counted : Given(n)
    /\ ~twice => \A d \in net : d.bytes > 0 => Number(d) \notin counted
    /\ At("server", "listen") => counted = {}

\* What the client knows of an error, and of what it has sent.
Writer ==
    /\ sent.Bytes \in Int
    /\ tx.err \in {"ok", "again", "fatal", "timeo"}
    /\ tx.err = "timeo" => Starved
    /\ tx.err \in {"again", "fatal"} => faults < test.budget
    /\ ~Sending /\ faults = test.budget => sent.PacketID = sent.Datagrams /\ sent.Datagrams = Len(written) + 1
    /\ ~Sending /\ tries = RetryCount => tx.id = Len(written) + 1

NetInv == SenderTypes /\ Underway /\ Writer

LEMMA DenseFacts ==
    ASSUME DenseInv
    PROVE  /\ Len(written) \in Nat /\ tx.id \in Nat /\ tx.id >= Len(written) + 1
           /\ Sending => tx.id = Len(written) + 1
           /\ Len(Append(written, tx.id)) = Len(written) + 1
<1>1. written \in Seq(Nat) /\ tx.id \in Nat BY DEF DenseInv, ClientTypes
<1>2. Len(written) \in Nat /\ Len(Append(written, tx.id)) = Len(written) + 1
  BY <1>1, LenProperties, AppendProperties
<1> QED BY <1>1, <1>2 DEF DenseInv, Numbers, Sending

LEMMA SendNet ==
    ASSUME NEW d, Send(d)
    PROVE  /\ net' = net \/ net' = net \cup {d}
           /\ faults' = faults \/ (faults > 0 /\ faults' = faults - 1)
  BY DEF Send, Fault

\* The numbers stay in order when d is sent, with a number of its own or empty.
LEMMA UnderwayGrows ==
    ASSUME Underway, NEW d, net' \subseteq net \cup {d}, SameTest, pc'["server"] = pc["server"],
           \A n : Given(n) => Given(n)',
           \A e \in net' : Whence(e)',
           d \in net' => \A e \in net : e.bytes > 0 \/ d.bytes > 0 => Number(e) # Number(d),
           d \in net' /\ d.bytes > 0 => Number(d) \notin counted
    PROVE  Underway'
<1>1. UNCHANGED <<counted, twice>> BY DEF SameTest, servers
<1>2. \A e, f \in net' : Number(e) = Number(f) /\ e.bytes > 0 => e = f
  BY DEF Underway
<1>3. \A n \in counted' : Given(n)' BY <1>1 DEF Underway
<1>4. ~twice' => \A e \in net' : e.bytes > 0 => Number(e) \notin counted'
  BY <1>1 DEF Underway
<1>5. At("server", "listen")' => counted' = {} BY <1>1 DEF Underway, At
<1> QED BY <1>2, <1>3, <1>4, <1>5 DEF Underway

LEMMA WritesUnderway ==
    ASSUME DenseInv, NetInv, SameTest, NEW d, Writes(d)
    PROVE  Underway' /\ SenderTypes'
<1>1. /\ Len(written) \in Nat /\ tx.id \in Nat /\ tx.id = Len(written) + 1 /\ Sending
      /\ Len(written') = Len(written) + 1 /\ tx'.id = tx.id + 1
  BY DenseFacts DEF Writes, Sending
<1>2. pc'["client"] = "loop" /\ pc'["server"] = pc["server"] /\ Sending'
  BY DEF Writes, Advances, DenseInv, ClientTypes, Ends, Sending
<1>3. Top = Len(written) /\ Top' = Len(written) + 1 /\ ~Starved BY <1>1, <1>2 DEF Top, Writes
<1>4. \A n : Given(n) => n \in 1 .. Len(written) BY <1>3 DEF Given
<1>5. \A n : n \in 1 .. Len(written) + 1 => Given(n)' BY <1>3 DEF Given
<1>6. \A n : Given(n) => Given(n)'
  <2>1. \A n : n \in 1 .. Len(written) => n \in 1 .. Len(written) + 1 BY <1>1
  <2> QED BY <1>4, <1>5, <2>1
<1>7. d.id = Len(written) + 1 /\ d.bytes \in Nat /\ d.bytes > 0 /\ Number(d) = Len(written) + 1
  BY <1>1 DEF Writes, Number
<1>8. Whence(d)' BY <1>1, <1>5, <1>7 DEF Whence
<1>9. \A e \in net : Whence(e)'
  <2> TAKE e \in net
  <2>1. Whence(e) BY DEF NetInv, Underway
  <2> QED BY <1>1, <1>2, <1>3, <1>6, <2>1 DEF Whence
<1>10. net' \subseteq net \cup {d} /\ (faults' = faults \/ (faults > 0 /\ faults' = faults - 1))
  BY SendNet DEF Writes
<1>11. \A e \in net : Number(e) # Number(d)
  <2> TAKE e \in net
  <2>1. Number(e) \in 1 .. Len(written) BY <1>4 DEF NetInv, Underway, Whence
  <2> QED BY <1>1, <1>7, <2>1
<1>12. Number(d) \notin counted
  <2>1. \A n \in counted : n \in 1 .. Len(written) BY <1>4 DEF NetInv, Underway
  <2> QED BY <1>1, <1>7, <2>1
<1>13. \A e \in net' : Whence(e)' BY <1>8, <1>9, <1>10
<1>14. Underway' BY <1>2, <1>6, <1>10, <1>11, <1>12, <1>13, UnderwayGrows DEF NetInv
<1>15. test.budget \in Nat BY TestsAssumption DEF NetInv, SenderTypes
<1>16. SenderTypes'
  BY <1>10, <1>15 DEF SenderTypes, NetInv, Writes, SameTest, servers
<1> QED BY <1>14, <1>16

\* ... or nothing is.
LEMMA QuietUnderway ==
    ASSUME NetInv, SameTest, net' = net, pc'["server"] = pc["server"],
           \A n : Given(n) => Given(n)',
           \A e \in net : Whence(e) => Whence(e)'
    PROVE  Underway'
<1>1. UNCHANGED <<counted, twice>> BY DEF SameTest, servers
<1>2. \A n \in counted' : Given(n)' BY <1>1 DEF NetInv, Underway
<1>3. \A e \in net' : Whence(e)' BY DEF NetInv, Underway
<1>4. \A e, f \in net' : Number(e) = Number(f) /\ e.bytes > 0 => e = f
  BY DEF NetInv, Underway
<1>5. ~twice' => \A e \in net' : e.bytes > 0 => Number(e) \notin counted'
  BY <1>1 DEF NetInv, Underway
<1>6. At("server", "listen")' => counted' = {} BY <1>1 DEF NetInv, Underway, At
<1> QED BY <1>2, <1>3, <1>4, <1>5, <1>6 DEF Underway

LEMMA IdlesUnderway ==
    ASSUME DenseInv, NetInv, SameTest, Idles
    PROVE  Underway' /\ SenderTypes'
<1>1. Sending /\ Sending' /\ pc'["server"] = pc["server"]
  BY DEF Idles, Advances, DenseInv, ClientTypes, Ends, Sending
<1>2. ~Starved /\ UNCHANGED <<net, written>> /\ tx'.id = tx.id BY DEF Idles
<1>3. Top' = Top BY <1>1, <1>2 DEF Top
<1>4. \A n : Given(n) => Given(n)' BY <1>2, <1>3 DEF Given
<1>5. \A e \in net : Whence(e) => Whence(e)' BY <1>1, <1>2, <1>4 DEF Whence
<1>6. Underway' BY <1>1, <1>2, <1>4, <1>5, QuietUnderway
<1>7. test.budget \in Nat BY TestsAssumption DEF NetInv, SenderTypes
<1>8. SenderTypes' BY <1>7 DEF SenderTypes, NetInv, Idles, Blamed, SameTest, servers
<1> QED BY <1>6, <1>8

LEMMA StarvesUnderway ==
    ASSUME DenseInv, NetInv, SameTest, NEW d, Starves(d)
    PROVE  Underway' /\ SenderTypes' /\ Starved'
<1>1. UNCHANGED <<pc, written, test>> /\ Starved /\ Sending
  BY DEF Starves, SameTest, Starved, At, Sending
<1>2. tx'.id = tx.id /\ tx'.amount = tx.amount /\ tx'.left = tx.left
  BY DEF Starves, DenseInv, ClientTypes, TxFields
<1>3. Starved' /\ Sending' BY <1>1, <1>2 DEF Starved, Is, At, Sending
<1>4. Top' = Top BY <1>1, <1>2, <1>3 DEF Top
<1>5. \A n : Given(n) => Given(n)' BY <1>2, <1>3, <1>4 DEF Given
<1>6. \A e \in net : Whence(e) => Whence(e)' BY <1>1, <1>2, <1>3, <1>5 DEF Whence
<1>7. d.id = tx.id /\ d.bytes = 0 /\ Send(d) BY DEF Starves
<1>8. tx.id \in Nat /\ Len(written) \in Nat /\ tx.id = Len(written) + 1 BY <1>1, DenseFacts
<1>9. Number(d) = tx.id BY <1>7, <1>8 DEF Number
<1>10. Whence(d)' BY <1>2, <1>3, <1>7, <1>8, <1>9 DEF Whence, Given
<1>11. net' \subseteq net \cup {d} /\ (faults' = faults \/ (faults > 0 /\ faults' = faults - 1))
  BY <1>7, SendNet
<1>12. \A e \in net : e.bytes > 0 => Number(e) # Number(d)
  <2> TAKE e \in net
  <2>1. Whence(e) BY DEF NetInv, Underway
  <2> QED BY <1>1, <1>8, <1>9, <2>1 DEF Whence, Number
<1>13. \A e \in net' : Whence(e)' BY <1>6, <1>10, <1>11 DEF NetInv, Underway
<1>14. Underway' BY <1>1, <1>5, <1>7, <1>11, <1>12, <1>13, UnderwayGrows DEF NetInv
<1>15. test.budget \in Nat BY TestsAssumption DEF NetInv, SenderTypes
<1>16. SenderTypes'
  BY <1>2, <1>11, <1>15 DEF SenderTypes, NetInv, Starves, SameTest, servers
<1> QED BY <1>3, <1>14, <1>16

\* An end has the number of the next datagram.
LEMMA EndUnderway ==
    ASSUME DenseInv, NetInv, SameTest, NEW d, NEW n \in Nat, d.id = -n, d.bytes = BufLen,
           net' \subseteq net \cup {d}, pc'["server"] = pc["server"], ~At("client", "loop"),
           ~Sending', Top' = n, n > Top, written' = written
    PROVE  Underway'
<1>1. Len(written) \in Nat /\ tx.id \in Nat /\ tx.id >= Len(written) + 1
      /\ (Sending => tx.id = Len(written) + 1)
  BY DenseFacts
<1>2. Top \in Nat /\ n > Len(written) BY <1>1 DEF Top
<1>3. ~Starved BY DEF Starved
<1>4. \A m : Given(m) => m \in 1 .. Top BY <1>3 DEF Given
<1>5. \A m : m \in 1 .. n => Given(m)' BY DEF Given
<1>6. \A m : Given(m) => Given(m)' 
  <2>1. \A m : m \in 1 .. Top => m \in 1 .. n BY <1>2
  <2> QED BY <1>4, <1>5, <2>1
<1>7. Number(d) = n /\ n > 0 /\ d.bytes > 0 /\ d.bytes \in Nat /\ d.id < 0 /\ d.id \in Int
  BY <1>2, Lengths DEF Number
<1>8. Whence(d)' BY <1>2, <1>5, <1>7 DEF Whence
<1>9. \A e \in net : Whence(e)'
  <2> TAKE e \in net
  <2>1. Whence(e) BY DEF NetInv, Underway
  <2> QED BY <1>3, <1>6, <2>1 DEF Whence
<1>10. \A e \in net : Number(e) # Number(d)
  <2> TAKE e \in net
  <2>1. Number(e) \in 1 .. Top BY <1>4 DEF NetInv, Underway, Whence
  <2> QED BY <1>2, <1>7, <2>1
<1>11. Number(d) \notin counted
  <2>1. \A m \in counted : m \in 1 .. Top BY <1>4 DEF NetInv, Underway
  <2> QED BY <1>2, <1>7, <2>1
<1>12. \A e \in net' : Whence(e)' BY <1>8, <1>9
<1> QED BY <1>6, <1>10, <1>11, <1>12, UnderwayGrows DEF NetInv

LEMMA FinishesUnderway ==
    ASSUME DenseInv, NetInv, SameTest, NEW d, Finishes(d)
    PROVE  Underway' /\ SenderTypes'
<1>1. UNCHANGED <<tx, written, tries>> /\ Sending /\ ~At("client", "loop") BY DEF Finishes, At, Sending
<1>2. ~Sending' /\ pc'["server"] = pc["server"]
  BY DEF Finishes, Advances, DenseInv, ClientTypes, Ends, Sending
<1>3. Top' = tx.id /\ Top = tx.id - 1 /\ tx.id \in Nat BY <1>1, <1>2, DenseFacts DEF Top
<1>4. faults' = faults \/ (faults > 0 /\ faults' = faults - 1) BY SendNet DEF Finishes
<1>5. test.budget \in Nat BY TestsAssumption DEF NetInv, SenderTypes
<1>6. SenderTypes' BY <1>1, <1>4, <1>5 DEF SenderTypes, NetInv, SameTest, servers
<1>7. CASE Send(d) /\ d.id = -tx.id /\ d.bytes = BufLen
  <2>1. net' \subseteq net \cup {d} BY <1>7, SendNet
  <2>2. tx.id > Top BY <1>3
  <2> QED BY <1>1, <1>2, <1>3, <1>6, <1>7, <2>1, <2>2, EndUnderway
<1>8. CASE net' = net
  <2>1. ~Starved BY <1>1 DEF Starved
  <2>2. \A n : Given(n) => Given(n)' BY <1>3, <2>1 DEF Given
  <2>3. \A e \in net : Whence(e) => Whence(e)' BY <1>1, <1>2, <2>1, <2>2 DEF Whence
  <2> QED BY <1>2, <1>6, <1>8, <2>2, <2>3, QuietUnderway
<1> QED BY <1>7, <1>8 DEF Finishes

LEMMA RepeatsUnderway ==
    ASSUME DenseInv, NetInv, SameTest, NEW d, Repeats(d)
    PROVE  Underway' /\ SenderTypes'
<1>1. UNCHANGED <<sent, written>> /\ ~Sending /\ ~At("client", "loop") BY DEF Repeats, At, Sending
<1>2. ~Sending' /\ pc'["server"] = pc["server"]
  BY DEF Repeats, Advances, At, DenseInv, ClientTypes, Ends, Sending
<1>3. Top' = tx'.id /\ Top = tx.id /\ tx.id \in Nat /\ ~Starved
  BY <1>1, <1>2, DenseFacts DEF Top, Starved
<1>4. faults' = faults \/ (faults > 0 /\ faults' = faults - 1) BY SendNet DEF Repeats
<1>5. tx' = tx \/ (tx'.id = tx.id + 1 /\ tx'.amount = tx.amount /\ tx'.left = tx.left)
  BY DEF Repeats, DenseInv, ClientTypes, TxFields
<1>6. test.budget \in Nat /\ RetryCount \in Nat
  BY TestsAssumption, UdpTrafficAssumption DEF NetInv, SenderTypes
<1>7. SenderTypes' BY <1>4, <1>5, <1>6 DEF SenderTypes, NetInv, SameTest, servers, Repeats
<1>8. CASE Send(d) /\ d.id = -(tx.id + 1) /\ d.bytes = BufLen /\ tx' = [tx EXCEPT !.id = @ + 1]
  <2>1. net' \subseteq net \cup {d} BY <1>8, SendNet
  <2>2. tx'.id = tx.id + 1 BY <1>8 DEF DenseInv, ClientTypes, TxFields
  <2>3. tx.id + 1 > Top /\ tx.id + 1 \in Nat /\ Top' = tx.id + 1 BY <1>3, <2>2
  <2> QED BY <1>1, <1>2, <1>7, <1>8, <2>1, <2>3, EndUnderway
<1>9. CASE net' = net
  <2>1. tx'.id >= tx.id /\ tx'.id \in Nat BY <1>3, <1>5
  <2>2. \A n : Given(n) => Given(n)' BY <1>3, <2>1 DEF Given
  <2>3. \A e \in net : Whence(e) => Whence(e)' BY <1>1, <1>2, <1>3, <2>2 DEF Whence
  <2> QED BY <1>2, <1>7, <1>9, <2>2, <2>3, QuietUnderway
<1> QED BY <1>8, <1>9 DEF Repeats

\* What the client knows stays true, whatever it does.
LEMMA ClientWriter ==
    ASSUME DenseInv, NetInv, ClientForms, DenseInv', SenderTypes'
    PROVE  Writer'
<1>1. test' = test BY DEF ClientForms, SameTest
<1>2. Writer /\ SenderTypes BY DEF NetInv
<1>0. test.budget \in Nat /\ faults \in Int /\ faults =< test.budget
  BY <1>2, TestsAssumption DEF SenderTypes
<1>3. CASE Idles
  <2>1. Sending' BY <1>3 DEF Idles, Advances, DenseInv, ClientTypes, Ends, Sending
  <2>2. ~Starved /\ sent'.Bytes = sent.Bytes /\ Blamed({"again", "fatal"}) BY <1>3 DEF Idles
  <2>3. tx'.err \in {"ok", "again", "fatal"}
        /\ (tx'.err \in {"again", "fatal"} => faults' < test.budget)
    BY <1>0, <1>2, <2>2 DEF Writer, Blamed
  <2> QED BY <1>1, <1>2, <2>1, <2>2, <2>3 DEF Writer
<1>4. ASSUME NEW d, Writes(d) PROVE Writer'
  <2>1. Sending' BY <1>4 DEF Writes, Advances, DenseInv, ClientTypes, Ends, Sending
  <2>2. ~Starved /\ sent'.Bytes = sent.Bytes + d.bytes /\ d.bytes \in Nat /\ tx'.err \in {"ok", tx.err}
        /\ Send(d)
    BY <1>4 DEF Writes
  <2>3. faults' = faults \/ (faults > 0 /\ faults' = faults - 1) BY <2>2, SendNet
  <2>4. tx'.err \in {"ok", "again", "fatal"}
        /\ (tx'.err \in {"again", "fatal"} => faults' < test.budget)
    BY <1>0, <1>2, <2>2, <2>3 DEF Writer
  <2>5. sent'.Bytes \in Int BY <1>2, <2>2 DEF Writer
  <2> QED BY <1>1, <2>1, <2>4, <2>5 DEF Writer
<1>5. ASSUME NEW d, Starves(d) PROVE Writer'
  <2>1. Starved' BY <1>5, StarvesUnderway DEF ClientForms
  <2>2. tx'.err = "timeo" /\ sent'.Bytes = sent.Bytes
    BY <1>5 DEF Starves, DenseInv, ClientTypes, TxFields
  <2>3. Sending' BY <2>1 DEF Starved, At, Sending
  <2> QED BY <1>2, <2>1, <2>2, <2>3 DEF Writer
<1>6. ASSUME NEW d, Finishes(d) PROVE Writer'
  <2>1. UNCHANGED <<tx, written, tries>> /\ Sending /\ ~Starved
    BY <1>6 DEF Finishes, At, Sending, Starved
  <2>2. tx.id = Len(written) + 1 /\ sent.Datagrams = Len(written)
    BY <2>1 DEF DenseInv, Numbers, Sending
  <2>3. faults' = faults \/ (faults > 0 /\ faults' = faults - 1) BY <1>6, SendNet DEF Finishes
  <2>4. tx.err \in {"ok", "again", "fatal"} /\ (tx.err \in {"again", "fatal"} => faults' < test.budget)
    BY <1>0, <1>2, <2>1, <2>3 DEF Writer
  <2>5. ASSUME Post(Packet(tx.id, BufLen, tx.err))
        PROVE  /\ sent'.Bytes \in Int
               /\ tx.err = "ok" => sent'.PacketID = tx.id /\ sent'.Datagrams = tx.id
    <3>0. BufLen \in Int /\ BufLen \in Nat /\ ClientTypes /\ sent.Bytes \in Int
      BY <1>2, Lengths DEF Writer, DenseInv
    <3>1. sent'.Bytes = sent.Bytes + (IF tx.err = "ok" THEN BufLen ELSE 0) /\ sent'.PacketID = tx.id
      BY <3>0, <2>5, PacketBytes
    <3>2. Counts(IF tx.err = "ok" THEN 1 ELSE 0) BY <2>5, PostCounts DEF DenseInv
    <3> QED BY <3>0, <2>2, <3>1, <3>2 DEF Counts
  <2>6. CASE Post(Packet(tx.id, BufLen, tx.err))
    BY <1>0, <1>1, <1>2, <2>1, <2>2, <2>4, <2>5, <2>6 DEF Writer
  <2>7. CASE faults > 0 /\ faults' = faults - 1 /\ UNCHANGED sent
    BY <1>0, <1>1, <1>2, <2>1, <2>2, <2>4, <2>7 DEF Writer
  <2> QED BY <1>6, <2>6, <2>7 DEF Finishes
<1>7. ASSUME NEW d, Repeats(d) PROVE Writer'
  <2>1. UNCHANGED <<sent, written>> /\ ~Sending /\ ~Starved
    BY <1>7 DEF Repeats, At, Sending, Starved
  <2>2. faults' = faults \/ (faults > 0 /\ faults' = faults - 1) BY <1>7, SendNet DEF Repeats
  <2>3. tx'.err = tx.err BY <1>7 DEF Repeats, DenseInv, ClientTypes, TxFields
  <2>4. tries' = RetryCount => tries = RetryCount /\ tx' = tx
    BY <1>2, <1>7, UdpTrafficAssumption DEF Repeats, SenderTypes
  <2>5. faults' = test'.budget => faults = test.budget BY <1>0, <1>1, <2>2
  <2>6. tx.err \in {"again", "fatal"} => faults' < test'.budget BY <1>0, <1>1, <1>2, <2>2 DEF Writer
  <2> QED BY <1>2, <2>1, <2>3, <2>4, <2>5, <2>6 DEF Writer
<1> QED BY <1>3, <1>4, <1>5, <1>6, <1>7 DEF ClientForms

\* The steps of the server: it takes d, counts it or does not, and may come to its
\* end, of which there is nothing to take.
Bystanders == UNCHANGED <<test, interrupted, clients>>
Counting(d) ==
    /\ d \in net /\ Taken(d) /\ counted' = counted \cup {Number(d)} /\ UNCHANGED <<prev, sums>>
    /\ \E p : /\ p.id = Number(d) /\ p.bytes = d.bytes /\ stats' = ServerPacket(stats, p)
    /\ Transit(Number(d))
Hears(d) ==
    /\ At("server", "listen") /\ ~Is("Reverse") /\ Counting(d) /\ opener' = d.id /\ ~(d.id < 0)
    /\ pc' = [pc EXCEPT !["server"] = "read"] /\ UNCHANGED <<late, l4svars>>
Reads(d) ==
    /\ At("server", "read") /\ Counting(d) /\ UNCHANGED opener /\ d.bytes # 0
    /\ pc' = IF d.id < 0 THEN [pc EXCEPT !["server"] = "done"] ELSE pc
    /\ IF test.loop = "l4s" THEN Echo(d) ELSE UNCHANGED l4svars
Skips(d) ==
    /\ d \in net /\ Taken(d) /\ Uncounted /\ UNCHANGED opener
    /\ \/ At("server", "listen") /\ ~Is("Reverse") /\ d.id < 0 /\ UNCHANGED <<pc, l4svars>>
       \/ At("server", "listen") /\ Is("Reverse") /\ UNCHANGED l4svars
            /\ \E l \in {"read", "done"} : pc' = [pc EXCEPT !["server"] = l]
       \/ At("server", "read") /\ d.bytes = 0 /\ pc' = [pc EXCEPT !["server"] = "done"]
            /\ IF test.loop = "l4s" THEN Echo(d) ELSE UNCHANGED l4svars
Rests ==
    /\ Uncounted /\ UNCHANGED <<net, faults, twice, opener, l4svars>>
    /\ \/ At("server", "read") /\ pc' = pc
       \/ At("server", "listen") /\ Is("Reverse") /\ Is("Isochronous") /\ pc' = [pc EXCEPT !["server"] = "read"]
       \/ At("server", "read") /\ {"server"} \cap (interrupted \cup late) # {}
            /\ pc' = [pc EXCEPT !["server"] = "done"]

ServerForms ==
    /\ Bystanders /\ late \subseteq late'
    /\ Rests \/ \E d : Hears(d) \/ Reads(d) \/ Skips(d)

LEMMA ServerForm == Server => ServerForms
<1> SUFFICES ASSUME Server PROVE ServerForms OBVIOUS
<1>1. Bystanders BY DEF Server, Bystanders
<1>2. late \subseteq late'
  <2>1. Clock("server") => late \subseteq late' BY DEF Clock
  <2> QED BY <2>1 DEF Server, Read, ReadNothing, ServerLoopEnds
<1>3. ASSUME NEW d \in net, Listen(d), UNCHANGED <<late, l4svars>> PROVE ServerForms
  <2>1. CASE d.id < 0
    <3>1. Skips(d) BY <1>3, <2>1 DEF Listen, Skips
    <3> QED BY <1>1, <1>2, <3>1 DEF ServerForms
  <2>2. CASE ~(d.id < 0)
    <3> DEFINE e == [d EXCEPT !.frame = 0]
    <3>1. Count(e) /\ opener' = d.id /\ Goto("server", "read") /\ Taken(d) /\ At("server", "listen") /\ ~Is("Reverse")
      BY <1>3, <2>2 DEF Listen
    <3>2. e.id = d.id /\ e.bytes = d.bytes /\ Number(e) = Number(d) BY DEF Number
    <3> HIDE DEF e
    <3>3. Counting(d)
      <4> DEFINE p == [id |-> Number(e), bytes |-> e.bytes, frame |-> IF Is("Isochronous") THEN e.frame ELSE 0,
                       ready |-> EndsFrame(e)]
      <4>1. p.id = Number(d) /\ p.bytes = d.bytes BY <3>2
      <4>2. stats' = ServerPacket(stats, p) BY <3>1 DEF Count
      <4> HIDE DEF p
      <4> QED BY <3>1, <3>2, <4>1, <4>2 DEF Counting, Count
    <3>4. Hears(d) BY <1>3, <2>2, <3>1, <3>3 DEF Hears, Goto, Listen
    <3> QED BY <1>1, <1>2, <3>4 DEF ServerForms
  <2> QED BY <2>1, <2>2
<1>4. CASE FirstRead /\ UNCHANGED <<opener, late, l4svars>>
  <2>1. CASE \E d \in net : Taken(d) /\ Goto("server", IF d.bytes = 0 THEN "done" ELSE "read")
    <3>1. PICK d \in net : Taken(d) /\ Goto("server", IF d.bytes = 0 THEN "done" ELSE "read") BY <2>1
    <3>2. Skips(d) BY <1>4, <3>1 DEF FirstRead, Skips, Goto
    <3> QED BY <1>1, <1>2, <3>2 DEF ServerForms
  <2>2. CASE Is("Isochronous") /\ Goto("server", "read") /\ UNCHANGED <<net, faults, twice>>
    BY <1>1, <1>2, <1>4, <2>2 DEF FirstRead, Rests, Goto, ServerForms
  <2> QED BY <1>4, <2>1, <2>2 DEF FirstRead
<1>5. ASSUME NEW d \in net, Read(d), IF test.loop = "l4s" THEN Echo(d) ELSE UNCHANGED l4svars,
             UNCHANGED opener
      PROVE  ServerForms
  <2>1. CASE d.bytes = 0
    <3>1. Skips(d) BY <1>5, <2>1 DEF Read, Skips, Goto
    <3> QED BY <1>1, <1>2, <3>1 DEF ServerForms
  <2>2. CASE d.bytes # 0
    <3>1. Counting(d)
      <4> DEFINE p == [id |-> Number(d), bytes |-> d.bytes, frame |-> IF Is("Isochronous") THEN d.frame ELSE 0,
                       ready |-> EndsFrame(d)]
      <4>1. p.id = Number(d) /\ p.bytes = d.bytes OBVIOUS
      <4>2. stats' = ServerPacket(stats, p) BY <1>5, <2>2 DEF Count, Read
      <4> HIDE DEF p
      <4> QED BY <1>5, <2>2, <4>1, <4>2 DEF Counting, Count, Read
    <3>2. pc' = IF d.id < 0 THEN [pc EXCEPT !["server"] = "done"] ELSE pc
      BY <1>5, <2>2 DEF Read, Goto
    <3>3. Reads(d) BY <1>5, <2>2, <3>1, <3>2 DEF Reads, Read
    <3> QED BY <1>1, <1>2, <3>3 DEF ServerForms
  <2> QED BY <2>1, <2>2
<1>6. CASE ReadNothing /\ UNCHANGED <<opener, l4svars>>
  BY <1>1, <1>2, <1>6 DEF ReadNothing, Rests, ServerForms
<1>7. CASE ServerLoopEnds /\ UNCHANGED <<opener, l4svars>>
  BY <1>1, <1>2, <1>7 DEF ServerLoopEnds, ServerInProgress, Rests, Goto, ServerForms
<1> QED BY <1>3, <1>4, <1>5, <1>6, <1>7 DEF Server

LEMMA TakenNet ==
    ASSUME NEW d, Taken(d)
    PROVE  /\ net' \subseteq net
           /\ \/ net' = net \ {d} /\ UNCHANGED <<faults, twice>>
              \/ net' = net /\ twice' = TRUE /\ faults > 0 /\ faults' = faults - 1
  BY DEF Taken, Fault

\* Whoever is not the client leaves its numbers as they are.
LEMMA OthersGiven ==
    ASSUME UNCHANGED <<test, tx, written>>, pc'["client"] = pc["client"]
    PROVE  /\ Starved' <=> Starved
           /\ Sending' <=> Sending
           /\ \A n : Given(n)' <=> Given(n)
           /\ \A d : Whence(d)' <=> Whence(d)
<1>1. (Starved' <=> Starved) /\ (Sending' <=> Sending) BY DEF Starved, Sending, At, Is
<1>2. Top' = Top BY <1>1 DEF Top
<1>3. \A n : Given(n)' <=> Given(n) BY <1>1, <1>2 DEF Given
<1>4. \A d : Whence(d)' <=> Whence(d) BY <1>1, <1>3 DEF Whence
<1> QED BY <1>1, <1>3, <1>4

LEMMA OthersWriter ==
    ASSUME NetInv, UNCHANGED <<test, tx, written, sent, tries>>, pc'["client"] = pc["client"],
           faults' = faults \/ (faults > 0 /\ faults' = faults - 1),
           twice' = twice \/ (twice' = TRUE /\ faults > 0 /\ faults' = faults - 1)
    PROVE  Writer' /\ SenderTypes'
<1>1. test.budget \in Nat /\ faults \in Int /\ faults =< test.budget /\ faults >= 0
  BY TestsAssumption DEF NetInv, SenderTypes
<1>2. (Starved' <=> Starved) /\ (Sending' <=> Sending) BY OthersGiven
<1>3. faults' \in 0 .. test.budget /\ (faults' = test.budget => faults = test.budget)
      /\ (faults < test.budget => faults' < test.budget)
  BY <1>1
<1>4. twice' \in BOOLEAN /\ (twice' => faults' < test'.budget)
  <2>1. twice \in BOOLEAN /\ (twice => faults < test.budget) BY DEF NetInv, SenderTypes
  <2>2. CASE twice' = twice BY <1>3, <2>1, <2>2
  <2>3. CASE twice' = TRUE /\ faults > 0 /\ faults' = faults - 1
    <3>1. faults' < test.budget BY <1>1, <2>3
    <3> QED BY <2>3, <3>1
  <2> QED BY <2>2, <2>3
<1>5. SenderTypes' BY <1>3, <1>4 DEF NetInv, SenderTypes
<1>6. Writer' BY <1>2, <1>3 DEF NetInv, Writer
<1> QED BY <1>5, <1>6

\* What the server counts had been under way.
LEMMA CountingUnderway ==
    ASSUME NetInv, NEW d, Counting(d), UNCHANGED <<test, tx, written>>, pc'["client"] = pc["client"],
           pc'["server"] # "listen"
    PROVE  Underway' /\ (~twice' => Number(d) \notin counted \/ d.bytes = 0)
<1>1. d \in net /\ counted' = counted \cup {Number(d)} /\ Taken(d) BY DEF Counting
<1>2. \A n : Given(n)' <=> Given(n) BY OthersGiven
<1>3. \A e : Whence(e)' <=> Whence(e) BY OthersGiven
<1>4. \A e \in net' : Whence(e)' BY <1>1, <1>3, TakenNet DEF NetInv, Underway
<1>5. Given(Number(d)) BY <1>1 DEF NetInv, Underway, Whence
<1>6. \A n \in counted' : Given(n)' BY <1>1, <1>2, <1>5 DEF NetInv, Underway
<1>7. \A e, f \in net' : Number(e) = Number(f) /\ e.bytes > 0 => e = f
  BY <1>1, TakenNet DEF NetInv, Underway
<1>8. ~twice' => /\ \A e \in net' : e.bytes > 0 => Number(e) \notin counted'
                 /\ Number(d) \notin counted \/ d.bytes = 0
  <2> SUFFICES ASSUME ~twice'
               PROVE  /\ \A e \in net' : e.bytes > 0 => Number(e) \notin counted'
                      /\ Number(d) \notin counted \/ d.bytes = 0
    OBVIOUS
  <2>1. net' = net \ {d} /\ ~twice BY <1>1, TakenNet
  <2>2. \A e \in net : e.bytes > 0 => Number(e) \notin counted BY <2>1 DEF NetInv, Underway
  <2>3. \A e \in net' : e.bytes > 0 => Number(e) # Number(d) BY <1>1, <2>1 DEF NetInv, Underway
  <2>4. d.bytes \in Nat BY <1>1 DEF NetInv, Underway, Whence
  <2> QED BY <1>1, <2>1, <2>2, <2>3, <2>4
<1>9. ~At("server", "listen")' BY DEF At
<1> QED BY <1>4, <1>6, <1>7, <1>8, <1>9 DEF Underway

LEMMA SkippingUnderway ==
    ASSUME NetInv, net' \subseteq net, counted' = counted, UNCHANGED <<test, tx, written>>,
           pc'["client"] = pc["client"], pc'["server"] = "listen" => pc["server"] = "listen",
           twice => twice'
    PROVE  Underway'
<1>1. \A n : Given(n)' <=> Given(n) BY OthersGiven
<1>2. \A e : Whence(e)' <=> Whence(e) BY OthersGiven
<1> QED BY <1>1, <1>2 DEF NetInv, Underway, At

\* Nobody but the client moves the client.
LEMMA ServerMoves ==
    ASSUME DenseInv, ServerForms
    PROVE  /\ pc'["client"] = pc["client"]
           /\ pc'["server"] = "listen" => pc["server"] = "listen"
           /\ pc["server"] = "done" => pc'["server"] = "done"
<1>1. pc' = pc \/ \E l \in {"read", "done"} : pc["server"] # "done" /\ pc' = [pc EXCEPT !["server"] = l]
  BY DEF ServerForms, Hears, Reads, Skips, Rests, At
<1> QED BY <1>1 DEF DenseInv, ClientTypes, Ends

LEMMA ServerNet ==
    ASSUME DenseInv, NetInv, ServerForms
    PROVE  NetInv'
<1>1. UNCHANGED <<test, interrupted, tx, written, sent, reported, tries>>
  BY DEF ServerForms, Bystanders, clients
<1>2. /\ pc'["client"] = pc["client"]
      /\ pc'["server"] = "listen" => pc["server"] = "listen"
  BY ServerMoves
<1>3. ASSUME NEW d, Hears(d) \/ Reads(d) PROVE NetInv'
  <2>1. Counting(d) /\ Taken(d) BY <1>3 DEF Hears, Reads, Counting
  <2>2. pc'["server"] # "listen" BY <1>3 DEF Hears, Reads, At, DenseInv, ClientTypes, Ends
  <2>3. Underway' BY <1>1, <1>2, <2>1, <2>2, CountingUnderway
  <2>4. Writer' /\ SenderTypes' BY <1>1, <1>2, <2>1, TakenNet, OthersWriter
  <2> QED BY <2>3, <2>4 DEF NetInv
<1>4. ASSUME NEW d, Skips(d) PROVE NetInv'
  <2>1. Taken(d) /\ counted' = counted BY <1>4 DEF Skips, Uncounted
  <2>2. twice => twice' BY <2>1, TakenNet
  <2>3. Underway' BY <1>1, <1>2, <2>1, <2>2, TakenNet, SkippingUnderway
  <2>4. Writer' /\ SenderTypes' BY <1>1, <1>2, <2>1, TakenNet, OthersWriter
  <2> QED BY <2>3, <2>4 DEF NetInv
<1>5. CASE Rests
  <2>1. UNCHANGED <<counted, net, faults, twice>> BY <1>5 DEF Rests, Uncounted
  <2>2. Underway' BY <1>1, <1>2, <2>1, SkippingUnderway
  <2>3. Writer' /\ SenderTypes' BY <1>1, <1>2, <2>1, OthersWriter
  <2> QED BY <2>2, <2>3 DEF NetInv
<1> QED BY <1>3, <1>4, <1>5 DEF ServerForms

LEMMA ClientNetInv ==
    ASSUME DenseInv, NetInv, ClientForms, DenseInv'
    PROVE  NetInv'
<1>1. Underway' /\ SenderTypes'
  BY WritesUnderway, IdlesUnderway, StarvesUnderway, FinishesUnderway, RepeatsUnderway DEF ClientForms
<1>2. Writer' BY <1>1, ClientWriter
<1> QED BY <1>1, <1>2 DEF NetInv

LEMMA NetInit == Init => NetInv
<1> SUFFICES ASSUME Init PROVE NetInv OBVIOUS
<1>1. test \in Tests /\ test.amount \in Int /\ test.budget \in Nat BY TestsAssumption DEF Init
<1>2. SenderTypes
  <2>1. tx.amount = test.amount /\ tx.left = 0 /\ faults = test.budget /\ tries = RetryCount
    BY DEF Init
  <2>2. twice = FALSE BY DEF Init
  <2>3. twice \in BOOLEAN /\ (twice => faults < test.budget) BY <2>2
  <2>4. faults \in 0 .. test.budget /\ tries \in 0 .. RetryCount BY <1>1, <2>1, UdpTrafficAssumption
  <2> QED BY <1>1, <2>1, <2>3, <2>4 DEF SenderTypes
<1>3. Underway BY DEF Init, Underway
<1>4. pc["client"] = "synch" BY DEF Init
<1>5. Writer BY <1>4 DEF Init, Writer, Sending, Nothing
<1> QED BY <1>2, <1>3, <1>5 DEF NetInv

\* The others are interrupted, or report an interval.
Aside ==
    /\ UNCHANGED <<test, pc, late, tx, sent, tries, written, net, faults, stats, counted, opener, twice, l4svars>>
    /\ interrupted \subseteq interrupted'

LEMMA AsideForm ==
    (IntervalReport \/ ClientIntervalReport \/ \E e \in Ends : Interrupt(e)) /\ UNCHANGED l4svars => Aside
  BY DEF IntervalReport, ClientIntervalReport, Interrupt, Aside, clients, servers

LEMMA AsideNet == ASSUME NetInv, Aside PROVE NetInv'
<1>1. Underway' BY SkippingUnderway DEF Aside
<1>2. Writer' /\ SenderTypes' BY OthersWriter DEF Aside
<1> QED BY <1>1, <1>2 DEF NetInv

LEMMA NetInvStep == DenseInv /\ SeqTypes /\ NetInv /\ [Next]_vars => NetInv'
<1> SUFFICES ASSUME DenseInv, SeqTypes, NetInv, [Next]_vars PROVE NetInv' OBVIOUS
<1>1. CASE Client
  <2>1. ClientForms BY <1>1, ClientForm DEF NetInv, Writer, DenseInv
  <2> QED BY <2>1, ClientNetInv, DenseStep
<1>2. CASE Server BY <1>2, ServerForm, ServerNet
<1>3. CASE (IntervalReport \/ ClientIntervalReport \/ \E e \in Ends : Interrupt(e)) /\ UNCHANGED l4svars
  BY <1>3, AsideForm, AsideNet
<1>4. CASE UNCHANGED vars
  <2>1. Aside BY <1>4 DEF vars, udpvars, clients, servers, Aside
  <2> QED BY <2>1, AsideNet
<1> QED BY <1>1, <1>2, <1>3, <1>4 DEF Next
-----------------------------------------------------------------------------
(* The reports.                                                            *)

\* What the server's reporter has counted, and what its intervals have had.
Reported ==
    /\ DOMAIN stats = CountFields
    /\ stats.PacketID \in Nat /\ stats.Datagrams \in Nat /\ stats.Bytes \in Int
    /\ stats.Lost \in Int /\ stats.OutofOrder \in Int
    /\ prev.PacketID \in Int /\ prev.Bytes \in Int /\ prev.Lost \in Int /\ prev.OutofOrder \in Int
    /\ sums.error \in Int /\ sums.error >= 0 /\ sums.error >= prev.Lost - prev.OutofOrder
    /\ sums.datagrams = prev.PacketID /\ sums.bytes = prev.Bytes

\* The losses less what came out of order are the numbers that have not come, or
\* fewer when some came twice.
Tallied ==
    /\ counted \subseteq 1 .. stats.PacketID
    /\ IF counted = {} THEN stats.PacketID = 0 ELSE stats.PacketID \in counted
    /\ stats.Lost - stats.OutofOrder =< stats.PacketID - Cardinality(counted)
    /\ ~twice => /\ stats.Lost - stats.OutofOrder = stats.PacketID - Cardinality(counted)
                 /\ stats.Datagrams = Cardinality(counted)

\* What the intervals of the client have had.
Interim ==
    /\ reported.prev.Datagrams \in Int /\ reported.prev.Bytes \in Int
    /\ reported.datagrams = reported.prev.Datagrams /\ reported.bytes = reported.prev.Bytes

ReportInv == Reported /\ Tallied /\ Interim

LEMMA ServerPacketCounts ==
    ASSUME NEW s, NEW p, DOMAIN s = CountFields
    PROVE  LET t == ServerPacket(s, p) IN
           /\ DOMAIN t = CountFields
           /\ t.OutofOrder = s.OutofOrder + (IF p.id <= s.PacketID THEN 1 ELSE 0)
           /\ t.Lost = s.Lost + NotBelow(p.id - s.PacketID - 1, 0)
           /\ t.PacketID = NotBelow(p.id, s.PacketID)
           /\ t.Bytes = s.Bytes + p.bytes
           /\ t.Datagrams = s.Datagrams + 1
<1> DEFINE framed == FrameRead(s, p)
<1>1. /\ DOMAIN framed = CountFields /\ framed.OutofOrder = s.OutofOrder /\ framed.Lost = s.Lost
      /\ framed.Bytes = s.Bytes /\ framed.Datagrams = s.Datagrams
  BY DEF FrameRead, CountFields
<1> HIDE DEF framed
<1>2. ServerPacket(s, p) =
         [framed EXCEPT !.OutofOrder = @ + (IF p.id <= s.PacketID THEN 1 ELSE 0),
                        !.Lost = @ + NotBelow(p.id - s.PacketID - 1, 0),
                        !.PacketID = NotBelow(p.id, s.PacketID),
                        !.Bytes = @ + p.bytes,
                        !.Datagrams = @ + 1]
  BY DEF ServerPacket, framed
<1> QED BY <1>1, <1>2 DEF CountFields

\* What a number does to the counts.
CountsNumber(n, bytes) ==
    /\ DOMAIN stats' = CountFields /\ counted' = counted \cup {n} /\ UNCHANGED <<prev, sums>>
    /\ stats'.Bytes = stats.Bytes + bytes /\ stats'.Datagrams = stats.Datagrams + 1
    /\ IF n > stats.PacketID
         THEN /\ stats'.PacketID = n /\ stats'.OutofOrder = stats.OutofOrder
              /\ stats'.Lost = stats.Lost + n - stats.PacketID - 1
         ELSE /\ stats'.PacketID = stats.PacketID /\ stats'.OutofOrder = stats.OutofOrder + 1
              /\ stats'.Lost = stats.Lost

LEMMA CountingNumber ==
    ASSUME Reported, NetInv, DenseInv, NEW d, Counting(d)
    PROVE  Number(d) \in Nat \ {0} /\ d.bytes \in Nat /\ CountsNumber(Number(d), d.bytes)
<1>1. Whence(d) BY DEF Counting, NetInv, Underway
<1>2. Number(d) \in Nat \ {0}
  <2>1. tx.id \in Nat \ {0} /\ Top \in Nat BY DenseFacts DEF Top
  <2> QED BY <1>1, <2>1 DEF Whence, Given
<1>3. PICK p : p.id = Number(d) /\ p.bytes = d.bytes /\ stats' = ServerPacket(stats, p) BY DEF Counting
<1> DEFINE n == Number(d)
<1>4. /\ DOMAIN stats' = CountFields
      /\ stats'.OutofOrder = stats.OutofOrder + (IF n <= stats.PacketID THEN 1 ELSE 0)
      /\ stats'.Lost = stats.Lost + NotBelow(n - stats.PacketID - 1, 0)
      /\ stats'.PacketID = NotBelow(n, stats.PacketID)
      /\ stats'.Bytes = stats.Bytes + d.bytes
      /\ stats'.Datagrams = stats.Datagrams + 1
  BY <1>3, ServerPacketCounts DEF Reported
<1>5. n \in Nat BY <1>2
<1>6. stats.PacketID \in Nat /\ stats.Lost \in Int /\ stats.OutofOrder \in Int BY DEF Reported
<1>7. counted' = counted \cup {n} /\ UNCHANGED <<prev, sums>> BY DEF Counting
<1> HIDE DEF n
<1>8. CountsNumber(n, d.bytes)
  BY <1>4, <1>5, <1>6, <1>7 DEF CountsNumber, NotBelow
<1> QED BY <1>1, <1>2, <1>8 DEF n, Whence

LEMMA UpTo == ASSUME NEW n \in Nat PROVE IsFiniteSet(1 .. n) /\ Cardinality(1 .. n) = n
<1>1. \A a, b \in Int : IsFiniteSet(a .. b) /\ Cardinality(a .. b) = IF a > b THEN 0 ELSE b - a + 1
  BY FS_Interval
<1>2. 1 \in Int /\ n \in Int OBVIOUS
<1>3. IsFiniteSet(1 .. n) /\ Cardinality(1 .. n) = IF 1 > n THEN 0 ELSE n - 1 + 1 BY <1>1, <1>2
<1> QED BY <1>3

\* The numbers that have not come.
LEMMA MissingCount ==
    ASSUME NEW n \in Nat, counted \subseteq 1 .. n
    PROVE  /\ IsFiniteSet(counted) /\ Cardinality(counted) \in Nat /\ Cardinality(counted) =< n
           /\ Missing(n) = n - Cardinality(counted)
           /\ Cardinality(counted) = n => counted = 1 .. n
<1>1. IsFiniteSet(1 .. n) /\ Cardinality(1 .. n) = n BY UpTo
<1>2. /\ IsFiniteSet(counted) /\ Cardinality(counted) =< n
      /\ Cardinality(1 .. n) = Cardinality(counted) => 1 .. n = counted
  BY <1>1, FS_Subset
<1>3. Cardinality(counted) \in Nat BY <1>2, FS_CardinalityType
<1>4. Cardinality((1 .. n) \ counted) = Cardinality(1 .. n) - Cardinality((1 .. n) \cap counted)
  BY <1>1, FS_Difference
<1>5. (1 .. n) \cap counted = counted OBVIOUS
<1> QED BY <1>1, <1>2, <1>3, <1>4, <1>5 DEF Missing

LEMMA CountingReports ==
    ASSUME Reported, Tallied, NEW n \in Nat \ {0}, NEW bytes \in Nat, CountsNumber(n, bytes),
           ~twice' => ~twice /\ n \notin counted
    PROVE  Reported' /\ Tallied'
<1> DEFINE P == stats.PacketID
           C == Cardinality(counted)
<1>1. Reported' BY DEF Reported, CountsNumber
<1>2. P \in Nat /\ stats.Lost \in Int /\ stats.OutofOrder \in Int /\ stats.Datagrams \in Nat BY DEF Reported
<1>3. counted \subseteq 1 .. P /\ IsFiniteSet(counted) /\ C \in Nat
  BY <1>2, MissingCount DEF Tallied
<1>4. Cardinality(counted') = IF n \in counted THEN C ELSE C + 1
  BY <1>3, FS_AddElement DEF CountsNumber
<1>5. counted' # {} BY DEF CountsNumber
<1>6. stats.Lost - stats.OutofOrder =< P - C
      /\ (~twice => stats.Lost - stats.OutofOrder = P - C /\ stats.Datagrams = C)
  BY DEF Tallied
<1> HIDE DEF C
<1>7. CASE n > P
  <2>1. stats'.PacketID = n /\ stats'.OutofOrder = stats.OutofOrder /\ stats'.Lost = stats.Lost + n - P - 1
    BY <1>7 DEF CountsNumber
  <2>2. n \notin counted BY <1>2, <1>3, <1>7
  <2>3. counted' \subseteq 1 .. n /\ n \in counted' BY <1>2, <1>3, <1>7 DEF CountsNumber
  <2>4. stats'.Datagrams = stats.Datagrams + 1 BY DEF CountsNumber
  <2> HIDE DEF P
  <2> QED BY <1>1, <1>2, <1>3, <1>4, <1>5, <1>6, <1>7, <2>1, <2>2, <2>3, <2>4 DEF Tallied
<1>8. CASE ~(n > P)
  <2>1. stats'.PacketID = P /\ stats'.OutofOrder = stats.OutofOrder + 1 /\ stats'.Lost = stats.Lost
    BY <1>8 DEF CountsNumber
  <2>2. counted' \subseteq 1 .. P /\ P \in counted'
    <3>1. P # 0 /\ n \in 1 .. P BY <1>2, <1>8
    <3> QED BY <1>3, <3>1 DEF CountsNumber, Tallied
  <2>3. stats'.Datagrams = stats.Datagrams + 1 BY DEF CountsNumber
  <2> HIDE DEF P
  <2> QED BY <1>1, <1>2, <1>3, <1>4, <1>5, <1>6, <1>8, <2>1, <2>2, <2>3 DEF Tallied
<1> QED BY <1>1, <1>7, <1>8

\* An interval report takes over what is counted.
LEMMA IntervalReports ==
    ASSUME ReportInv, DenseInv, NetInv, IntervalReport
    PROVE  ReportInv'
<1>1. /\ UNCHANGED <<stats, counted, twice, reported>> /\ prev' = stats
      /\ sums'.datagrams = sums.datagrams + (stats.PacketID - prev.PacketID)
      /\ sums'.bytes = sums.bytes + (stats.Bytes - prev.Bytes)
      /\ sums'.error = sums.error + NotBelow((stats.Lost - prev.Lost) - (stats.OutofOrder - prev.OutofOrder), 0)
  BY DEF IntervalReport, Report, clients
<1>2. Reported' BY <1>1 DEF ReportInv, Reported, NotBelow
<1>3. Tallied' /\ Interim' BY <1>1 DEF ReportInv, Tallied, Interim
<1> QED BY <1>2, <1>3 DEF ReportInv

LEMMA ClientIntervalReports ==
    ASSUME ReportInv, DenseInv, NetInv, ClientIntervalReport
    PROVE  ReportInv'
<1>1. /\ UNCHANGED <<stats, counted, twice, prev, sums>> /\ reported'.prev = sent
      /\ reported'.datagrams = reported.datagrams + (sent.Datagrams - reported.prev.Datagrams)
      /\ reported'.bytes = reported.bytes + (sent.Bytes - reported.prev.Bytes)
  BY DEF ClientIntervalReport, ClientReport, servers
<1>2. sent.Datagrams \in Nat /\ sent.Bytes \in Int BY DEF DenseInv, ClientTypes, NetInv, Writer
<1>3. Interim' BY <1>1, <1>2 DEF ReportInv, Interim
<1>4. Reported' /\ Tallied' BY <1>1 DEF ReportInv, Reported, Tallied
<1> QED BY <1>3, <1>4 DEF ReportInv

LEMMA UnreportedKeeps ==
    ASSUME ReportInv, UNCHANGED <<stats, prev, sums, counted, reported>>, twice => twice'
    PROVE  ReportInv'
  BY DEF ReportInv, Reported, Tallied, Interim

\* What is counted has not been counted before, or something came twice.
LEMMA CountsOnce ==
    ASSUME DenseInv, NetInv, ServerForms, NEW d, Hears(d) \/ Reads(d)
    PROVE  ~twice' => ~twice /\ Number(d) \notin counted
<1>1. Counting(d) /\ Taken(d) BY DEF Hears, Reads, Counting
<1>2. pc'["client"] = pc["client"] BY ServerMoves
<1>3. pc'["server"] # "listen" BY DEF Hears, Reads, At, DenseInv, ClientTypes, Ends
<1>4. UNCHANGED <<test, tx, written>> BY DEF ServerForms, Bystanders, clients
<1>5. ~twice' => Number(d) \notin counted \/ d.bytes = 0
  BY <1>1, <1>2, <1>3, <1>4, CountingUnderway
<1>6. Hears(d) => counted = {} BY DEF Hears, NetInv, Underway
<1>7. ~twice' => ~twice BY <1>1, TakenNet
<1> QED BY <1>5, <1>6, <1>7 DEF Reads

LEMMA ReportStep ==
    ASSUME DenseInv, SeqTypes, NetInv, ReportInv, [Next]_vars
    PROVE  ReportInv'
<1>1. CASE Client
  <2>1. UNCHANGED <<servers, reported>>
    <3>1. ClientForms BY <1>1, ClientForm DEF NetInv, Writer, DenseInv
    <3> QED BY <3>1 DEF ClientForms, SameTest
  <2> QED BY <2>1, UnreportedKeeps DEF servers
<1>2. CASE Server
  <2>1. ServerForms /\ UNCHANGED reported BY <1>2, ServerForm DEF ServerForms, Bystanders, clients
  <2>2. ASSUME NEW d, Hears(d) \/ Reads(d) PROVE ReportInv'
    <3>1. Counting(d) BY <2>2 DEF Hears, Reads
    <3>2. Number(d) \in Nat \ {0} /\ d.bytes \in Nat /\ CountsNumber(Number(d), d.bytes)
      BY <3>1, CountingNumber DEF ReportInv
    <3>3. ~twice' => ~twice /\ Number(d) \notin counted BY <2>1, <2>2, CountsOnce
    <3>4. Reported' /\ Tallied' BY <3>2, <3>3, CountingReports DEF ReportInv
    <3> QED BY <2>1, <3>4 DEF ReportInv, Interim
  <2>3. ASSUME NEW d, Skips(d) PROVE ReportInv'
    BY <2>1, <2>3, TakenNet, UnreportedKeeps DEF Skips, Uncounted
  <2>4. CASE Rests BY <2>1, <2>4, UnreportedKeeps DEF Rests, Uncounted
  <2> QED BY <2>1, <2>2, <2>3, <2>4 DEF ServerForms
<1>3. CASE IntervalReport BY <1>3, IntervalReports
<1>4. CASE ClientIntervalReport BY <1>4, ClientIntervalReports
<1>5. CASE \E e \in Ends : Interrupt(e)
  BY <1>5, UnreportedKeeps DEF Interrupt, clients, servers
<1>6. CASE UNCHANGED vars BY <1>6, UnreportedKeeps DEF vars, udpvars, clients, servers
<1> QED BY <1>1, <1>2, <1>3, <1>4, <1>5, <1>6 DEF Next

LEMMA ReportInit == Init => ReportInv
<1> SUFFICES ASSUME Init PROVE ReportInv OBVIOUS
<1>1. Reported /\ Interim BY DEF Init, Nothing, Reported, Interim, CountFields
<1>2. Tallied BY FS_EmptySet DEF Init, Nothing, Tallied
<1> QED BY <1>1, <1>2 DEF ReportInv

LEMMA ReportsAccounted == ReportInv => ReportAccounted
<1> SUFFICES ASSUME ReportInv PROVE ReportAccounted OBVIOUS
<1> DEFINE last == Report(prev, stats)
           final == FinalReport(stats)
           n == stats.PacketID
           losses == stats.Lost - stats.OutofOrder
<1>1. Reported /\ Tallied BY DEF ReportInv
<1>2. n \in Nat /\ losses \in Int BY <1>1 DEF Reported
<1>3. Missing(n) = n - Cardinality(counted) /\ Cardinality(counted) \in Nat /\ Cardinality(counted) =< n
  BY <1>1, <1>2, MissingCount DEF Tallied
<1>4. final.error = NotBelow(losses, 0)
  BY <1>1 DEF FinalReport, Report, Nothing, Reported, NotBelow
<1>5. /\ last.error = NotBelow((stats.Lost - prev.Lost) - (stats.OutofOrder - prev.OutofOrder), 0)
      /\ last.datagrams = n - prev.PacketID /\ last.bytes = stats.Bytes - prev.Bytes
  BY DEF Report
<1>6. sums.error + last.error >= final.error BY <1>1, <1>4, <1>5 DEF Reported, NotBelow
<1>7. sums.datagrams + last.datagrams = n /\ sums.bytes + last.bytes = stats.Bytes
  BY <1>1, <1>5 DEF Reported
<1>8. losses =< Missing(n) /\ (~twice => losses = Missing(n)) BY <1>1, <1>3 DEF Tallied
<1>9. final.error =< Missing(n) /\ (~twice => final.error = Missing(n))
  <2> HIDE DEF n, losses, final
  <2> QED BY <1>2, <1>3, <1>4, <1>8 DEF NotBelow
<1> QED BY <1>6, <1>7, <1>9 DEF ReportAccounted

LEMMA SendsAccounted == DenseInv /\ NetInv /\ ReportInv => SentAccounted
<1> SUFFICES ASSUME DenseInv, NetInv, ReportInv PROVE SentAccounted OBVIOUS
<1>1. sent.Datagrams \in Nat /\ sent.Bytes \in Int BY DEF DenseInv, ClientTypes, NetInv, Writer
<1>2. pc["client"] \in {"await", "done"} /\ faults = test.budget => sent.PacketID = sent.Datagrams
  BY DEF NetInv, Writer, Sending
<1> QED BY <1>1, <1>2 DEF SentAccounted, ClientReport, ClientFinalReport, ReportInv, Interim
-----------------------------------------------------------------------------
(* The histograms.                                                         *)

HistFields == {"mybins", "populationcnt", "cntloweroutofbounds", "cntupperoutofbounds"}
HistTypes(h) ==
    /\ DOMAIN h = HistFields /\ DOMAIN h.mybins = 0 .. Behind
    /\ \A b \in 0 .. Behind : h.mybins[b] \in Nat
    /\ h.populationcnt \in Int /\ h.cntloweroutofbounds \in Int /\ h.cntupperoutofbounds \in Int
    /\ IsFiniteSet(InBins(h.mybins))

\* A histogram that has grown from another: what it has in its bins is what that
\* one had, and what is printed.
GrownFrom(h, p) ==
    /\ \A b \in 0 .. Behind : p.mybins[b] =< h.mybins[b]
    /\ IsFiniteSet(InBins(Grown(h, p).mybins))
    /\ Cardinality(InBins(h.mybins)) = Cardinality(InBins(p.mybins)) + Cardinality(InBins(Grown(h, p).mybins))

Listing ==
    LET h == transits.latency
        p == transits.prev
    IN  Is("Histogram") =>
        /\ DOMAIN transits = {"latency", "prev", "listed"}
        /\ HistTypes(h) /\ HistTypes(p) /\ GrownFrom(h, p)
        /\ h.populationcnt = stats.Datagrams - stats.OutofOrder
        /\ Listed(h) + h.mybins[Behind] = h.populationcnt
        /\ transits.listed = Listed(p)

LEMMA InBinsSame ==
    ASSUME NEW f, NEW g, \A c \in 0 .. Bins - 1 : g[c] = f[c]
    PROVE  InBins(g) = InBins(f)
  BY DEF InBins

LEMMA InBinsGrow ==
    ASSUME NEW f, NEW g, NEW b \in 0 .. Bins - 1, f[b] \in Nat, g[b] = f[b] + 1,
           \A c \in 0 .. Bins - 1 : c # b => g[c] = f[c], IsFiniteSet(InBins(f))
    PROVE  IsFiniteSet(InBins(g)) /\ Cardinality(InBins(g)) = Cardinality(InBins(f)) + 1
<1> DEFINE x == <<b, f[b] + 1>>
<1>1. InBins(g) = InBins(f) \cup {x}
  <2>1. \A y : y \in InBins(g) <=> \E c \in 0 .. Bins - 1 : y \in {c} \X (1 .. g[c]) BY DEF InBins
  <2>2. \A y : y \in InBins(f) <=> \E c \in 0 .. Bins - 1 : y \in {c} \X (1 .. f[c]) BY DEF InBins
  <2>3. \A y : y \in {b} \X (1 .. g[b]) <=> y \in {b} \X (1 .. f[b]) \/ y = x
    <3>1. \A i : i \in 1 .. g[b] <=> i \in 1 .. f[b] \/ i = f[b] + 1 OBVIOUS
    <3>2. \A y, S : y \in {b} \X S <=> \E i \in S : y = <<b, i>> OBVIOUS
    <3> QED BY <3>1, <3>2
  <2> HIDE DEF x
  <2> QED BY <2>1, <2>2, <2>3
<1>2. x \notin InBins(f)
  <2>1. ~(f[b] + 1 \in 1 .. f[b]) OBVIOUS
  <2> QED BY <2>1 DEF InBins
<1> HIDE DEF x
<1> QED BY <1>1, <1>2, FS_AddElement

LEMMA InBinsNone ==
    ASSUME NEW f, \A c \in 0 .. Bins - 1 : f[c] = 0
    PROVE  InBins(f) = {}
  BY DEF InBins

\* What is printed of a histogram from the beginning is all that it has.
LEMMA GrownEmpty ==
    ASSUME NEW h, HistTypes(h)
    PROVE  /\ Listed(Grown(h, Empty)) = Listed(h)
           /\ Grown(h, Empty).populationcnt = h.populationcnt
<1> DEFINE g == Grown(h, Empty)
<1>1. Bins \in Nat \ {0} BY BinsAssumption
<1>2. \A c \in 0 .. Bins - 1 : h.mybins[c] \in Nat /\ Empty.mybins[c] = 0
  BY <1>1 DEF HistTypes, Behind, Empty
<1>3. \A c \in 0 .. Bins - 1 : g.mybins[c] = h.mybins[c]
  BY <1>2 DEF Grown
<1>4. InBins(g.mybins) = InBins(h.mybins) BY <1>3, InBinsSame
<1>5. /\ g.populationcnt = h.populationcnt - 0
      /\ g.cntloweroutofbounds = h.cntloweroutofbounds - 0
      /\ g.cntupperoutofbounds = h.cntupperoutofbounds - 0
  BY DEF Grown, Empty
<1> HIDE DEF g
<1>6. Listed(g) = Listed(h) /\ g.populationcnt = h.populationcnt
  BY <1>4, <1>5 DEF Listed, HistTypes
<1> QED BY <1>6 DEF g

\* What is printed of one from another is what it has more.
LEMMA GrownListed ==
    ASSUME NEW h, NEW p, HistTypes(h), HistTypes(p), GrownFrom(h, p)
    PROVE  Listed(h) = Listed(p) + Listed(Grown(h, p))
<1> DEFINE g == Grown(h, p)
<1>1. /\ g.cntloweroutofbounds = h.cntloweroutofbounds - p.cntloweroutofbounds
      /\ g.cntupperoutofbounds = h.cntupperoutofbounds - p.cntupperoutofbounds
  BY DEF Grown
<1>2. Cardinality(InBins(h.mybins)) = Cardinality(InBins(p.mybins)) + Cardinality(InBins(g.mybins))
      /\ IsFiniteSet(InBins(g.mybins))
  BY DEF GrownFrom
<1> HIDE DEF g
<1>3. \A S : IsFiniteSet(S) => Cardinality(S) \in Nat BY FS_CardinalityType
<1>4. /\ Cardinality(InBins(h.mybins)) \in Nat /\ Cardinality(InBins(p.mybins)) \in Nat
      /\ Cardinality(InBins(g.mybins)) \in Nat
  BY <1>2, <1>3 DEF HistTypes
<1>5. Listed(h) = Listed(p) + Listed(g) BY <1>1, <1>2, <1>4 DEF Listed, HistTypes
<1> QED BY <1>5 DEF g

LEMMA GrownFromSelf ==
    ASSUME NEW h, HistTypes(h)
    PROVE  GrownFrom(h, h)
<1>1. Bins \in Nat \ {0} BY BinsAssumption
<1>2. \A c \in 0 .. Bins - 1 : h.mybins[c] \in Nat BY <1>1 DEF HistTypes, Behind
<1>3. \A c \in 0 .. Bins - 1 : Grown(h, h).mybins[c] = 0 BY <1>2 DEF Grown
<1>4. InBins(Grown(h, h).mybins) = {} BY <1>3, InBinsNone
<1>5. Cardinality(InBins(h.mybins)) \in Nat BY FS_CardinalityType DEF HistTypes
<1> QED BY <1>4, <1>5, FS_EmptySet DEF GrownFrom, HistTypes

\* A value is listed, or it is behind the bins.
LEMMA InsertLists ==
    ASSUME NEW h, NEW p, NEW bin \in Int, HistTypes(h), HistTypes(p), GrownFrom(h, p)
    PROVE  LET g == Insert(h, bin) IN
           /\ HistTypes(g) /\ GrownFrom(g, p)
           /\ g.populationcnt = h.populationcnt + 1
           /\ Listed(g) + g.mybins[Behind] = Listed(h) + h.mybins[Behind] + 1
<1> DEFINE g == Insert(h, bin)
<1>1. Bins \in Nat \ {0} /\ Behind = Bins BY BinsAssumption DEF Behind
<1>2. \A S : IsFiniteSet(S) => Cardinality(S) \in Nat BY FS_CardinalityType
<1>3. Cardinality(InBins(h.mybins)) \in Nat /\ Cardinality(InBins(p.mybins)) \in Nat
  BY <1>2 DEF HistTypes
<1>4. Behind \in 0 .. Behind /\ h.mybins[Behind] \in Nat BY <1>1 DEF HistTypes
<1>10. h.cntloweroutofbounds \in Int /\ h.cntupperoutofbounds \in Int BY DEF HistTypes
<1>11. Listed(h) = h.cntloweroutofbounds + h.cntupperoutofbounds + Cardinality(InBins(h.mybins))
  BY DEF Listed
<1>5. ASSUME g.mybins = h.mybins, DOMAIN g = HistFields, g.populationcnt = h.populationcnt + 1,
             g.cntloweroutofbounds \in Int, g.cntupperoutofbounds \in Int,
             g.cntloweroutofbounds + g.cntupperoutofbounds = h.cntloweroutofbounds + h.cntupperoutofbounds + 1
      PROVE  /\ HistTypes(g) /\ GrownFrom(g, p)
             /\ Listed(g) + g.mybins[Behind] = Listed(h) + h.mybins[Behind] + 1
  <2> HIDE DEF g
  <2>1. Grown(g, p).mybins = Grown(h, p).mybins BY <1>5 DEF Grown
  <2>2. HistTypes(g) BY <1>5 DEF HistTypes
  <2>3. GrownFrom(g, p) BY <1>5, <2>1 DEF GrownFrom
  <2>4. Listed(g) + g.mybins[Behind] = Listed(h) + h.mybins[Behind] + 1
    <3>1. Listed(g) = g.cntloweroutofbounds + g.cntupperoutofbounds + Cardinality(InBins(g.mybins))
      BY DEF Listed
    <3> QED BY <1>3, <1>4, <1>5, <1>10, <1>11, <3>1
  <2> QED BY <2>2, <2>3, <2>4
<1>6. CASE bin < 0
  <2>1. g = [h EXCEPT !.populationcnt = @ + 1, !.cntloweroutofbounds = @ + 1]
    BY <1>1, <1>6 DEF Insert, HistTypes, HistFields
  <2> HIDE DEF g
  <2>2. /\ g.mybins = h.mybins /\ DOMAIN g = HistFields /\ g.populationcnt = h.populationcnt + 1
        /\ g.cntloweroutofbounds = h.cntloweroutofbounds + 1 /\ g.cntupperoutofbounds = h.cntupperoutofbounds
    BY <2>1 DEF HistTypes, HistFields
  <2> QED BY <1>5, <2>2 DEF g, HistTypes
<1>7. CASE bin > Bins
  <2>1. g = [h EXCEPT !.populationcnt = @ + 1, !.cntupperoutofbounds = @ + 1]
    BY <1>1, <1>7 DEF Insert, HistTypes, HistFields
  <2> HIDE DEF g
  <2>2. /\ g.mybins = h.mybins /\ DOMAIN g = HistFields /\ g.populationcnt = h.populationcnt + 1
        /\ g.cntloweroutofbounds = h.cntloweroutofbounds /\ g.cntupperoutofbounds = h.cntupperoutofbounds + 1
    BY <2>1 DEF HistTypes, HistFields
  <2> QED BY <1>5, <2>2 DEF g, HistTypes
<1>8. CASE bin \in 0 .. Bins
  <2>1. g = [h EXCEPT !.populationcnt = @ + 1, !.mybins[bin] = @ + 1]
    BY <1>1, <1>8 DEF Insert, HistTypes, HistFields
  <2> HIDE DEF g
  <2>2. /\ DOMAIN g = HistFields /\ g.populationcnt = h.populationcnt + 1
        /\ g.mybins = [h.mybins EXCEPT ![bin] = @ + 1]
        /\ g.cntloweroutofbounds = h.cntloweroutofbounds /\ g.cntupperoutofbounds = h.cntupperoutofbounds
    BY <2>1 DEF HistTypes, HistFields
  <2>3. /\ DOMAIN g.mybins = 0 .. Behind /\ g.mybins[bin] = h.mybins[bin] + 1
        /\ \A b \in 0 .. Behind : b # bin => g.mybins[b] = h.mybins[b]
    BY <1>1, <1>8, <2>2 DEF HistTypes
  <2>4. \A b \in 0 .. Behind : g.mybins[b] \in Nat /\ p.mybins[b] =< g.mybins[b]
    BY <1>1, <1>8, <2>3 DEF HistTypes, GrownFrom
  <2>5. CASE bin = Bins
    <3>1. \A b \in 0 .. Bins - 1 : g.mybins[b] = h.mybins[b] BY <1>1, <2>3, <2>5
    <3>2. InBins(g.mybins) = InBins(h.mybins) BY <3>1, InBinsSame
    <3>3. \A b \in 0 .. Bins - 1 : Grown(g, p).mybins[b] = Grown(h, p).mybins[b] BY <3>1 DEF Grown
    <3>4. InBins(Grown(g, p).mybins) = InBins(Grown(h, p).mybins) BY <3>3, InBinsSame
    <3>5. HistTypes(g) BY <2>2, <2>3, <2>4, <3>2 DEF HistTypes
    <3>6. GrownFrom(g, p) BY <2>4, <3>2, <3>4 DEF GrownFrom
    <3>7. Listed(g) + g.mybins[Behind] = Listed(h) + h.mybins[Behind] + 1
      <4>1. g.mybins[Behind] = h.mybins[Behind] + 1 BY <1>1, <2>3, <2>5
      <4>2. Listed(g) = g.cntloweroutofbounds + g.cntupperoutofbounds + Cardinality(InBins(g.mybins))
        BY DEF Listed
      <4> QED BY <1>3, <1>4, <1>10, <1>11, <2>2, <3>2, <4>1, <4>2
    <3> QED BY <2>2, <3>5, <3>6, <3>7 DEF g
  <2>6. CASE bin \in 0 .. Bins - 1
    <3>1. h.mybins[bin] \in Nat /\ p.mybins[bin] \in Nat /\ p.mybins[bin] =< h.mybins[bin]
      BY <1>1, <1>8 DEF HistTypes, GrownFrom
    <3>2. \A b \in 0 .. Bins - 1 : b # bin => g.mybins[b] = h.mybins[b] BY <1>1, <2>3
    <3>3. IsFiniteSet(InBins(g.mybins)) /\ Cardinality(InBins(g.mybins)) = Cardinality(InBins(h.mybins)) + 1
      BY <2>3, <2>6, <3>1, <3>2, InBinsGrow DEF HistTypes
    <3> DEFINE f == Grown(h, p).mybins
               k == Grown(g, p).mybins
    <3>4. f[bin] = h.mybins[bin] - p.mybins[bin] /\ k[bin] = f[bin] + 1
      BY <2>3, <2>6, <3>1 DEF Grown
    <3>5. \A b \in 0 .. Bins - 1 : b # bin => k[b] = f[b] BY <3>2 DEF Grown
    <3>6. IsFiniteSet(InBins(f)) BY DEF GrownFrom
    <3> HIDE DEF f, k
    <3>7. f[bin] \in Nat BY <3>1, <3>4
    <3>8. IsFiniteSet(InBins(k)) /\ Cardinality(InBins(k)) = Cardinality(InBins(f)) + 1
      BY <2>6, <3>4, <3>5, <3>6, <3>7, InBinsGrow
    <3>9. Cardinality(InBins(f)) \in Nat BY <1>2, <3>6
    <3>10. HistTypes(g) BY <2>2, <2>3, <2>4, <3>3 DEF HistTypes
    <3>11. GrownFrom(g, p) BY <1>3, <2>4, <3>3, <3>8, <3>9 DEF GrownFrom, f, k
    <3>12. g.mybins[Behind] = h.mybins[Behind] BY <1>1, <1>4, <2>3, <2>6
    <3>13. Listed(g) + g.mybins[Behind] = Listed(h) + h.mybins[Behind] + 1
      <4>1. Listed(g) = g.cntloweroutofbounds + g.cntupperoutofbounds + Cardinality(InBins(g.mybins))
        BY DEF Listed
      <4> QED BY <1>3, <1>4, <1>10, <1>11, <2>2, <3>3, <3>12, <4>1
    <3> QED BY <2>2, <3>10, <3>11, <3>13 DEF g
  <2> QED BY <1>1, <1>8, <2>5, <2>6
<1>9. g.populationcnt = h.populationcnt + 1 BY <1>1, <1>5, <1>6, <1>7, <1>8 DEF Insert, HistTypes, HistFields
<1> QED BY <1>1, <1>6, <1>7, <1>8, <1>9

LEMMA EmptyTypes == HistTypes(Empty) /\ Listed(Empty) = 0
<1>1. Bins \in Nat \ {0} /\ Behind = Bins BY BinsAssumption DEF Behind
<1>2. \A c \in 0 .. Behind : Empty.mybins[c] = 0 BY DEF Empty
<1>3. DOMAIN Empty = HistFields /\ DOMAIN Empty.mybins = 0 .. Behind
      /\ Empty.populationcnt = 0 /\ Empty.cntloweroutofbounds = 0 /\ Empty.cntupperoutofbounds = 0
  BY DEF Empty, HistFields
<1>4. InBins(Empty.mybins) = {} BY <1>1, <1>2, InBinsNone
<1> QED BY <1>2, <1>3, <1>4, FS_EmptySet DEF HistTypes, Listed

LEMMA ListingInit == Init => Listing
<1> SUFFICES ASSUME Init PROVE Listing OBVIOUS
<1>1. transits = [latency |-> Empty, prev |-> Empty, listed |-> 0]
      /\ stats.Datagrams = 0 /\ stats.OutofOrder = 0
  BY DEF Init, Nothing
<1>2. HistTypes(Empty) /\ GrownFrom(Empty, Empty) /\ Listed(Empty) = 0 BY EmptyTypes, GrownFromSelf
<1>3. Empty.populationcnt = 0 /\ Empty.mybins[Behind] = 0 BY BinsAssumption DEF Empty, Behind
<1> QED BY <1>1, <1>2, <1>3 DEF Listing

\* A datagram in order has a transit time, the others are out of order.
LEMMA CountingListing ==
    ASSUME Reported, Listing, NEW n \in Nat, NEW bytes \in Nat, CountsNumber(n, bytes), Transit(n), test' = test
    PROVE  Listing'
<1> SUFFICES ASSUME Is("Histogram") PROVE Listing' BY DEF Listing, Is
<1> DEFINE h == transits.latency
           p == transits.prev
<1>1. /\ DOMAIN transits = {"latency", "prev", "listed"}
      /\ HistTypes(h) /\ HistTypes(p) /\ GrownFrom(h, p)
      /\ h.populationcnt = stats.Datagrams - stats.OutofOrder
      /\ Listed(h) + h.mybins[Behind] = h.populationcnt /\ transits.listed = Listed(p)
  BY DEF Listing
<1>2. stats.PacketID \in Nat /\ stats.Datagrams \in Nat /\ stats.OutofOrder \in Int BY DEF Reported
<1> HIDE DEF h, p
<1>3. CASE n =< stats.PacketID
  <2>1. transits' = transits BY <1>3 DEF Transit
  <2>2. stats'.Datagrams - stats'.OutofOrder = stats.Datagrams - stats.OutofOrder
    BY <1>2, <1>3 DEF CountsNumber
  <2> QED BY <1>1, <2>1, <2>2 DEF Listing, h, p
<1>4. CASE ~(n =< stats.PacketID)
  <2>1. PICK bin \in -1 .. Bins + 1 : transits' = [transits EXCEPT !.latency = Insert(@, bin)]
    BY <1>4 DEF Transit
  <2>2. bin \in Int /\ Bins \in Int BY BinsAssumption
  <2> DEFINE g == Insert(h, bin)
  <2>3. DOMAIN transits' = {"latency", "prev", "listed"} /\ transits'.latency = g
        /\ transits'.prev = p /\ transits'.listed = transits.listed
    BY <1>1, <2>1 DEF h, p
  <2>4. /\ HistTypes(g) /\ GrownFrom(g, p)
        /\ g.populationcnt = h.populationcnt + 1
        /\ Listed(g) + g.mybins[Behind] = Listed(h) + h.mybins[Behind] + 1
    BY <1>1, <2>2, InsertLists
  <2> HIDE DEF g
  <2>5. stats'.Datagrams - stats'.OutofOrder = stats.Datagrams - stats.OutofOrder + 1
    BY <1>2, <1>4 DEF CountsNumber
  <2> QED BY <1>1, <2>3, <2>4, <2>5 DEF Listing
<1> QED BY <1>3, <1>4

\* What an interval lists is listed no more.
LEMMA IntervalListing == ASSUME Listing, IntervalReport PROVE Listing'
<1> SUFFICES ASSUME Is("Histogram") PROVE Listing' BY DEF Listing, Is, IntervalReport
<1> DEFINE h == transits.latency
           p == transits.prev
           more == Listed(Grown(h, p))
<1>1. /\ DOMAIN transits = {"latency", "prev", "listed"}
      /\ HistTypes(h) /\ HistTypes(p) /\ GrownFrom(h, p)
      /\ h.populationcnt = stats.Datagrams - stats.OutofOrder
      /\ Listed(h) + h.mybins[Behind] = h.populationcnt /\ transits.listed = Listed(p)
  BY DEF Listing
<1>2. stats' = stats /\ transits' = [transits EXCEPT !.prev = h, !.listed = @ + more]
  BY DEF IntervalReport, PrintOut
<1>3. Listed(h) = Listed(p) + more BY <1>1, GrownListed
<1>4. GrownFrom(h, h) BY <1>1, GrownFromSelf
<1> HIDE DEF h, p, more
<1>5. DOMAIN transits' = {"latency", "prev", "listed"} /\ transits'.latency = h
      /\ transits'.prev = h /\ transits'.listed = Listed(h)
  BY <1>1, <1>2, <1>3 DEF h
<1> QED BY <1>1, <1>2, <1>4, <1>5 DEF Listing

LEMMA ListingStep ==
    ASSUME DenseInv, SeqTypes, NetInv, ReportInv, Listing, [Next]_vars
    PROVE  Listing'
<1>1. ASSUME UNCHANGED <<test, stats, transits>> PROVE Listing'
  BY <1>1 DEF Listing, Is
<1>2. CASE Client
  <2>1. ClientForms BY <1>2, ClientForm DEF NetInv, Writer, DenseInv
  <2> QED BY <1>1, <2>1 DEF ClientForms, SameTest, servers
<1>3. CASE Server
  <2>1. ServerForms /\ UNCHANGED test BY <1>3, ServerForm DEF ServerForms, Bystanders
  <2>2. ASSUME NEW d, Counting(d) PROVE Listing'
    <3>1. Number(d) \in Nat \ {0} /\ d.bytes \in Nat /\ CountsNumber(Number(d), d.bytes)
      BY <2>2, CountingNumber DEF ReportInv
    <3>2. Transit(Number(d)) BY <2>2 DEF Counting
    <3> QED BY <2>1, <3>1, <3>2, CountingListing DEF ReportInv
  <2>3. CASE Uncounted BY <1>1, <2>1, <2>3 DEF Uncounted
  <2> QED BY <2>1, <2>2, <2>3 DEF ServerForms, Hears, Reads, Skips, Rests
<1>4. CASE IntervalReport BY <1>4, IntervalListing
<1>5. CASE ClientIntervalReport \/ \E e \in Ends : Interrupt(e)
  BY <1>1, <1>5 DEF ClientIntervalReport, Interrupt, servers
<1>6. CASE UNCHANGED vars BY <1>1, <1>6 DEF vars, udpvars, servers
<1> QED BY <1>2, <1>3, <1>4, <1>5, <1>6 DEF Next

LEMMA ListingAccounts == Listing => HistogramAccounts
<1> SUFFICES ASSUME Listing, Is("Histogram") PROVE HistogramAccounts BY DEF HistogramAccounts
<1> DEFINE h == transits.latency
           p == transits.prev
<1>1. /\ HistTypes(h) /\ HistTypes(p) /\ GrownFrom(h, p)
      /\ h.populationcnt = stats.Datagrams - stats.OutofOrder
      /\ Listed(h) + h.mybins[Behind] = h.populationcnt /\ transits.listed = Listed(p)
  BY DEF Listing
<1> HIDE DEF h, p
<1>2. PrintOut(h, p, TRUE).shown = Grown(h, Empty) /\ PrintOut(h, p, FALSE).shown = Grown(h, p)
  BY DEF PrintOut
<1>3. Listed(h) = Listed(p) + Listed(Grown(h, p)) BY <1>1, GrownListed
<1>4. Listed(Grown(h, Empty)) = Listed(h) /\ Grown(h, Empty).populationcnt = h.populationcnt
  BY <1>1, GrownEmpty
<1> QED BY <1>1, <1>2, <1>3, <1>4 DEF HistogramAccounts, h, p
-----------------------------------------------------------------------------
(* Tests in which nothing goes wrong.                                      *)

NumbersOf(ds) == {Number(d) : d \in ds}
BytesOf(ds) == UNION {{Number(d)} \X (1 .. d.bytes) : d \in ds}

\* Nothing was lost, came twice, failed, was sent again or is read after the end.
Smooth ==
    /\ faults = test.budget /\ tries = RetryCount
    /\ "server" \notin interrupted \cup late
    /\ ~(Is("Reverse") /\ {"TripTime", "Isochronous"} \cap test.flags # {})

\* Then what was written is counted or under way, and the server has come to its
\* end with that of the traffic; and so with the bytes, unless the listener has
\* taken the end for a new flow and dropped it.
Complete ==
    Smooth =>
      /\ At("server", "listen") => ~Is("Reverse")
      /\ At("server", "done") => Starved \/ (~Sending /\ tx.id \in counted)
      /\ 1 .. Len(written) \subseteq counted \cup NumbersOf(net)
      /\ IsFiniteSet(BytesOf(net))
      /\ (~Sending => tx.id \in counted \cup NumbersOf(net))
           => sent.Bytes = stats.Bytes + Cardinality(BytesOf(net))

LEMMA BytesAdd ==
    ASSUME NEW S, NEW d, d.bytes \in Nat, IsFiniteSet(BytesOf(S)),
           \A e \in S : Number(e) # Number(d) \/ d.bytes = 0
    PROVE  /\ IsFiniteSet(BytesOf(S \cup {d}))
           /\ Cardinality(BytesOf(S \cup {d})) = Cardinality(BytesOf(S)) + d.bytes
<1> DEFINE n == Number(d)
           I == 1 .. d.bytes
           M == {n} \X I
<1>1. IsFiniteSet(I) /\ Cardinality(I) = d.bytes BY UpTo
<1>2. IsFiniteSet({n}) /\ Cardinality({n}) = 1 BY FS_Singleton
<1>3. IsFiniteSet(M) /\ Cardinality(M) = d.bytes
  <2> HIDE DEF n, I
  <2>1. Cardinality(M) = 1 * d.bytes /\ IsFiniteSet(M) BY <1>1, <1>2, FS_Product
  <2> QED BY <2>1
<1>4. BytesOf(S \cup {d}) = BytesOf(S) \cup M
  <2>1. \A x : x \in BytesOf(S \cup {d}) <=> \E e \in S \cup {d} : x \in {Number(e)} \X (1 .. e.bytes)
    BY DEF BytesOf
  <2>2. \A x : x \in BytesOf(S) <=> \E e \in S : x \in {Number(e)} \X (1 .. e.bytes)
    BY DEF BytesOf
  <2> QED BY <2>1, <2>2
<1>5. BytesOf(S) \cap M = {}
  <2>1. CASE d.bytes = 0
    <3>1. I = {} BY <2>1
    <3>2. M = {} BY <3>1
    <3> HIDE DEF M
    <3> QED BY <3>2
  <2>2. CASE \A e \in S : Number(e) # n
    <3>1. \A x \in BytesOf(S) : \E e \in S : x[1] = Number(e) BY DEF BytesOf
    <3>2. \A x \in M : x[1] = n OBVIOUS
    <3> HIDE DEF M, n
    <3> QED BY <2>2, <3>1, <3>2
  <2> QED BY <2>1, <2>2
<1> HIDE DEF M, I, n
<1>6. \A A : IsFiniteSet(A) => Cardinality(A) \in Nat BY FS_CardinalityType
<1>7. /\ IsFiniteSet(BytesOf(S) \cup M)
      /\ Cardinality(BytesOf(S) \cup M) = Cardinality(BytesOf(S)) + Cardinality(M) - Cardinality(BytesOf(S) \cap M)
  BY <1>3, FS_Union
<1>8. Cardinality(BytesOf(S) \cap M) = 0 BY <1>5, FS_EmptySet
<1>9. Cardinality(BytesOf(S)) \in Nat BY <1>6
<1>10. Cardinality(BytesOf(S) \cup M) = Cardinality(BytesOf(S)) + d.bytes
  <2>1. \A a, b, c, e \in Int : a = b + c - e /\ e = 0 => a = b + c OBVIOUS
  <2>2. Cardinality(BytesOf(S) \cup M) \in Nat BY <1>6, <1>7
  <2> QED BY <1>3, <1>7, <1>8, <1>9, <2>1, <2>2
<1> QED BY <1>4, <1>7, <1>10

LEMMA BytesRemove ==
    ASSUME NEW S, NEW d \in S, d.bytes \in Nat, IsFiniteSet(BytesOf(S)),
           \A e \in S : e # d => Number(e) # Number(d) \/ d.bytes = 0
    PROVE  /\ IsFiniteSet(BytesOf(S \ {d}))
           /\ Cardinality(BytesOf(S)) = Cardinality(BytesOf(S \ {d})) + d.bytes
<1> DEFINE T == S \ {d}
<1>1. BytesOf(T) \subseteq BytesOf(S) BY DEF BytesOf
<1>2. IsFiniteSet(BytesOf(T)) BY <1>1, FS_Subset
<1>3. \A e \in T : Number(e) # Number(d) \/ d.bytes = 0 OBVIOUS
<1>4. T \cup {d} = S OBVIOUS
<1> HIDE DEF T
<1>5. Cardinality(BytesOf(T \cup {d})) = Cardinality(BytesOf(T)) + d.bytes
  BY <1>2, <1>3, BytesAdd
<1> QED BY <1>2, <1>4, <1>5 DEF T

LEMMA CompleteInit == Init => Complete
<1> SUFFICES ASSUME Init, Smooth PROVE Complete BY DEF Complete
<1>1. written = <<>> /\ Len(written) = 0 /\ net = {} /\ sent.Bytes = 0 /\ stats.Bytes = 0
  BY EmptySeq DEF Init, Nothing
<1>2. pc["server"] = IF Is("Reverse") /\ {"TripTime", "Isochronous"} \cap test.flags = {}
                     THEN "read" ELSE "listen"
  BY DEF Init
<1>3. BytesOf(net) = {} BY <1>1 DEF BytesOf
<1>4. IsFiniteSet({}) /\ Cardinality({}) = 0 BY FS_EmptySet
<1>5. At("server", "listen") => ~Is("Reverse") BY <1>2 DEF At, Smooth
<1>6. ~At("server", "done") BY <1>2 DEF At
<1>7. 1 .. Len(written) = {} BY <1>1
<1>10. Cardinality(BytesOf(net)) = 0 BY <1>3, <1>4
<1>8. sent.Bytes = stats.Bytes + Cardinality(BytesOf(net)) BY <1>1, <1>10
<1>9. IsFiniteSet(BytesOf(net)) BY <1>3, <1>4
<1> QED BY <1>5, <1>6, <1>7, <1>8, <1>9 DEF Complete

\* A test in which something went wrong stays one.
LEMMA SmoothBefore ==
    ASSUME NetInv, SenderTypes', Smooth', test' = test, interrupted \subseteq interrupted', late \subseteq late',
           faults' = faults \/ (faults > 0 /\ faults' = faults - 1),
           tries' = tries \/ (tries > 0 /\ tries' = tries - 1)
    PROVE  Smooth /\ UNCHANGED <<faults, tries>> /\ ~twice'
<1>1. test.budget \in Nat /\ faults \in 0 .. test.budget /\ tries \in 0 .. RetryCount /\ RetryCount \in Nat
  BY TestsAssumption, UdpTrafficAssumption DEF NetInv, SenderTypes
<1>2. faults' = test.budget /\ tries' = RetryCount BY DEF Smooth
<1>3. faults' = faults /\ tries' = tries BY <1>1, <1>2
<1>4. ~twice' BY <1>1, <1>2, <1>3 DEF SenderTypes
<1>5. "server" \notin interrupted \cup late BY DEF Smooth
<1> QED BY <1>2, <1>3, <1>4, <1>5 DEF Smooth, Is

LEMMA ClientFaults ==
    ASSUME NetInv, ClientForms
    PROVE  /\ faults' = faults \/ (faults > 0 /\ faults' = faults - 1)
           /\ tries' = tries \/ (tries > 0 /\ tries' = tries - 1)
           /\ test' = test /\ interrupted \subseteq interrupted' /\ late \subseteq late'
<1>1. test' = test /\ interrupted \subseteq interrupted' /\ late \subseteq late' BY DEF ClientForms, SameTest
<1>2. tries' = tries \/ (tries > 0 /\ tries' = tries - 1)
  BY DEF ClientForms, Idles, Writes, Starves, Finishes, Repeats
<1>3. faults' = faults \/ (faults > 0 /\ faults' = faults - 1)
  BY SendNet DEF ClientForms, Idles, Blamed, Writes, Starves, Finishes, Repeats
<1> QED BY <1>1, <1>2, <1>3

\* What is sent then is under way, unless the server has come to its end.
LEMMA SmoothSend ==
    ASSUME NEW d, Send(d), UNCHANGED faults, faults \in Int
    PROVE  net' = IF At("server", "done") THEN net ELSE net \cup {d}
  BY DEF Send, Fault

LEMMA AddsNumber ==
    ASSUME NEW S, NEW d
    PROVE  NumbersOf(S \cup {d}) = NumbersOf(S) \cup {Number(d)}
  BY DEF NumbersOf

\* What is sent with a number of its own.
LEMMA SentComplete ==
    ASSUME Smooth, Complete, NEW d, net' = net \cup {d}, UNCHANGED <<stats, counted>>, stats.Bytes \in Int,
           sent.Bytes \in Int, pc'["server"] = pc["server"], ~At("server", "done"), test' = test,
           d.bytes \in Nat, \A e \in net : Number(e) # Number(d),
           sent'.Bytes = sent.Bytes + d.bytes,
           ~Sending => tx.id \in counted \cup NumbersOf(net),
           1 .. Len(written') \subseteq (1 .. Len(written)) \cup {Number(d)}
    PROVE  Complete'
<1>1. NumbersOf(net') = NumbersOf(net) \cup {Number(d)} BY AddsNumber
<1>2. IsFiniteSet(BytesOf(net)) BY DEF Complete
<1>3. /\ IsFiniteSet(BytesOf(net'))
      /\ Cardinality(BytesOf(net')) = Cardinality(BytesOf(net)) + d.bytes
  BY <1>2, BytesAdd
<1>4. Cardinality(BytesOf(net)) \in Nat BY <1>2, FS_CardinalityType
<1>5. sent.Bytes = stats.Bytes + Cardinality(BytesOf(net)) BY DEF Complete
<1>6. sent'.Bytes = stats'.Bytes + Cardinality(BytesOf(net')) BY <1>3, <1>4, <1>5
<1>7. 1 .. Len(written') \subseteq counted' \cup NumbersOf(net') BY <1>1 DEF Complete
<1>8. BytesOf(net)' = BytesOf(net') /\ NumbersOf(net)' = NumbersOf(net') BY DEF BytesOf, NumbersOf
<1> QED BY <1>3, <1>6, <1>7, <1>8 DEF Complete, At, Is

\* What leaves the network, the counts and the written as they are.
LEMMA QuietComplete ==
    ASSUME Smooth, Complete, UNCHANGED <<test, net, stats, counted, written>>, sent'.Bytes = sent.Bytes,
           pc'["server"] = pc["server"], tx'.id = tx.id, Sending' <=> Sending,
           At("server", "done") /\ Starved => Starved'
    PROVE  Complete'
<1>1. BytesOf(net)' = BytesOf(net) /\ NumbersOf(net)' = NumbersOf(net) BY DEF BytesOf, NumbersOf
<1> QED BY <1>1 DEF Complete, At, Is

LEMMA ClientComplete ==
    ASSUME DenseInv, NetInv, ReportInv, Complete, ClientForms, NetInv'
    PROVE  Complete'
<1> SUFFICES ASSUME Smooth' PROVE Complete' BY DEF Complete
<1>1. Smooth /\ UNCHANGED <<faults, tries, test>>
  BY ClientFaults, SmoothBefore DEF NetInv
<1>2. UNCHANGED <<stats, counted, twice>> BY DEF ClientForms, SameTest, servers
<1>3. stats.Bytes \in Int /\ sent.Bytes \in Int BY DEF ReportInv, Reported, NetInv, Writer
<1>4. faults \in Int /\ tries \in Int BY DEF NetInv, SenderTypes
<1>5. At("server", "done") => Starved \/ (~Sending /\ tx.id \in counted) BY <1>1 DEF Complete
<1>6. Len(written) \in Nat /\ tx.id \in Nat /\ (Sending => tx.id = Len(written) + 1)
      /\ Len(Append(written, tx.id)) = Len(written) + 1
  BY DenseFacts
<1>7. \A e \in net : ~Starved /\ Sending => Number(e) \in 1 .. tx.id - 1
  BY DEF NetInv, Underway, Whence, Given, Top
<1>8. ASSUME NEW d, Writes(d) PROVE Complete'
  <2>1. ~Starved /\ Sending BY <1>8 DEF Writes, Sending
  <2>2. pc'["server"] = pc["server"] BY <1>8 DEF Writes, Advances, DenseInv, ClientTypes, Ends
  <2>3. ~At("server", "done") BY <1>5, <2>1
  <2>4. net' = net \cup {d} BY <1>1, <1>4, <1>8, <2>3, SmoothSend DEF Writes
  <2>5. Number(d) = tx.id /\ d.bytes \in Nat BY <1>6, <1>8 DEF Writes, Number
  <2>6. \A e \in net : Number(e) # Number(d) BY <1>6, <1>7, <2>1, <2>5
  <2>7. 1 .. Len(written') \subseteq (1 .. Len(written)) \cup {Number(d)}
    <3>1. Len(written') = Len(written) + 1 /\ Number(d) = Len(written) + 1
      BY <1>6, <1>8, <2>1, <2>5 DEF Writes
    <3> QED BY <1>6, <3>1
  <2>8. sent'.Bytes = sent.Bytes + d.bytes BY <1>8 DEF Writes
  <2> QED BY <1>1, <1>2, <1>3, <2>1, <2>2, <2>3, <2>4, <2>5, <2>6, <2>7, <2>8, SentComplete
<1>9. CASE Idles
  <2>1. /\ ~Starved /\ UNCHANGED <<net, written>> /\ tx'.id = tx.id /\ sent'.Bytes = sent.Bytes
        /\ Sending /\ Sending' /\ pc'["server"] = pc["server"]
    BY <1>9 DEF Idles, Advances, DenseInv, ClientTypes, Ends, Sending
  <2> QED BY <1>1, <1>2, <2>1, QuietComplete
<1>10. ASSUME NEW d, Starves(d) PROVE Complete'
  <2>1. Starved' /\ Starved BY <1>10, StarvesUnderway DEF ClientForms, Starves
  <2>2. /\ UNCHANGED <<pc, written>> /\ tx'.id = tx.id /\ sent'.Bytes = sent.Bytes
        /\ Send(d) /\ d.bytes = 0
    BY <1>10 DEF Starves, DenseInv, ClientTypes, TxFields
  <2>3. Sending /\ Sending' BY <2>1 DEF Sending, Starved, At
  <2>4. CASE At("server", "done")
    <3>1. net' = net BY <1>1, <1>4, <2>2, <2>4, SmoothSend
    <3> QED BY <1>1, <1>2, <2>1, <2>2, <2>3, <3>1, QuietComplete
  <2>5. CASE ~At("server", "done")
    <3>1. net' = net \cup {d} BY <1>1, <1>4, <2>2, <2>5, SmoothSend
    <3>2. NumbersOf(net') = NumbersOf(net) \cup {Number(d)} BY <3>1, AddsNumber
    <3>6. d.bytes = 0 /\ d.bytes \in Nat /\ IsFiniteSet(BytesOf(net)) BY <1>1, <2>2 DEF Complete
    <3>7. \A e \in net : Number(e) # Number(d) \/ d.bytes = 0 BY <3>6
    <3>8. /\ IsFiniteSet(BytesOf(net \cup {d}))
          /\ Cardinality(BytesOf(net \cup {d})) = Cardinality(BytesOf(net)) + d.bytes
      BY <3>6, <3>7, BytesAdd
    <3>3. IsFiniteSet(BytesOf(net')) /\ Cardinality(BytesOf(net')) = Cardinality(BytesOf(net)) + 0
      BY <3>1, <3>6, <3>8
    <3>4. Cardinality(BytesOf(net)) \in Nat BY <1>1, FS_CardinalityType DEF Complete
    <3>5. BytesOf(net)' = BytesOf(net') /\ NumbersOf(net)' = NumbersOf(net') BY DEF BytesOf, NumbersOf
    <3> QED BY <1>1, <1>2, <2>1, <2>2, <2>3, <2>5, <3>2, <3>3, <3>4, <3>5 DEF Complete, At, Is
  <2> QED BY <2>4, <2>5
<1>11. ASSUME NEW d, Finishes(d) PROVE Complete'
  <2>1. ~Starved /\ Sending /\ UNCHANGED <<tx, written>>
    BY <1>11 DEF Finishes, At, Starved, Sending
  <2>2. pc'["server"] = pc["server"] BY <1>11 DEF Finishes, Advances, DenseInv, ClientTypes, Ends
  <2>3. ~At("server", "done") BY <1>5, <2>1
  <2>4. Send(d) /\ d.id = -tx.id /\ d.bytes = BufLen /\ Post(Packet(tx.id, BufLen, tx.err))
    BY <1>1, <1>4, <1>11 DEF Finishes
  <2>5. net' = net \cup {d} BY <1>1, <1>4, <2>3, <2>4, SmoothSend
  <2>6. Number(d) = tx.id /\ d.bytes \in Nat
    <3>1. tx.id \in Nat /\ tx.id > 0 BY <1>6, <2>1
    <3>2. d.id = -tx.id /\ d.id < 0 /\ -d.id = tx.id BY <2>4, <3>1
    <3>3. BufLen \in Nat BY Lengths
    <3> QED BY <2>4, <3>2, <3>3 DEF Number
  <2>7. \A e \in net : Number(e) # Number(d) BY <1>6, <1>7, <2>1, <2>6
  <2>8. tx.err = "ok"
    <3>1. tx.err \in {"ok", "again", "fatal"} /\ (tx.err \in {"again", "fatal"} => faults < test.budget)
      BY <2>1 DEF NetInv, Writer
    <3>2. faults = test.budget BY <1>1 DEF Smooth
    <3> QED BY <1>4, <3>1, <3>2
  <2>9. sent'.Bytes = sent.Bytes + d.bytes
    <3>1. BufLen \in Int /\ ClientTypes /\ sent.Bytes \in Int BY <1>3, Lengths DEF DenseInv
    <3>2. Post(Packet(tx.id, BufLen, "ok")) BY <2>4, <2>8
    <3>3. sent'.Bytes = sent.Bytes + BufLen BY <3>1, <3>2, PacketBytes
    <3> QED BY <2>4, <3>3
  <2>10. 1 .. Len(written') \subseteq (1 .. Len(written)) \cup {Number(d)} BY <2>1
  <2> QED BY <1>1, <1>2, <1>3, <2>1, <2>2, <2>3, <2>5, <2>6, <2>7, <2>9, <2>10, SentComplete
<1>12. ASSUME NEW d, Repeats(d) PROVE Complete'
  <2>1. Advances("done") /\ UNCHANGED <<tx, net, sent, written>> /\ ~Sending /\ ~Starved
    BY <1>1, <1>4, <1>12 DEF Repeats, At, Sending, Starved
  <2>2. ~Sending' /\ pc'["server"] = pc["server"]
    BY <2>1 DEF Advances, DenseInv, ClientTypes, Ends, Sending
  <2> QED BY <1>1, <1>2, <2>1, <2>2, QuietComplete
<1> QED BY <1>8, <1>9, <1>10, <1>11, <1>12 DEF ClientForms

\* In such a test a number that ends the traffic is the one after the last written.
LEMMA SmoothEnd ==
    ASSUME DenseInv, NetInv, Smooth, NEW d \in net, d.id < 0
    PROVE  Number(d) = tx.id /\ tx.id = Len(written) + 1 /\ ~Sending /\ ~Starved /\ d.bytes > 0 /\ d.bytes \in Nat
<1>1. Whence(d) BY DEF NetInv, Underway
<1>2. ~Sending /\ d.id \in Int /\ -d.id > Len(written) /\ Number(d) = -d.id BY <1>1 DEF Whence, Number
<1>3. ~Starved BY <1>2 DEF Starved, Sending, At
<1>4. tx.id = Len(written) + 1 BY <1>2 DEF Smooth, NetInv, Writer
<1>5. Len(written) \in Nat /\ tx.id \in Nat BY DenseFacts
<1>6. Number(d) \in 1 .. tx.id BY <1>1, <1>2, <1>3 DEF Whence, Given, Top
<1>7. d.bytes \in Nat /\ d.bytes # 0 BY <1>1, <1>3 DEF Whence
<1> QED BY <1>2, <1>3, <1>4, <1>5, <1>6, <1>7

LEMMA RemovesNumber ==
    ASSUME NEW d \in net, net' = net \ {d}
    PROVE  /\ NumbersOf(net) = NumbersOf(net') \cup {Number(d)}
           /\ NumbersOf(net)' = NumbersOf(net') /\ BytesOf(net)' = BytesOf(net')
  BY DEF NumbersOf, BytesOf

LEMMA TakesBytes ==
    ASSUME NetInv, Smooth, Complete, NEW d \in net, net' = net \ {d}
    PROVE  /\ IsFiniteSet(BytesOf(net'))
           /\ Cardinality(BytesOf(net)) = Cardinality(BytesOf(net')) + d.bytes
           /\ Cardinality(BytesOf(net')) \in Nat /\ d.bytes \in Nat
<1>1. d.bytes \in Nat BY DEF NetInv, Underway, Whence
<1>2. \A e \in net : e # d => Number(e) # Number(d) \/ d.bytes = 0 BY <1>1 DEF NetInv, Underway
<1>3. IsFiniteSet(BytesOf(net)) BY DEF Complete
<1>4. /\ IsFiniteSet(BytesOf(net'))
      /\ Cardinality(BytesOf(net)) = Cardinality(BytesOf(net')) + d.bytes
  BY <1>1, <1>2, <1>3, BytesRemove
<1> QED BY <1>1, <1>4, FS_CardinalityType

\* What the server counts was under way.
LEMMA CountsComplete ==
    ASSUME DenseInv, NetInv, Reported, Smooth, Complete, NEW d, Hears(d) \/ Reads(d), ServerForms,
           ~twice', UNCHANGED faults
    PROVE  Complete'
<1>1. Counting(d) /\ Taken(d) /\ d \in net /\ counted' = counted \cup {Number(d)}
  BY DEF Hears, Reads, Counting
<1>2. net' = net \ {d} BY <1>1, TakenNet
<1>3. UNCHANGED <<test, tx, written, sent>> BY DEF ServerForms, Bystanders, clients
<1>4. (Starved' <=> Starved) /\ (Sending' <=> Sending) BY <1>3, ServerMoves, OthersGiven
<1>5. stats'.Bytes = stats.Bytes + d.bytes BY <1>1, CountingNumber DEF CountsNumber
<1>6. /\ NumbersOf(net) = NumbersOf(net') \cup {Number(d)}
      /\ NumbersOf(net)' = NumbersOf(net') /\ BytesOf(net)' = BytesOf(net')
  BY <1>1, <1>2, RemovesNumber
<1>7. counted' \cup NumbersOf(net') = counted \cup NumbersOf(net) BY <1>1, <1>6
<1>8. /\ IsFiniteSet(BytesOf(net'))
      /\ Cardinality(BytesOf(net)) = Cardinality(BytesOf(net')) + d.bytes
      /\ Cardinality(BytesOf(net')) \in Nat /\ d.bytes \in Nat
  BY <1>1, <1>2, TakesBytes
<1>9. sent.Bytes \in Int /\ stats.Bytes \in Int BY DEF NetInv, Writer, Reported
<1>10. (~Sending' => tx'.id \in counted' \cup NumbersOf(net'))
         => sent'.Bytes = stats'.Bytes + Cardinality(BytesOf(net'))
  <2> SUFFICES ASSUME ~Sending' => tx'.id \in counted' \cup NumbersOf(net')
               PROVE  sent'.Bytes = stats'.Bytes + Cardinality(BytesOf(net'))
    OBVIOUS
  <2>1. ~Sending => tx.id \in counted \cup NumbersOf(net) BY <1>3, <1>4, <1>7
  <2>2. sent.Bytes = stats.Bytes + Cardinality(BytesOf(net)) BY <2>1 DEF Complete
  <2>3. sent'.Bytes = sent.Bytes BY <1>3
  <2> QED BY <1>5, <1>8, <1>9, <2>2, <2>3
<1>11. ~At("server", "listen")' BY DEF Hears, Reads, At, DenseInv, ClientTypes, Ends
<1>12. At("server", "done")' => ~Sending' /\ tx'.id \in counted'
  <2> SUFFICES ASSUME At("server", "done")' PROVE ~Sending' /\ tx'.id \in counted' OBVIOUS
  <2>1. d.id < 0 BY DEF Hears, Reads, At, DenseInv, ClientTypes, Ends
  <2>2. Number(d) = tx.id /\ ~Sending BY <1>1, <2>1, SmoothEnd
  <2> QED BY <1>1, <1>3, <1>4, <2>2
<1>13. 1 .. Len(written') \subseteq counted' \cup NumbersOf(net') BY <1>3, <1>7 DEF Complete
<1> QED BY <1>6, <1>8, <1>10, <1>11, <1>12, <1>13 DEF Complete

\* What it takes and does not count is an empty datagram, or an end of which the
\* listener makes nothing.
LEMMA SkipsComplete ==
    ASSUME DenseInv, NetInv, Smooth, Complete, NEW d, Skips(d), ServerForms, ~twice', UNCHANGED faults
    PROVE  Complete'
<1>1. d \in net /\ Taken(d) /\ UNCHANGED <<stats, counted>> BY DEF Skips, Uncounted
<1>2. net' = net \ {d} BY <1>1, TakenNet
<1>3. UNCHANGED <<test, tx, written, sent>> BY DEF ServerForms, Bystanders, clients
<1>4. (Starved' <=> Starved) /\ (Sending' <=> Sending) BY <1>3, ServerMoves, OthersGiven
<1>5. /\ NumbersOf(net) = NumbersOf(net') \cup {Number(d)}
      /\ NumbersOf(net)' = NumbersOf(net') /\ BytesOf(net)' = BytesOf(net')
  BY <1>1, <1>2, RemovesNumber
<1>6. /\ IsFiniteSet(BytesOf(net'))
      /\ Cardinality(BytesOf(net)) = Cardinality(BytesOf(net')) + d.bytes
      /\ Cardinality(BytesOf(net')) \in Nat /\ d.bytes \in Nat
  BY <1>1, <1>2, TakesBytes
<1>7. Len(written) \in Nat /\ tx.id \in Nat /\ (Sending => tx.id = Len(written) + 1) BY DenseFacts
<1>8. 1 .. Len(written) \subseteq counted \cup NumbersOf(net) BY DEF Complete
<1>9. CASE At("server", "listen") /\ ~Is("Reverse") /\ d.id < 0 /\ UNCHANGED <<pc, l4svars>>
  <2>1. Number(d) = tx.id /\ tx.id = Len(written) + 1 /\ ~Sending /\ d.bytes > 0 BY <1>1, <1>9, SmoothEnd
  <2>2. counted = {} BY <1>9 DEF NetInv, Underway
  <2>3. \A e \in net : Number(e) = Number(d) => e = d BY <1>1, <2>1 DEF NetInv, Underway
  <2>4. tx.id \notin NumbersOf(net') BY <1>2, <2>1, <2>3 DEF NumbersOf
  <2>5. 1 .. Len(written) \subseteq counted \cup NumbersOf(net') BY <1>5, <1>7, <1>8, <2>1
  <2>6. ~(~Sending' => tx'.id \in counted' \cup NumbersOf(net')) BY <1>1, <1>3, <1>4, <2>1, <2>2, <2>4
  <2>7. ~At("server", "done")' /\ ~Is("Reverse")' BY <1>3, <1>9 DEF At, Is
  <2> QED BY <1>1, <1>3, <1>5, <1>6, <2>5, <2>6, <2>7 DEF Complete
<1>10. CASE At("server", "listen") /\ Is("Reverse")
  BY <1>10 DEF Complete
<1>11. CASE At("server", "read") /\ d.bytes = 0
  <2>1. Starved /\ d.id = tx.id BY <1>1, <1>11 DEF NetInv, Underway, Whence
  <2>2. Sending BY <2>1 DEF Starved, Sending, At
  <2>3. Number(d) = Len(written) + 1 BY <1>7, <2>1, <2>2 DEF Number
  <2>4. 1 .. Len(written) \subseteq counted \cup NumbersOf(net') BY <1>5, <1>7, <1>8, <2>3
  <2>5. sent.Bytes = stats.Bytes + Cardinality(BytesOf(net)) BY <2>2 DEF Complete
  <2>6. Cardinality(BytesOf(net)) = Cardinality(BytesOf(net')) BY <1>6, <1>11
  <2>7. sent'.Bytes = stats'.Bytes + Cardinality(BytesOf(net')) BY <1>1, <1>3, <2>5, <2>6
  <2>8. ~At("server", "listen")' BY <1>11, ServerMoves DEF At
  <2> QED BY <1>1, <1>3, <1>4, <1>5, <1>6, <2>1, <2>4, <2>7, <2>8 DEF Complete
<1> QED BY <1>9, <1>10, <1>11 DEF Skips

LEMMA RestsComplete ==
    ASSUME DenseInv, Smooth, Complete, Rests, ServerForms
    PROVE  Complete'
<1>1. UNCHANGED <<test, tx, written, sent, net, stats, counted>>
  BY DEF ServerForms, Bystanders, clients, Rests, Uncounted
<1>2. (Starved' <=> Starved) /\ (Sending' <=> Sending) BY <1>1, ServerMoves, OthersGiven
<1>3. pc' = pc BY DEF Rests, Complete, Smooth
<1> QED BY <1>1, <1>2, <1>3, QuietComplete

LEMMA ServerComplete ==
    ASSUME DenseInv, NetInv, ReportInv, Complete, ServerForms, NetInv'
    PROVE  Complete'
<1> SUFFICES ASSUME Smooth' PROVE Complete' BY DEF Complete
<1>1. test' = test /\ interrupted \subseteq interrupted' /\ late \subseteq late' /\ tries' = tries
  BY DEF ServerForms, Bystanders, clients
<1>2. faults' = faults \/ (faults > 0 /\ faults' = faults - 1)
  BY TakenNet DEF ServerForms, Rests, Hears, Reads, Skips, Counting
<1>3. Smooth /\ UNCHANGED <<faults, tries>> /\ ~twice' BY <1>1, <1>2, SmoothBefore DEF NetInv
<1> QED BY <1>3, CountsComplete, SkipsComplete, RestsComplete DEF ServerForms, ReportInv

LEMMA AsideComplete ==
    ASSUME NetInv, Complete, Aside, NetInv'
    PROVE  Complete'
<1> SUFFICES ASSUME Smooth' PROVE Complete' BY DEF Complete
<1>1. Smooth BY SmoothBefore DEF NetInv, Aside
<1>2. (Starved' <=> Starved) /\ (Sending' <=> Sending) BY OthersGiven DEF Aside
<1> QED BY <1>1, <1>2, QuietComplete DEF Aside

LEMMA CompleteStep ==
    ASSUME DenseInv, SeqTypes, NetInv, ReportInv, Complete, [Next]_vars, DenseInv', NetInv'
    PROVE  Complete'
<1>1. CASE Client
  <2>1. ClientForms BY <1>1, ClientForm DEF DenseInv, NetInv, Writer
  <2> QED BY <2>1, ClientComplete
<1>2. CASE Server BY <1>2, ServerForm, ServerComplete
<1>3. CASE (IntervalReport \/ ClientIntervalReport \/ \E e \in Ends : Interrupt(e)) /\ UNCHANGED l4svars
  BY <1>3, AsideForm, AsideComplete
<1>4. CASE UNCHANGED vars
  <2>1. Aside BY <1>4 DEF vars, udpvars, clients, servers, Aside
  <2> QED BY <2>1, AsideComplete
<1> QED BY <1>1, <1>2, <1>3, <1>4 DEF Next

LEMMA CompleteEven == DenseInv /\ NetInv /\ ReportInv /\ Complete => EvenNow
<1> SUFFICES ASSUME DenseInv, NetInv, ReportInv, Complete, Untroubled,
                    ~(Is("Reverse") /\ {"TripTime", "Isochronous"} \cap test.flags # {})
             PROVE  Even
  BY DEF EvenNow
<1>1. Smooth BY DEF Smooth, Untroubled
<1>2. ~Sending /\ ~Starved /\ net = {} /\ faults = test.budget /\ tries = RetryCount
  BY DEF Untroubled, Sending, Starved, At
<1>3. NumbersOf(net) = {} /\ BytesOf(net) = {} BY <1>2 DEF NumbersOf, BytesOf
<1>4. tx.id \in counted /\ 1 .. Len(written) \subseteq counted
  BY <1>1, <1>2, <1>3 DEF Complete, Untroubled
<1>5. tx.id = Len(written) + 1 /\ sent.PacketID = tx.id /\ sent.Datagrams = tx.id
  BY <1>2 DEF NetInv, Writer
<1>6. Len(written) \in Nat BY DenseFacts
<1>7. \A n \in counted : n \in 1 .. tx.id BY <1>2 DEF NetInv, Underway, Given, Top
<1>8. counted = 1 .. tx.id
  <2>1. \A n \in 1 .. tx.id : n \in 1 .. Len(written) \/ n = tx.id BY <1>5, <1>6
  <2>2. 1 .. tx.id \subseteq counted BY <1>4, <2>1
  <2> QED BY <1>7, <2>2
<1>9. stats.PacketID \in counted /\ counted \subseteq 1 .. stats.PacketID /\ stats.PacketID \in Nat
  BY <1>4 DEF ReportInv, Tallied, Reported
<1>10. stats.PacketID = tx.id BY <1>5, <1>6, <1>8, <1>9
<1>11. ~twice BY <1>2, TestsAssumption DEF NetInv, SenderTypes
<1>12. stats.Datagrams = tx.id
  <2>1. stats.Datagrams = Cardinality(counted) BY <1>11 DEF ReportInv, Tallied
  <2>2. tx.id \in Nat BY <1>5, <1>6
  <2>3. Cardinality(1 .. tx.id) = tx.id BY <2>2, UpTo
  <2> QED BY <1>8, <2>1, <2>3
<1>13. sent.Bytes = stats.Bytes
  <2>1. Cardinality(BytesOf(net)) = 0 BY <1>3, FS_EmptySet
  <2>2. sent.Bytes = stats.Bytes + Cardinality(BytesOf(net)) BY <1>1, <1>4 DEF Complete
  <2>3. stats.Bytes \in Int BY DEF ReportInv, Reported
  <2> QED BY <2>1, <2>2, <2>3
<1> QED BY <1>5, <1>10, <1>12, <1>13 DEF Even
-----------------------------------------------------------------------------
(* What L4S echoes.                                                        *)

\* The sequence number of a datagram is one less than its number when the first
\* payload was written, which has none, and its number when that write failed.
\* Until its end the server has counted data only, the first of which it has not
\* echoed.
Ahead == flight.seqnr - Len(written)
Sequenced ==
    test.loop = "l4s" =>
      /\ tx.seq =< flight.seqnr /\ \A d \in net : d.seq =< flight.seqnr
      /\ At("client", "synch") => Ahead = 1 /\ flight.seqnr = 1 /\ tx.seq = 0
      /\ Ahead \in {0, 1}
      /\ \A d \in net : d.id > 0 => d.seq = d.id - 1 + Ahead
      /\ ~At("server", "done") => \A n \in counted : n =< Len(written)
      /\ IF At("server", "listen") THEN rx.received = 0 /\ rx.lost = 0 ELSE counted # {}

\* What the receiver of L4S has counted is what the server's reporter has, less the
\* first.
Echoed ==
    test.loop = "l4s" /\ ~twice =>
      /\ Sum(rx) =< flight.seqnr
      /\ ~At("server", "done") => rx.received = IF counted = {} THEN 0 ELSE Cardinality(counted) - 1
      /\ opener = 1 /\ counted # {} /\ Ahead = 0 /\ ~At("server", "done") => Sum(rx) = stats.PacketID - 1

L4sKept == Ahead' = Ahead \/ (counted = {} /\ At("server", "listen"))

LEMMA L4sTest ==
    ASSUME SenderTypes, test.loop = "l4s"
    PROVE  ~Is("Reverse") /\ ~Starved /\ ~Is("Compat")
  BY TestsAssumption DEF SenderTypes, Is, Starved

LEMMA SynchEmpty ==
    ASSUME DenseInv, NetInv, At("client", "synch"), Len(written) = 0
    PROVE  net = {} /\ counted = {}
<1>1. tx.id = 1 /\ Sending /\ ~Starved BY DenseFacts DEF At, Sending, Starved
<1>2. Top = 0 BY <1>1 DEF Top
<1>3. \A n : ~Given(n) BY <1>1, <1>2 DEF Given
<1> QED BY <1>3 DEF NetInv, Underway, Whence

LEMMA ClientEchoes ==
    ASSUME SeqTypes, Client
    PROVE  rx' = rx /\ acks' \subseteq acks
  BY DEF Client, Loop, L4sWrite, Timeout, Ack, RunUDPL4S, l4svars

\* What the client does to the numbers of its test.
LEMMA ClientAhead ==
    ASSUME DenseInv, NetInv, SeqTypes, Sequenced, test.loop = "l4s", ClientForms
    PROVE  /\ ~At("client", "synch")' /\ pc'["server"] = pc["server"]
           /\ Ahead' \in {0, 1} /\ Len(written') >= Len(written)
           /\ Ahead' = Ahead \/ (net = {} /\ counted = {})
           /\ \A d \in net' : d.id > 0 => d.seq = d.id - 1 + Ahead'
<1>1. /\ Len(written) \in Nat /\ tx.id \in Nat /\ tx.id >= Len(written) + 1
      /\ Sending => tx.id = Len(written) + 1
      /\ Len(Append(written, tx.id)) = Len(written) + 1
  BY DenseFacts
<1>2. flight.seqnr \in Nat BY DEF SeqTypes
<1>3. /\ At("client", "synch") => Ahead = 1 /\ flight.seqnr = 1 /\ tx.seq = 0
      /\ Ahead \in {0, 1}
      /\ \A d \in net : d.id > 0 => d.seq = d.id - 1 + Ahead
  BY DEF Sequenced
<1>4. At("client", "synch") => net = {} /\ counted = {}
  <2> SUFFICES ASSUME At("client", "synch") PROVE net = {} /\ counted = {} OBVIOUS
  <2>1. Len(written) = 0 BY <1>1, <1>2, <1>3 DEF Ahead
  <2> QED BY <2>1, SynchEmpty
<1>5. ~Starved BY L4sTest DEF NetInv
<1>6. DOMAIN pc = {"client", "server"} BY DEF DenseInv, ClientTypes, Ends
<1> DEFINE Good == /\ ~At("client", "synch")' /\ pc'["server"] = pc["server"]
                   /\ Ahead' \in {0, 1} /\ Len(written') >= Len(written)
                   /\ Ahead' = Ahead \/ (net = {} /\ counted = {})
                   /\ \A d \in net' : d.id > 0 => d.seq = d.id - 1 + Ahead'
<1>7. ASSUME NEW d, Writes(d) PROVE Good
  <2>1. Advances("loop") /\ Send(d) /\ d.id = tx.id /\ written' = Append(written, tx.id)
    BY <1>7 DEF Writes
  <2>2. ~At("client", "synch")' /\ pc'["server"] = pc["server"] BY <1>6, <2>1 DEF At, Advances
  <2>3. Len(written') = Len(written) + 1 /\ d.id = Len(written) + 1
    BY <1>1, <1>7, <2>1 DEF Writes, Sending
  <2>4. \A e \in net' : e \in net \/ e = d BY <2>1 DEF Send
  <2>5. CASE At("client", "synch") /\ d.seq = tx.seq /\ flight' = flight
    <3>1. Ahead' = 0 /\ Len(written) = 0 BY <1>1, <1>2, <1>3, <2>3, <2>5 DEF Ahead
    <3>2. net = {} /\ d.seq = 0 /\ d.id = 1 BY <1>3, <1>4, <2>3, <2>5, <3>1
    <3> QED BY <1>1, <1>4, <2>2, <2>3, <2>4, <2>5, <3>1, <3>2
  <2>6. CASE d.seq = flight.seqnr /\ flight'.seqnr = flight.seqnr + 1
    <3>1. Ahead' = Ahead /\ flight.seqnr = Len(written) + Ahead BY <1>1, <1>2, <2>3, <2>6 DEF Ahead
    <3>2. d.seq = d.id - 1 + Ahead BY <1>1, <1>3, <2>3, <2>6, <3>1
    <3> QED BY <1>1, <1>3, <2>2, <2>3, <2>4, <3>1, <3>2
  <2> QED BY <1>7, <2>5, <2>6 DEF Writes
<1>8. ASSUME flight'.seqnr = flight.seqnr, written' = written, NEW n \in Int, n < 0,
             \A e \in net' : e \in net \/ e.id = n, ~At("client", "synch")', pc'["server"] = pc["server"]
      PROVE  Good
  <2>1. Ahead' = Ahead BY <1>8 DEF Ahead
  <2> QED BY <1>1, <1>3, <1>8, <2>1
<1> HIDE DEF Good
<1>9. ASSUME Idles PROVE Good
  <2>1. flight'.seqnr = flight.seqnr /\ written' = written /\ net' = net BY <1>9 DEF Idles
  <2>2. ~At("client", "synch")' /\ pc'["server"] = pc["server"] BY <1>6, <1>9 DEF Idles, Advances, At
  <2>3. -1 \in Int /\ -1 < 0 /\ \A e \in net' : e \in net \/ e.id = -1 BY <2>1
  <2> QED BY <1>8, <2>1, <2>2, <2>3
<1>10. ASSUME NEW d, Finishes(d) PROVE Good
  <2>1. flight' = flight /\ written' = written BY <1>10 DEF Finishes, l4svars
  <2>2. ~At("client", "synch")' /\ pc'["server"] = pc["server"] BY <1>6, <1>10 DEF Finishes, Advances, At
  <2>3. -tx.id \in Int /\ -tx.id < 0 BY <1>1
  <2>4. \A e \in net' : e \in net \/ e.id = -tx.id BY <1>10, SendNet DEF Finishes
  <2> QED BY <1>8, <2>1, <2>2, <2>3, <2>4
<1>11. ASSUME NEW d, Repeats(d) PROVE Good
  <2>1. flight' = flight /\ written' = written BY <1>11 DEF Repeats
  <2>2. ~At("client", "synch")' /\ pc'["server"] = pc["server"] BY <1>6, <1>11 DEF Repeats, Advances, At
  <2>3. -(tx.id + 1) \in Int /\ -(tx.id + 1) < 0 BY <1>1
  <2>4. \A e \in net' : e \in net \/ e.id = -(tx.id + 1) BY <1>11, SendNet DEF Repeats
  <2> QED BY <1>8, <2>1, <2>2, <2>3, <2>4
<1>12. \A d : ~Starves(d) BY <1>5 DEF Starves
<1>13. Good BY <1>7, <1>9, <1>10, <1>11, <1>12 DEF ClientForms
<1> QED BY <1>13 DEF Good

LEMMA ClientSequenced ==
    ASSUME DenseInv, NetInv, SeqTypes, EchoInv, Sequenced, Echoed, Client
    PROVE  Sequenced' /\ Echoed'
<1>1. ClientForms BY ClientForm DEF DenseInv, NetInv, Writer
<1>2. test' = test /\ UNCHANGED <<stats, counted, opener, twice>> BY <1>1 DEF ClientForms, SameTest, servers
<1> SUFFICES ASSUME test.loop = "l4s" PROVE Sequenced' /\ Echoed' BY <1>2 DEF Sequenced, Echoed
<1>3. /\ ~At("client", "synch")' /\ pc'["server"] = pc["server"]
      /\ Ahead' \in {0, 1} /\ Len(written') >= Len(written)
      /\ Ahead' = Ahead \/ (net = {} /\ counted = {})
      /\ \A d \in net' : d.id > 0 => d.seq = d.id - 1 + Ahead'
  BY <1>1, ClientAhead
<1>4. tx'.seq \in {tx.seq, flight.seqnr} BY ClientNumbers DEF DenseInv, NumberStep, Uses
<1>5. flight'.seqnr \in Nat /\ flight'.seqnr >= flight.seqnr BY ClientFlight
<1>6. \A d \in net' : d \in net \/ d.seq \in {tx.seq, flight.seqnr} BY ClientNet DEF NetStep
<1>7. flight.seqnr \in Nat /\ tx.seq \in Nat /\ \A d \in net : d.seq \in Nat BY DEF SeqTypes
<1>8. tx'.seq =< flight'.seqnr /\ \A d \in net' : d.seq =< flight'.seqnr
  <2>1. tx.seq =< flight.seqnr /\ \A d \in net : d.seq =< flight.seqnr BY DEF Sequenced
  <2> QED BY <1>4, <1>5, <1>6, <1>7, <2>1
<1>9. rx' = rx BY ClientEchoes
<1>10. ~At("server", "done")' => \A n \in counted' : n =< Len(written')
  <2>1. \A n \in counted : n \in Int
    <3>1. tx.id \in Nat BY DenseFacts
    <3> QED BY <3>1 DEF NetInv, Underway, Given, Top
  <2>2. Len(written) \in Nat /\ Len(written') \in Int
    <3>1. Len(Append(written, tx.id)) = Len(written) + 1 /\ Len(written) \in Nat BY DenseFacts
    <3> QED BY <1>1, <3>1 DEF ClientForms, Writes, Idles, Starves, Finishes, Repeats
  <2> QED BY <1>2, <1>3, <2>1, <2>2 DEF Sequenced, At
<1>11. Sequenced' BY <1>2, <1>3, <1>8, <1>9, <1>10 DEF Sequenced, At
<1>12. Echoed'
  <2> SUFFICES ASSUME ~twice PROVE Echoed' BY <1>2 DEF Echoed
  <2>1. Sum(rx) \in Int BY DEF EchoInv, Echoes, Sum
  <2>2. Sum(rx)' = Sum(rx) BY <1>9 DEF Sum
  <2>3. Sum(rx)' =< flight'.seqnr BY <1>5, <1>7, <2>1, <2>2 DEF Echoed
  <2> QED BY <1>2, <1>3, <1>9, <2>2, <2>3 DEF Echoed, At
<1> QED BY <1>11, <1>12

\* What the server counts of L4S it echoes, but the first.
LEMMA CountsSequenced ==
    ASSUME DenseInv, NetInv, ReportInv, SeqTypes, Sequenced, Echoed, test.loop = "l4s", ServerForms, EchoInv,
           NEW d, Hears(d) \/ Reads(d)
    PROVE  Sequenced' /\ Echoed'
<1> DEFINE n == Number(d)
           C == Cardinality(counted)
           P == stats.PacketID
<1>1. Counting(d) /\ d \in net /\ counted' = counted \cup {n} /\ net' \subseteq net
  BY TakenNet DEF Hears, Reads, Counting
<1>2. UNCHANGED <<test, tx, written>> BY DEF ServerForms, Bystanders, clients
<1>3. flight' = flight /\ Ahead' = Ahead
  <2>1. flight' = flight BY DEF Hears, Reads, Echo, l4svars
  <2> QED BY <1>2, <2>1 DEF Ahead
<1>4. pc'["client"] = pc["client"] /\ ~At("server", "listen")' /\ counted' # {} /\ ~At("server", "done")
  BY <1>1, ServerMoves DEF Hears, Reads, At, DenseInv, ClientTypes, Ends
<1>5. ~At("server", "done")' => ~(d.id < 0)
  BY DEF Hears, Reads, At, DenseInv, ClientTypes, Ends
<1>6. n \in Nat \ {0} /\ d.bytes \in Nat /\ CountsNumber(n, d.bytes)
  BY <1>1, CountingNumber DEF ReportInv
<1>7. Whence(d) /\ ~Starved BY <1>1, L4sTest DEF NetInv, Underway
<1>8. ~At("server", "done")' => d.id = n /\ n =< Len(written) BY <1>5, <1>7 DEF Whence, Number
<1>9. /\ \A m \in counted : m =< Len(written)
      /\ ~At("server", "done")' => \A m \in counted' : m =< Len(written)
  BY <1>1, <1>4, <1>8 DEF Sequenced
<1>10. Sequenced'
  BY <1>1, <1>2, <1>3, <1>4, <1>9 DEF Sequenced, At
<1>11. ASSUME ~twice' PROVE Echoed'
  <2>1. ~twice /\ n \notin counted BY <1>11, CountsOnce
  <2>2. P \in Nat /\ counted \subseteq 1 .. P /\ (counted = {} => P = 0) /\ (counted # {} => P \in counted)
    BY DEF ReportInv, Reported, Tallied
  <2>3. /\ IsFiniteSet(counted) /\ C \in Nat /\ C =< P /\ (C = P => counted = 1 .. P)
    BY <2>2, MissingCount
  <2>4. Cardinality(counted') = C + 1 BY <1>1, <2>1, <2>3, FS_AddElement
  <2>5. rx.received \in Nat /\ rx.lost \in Nat BY DEF EchoInv, Echoes
  <2>6. flight.seqnr \in Nat /\ Len(written) \in Nat /\ flight.seqnr = Len(written) + Ahead /\ Ahead \in {0, 1}
    <3>1. flight.seqnr \in Nat /\ Len(written) \in Nat BY DenseFacts DEF SeqTypes
    <3> QED BY <3>1 DEF Ahead, Sequenced
  <2>7. rx.received = IF counted = {} THEN 0 ELSE C - 1 BY <1>4, <2>1 DEF Echoed
  <2>8. stats'.PacketID = IF n > P THEN n ELSE P BY <1>6 DEF CountsNumber
  <2>9. CASE Hears(d)
    <3>1. counted = {} /\ rx' = rx /\ opener' = n
      <4>1. counted = {} BY <2>9 DEF Hears, NetInv, Underway
      <4>2. rx' = rx /\ opener' = d.id /\ ~(d.id < 0) BY <2>9 DEF Hears, l4svars
      <4> QED BY <4>1, <4>2 DEF Number
    <3>2. C = 0 /\ P = 0 BY <2>2, <3>1, FS_EmptySet
    <3>3. rx.received = 0 /\ rx.lost = 0 BY <2>9 DEF Hears, Sequenced
    <3>4. Sum(rx)' = 0 BY <3>1, <3>3 DEF Sum
    <3>5. rx'.received = Cardinality(counted') - 1 BY <2>4, <3>1, <3>2, <3>3
    <3>6. opener' = 1 => stats'.PacketID = 1 BY <2>8, <3>1, <3>2
    <3> HIDE DEF n, C, P
    <3> QED BY <1>3, <1>4, <2>6, <3>4, <3>5, <3>6 DEF Echoed
  <2>10. CASE Reads(d)
    <3>1. counted # {} /\ opener' = opener /\ Echo(d)
      BY <1>2, <2>10 DEF Reads, Sequenced, At
    <3>2. d.seq \in Nat /\ d.seq =< flight.seqnr /\ (d.id > 0 => d.seq = d.id - 1 + Ahead)
      BY <1>1 DEF SeqTypes, Sequenced
    <3> DEFINE skipped == d.seq - (rx.received + 1) - rx.lost
    <3>3. rx'.received = rx.received + 1
      BY <3>1 DEF Echo, DataReceivedSequence
    <3>4. rx'.lost = IF skipped >= 0 THEN rx.lost + skipped ELSE IF rx.lost > 0 THEN rx.lost - 1 ELSE 0
      BY <3>1 DEF Echo, DataReceivedSequence
    <3>5. rx'.received = Cardinality(counted') - 1 BY <2>3, <2>4, <2>7, <3>1, <3>3
    <3>6. C =< Len(written)
      <4>1. counted \subseteq 1 .. Len(written) BY <1>9, <2>2
      <4> QED BY <2>6, <4>1, MissingCount
    <3>7. Sum(rx) = rx.received + rx.lost /\ Sum(rx)' = rx'.received + rx'.lost BY DEF Sum
    <3>8. Sum(rx) =< flight.seqnr BY <2>1 DEF Echoed
    <3> HIDE DEF n, C, P
    <3>9. Sum(rx)' =< flight.seqnr
      BY <2>3, <2>5, <2>6, <2>7, <3>1, <3>2, <3>3, <3>4, <3>6, <3>7, <3>8
    <3>10. ASSUME opener' = 1, Ahead = 0, ~At("server", "done")'
           PROVE  Sum(rx)' = stats'.PacketID - 1
      <4>1. Sum(rx) = P - 1
        BY <1>4, <2>1, <3>1, <3>10 DEF Echoed, P
      <4>2. d.seq = n - 1 /\ n \in Nat /\ n > 0 BY <1>6, <1>8, <3>2, <3>10
      <4>3. CASE n > P
        <5>1. skipped >= 0 BY <2>2, <2>5, <3>7, <4>1, <4>2, <4>3
        <5>2. Sum(rx)' = d.seq BY <2>5, <3>2, <3>3, <3>4, <3>7, <5>1
        <5> QED BY <2>8, <4>2, <4>3, <5>2
      <4>4. CASE ~(n > P)
        <5>1. n \in 1 .. P /\ n # P BY <2>1, <2>2, <3>1, <4>2, <4>4
        <5>2. C # P BY <2>1, <2>3, <5>1
        <5>3. rx.lost > 0 BY <2>2, <2>3, <2>5, <2>7, <3>1, <3>7, <4>1, <5>2
        <5>4. skipped < 0 BY <2>2, <2>5, <3>7, <4>1, <4>2, <5>1
        <5>5. Sum(rx)' = Sum(rx) BY <2>5, <3>2, <3>3, <3>4, <3>7, <5>3, <5>4
        <5> QED BY <2>8, <4>1, <4>4, <5>5
      <4> QED BY <4>3, <4>4
    <3> QED BY <1>3, <1>4, <3>5, <3>9, <3>10 DEF Echoed
  <2> QED BY <2>9, <2>10
<1> QED BY <1>2, <1>10, <1>11 DEF Echoed

\* Nothing else of the server has to do with L4S.
LEMMA OthersSequenced ==
    ASSUME DenseInv, NetInv, Sequenced, Echoed,
           UNCHANGED <<test, tx, written, stats, counted, opener, rx, flight>>, twice => twice',
           net' \subseteq net, pc'["client"] = pc["client"],
           pc'["server"] = "listen" <=> pc["server"] = "listen", pc["server"] = "done" => pc'["server"] = "done"
    PROVE  Sequenced' /\ Echoed'
<1>1. Ahead' = Ahead /\ Sum(rx)' = Sum(rx) BY DEF Ahead, Sum
<1>2. Sequenced' BY <1>1 DEF Sequenced, At
<1>3. Echoed' BY <1>1 DEF Echoed, At
<1> QED BY <1>2, <1>3

LEMMA ServerSequenced ==
    ASSUME DenseInv, NetInv, ReportInv, SeqTypes, EchoInv, Sequenced, Echoed, ServerForms
    PROVE  Sequenced' /\ Echoed'
<1>1. UNCHANGED <<test, tx, written>> BY DEF ServerForms, Bystanders, clients
<1> SUFFICES ASSUME test.loop = "l4s" PROVE Sequenced' /\ Echoed' BY <1>1 DEF Sequenced, Echoed
<1>2. ~Is("Reverse") /\ ~Starved BY L4sTest DEF NetInv
<1>3. ASSUME NEW d, Skips(d) PROVE Sequenced' /\ Echoed'
  <2>1. At("server", "listen") /\ UNCHANGED <<pc, l4svars>>
    BY <1>2, <1>3 DEF Skips, NetInv, Underway, Whence
  <2>2. net' \subseteq net /\ (twice => twice') BY <1>3, TakenNet DEF Skips
  <2> QED BY <1>1, <1>3, <2>1, <2>2, OthersSequenced DEF Skips, Uncounted, l4svars
<1>4. CASE Rests
  <2>1. pc' = pc \/ (At("server", "read") /\ pc' = [pc EXCEPT !["server"] = "done"]) BY <1>2, <1>4 DEF Rests
  <2>2. /\ pc'["client"] = pc["client"] /\ (pc'["server"] = "listen" <=> pc["server"] = "listen")
        /\ pc["server"] = "done" => pc'["server"] = "done"
    BY <2>1 DEF At, DenseInv, ClientTypes, Ends
  <2> QED BY <1>1, <1>4, <2>2, OthersSequenced DEF Rests, Uncounted, l4svars
<1> QED BY <1>3, <1>4, CountsSequenced DEF ServerForms

LEMMA SequencedInit == Init => Sequenced /\ Echoed
<1> SUFFICES ASSUME Init, test.loop = "l4s" PROVE Sequenced /\ Echoed BY DEF Sequenced, Echoed
<1>1. test \in Tests /\ ~Is("Reverse") BY TestsAssumption DEF Init, Is
<1>2. Len(written) = 0 /\ tx.seq = 0 /\ net = {} /\ counted = {} BY EmptySeq DEF Init
<1>3. flight.seqnr = 1 /\ rx.received = 0 /\ rx.lost = 0 BY DEF Init, L4sInit, Counted
<1>4. Ahead = 1 BY <1>2, <1>3 DEF Ahead
<1>5. At("server", "listen") BY <1>1 DEF Init, At
<1> QED BY <1>2, <1>3, <1>4, <1>5 DEF Sequenced, Echoed, Sum

LEMMA SequencedStep ==
    ASSUME DenseInv, NetInv, ReportInv, SeqTypes, EchoInv, Sequenced, Echoed, [Next]_vars
    PROVE  Sequenced' /\ Echoed'
<1>1. CASE Client BY <1>1, ClientSequenced
<1>2. CASE Server BY <1>2, ServerForm, ServerSequenced
<1>3. CASE Aside BY <1>3, OthersSequenced DEF Aside, l4svars
<1>4. CASE UNCHANGED vars BY <1>4, OthersSequenced DEF vars, udpvars, clients, servers, l4svars
<1> QED BY <1>1, <1>2, <1>3, <1>4, AsideForm DEF Next

LEMMA EchoesAccounted == DenseInv /\ NetInv /\ ReportInv /\ EchoInv /\ Sequenced /\ Echoed => EchoAccounted
<1> SUFFICES ASSUME DenseInv, NetInv, ReportInv, EchoInv, Sequenced, Echoed,
                    test.loop = "l4s" /\ ~twice /\ opener = 1 /\ counted # {}
                      /\ flight.seqnr = Len(written) /\ ~At("server", "done")
             PROVE  rx.lost = Missing(Highest)
  BY DEF EchoAccounted
<1> DEFINE P == stats.PacketID
<1>1. P \in counted /\ counted \subseteq 1 .. P /\ P \in Nat BY DEF ReportInv, Reported, Tallied
<1>2. Highest = P
  <2>1. \A m \in counted : m =< P BY <1>1
  <2>2. \A n \in counted : (\A m \in counted : m =< n) => n = P
    <3>1. \A n \in counted : n \in Int /\ n =< P BY <1>1
    <3> HIDE DEF P
    <3> QED BY <1>1, <3>1
  <2> HIDE DEF P
  <2> QED BY <1>1, <2>1, <2>2 DEF Highest
<1>3. Missing(P) = P - Cardinality(counted) /\ Cardinality(counted) \in Nat BY <1>1, MissingCount
<1>4. Ahead = 0
  <2>1. Len(written) \in Nat BY DenseFacts
  <2> QED BY <2>1 DEF Ahead
<1>5. Sum(rx) = P - 1 /\ rx.received = Cardinality(counted) - 1 BY <1>4 DEF Echoed
<1>6. rx.received \in Nat /\ rx.lost \in Nat BY DEF EchoInv, Echoes
<1> QED BY <1>1, <1>2, <1>3, <1>5, <1>6 DEF Sum

\* The sender has taken alpha over what had been sent by then, which is not less
\* than what any echo of as many received tells of.
Measured ==
    /\ DOMAIN cc.alpha = {"sent", "received", "ts"}
    /\ cc.alpha.sent \in Nat /\ cc.alpha.received \in Nat /\ cc.alpha.received =< cc.received
    /\ ~twice => \A x \in Echoes : x.received = cc.alpha.received => Sum(x) =< cc.alpha.sent

\* Of the steps of ACKReceived only one changes alpha.
LEMMA AlphaUpdated ==
    ASSUME NEW c, CCShape(c), NEW ack, NEW sq, NEW short, NEW now
    PROVE  /\ TakeMode(c, short).alpha = c.alpha
           /\ UndoLoss(c, ack).alpha = c.alpha
           /\ UpdateAlpha(c, ack, sq, now).alpha =
                IF RttPassed(c.alpha, ack, now) THEN [sent |-> sq, received |-> ack.received, ts |-> now]
                ELSE c.alpha
<1>1. DOMAIN c = CCFields BY DEF CCShape
<1>2. TakeMode(c, short).alpha = c.alpha BY <1>1 DEF TakeMode, CCFields
<1>3. UndoLoss(c, ack).alpha = c.alpha BY <1>1 DEF UndoLoss, CCFields
<1>4. UpdateAlpha(c, ack, sq, now).alpha =
         IF RttPassed(c.alpha, ack, now) THEN [sent |-> sq, received |-> ack.received, ts |-> now]
         ELSE c.alpha
  BY <1>1 DEF UpdateAlpha, CCFields
<1> QED BY <1>2, <1>3, <1>4

LEMMA ProcessedAlpha ==
    ASSUME NEW c, CCShape(c), NEW ack, NEW sq \in Nat, NEW short, NEW now \in Nat, NEW allowed
    PROVE  ACKReceived(c, ack, sq, short, now, allowed).alpha =
             IF RttPassed(c.alpha, ack, now) THEN [sent |-> sq, received |-> ack.received, ts |-> now]
             ELSE c.alpha
<1> DEFINE c1 == TakeMode(c, short)
           c2 == UpdateAlpha(c1, ack, sq, now)
           c3 == UndoLoss(c2, ack)
           c4 == EndLoss(c3, ack, now)
           c5 == ReduceByLoss(c4, ack, sq, now)
           c6 == EndCwr(c5, ack, now)
           c7 == ReduceByMarks(c6, ack, sq, now)
           d == ACKReceived(c, ack, sq, short, now, allowed)
<1>1. d = [c7 EXCEPT !.received = ack.received, !.CE = ack.CE, !.lost = ack.lost,
                     !.error = ack.error, !.allowed = allowed]
  BY DEF ACKReceived, LossesDone, Considered
<1>2. CCShape(c1) /\ c1.alpha = c.alpha BY TakeModeKeeps, AlphaUpdated
<1> HIDE DEF c1, d
<1>3. /\ CCShape(c2)
      /\ c2.alpha = IF RttPassed(c.alpha, ack, now)
                      THEN [sent |-> sq, received |-> ack.received, ts |-> now] ELSE c.alpha
  <2>1. CCShape(c2) BY <1>2, UpdateAlphaKeeps
  <2>2. c2.alpha = IF RttPassed(c1.alpha, ack, now)
                     THEN [sent |-> sq, received |-> ack.received, ts |-> now] ELSE c1.alpha
    BY <1>2, AlphaUpdated
  <2> QED BY <1>2, <2>1, <2>2
<1> HIDE DEF c2
<1>4. CCShape(c3) /\ c3.alpha = c2.alpha BY <1>3, UndoLossKeeps, AlphaUpdated
<1> HIDE DEF c3
<1>5. CCShape(c4) /\ c4.alpha = c3.alpha
  <2>1. CCShape(c4) BY <1>4, EndLossKeeps
  <2>2. DOMAIN c3 = CCFields BY <1>4 DEF CCShape
  <2>3. c4.alpha = c3.alpha BY <2>2 DEF EndLoss, CCFields
  <2> QED BY <2>1, <2>3
<1> HIDE DEF c4
<1>6. CCShape(c5) /\ c5.alpha = c4.alpha
  <2>1. CCShape(c5) BY <1>5, ReduceByLossKeeps
  <2>2. DOMAIN c4 = CCFields BY <1>5 DEF CCShape
  <2>3. c5.alpha = c4.alpha BY <2>2 DEF ReduceByLoss, CCFields
  <2> QED BY <2>1, <2>3
<1> HIDE DEF c5
<1>7. CCShape(c6) /\ c6.alpha = c5.alpha
  <2>1. CCShape(c6) BY <1>6, EndCwrKeeps
  <2>2. DOMAIN c5 = CCFields BY <1>6 DEF CCShape
  <2>3. c6.alpha = c5.alpha BY <2>2 DEF EndCwr, CCFields
  <2> QED BY <2>1, <2>3
<1> HIDE DEF c6
<1>8. CCShape(c7) /\ c7.alpha = c6.alpha
  <2>1. CCShape(c7) BY <1>7, ReduceByMarksKeeps
  <2>2. DOMAIN c6 = CCFields BY <1>7 DEF CCShape
  <2>3. c7.alpha = c6.alpha BY <2>2 DEF ReduceByMarks, CCFields
  <2> QED BY <2>1, <2>3
<1> HIDE DEF c7
<1>9. d.alpha = c7.alpha BY <1>1, <1>8 DEF CCShape, CCFields
<1> QED BY <1>3, <1>4, <1>5, <1>6, <1>7, <1>8, <1>9 DEF d

\* Whatever the sender is told again it knew.
LEMMA MeasuredKept ==
    ASSUME Measured, DOMAIN cc'.alpha = DOMAIN cc.alpha,
           cc'.alpha.received = cc.alpha.received, cc'.alpha.sent = cc.alpha.sent,
           cc'.received \in Nat, cc.received \in Nat, cc'.received >= cc.received,
           twice => twice',
           \A x \in Echoes' : (\E y \in Echoes : x.received = y.received /\ x.lost = y.lost)
                              \/ x.received # cc.alpha.received
    PROVE  Measured'
<1>1. cc'.alpha.received =< cc'.received BY DEF Measured
<1>2. ASSUME ~twice', NEW x \in Echoes', x.received = cc'.alpha.received PROVE Sum(x) =< cc'.alpha.sent
  <2>1. PICK y \in Echoes : x.received = y.received /\ x.lost = y.lost BY <1>2
  <2>2. Sum(y) =< cc.alpha.sent BY <1>2, <2>1 DEF Measured
  <2>3. Sum(x) = Sum(y) BY <2>1 DEF Sum
  <2> QED BY <2>2, <2>3
<1> QED BY <1>1, <1>2 DEF Measured

LEMMA AckMeasures ==
    ASSUME NEW a \in acks, ApartInv, Echoed, Measured, test.loop = "l4s", Ack(a), twice' = twice
    PROVE  Measured'
<1>1. acks' \subseteq acks /\ rx' = rx BY DEF Ack
<1>2. \A x \in Echoes : x.received \in Nat /\ x.lost \in Nat /\ x.received =< rx.received
  BY DEF ApartInv, EchoInv
<1>3. a \in Echoes /\ cc \in Echoes /\ rx \in Echoes BY DEF Echoes
<1>4. CASE Ignored
  <2>1. cc' = cc BY <1>4 DEF Ignored
  <2>2. \A x \in Echoes' : x \in Echoes BY <1>1, <2>1 DEF Echoes
  <2> QED BY <1>2, <1>3, <2>1, <2>2, MeasuredKept
<1>5. ASSUME NEW now \in {clock, clock + 1}, NEW short, NEW allowed,
             ~Stale(cc, a), Processed(a, now, short, allowed)
      PROVE  Measured'
  <2>1. cc' = ACKReceived(cc, a, flight.seqnr, short, now, allowed) BY <1>5 DEF Processed
  <2>2. flight.seqnr \in Nat /\ now \in Nat /\ CCShape(cc) BY <1>5 DEF ApartInv, SeqTypes
  <2>3. CCShape(cc') /\ cc'.received = a.received /\ cc'.lost = a.lost
    BY <2>1, <2>2, ProcessedState
  <2>4. cc'.alpha = IF RttPassed(cc.alpha, a, now)
                      THEN [sent |-> flight.seqnr, received |-> a.received, ts |-> now] ELSE cc.alpha
    BY <2>1, <2>2, ProcessedAlpha
  <2>5. \A x \in Echoes' : \E y \in Echoes : x.received = y.received /\ x.lost = y.lost
    BY <1>1, <1>3, <2>3 DEF Echoes
  <2>6. a.received \in Nat /\ cc.received \in Nat /\ a.received >= cc.received BY <1>2, <1>3, <1>5 DEF Stale
  <2>7. CASE RttPassed(cc.alpha, a, now)
    <3>1. /\ DOMAIN cc'.alpha = {"sent", "received", "ts"}
          /\ cc'.alpha.sent = flight.seqnr /\ cc'.alpha.received = a.received
      BY <2>4, <2>7
    <3>2. ASSUME ~twice', NEW x \in Echoes' PROVE Sum(x) =< flight.seqnr
      <4>1. PICK y \in Echoes : x.received = y.received /\ x.lost = y.lost BY <2>5
      <4>2. y.received =< rx.received /\ Ordered(y, rx) BY <1>2, <1>3, <4>1 DEF ApartInv, EchoInv
      <4>3. Sum(y) =< Sum(rx) BY <4>2 DEF Ordered
      <4>4. Sum(rx) =< flight.seqnr BY <3>2 DEF Echoed
      <4>5. Sum(y) \in Int /\ Sum(rx) \in Int /\ Sum(x) = Sum(y) BY <1>2, <1>3, <4>1 DEF Sum
      <4> QED BY <2>2, <4>3, <4>4, <4>5
    <3> QED BY <2>2, <2>3, <2>6, <3>1, <3>2 DEF Measured
  <2>8. CASE ~RttPassed(cc.alpha, a, now)
    <3>1. cc'.alpha = cc.alpha BY <2>4, <2>8
    <3> QED BY <2>3, <2>5, <2>6, <3>1, MeasuredKept
  <2> QED BY <2>7, <2>8
<1> QED BY <1>4, <1>5 DEF Ack

LEMMA TimeoutMeasures ==
    ASSUME ApartInv, Measured, Timeout, twice' = twice
    PROVE  Measured'
<1>1. rx' = rx /\ acks' = acks BY DEF Timeout
<1>2. DOMAIN cc = CCFields /\ DOMAIN cc.alpha = {"sent", "received", "ts"}
  BY DEF ApartInv, CCShape, Measured
<1>3. cc' = cc \/ cc' = ResetCCInfo(cc, clock, Smallest) BY DEF Timeout
<1>7. ASSUME cc' = ResetCCInfo(cc, clock, Smallest)
      PROVE  cc'.alpha = [cc.alpha EXCEPT !.ts = clock] /\ cc'.received = cc.received /\ cc'.lost = cc.lost
  BY <1>2, <1>7 DEF ResetCCInfo, CCFields
<1>4. /\ cc'.received = cc.received /\ cc'.lost = cc.lost
      /\ DOMAIN cc'.alpha = DOMAIN cc.alpha
      /\ cc'.alpha.received = cc.alpha.received /\ cc'.alpha.sent = cc.alpha.sent
  BY <1>2, <1>3, <1>7
<1>5. \A x \in Echoes' : \E y \in Echoes : x.received = y.received /\ x.lost = y.lost
  BY <1>1, <1>4 DEF Echoes
<1>6. cc.received \in Nat BY DEF ApartInv, EchoInv, Echoes
<1> QED BY <1>4, <1>5, <1>6, MeasuredKept

LEMMA EchoMeasures ==
    ASSUME NEW d \in net, ApartInv, Measured, Echo(d), twice => twice'
    PROVE  Measured'
<1>1. rx'.received = rx.received + 1 /\ acks' = acks \cup {rx'} /\ cc' = cc
  BY DEF Echo, DataReceivedSequence, GetACKInfo
<1>2. rx.received \in Nat /\ cc.received \in Nat /\ cc.received =< rx.received
  BY DEF ApartInv, EchoInv, Echoes
<1>3. rx'.received # cc.alpha.received BY <1>1, <1>2 DEF Measured
<1>4. \A x \in Echoes' : x \in Echoes \/ x = rx' BY <1>1 DEF Echoes
<1> QED BY <1>1, <1>2, <1>3, <1>4, MeasuredKept

LEMMA UntoldMeasures ==
    ASSUME ApartInv, Measured, UNCHANGED <<cc, rx>>, acks' \subseteq acks, twice => twice'
    PROVE  Measured'
<1>1. cc.received \in Nat BY DEF ApartInv, EchoInv, Echoes
<1>2. \A x \in Echoes' : x \in Echoes BY DEF Echoes
<1> QED BY <1>1, <1>2, MeasuredKept

LEMMA MeasuredInit == Init => Measured
  BY DEF Init, L4sInit, Fresh, Counted, Measured, Echoes, Sum

LEMMA MeasuredStep ==
    ASSUME DenseInv, NetInv, ApartInv, Echoed, Measured, [Next]_vars
    PROVE  Measured'
<1>1. CASE Client
  <2>1. twice' = twice
    <3>1. ClientForms BY <1>1, ClientForm DEF DenseInv, NetInv, Writer, ApartInv
    <3> QED BY <3>1 DEF ClientForms, SameTest, servers
  <2>2. CASE UNCHANGED <<cc, rx>> /\ acks' \subseteq acks BY <2>1, <2>2, UntoldMeasures
  <2>3. CASE test.loop = "l4s" /\ RunUDPL4S
    <3>1. CASE L4sWrite BY <2>2, <3>1 DEF L4sWrite
    <3>2. CASE Timeout BY <2>1, <3>2, TimeoutMeasures
    <3>3. ASSUME NEW a \in acks, Ack(a) PROVE Measured' BY <2>1, <2>3, <3>3, AckMeasures
    <3>4. CASE UNCHANGED l4svars BY <2>2, <3>4 DEF l4svars
    <3> QED BY <2>3, <3>1, <3>2, <3>3, <3>4 DEF RunUDPL4S
  <2> QED BY <1>1, <2>2, <2>3 DEF Client, Loop, l4svars
<1>2. CASE Server
  <2>1. ServerForms BY <1>2, ServerForm
  <2>2. twice => twice' BY <2>1, TakenNet DEF ServerForms, Hears, Reads, Skips, Rests, Counting
  <2>3. ASSUME NEW d \in net, Echo(d) PROVE Measured' BY <2>2, <2>3, EchoMeasures
  <2>4. CASE UNCHANGED l4svars BY <2>2, <2>4, UntoldMeasures DEF l4svars
  <2> QED BY <2>1, <2>3, <2>4 DEF ServerForms, Hears, Reads, Skips, Rests, Counting, l4svars
<1>3. CASE Aside BY <1>3, UntoldMeasures DEF Aside, l4svars
<1>4. CASE UNCHANGED vars BY <1>4, UntoldMeasures DEF vars, udpvars, servers, l4svars
<1> QED BY <1>1, <1>2, <1>3, <1>4, AsideForm DEF Next

LEMMA MeasuredAlpha == ApartInv /\ Measured => AlphaMeasured
<1> SUFFICES ASSUME ApartInv, Measured, ~twice, NEW a \in acks,
                    ~Stale(cc, a), a.received + a.lost > cc.alpha.sent
             PROVE  a.received > cc.alpha.received
  BY DEF AlphaMeasured
<1>1. a \in Echoes /\ a.received \in Nat /\ cc.received \in Nat BY DEF ApartInv, EchoInv, Echoes
<1>2. a.received >= cc.received BY <1>1 DEF Stale
<1>3. cc.alpha.sent \in Nat /\ cc.alpha.received \in Nat /\ cc.alpha.received =< cc.received BY DEF Measured
<1>4. a.received # cc.alpha.received
  <2> SUFFICES ASSUME a.received = cc.alpha.received PROVE FALSE OBVIOUS
  <2>1. Sum(a) =< cc.alpha.sent BY <1>1 DEF Measured
  <2>2. a.lost \in Nat BY DEF ApartInv, EchoInv, Echoes
  <2> QED BY <1>1, <1>3, <2>1, <2>2 DEF Sum
<1> QED BY <1>1, <1>2, <1>3, <1>4
-----------------------------------------------------------------------------
\* All of it together.
TrafficInv ==
    /\ DenseInv /\ ApartInv /\ NetInv /\ ReportInv
    /\ Listing /\ Complete /\ Sequenced /\ Echoed /\ Measured

LEMMA TrafficInit == Init => TrafficInv
  BY DenseInit, ApartInit, NetInit, ReportInit, ListingInit, CompleteInit, SequencedInit, MeasuredInit
     DEF TrafficInv

LEMMA TrafficStep == TrafficInv /\ [Next]_vars => TrafficInv'
<1> SUFFICES ASSUME TrafficInv, [Next]_vars PROVE TrafficInv' OBVIOUS
<1>1. DenseInv /\ ApartInv /\ ClientTypes /\ SeqTypes /\ EchoInv BY DEF TrafficInv, DenseInv, ApartInv
<1>2. DenseInv' /\ ApartInv' BY <1>1, DenseStep, ApartStep
<1>3. NetInv' /\ ReportInv' BY <1>1, NetInvStep, ReportStep DEF TrafficInv
<1>4. Listing' BY <1>1, ListingStep DEF TrafficInv
<1>5. Complete' BY <1>1, <1>2, <1>3, CompleteStep DEF TrafficInv
<1>6. Sequenced' /\ Echoed' BY <1>1, SequencedStep DEF TrafficInv
<1>7. Measured' BY <1>1, MeasuredStep DEF TrafficInv
<1> QED BY <1>2, <1>3, <1>4, <1>5, <1>6, <1>7 DEF TrafficInv

\* For any test, any number of datagrams and any faults: what the final report and
\* the intervals of both ends call lost or sent, and what an ACK of L4S says was
\* lost, is what was, and a duplicate can only hide a loss (Reporter.c:1110, 1380,
\* 1655, prague_cc.cpp:430).
THEOREM Losses == Spec => []LossAccounted
<1>1. TrafficInv => LossAccounted
  BY ReportsAccounted, SendsAccounted, EchoesAccounted DEF TrafficInv, LossAccounted, ApartInv
<1> QED BY TrafficInit, TrafficStep, <1>1, PTL DEF Spec

\* The histogram has every datagram that came in order, and its prints list them
\* all, once in the intervals and once in the end, but for those that are written
\* behind its bins (histogram.c:147, 212).
THEOREM Histogram == Spec => []HistogramAccounts
<1>1. TrafficInv => HistogramAccounts BY ListingAccounts DEF TrafficInv
<1> QED BY TrafficInit, TrafficStep, <1>1, PTL DEF Spec

\* When nothing was lost, failed, came twice or was left unread, the reports of the
\* two ends have the same number of datagrams and of bytes, in every send loop
\* (Client.cpp:2040).
THEOREM Evens == Spec => []EvenNow
<1>1. TrafficInv => EvenNow BY CompleteEven DEF TrafficInv
<1> QED BY TrafficInit, TrafficStep, <1>1, PTL DEF Spec

\* The fraction of marks is never taken over no datagrams, in whatever order the
\* ACKs are read, as long as data came once (prague_cc.cpp:250).
THEOREM Alpha == Spec => []AlphaMeasured
<1>1. TrafficInv => AlphaMeasured BY MeasuredAlpha DEF TrafficInv
<1> QED BY TrafficInit, TrafficStep, <1>1, PTL DEF Spec
-----------------------------------------------------------------------------
(* The frame counter.                                                      *)

\* What is known of a division of integers.
LEMMA Division ==
    ASSUME NEW n \in Int, NEW d \in Nat \ {0}
    PROVE  n \div d \in Int /\ (n \div d) * d <= n /\ n < ((n \div d) + 1) * d
<1>1. n \div d \in Int /\ n % d \in 0 .. d - 1 /\ n = d * (n \div d) + (n % d) OBVIOUS
<1> DEFINE q == n \div d  r == n % d
<1>2. q * d = d * q /\ (q + 1) * d = d * q + d BY <1>1
<1> HIDE DEF q, r
<1> QED BY <1>1, <1>2 DEF q, r

\* Multiples keep the order.
LEMMA Multiples ==
    ASSUME NEW p \in Nat \ {0}, NEW m \in Int, NEW n \in Int, m <= n
    PROVE  m * p <= n * p
<1>1. PICK k \in Nat : n = m + k BY n - m \in Nat
<1>2. n * p = m * p + k * p BY <1>1
<1>3. k * p \in Nat BY <1>1
<1>4. m * p \in Int OBVIOUS
<1> QED BY <1>2, <1>3, <1>4

\* A wait is for the first slot behind the last one whose time is still to come,
\* however late the loop is: no frame is sent before its slot, and none is skipped
\* that there was time for (isochronous.cpp:117).
THEOREM NextSlot ==
    ASSUME NEW slot \in Nat \ {0}, NEW now \in Int
    PROVE  /\ WaitTick(slot, now) \in Nat /\ WaitTick(slot, now) > slot
           /\ SlotTime(WaitTick(slot, now)) >= now
           /\ \A j \in slot + 1 .. WaitTick(slot, now) - 1 : SlotTime(j) < now
<1> DEFINE n == now + Period - 1
           due == n \div Period + 1
<1>1. due \in Int /\ (due - 1) * Period <= n /\ n < due * Period
  BY PeriodAssumption, Division
<1> HIDE DEF due
<1>2. WaitTick(slot, now) = IF due > slot THEN due ELSE slot + 1 BY DEF WaitTick, due
<1>3. ASSUME NEW j \in Int, j >= due PROVE SlotTime(j) >= now
  <2>1. (due - 1) * Period <= (j - 1) * Period BY <1>1, <1>3, PeriodAssumption, Multiples
  <2>2. due * Period = (due - 1) * Period + Period BY <1>1, PeriodAssumption
  <2> QED BY <1>1, <2>1, <2>2, PeriodAssumption DEF SlotTime
<1>4. ASSUME NEW j \in Int, j < due PROVE SlotTime(j) < now
  <2>1. (j - 1) * Period <= (due - 2) * Period BY <1>1, <1>4, PeriodAssumption, Multiples
  <2>2. (due - 1) * Period = (due - 2) * Period + Period BY <1>1, PeriodAssumption
  <2> QED BY <1>1, <2>1, <2>2, PeriodAssumption DEF SlotTime
<1> QED BY <1>1, <1>2, <1>3, <1>4
=============================================================================
