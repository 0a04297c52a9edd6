------------------------------ MODULE PragueCC ------------------------------
(***************************************************************************)
(* The congestion control of L4S (prague_cc.cpp): what a receiver counts   *)
(* and echoes, and what a sender makes of an echo.                         *)
(*                                                                         *)
(* Counters and states are as in the code.  Rates and windows are real     *)
(* numbers there; here they are the number of packets they allow, chosen   *)
(* from a set after every change, and a reduction is remembered or it is   *)
(* not.  Time is counted in virtual round trips: of two moments all that   *)
(* is asked is whether m_vrtt has passed between them.  m_cca_mode is never*)
(* cca_cubic, so the cubic branches change nothing.                        *)
(***************************************************************************)
EXTENDS Integers

\* Counters of the receiver, none of which ResetCCInfo touches.
Counted == [received |-> 0, CE |-> 0, lost |-> 0, error |-> FALSE]

DataReceivedSequence(r, ecn, seq) ==
    LET received == r.received + 1
        skipped == seq - received - r.lost
    IN  [received |-> received,
         lost     |-> IF skipped >= 0 THEN r.lost + skipped
                      ELSE IF r.lost > 0 THEN r.lost - 1 ELSE 0,
         CE       |-> IF ecn = "ce" THEN r.CE + 1 ELSE r.CE,
         error    |-> r.error \/ ecn = "bleached"]

\* What an ACK carries: all the counters, as they are.
GetACKInfo(r) == r

\* The constructor; allowed is the window and the burst.
Fresh(allowed) ==
    [state |-> "init", mode |-> "window", allowed |-> allowed,
     received |-> 0, CE |-> 0, lost |-> 0, error |-> FALSE,
     alpha |-> [sent |-> 0, received |-> 0, ts |-> 0],
     lost_window |-> FALSE, lost_rate |-> FALSE,
     loss |-> [mode |-> "window", lost |-> 0, sent |-> 0, ts |-> 0],
     cwr |-> [sent |-> 0, ts |-> 0]]

\* An ACK that is older than the last one.
Stale(cc, ack) == cc.received > ack.received \/ cc.CE > ack.CE

\* A real and a virtual round trip have passed since the moment m.
RttPassed(m, ack, now) == ack.received + ack.lost > m.sent /\ now > m.ts

\* short: srtt is below two milliseconds, or below the pacing interval.
TakeMode(cc, short) ==
    [cc EXCEPT !.state = IF @ = "init" THEN "cong_avoid" ELSE @,
               !.mode = IF short THEN "rate" ELSE "window"]

\* Mutant: the round trip ends with the next datagram that is acknowledged.
UpdateAlphaReceived(cc, ack, sent, now) ==
    IF RttPassed(cc.alpha, ack, now)
      THEN [cc EXCEPT !.alpha = [sent |-> ack.received, received |-> ack.received, ts |-> now]]
      ELSE cc

UpdateAlpha(cc, ack, sent, now) ==
    IF RttPassed(cc.alpha, ack, now)
      THEN [cc EXCEPT !.alpha = [sent |-> sent, received |-> ack.received, ts |-> now]]
      ELSE cc

\* The losses are down to those before the reduction.  Only what the mode of
\* the last one lost is forgotten.
Undoes(cc, ack) == (cc.lost_window \/ cc.lost_rate) /\ cc.loss.lost >= ack.lost
UndoLoss(cc, ack) ==
    IF Undoes(cc, ack)
      THEN [cc EXCEPT !.mode = cc.loss.mode, !.state = "cong_avoid",
                      !.lost_rate = @ /\ cc.loss.mode # "rate",
                      !.lost_window = @ /\ cc.loss.mode = "rate"]
      ELSE cc

EndLoss(cc, ack, now) ==
    IF cc.state = "in_loss" /\ RttPassed(cc.loss, ack, now)
      THEN [cc EXCEPT !.state = "cong_avoid"] ELSE cc

MoreLost(cc, ack) == cc.state # "in_loss" /\ cc.lost < ack.lost
ReduceByLoss(cc, ack, sent, now) ==
    IF MoreLost(cc, ack)
      THEN [cc EXCEPT !.state = "in_loss",
                      !.lost_window = @ \/ cc.mode = "window",
                      !.lost_rate = @ \/ cc.mode = "rate",
                      !.loss = [mode |-> cc.mode, lost |-> cc.lost, sent |-> sent, ts |-> now]]
      ELSE cc

\* Mutant: the reduction ends with the next ACK.
EndCwrAtOnce(cc, ack, now) ==
    IF cc.state = "in_cwr" THEN [cc EXCEPT !.state = "cong_avoid"] ELSE cc

EndCwr(cc, ack, now) ==
    IF cc.state = "in_cwr" /\ RttPassed(cc.cwr, ack, now)
      THEN [cc EXCEPT !.state = "cong_avoid"] ELSE cc

MoreMarked(cc, ack) == cc.state = "cong_avoid" /\ cc.CE < ack.CE
ReduceByMarks(cc, ack, sent, now) ==
    IF MoreMarked(cc, ack)
      THEN [cc EXCEPT !.state = "in_cwr", !.cwr = [sent |-> sent, ts |-> now]] ELSE cc

\* The steps of ACKReceived up to the one that reduces for losses, up to the
\* one that reduces for marks, and all of them.
Considered(cc, ack, sent, short, now) ==
    EndLoss(UndoLoss(UpdateAlpha(TakeMode(cc, short), ack, sent, now), ack), ack, now)
LossesDone(cc, ack, sent, short, now) ==
    EndCwr(ReduceByLoss(Considered(cc, ack, sent, short, now), ack, sent, now), ack, now)
ACKReceived(cc, ack, sent, short, now, allowed) ==
    [ReduceByMarks(LossesDone(cc, ack, sent, short, now), ack, sent, now)
       EXCEPT !.received = ack.received, !.CE = ack.CE, !.lost = ack.lost,
              !.error = ack.error, !.allowed = allowed]

\* What is left to remember after a timeout includes the last reduction.
ResetCCInfo(cc, now, least) ==
    [cc EXCEPT !.state = "init", !.mode = "window", !.alpha.ts = now, !.allowed = least]
=============================================================================
