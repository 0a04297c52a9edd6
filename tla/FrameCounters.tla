--------------------------- MODULE FrameCounters ---------------------------
(***************************************************************************)
(* The frame counter of iperf2's periodic traffic (isochronous.cpp): time  *)
(* is cut into slots of one period, numbered from 1, and a loop waits for  *)
(* the next one before every frame.                                        *)
(***************************************************************************)
EXTENDS Integers

CONSTANT Period  \* of a frame

ASSUME PeriodAssumption == Period \in Nat \ {0}

\* nextslotTime of a slot.  The first one begins when it is first waited for,
\* and that is time 0.
SlotTime(slot) == (slot - 1) * Period

\* wait_tick: the slot after this one or, when the clock is past its time, the
\* first whose time is still to come.  A counter that has not waited is at 0.
WaitTick(slot, now) ==
    LET due == (now + Period - 1) \div Period + 1
    IN  IF slot = 0 THEN 1 ELSE IF due > slot THEN due ELSE slot + 1
=============================================================================
