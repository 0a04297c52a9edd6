------------------------------ MODULE FullDuplex ------------------------------
(***************************************************************************)
(* One full-duplex test in an iperf2 process: the thread that sends and    *)
(* the thread that receives on the same socket, their common sum report,   *)
(* and the barrier in it at which they start and stop (Launch.cpp,         *)
(* EndJob of Reporter.c, Client.cpp, Server.cpp, Reports.c).               *)
(*                                                                         *)
(* At the end of a test that a server has accepted the timeout of the      *)
(* barrier is the 0 of calloc, and its threads do not meet at the start.   *)
(***************************************************************************)
EXTENDS Integers, FiniteSets

CONSTANT Seconds  \* what the barrier of a client waits at most

ASSUME SecondsAssumption == Seconds \in Nat \ {0}

VARIABLES side,      \* which end of the connection the process is
          enhanced,  \* -e
          pc,        \* where each thread is
          at,        \* the barrier it is at, or came from last
          left,      \* timeout, the seconds it still waits
          count,     \* fullduplex_barrier.count
          refs,      \* reference.count of the sum report
          reported,  \* consumerdone of each thread's ring
          sums,      \* how often the final sum has been printed
          freed,     \* how often the sum report has been freed
          closed,    \* how often the socket has been closed
          expired    \* the threads whose wait has expired

config == <<side, enhanced>>
report == <<refs, reported, sums>>
ends   == <<freed, closed>>
vars == <<config, pc, at, left, count, report, ends, expired>>

Directions == {"sender", "receiver"}

Timeout == IF side = "client" THEN Seconds ELSE 0

Init ==
  /\ side \in {"client", "server"}
  /\ enhanced \in BOOLEAN
  /\ pc = [d \in Directions |-> "init"]
  /\ at = [d \in Directions |-> "start"]
  /\ left = [d \in Directions |-> 0]
  /\ count = 0
  /\ refs = 0
  /\ reported = [d \in Directions |-> FALSE]
  /\ sums = 0 /\ freed = 0 /\ closed = 0
  /\ expired = {}
-----------------------------------------------------------------------------
\* Mutant: a client does not meet at the start either.
BeginAtOnce(d) ==
  /\ pc[d] = "init"
  /\ refs' = refs + 1
  /\ pc' = [pc EXCEPT ![d] = "traffic"]
  /\ UNCHANGED <<config, at, left, count, reported, sums, ends, expired>>

\* The report of a thread is bound to the sum report before the start.
Begin(d) ==
  /\ pc[d] = "init"
  /\ refs' = refs + 1
  /\ pc' = [pc EXCEPT ![d] = IF side = "client" THEN "enter" ELSE "traffic"]
  /\ UNCHANGED <<config, at, left, count, reported, sums, ends, expired>>

\* Where d goes on from its barrier, as this has returned rc.  Not to start
\* ends the process when it is the receiver that does not.  At the stop -1
\* counts as true.
Passed(f, d, rc) ==
  CASE at[d] = "start" /\ rc # -1 -> [f EXCEPT ![d] = "traffic"]
    [] at[d] = "start" /\ rc = -1 /\ d = "sender" -> [f EXCEPT ![d] = "gone"]
    [] at[d] = "start" /\ rc = -1 /\ d = "receiver" ->
         [e \in Directions |-> "exited"]
    [] at[d] = "stop" /\ rc # 0 -> [f EXCEPT ![d] = "free"]
    [] at[d] = "stop" /\ rc = 0 -> [f EXCEPT ![d] = "done"]

Broadcast == [d \in Directions |-> IF pc[d] = "wait" THEN "woken" ELSE pc[d]]

\* Mutant: the first one is taken for the last one.
EnterFirst(d) ==
  /\ pc[d] = "enter"
  /\ count' = count + 1
  /\ pc' = Passed(Broadcast, d, 1)
  /\ UNCHANGED <<config, at, left, report, ends, expired>>

EnterLast(d) ==
  /\ pc[d] = "enter"
  /\ count + 1 = 2
  /\ count' = 2
  /\ pc' = Passed(Broadcast, d, 1)
  /\ UNCHANGED <<config, at, left, report, ends, expired>>

\* With a timeout of 0 nobody waits.
EnterOther(d) ==
  /\ pc[d] = "enter"
  /\ count + 1 # 2
  /\ IF Timeout = 0
     THEN /\ count' = 0
          /\ pc' = Passed(pc, d, 0)
          /\ UNCHANGED left
     ELSE /\ count' = count + 1
          /\ pc' = [pc EXCEPT ![d] = "wait"]
          /\ left' = [left EXCEPT ![d] = Timeout]
  /\ UNCHANGED <<config, at, report, ends, expired>>

\* A second of a timed wait is over.
Elapse(d) ==
  /\ pc[d] = "wait"
  /\ pc' = [pc EXCEPT ![d] = "woken"]
  /\ UNCHANGED <<config, at, left, count, report, ends, expired>>

\* What a woken thread can read for the count: once the report is freed the
\* memory may hold anything.
ReadCount == IF freed = 0 THEN {count} ELSE {count, 1}

\* Mutant: a wait that has expired is begun again.
WokenForever(d) ==
  /\ pc[d] = "woken"
  /\ \E c \in ReadCount :
       \/ /\ c = 2
          /\ count' = 0
          /\ pc' = Passed(pc, d, 0)
       \/ /\ c # 2
          /\ pc' = [pc EXCEPT ![d] = "wait"]
          /\ UNCHANGED count
  /\ UNCHANGED <<config, at, left, report, ends, expired>>

\* The thread has the mutex again.  The one that was woken makes the barrier
\* ready for its next use; one whose wait has expired leaves the count.
Woken(d) ==
  /\ pc[d] = "woken"
  /\ \E c \in ReadCount :
       \/ /\ c = 2
          /\ count' = 0
          /\ pc' = Passed(pc, d, 0)
          /\ UNCHANGED <<left, expired>>
       \/ /\ c # 2 /\ left[d] > 1
          /\ left' = [left EXCEPT ![d] = @ - 1]
          /\ pc' = [pc EXCEPT ![d] = "wait"]
          /\ UNCHANGED <<count, expired>>
       \/ /\ c # 2 /\ left[d] = 1
          /\ expired' = expired \cup {d}
          /\ pc' = Passed(pc, d, -1)
          /\ UNCHANGED <<count, left>>
  /\ UNCHANGED <<config, at, report, ends>>

\* The traffic of a direction is over, and its final packet is sent to the
\* reporter.
EndTraffic(d) ==
  /\ pc[d] = "traffic"
  /\ pc' = [pc EXCEPT ![d] = "final"]
  /\ UNCHANGED <<config, at, left, count, report, ends, expired>>

\* The reporter prints the final sum with the last of the two, if it counts.
Report(d) ==
  /\ pc[d] = "final" /\ ~reported[d]
  /\ reported' = [reported EXCEPT ![d] = TRUE]
  /\ IF enhanced
     THEN refs' = refs - 1 /\ sums' = IF refs' = 0 THEN sums + 1 ELSE sums
     ELSE UNCHANGED <<refs, sums>>
  /\ UNCHANGED <<config, pc, at, left, count, ends, expired>>

\* Mutant: EndJob does not wait for the reporter.
EndJobHasty(d) ==
  /\ pc[d] = "final"
  /\ at' = [at EXCEPT ![d] = "stop"]
  /\ pc' = [pc EXCEPT ![d] = "enter"]
  /\ UNCHANGED <<config, left, count, report, ends, expired>>

EndJob(d) ==
  /\ pc[d] = "final" /\ reported[d]
  /\ at' = [at EXCEPT ![d] = "stop"]
  /\ pc' = [pc EXCEPT ![d] = "enter"]
  /\ UNCHANGED <<config, left, count, report, ends, expired>>

\* The condition of the barrier is destroyed and the sum report freed.
Free(d) ==
  /\ pc[d] = "free"
  /\ freed' = freed + 1
  /\ pc' = [pc EXCEPT ![d] = "close"]
  /\ UNCHANGED <<config, at, left, count, report, closed, expired>>

Close(d) ==
  /\ pc[d] = "close"
  /\ closed' = closed + 1
  /\ pc' = [pc EXCEPT ![d] = "done"]
  /\ UNCHANGED <<config, at, left, count, report, freed, expired>>
-----------------------------------------------------------------------------
Thread(d) ==
  \/ Begin(d) \/ EnterLast(d) \/ EnterOther(d) \/ Elapse(d) \/ Woken(d)
  \/ EndTraffic(d) \/ Report(d) \/ EndJob(d) \/ Free(d) \/ Close(d)

Next == \E d \in Directions : Thread(d)

Spec == Init /\ [][Next]_vars

\* Both threads and the reporter keep being scheduled, time goes on, and the
\* traffic of each direction is over some time.
FairSpec == Spec /\ \A d \in Directions : WF_vars(Thread(d))
-----------------------------------------------------------------------------
\* The types of the variables.  The count can come to 3 when the last one at
\* the start is also at the stop before the first one has been scheduled.
TypeOK ==
  /\ pc \in [Directions -> {"init", "enter", "wait", "woken", "traffic",
                            "final", "free", "close", "done", "gone",
                            "exited"}]
  /\ at \in [Directions -> {"start", "stop"}]
  /\ left \in [Directions -> 0 .. Seconds]
  /\ count \in 0 .. 3
  /\ refs \in 0 .. 2
  /\ {sums, freed, closed} \subseteq 0 .. 2

\* At a client no direction has traffic before the other one has arrived.
TogetherAtStart ==
  \A d, e \in Directions :
    side = "client" /\ pc[d] = "traffic" => pc[e] # "init"

\* As long as no wait has expired, the report that the directions share is
\* freed when the reporter has seen the last of both of them and not before.
FreedAfterBoth ==
  freed > 0 /\ expired = {} => \A d \in Directions : reported[d]

\* As long as no wait has expired, it is freed and the socket is closed by
\* one of the two only.
EndedByOne ==
  expired = {} =>
    Cardinality({d \in Directions : pc[d] \in {"free", "close"}})
      + closed =< 1

\* The shared report and the socket are given back once, and not before both
\* directions are through with them.
FreedOnce == FreedAfterBoth /\ EndedByOne

\* The final sum of a client's test covers both directions: it is printed
\* once, and after the last packet of each, unless a wait has expired.
FinalSumOfBoth ==
  side = "client" /\ expired = {} =>
    sums = IF enhanced /\ \A d \in Directions : reported[d] THEN 1 ELSE 0

Over(d) == pc[d] \in {"done", "gone", "exited"}

\* Both threads come to an end, whatever the order in which they meet.
BarrierEnds == <>(\A d \in Directions : Over(d))
=============================================================================
