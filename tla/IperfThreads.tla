---------------------------- MODULE IperfThreads ----------------------------
(***************************************************************************)
(* The threads of an iperf2 process and the job queue of its reporter      *)
(* (compat/Thread.c, main.cpp, Reporter.c, and as far as they start, stop  *)
(* or wait for threads Launch.cpp, Listener.cpp, Client.cpp, Server.cpp).  *)
(*                                                                         *)
(* main starts the reporter and, through the runNow links of the settings, *)
(* the clients or the listener, and waits in thread_joinall for the count  *)
(* of threads to become 0.  A traffic thread posts reports to the reporter,*)
(* hands it a final packet and waits for it.  The reporter ends when its   *)
(* queue is empty and the count says that it is alone.                     *)
(*                                                                         *)
(* A critical section is one step.  Counters and flags that are read       *)
(* without their lock are read in a step of their own.                     *)
(***************************************************************************)
EXTENDS Integers, Sequences, FiniteSets, SequencesExt

CONSTANTS Traffic,    \* the traffic threads, clients and servers
          Parallels,  \* the sequences of clients that main can be asked for
          Modes,      \* subset of {"client", "server"}
          Counts,     \* values of -P for the listener, 0 for no limit
          MaxFaults,  \* bound on the failures
          MaxReports, \* bound on the reports of peers that are turned away
          MaxSignals, \* bound on the interrupts of the user
          None        \* no thread

Unlimited == 1000  \* mCount of a listener without a limit

\* Every client of -P has settings of its own.
ASSUME ThreadsAssumption ==
  /\ IsFiniteSet(Traffic)
  /\ \A p \in Parallels : /\ p \in Seq(Traffic) \ {<<>>}
                          /\ \A i, j \in 1 .. Len(p) : p[i] = p[j] => i = j
  /\ {"main", "reporter", "listener"} \cap Traffic = {}
  /\ None \notin Traffic \cup {"main", "reporter", "listener"}
ASSUME BoundsAssumption ==
  /\ Modes \subseteq {"client", "server"} /\ Counts \subseteq 0 .. Unlimited - 1
  /\ MaxFaults \in Nat /\ MaxReports \in Nat /\ MaxSignals \in Nat

VARIABLES mode,        \* kMode_Client or kMode_Listener of the settings
          parallel,    \* the clients that main starts, in the order of runNow
          single,      \* --singleclient
          pc,          \* where each thread is
          child,       \* the thread that a thread is starting, or started last
          after,       \* where it goes on then
          runNow,      \* links of thread_start_all
          runNext,     \* the thread started when a thread is over
          sNum,        \* thread_sNum
          trfc,        \* thread_trfc_sNum
          nonterm,     \* nonterminating_num
          begun,       \* threads_start.ready
          ready,       \* reporter_state.ready
          interrupted, \* sInterupted
          mCount,      \* connections the listener still accepts, 0 after the
                       \* last one; Unlimited is never counted down
          connects,    \* the clients connects_done waits for, 0 without it
          pending,     \* the reports posted and not yet seen by the reporter
          root,        \* ReportRoot, the job queue
          item,        \* the position of work_item in it
          final,       \* the packet with ID -1 is in the ring of the thread
          done,        \* consumerdone of the ring of the thread
          faults,      \* failures so far
          signals      \* interrupts so far

config  == <<mode, parallel, single>>
counts  == <<sNum, trfc, nonterm>>
starts  == <<child, after, runNow, runNext>>
flags   == <<begun, ready, interrupted, mCount, connects>>
jobs    == <<pending, root, item, final, done>>
bounds  == <<faults, signals>>
vars == <<config, pc, counts, starts, flags, jobs, bounds>>

Threads == Traffic \cup {"main", "reporter", "listener"}

\* A report of the queue that is freed as soon as it is printed.  The others,
\* which stand for a ring of packets, are the thread that fills the ring.
Note == None

\* The threads that main starts: the reporter, then the clients of -P, which
\* client_init has linked, or the listener.
Chain == <<"reporter">> \o IF mode = "client" THEN parallel ELSE <<"listener">>

ChainLink(p) ==
  IF \E i \in 1 .. Len(Chain) - 1 : Chain[i] = p
  THEN Chain[1 + CHOOSE i \in 1 .. Len(Chain) - 1 : Chain[i] = p]
  ELSE None

Init ==
  /\ mode \in Modes
  /\ parallel \in IF mode = "client" THEN Parallels ELSE {<<>>}
  /\ single \in IF mode = "server" THEN BOOLEAN ELSE {FALSE}
  /\ pc = [p \in Threads |-> IF p = "main" THEN "count" ELSE "idle"]
  /\ child = [p \in Threads |-> IF p = "main" THEN "reporter" ELSE None]
  /\ after = [p \in Threads |-> "chain"]
  /\ runNow = [p \in Threads |-> ChainLink(p)]
  /\ runNext = [p \in Threads |-> None]
  /\ sNum = 0 /\ trfc = 0 /\ nonterm = 0
  /\ begun = FALSE /\ ready = FALSE /\ interrupted = FALSE
  /\ connects \in {0, IF Len(parallel) > 1 THEN Len(parallel) ELSE 0}
  /\ mCount \in {IF n = 0 THEN Unlimited ELSE n : n \in Counts}
  /\ pending = <<>> /\ root = <<>> /\ item = 1
  /\ final = [t \in Traffic |-> FALSE]
  /\ done = [t \in Traffic |-> FALSE]
  /\ faults = 0 /\ signals = 0
-----------------------------------------------------------------------------
(* The counts.                                                             *)

\* The process ends, with all its threads.
Exit == [p \in Threads |-> "exited"]

Exited == pc = Exit

\* The position of main after a signal of thread_sNum_cond, on which only
\* thread_joinall waits.
Signalled(f) ==
  IF f["main"] = "joinwait" THEN [f EXCEPT !["main"] = "join"] ELSE f

Traffics(p) == IF p \in Traffic THEN 1 ELSE 0

Post(report) == pending' = Append(pending, report)
-----------------------------------------------------------------------------
(* thread_start and thread_start_all.                                      *)

\* Counted first and created then: a thread that is not yet created does what
\* one does that is not yet scheduled.
Start(p) ==
  /\ pc[p] = "count"
  /\ pc' = [pc EXCEPT ![p] = after[p], ![child[p]] = "begin"]
  /\ sNum' = sNum + 1
  /\ trfc' = trfc + Traffics(child[p])
  /\ UNCHANGED <<config, nonterm, starts, flags, jobs, bounds>>

\* pthread_create fails for a thread that has been counted.
StartFails(p) ==
  /\ pc[p] = "count"
  /\ faults < MaxFaults
  /\ faults' = faults + 1
  /\ pc' = [pc EXCEPT ![p] = "failing", ![child[p]] = "counted"]
  /\ sNum' = sNum + 1
  /\ trfc' = trfc + Traffics(child[p])
  /\ UNCHANGED <<config, nonterm, starts, flags, jobs, signals>>

\* It is counted down without a signal of thread_sNum_cond.
StartUndone(p) ==
  /\ pc[p] = "failing"
  /\ pc' = [pc EXCEPT ![p] = after[p], ![child[p]] = "failed"]
  /\ sNum' = sNum - 1
  /\ trfc' = trfc - Traffics(child[p])
  /\ UNCHANGED <<config, nonterm, starts, flags, jobs, bounds>>

\* thread_start_all reads runNow of the settings that the thread it has just
\* started works with, and destroys when it is over.
StartChain(p) ==
  /\ pc[p] = "chain"
  /\ LET next == runNow[child[p]] IN
       IF next = None
       THEN /\ pc' = [pc EXCEPT
                     ![p] = IF p = "main" THEN "release" ELSE "serve"]
            /\ UNCHANGED child
       ELSE /\ pc' = [pc EXCEPT ![p] = "count"]
            /\ child' = [child EXCEPT ![p] = next]
  /\ UNCHANGED <<config, counts, after, runNow, runNext, flags, jobs, bounds>>

Starting(p) == Start(p) \/ StartUndone(p) \/ StartChain(p)
-----------------------------------------------------------------------------
(* main.                                                                   *)

StartRelease ==
  /\ pc["main"] = "release"
  /\ begun' = TRUE
  /\ pc' = [pc EXCEPT !["main"] = "join"]
  /\ UNCHANGED <<config, counts, starts, ready, interrupted, mCount, connects,
                 jobs, bounds>>

JoinAll ==
  /\ pc["main"] = "join"
  /\ pc' = IF sNum > 0 THEN [pc EXCEPT !["main"] = "joinwait"] ELSE Exit
  /\ UNCHANGED <<config, counts, starts, flags, jobs, bounds>>

\* Mutant: a listener that is released stays counted.
InterruptForgets ==
  /\ ~Exited
  /\ signals < MaxSignals
  /\ signals' = signals + 1
  /\ interrupted' = TRUE
  /\ nonterm' = 0
  /\ pc' = Signalled(pc)
  /\ UNCHANGED <<config, sNum, trfc, starts, begun, ready, mCount, connects,
                 jobs, faults>>

\* Sig_Interupt and thread_release_nonterm, in any thread at any time.
Interrupt ==
  /\ ~Exited
  /\ signals < MaxSignals
  /\ signals' = signals + 1
  /\ interrupted' = TRUE
  /\ sNum' = sNum - nonterm
  /\ nonterm' = 0
  /\ pc' = Signalled(pc)
  /\ UNCHANGED <<config, trfc, starts, begun, ready, mCount, connects, jobs,
                 faults>>

\* A second interrupt that reaches the same thread as the first ends the
\* process.
SignalExit ==
  /\ ~Exited
  /\ signals > 0
  /\ pc' = Exit
  /\ UNCHANGED <<config, counts, starts, flags, jobs, bounds>>

\* The alarm of a traffic thread, or a read that fails for good: sInterupted
\* is set for all threads, and nothing is released.
Alarm ==
  /\ faults < MaxFaults
  /\ \E p \in Traffic \cup {"listener"} : pc[p] \in {"traffic", "accepted"}
  /\ faults' = faults + 1
  /\ interrupted' = TRUE
  /\ UNCHANGED <<config, pc, counts, starts, begun, ready, mCount, connects,
                 jobs, signals>>
-----------------------------------------------------------------------------
(* The end of a thread, in thread_run_wrapper or thread_stop.              *)

\* Mutant: the traffic threads are not counted down.
LeaveKeepsTraffic(p) ==
  /\ pc[p] = "leave"
  /\ sNum' = sNum - 1
  /\ child' = [child EXCEPT ![p] = runNext[p]]
  /\ after' = [after EXCEPT ![p] = "destroy"]
  /\ pc' = [Signalled(pc) EXCEPT ![p] =
              IF runNext[p] = None THEN "destroy" ELSE "count"]
  /\ UNCHANGED <<config, trfc, nonterm, runNow, runNext, flags, jobs, bounds>>

\* The thread is no longer counted when it starts the one of runNext.
Leave(p) ==
  /\ pc[p] = "leave"
  /\ sNum' = sNum - 1
  /\ trfc' = trfc - Traffics(p)
  /\ child' = [child EXCEPT ![p] = runNext[p]]
  /\ after' = [after EXCEPT ![p] = "destroy"]
  /\ pc' = [Signalled(pc) EXCEPT ![p] =
              IF runNext[p] = None THEN "destroy" ELSE "count"]
  /\ UNCHANGED <<config, nonterm, runNow, runNext, flags, jobs, bounds>>

\* The settings are freed.
Destroy(p) ==
  /\ pc[p] = "destroy"
  /\ pc' = [pc EXCEPT ![p] = "gone"]
  /\ UNCHANGED <<config, counts, starts, flags, jobs, bounds>>

\* FAIL: neither runNext nor the final packet nor the count of listeners is
\* seen to.
Stop(p) ==
  /\ \/ p \in Traffic /\ pc[p] \in {"begin", "connected", "traffic"}
     \/ pc[p] = "listen"
  /\ faults < MaxFaults
  /\ faults' = faults + 1
  /\ sNum' = sNum - 1
  /\ trfc' = trfc - Traffics(p)
  /\ pc' = [Signalled(pc) EXCEPT ![p] = "stopped"]
  /\ UNCHANGED <<config, nonterm, starts, flags, jobs, signals>>
-----------------------------------------------------------------------------
(* The traffic threads.                                                    *)

\* The threads that no settings have been copied for yet.
Unused == {t \in Traffic : pc[t] = "idle" /\ \A p \in Threads :
                             t \notin {runNow[p], runNext[p], child[p]}}

\* Which of them is the next makes no difference.
OneOf(S) == {t \in S : t = CHOOSE u \in S : TRUE}

\* The others receive.
IsClient(t) ==
  IF mode = "client" THEN t \in ToSet(parallel)
  ELSE \E p \in Threads : t \in {runNow[p], runNext[p]}

Arrive(t) ==
  /\ connects' = IF connects = 0 THEN 0 ELSE connects - 1
  /\ pc' = IF connects > 1 THEN [pc EXCEPT ![t] = "barrier"]
           ELSE [p \in Threads |-> IF p = t \/ pc[p] = "barrier"
                                   THEN "connected" ELSE pc[p]]

\* Mutant: a client goes ahead before the reporter is at work.
ConnectEarly(t) ==
  /\ pc[t] = "begin" /\ IsClient(t)
  /\ Post(Note)
  /\ Arrive(t)
  /\ UNCHANGED <<config, counts, starts, begun, ready, interrupted, mCount,
                 root, item, final, done, bounds>>

\* A client waits until the reporter is at work.  Whether it gets its
\* connection or not it reports on it, and waits for the other clients.
Connect(t) ==
  /\ pc[t] = "begin" /\ IsClient(t)
  /\ ready
  /\ Post(Note)
  /\ Arrive(t)
  /\ UNCHANGED <<config, counts, starts, begun, ready, interrupted, mCount,
                 root, item, final, done, bounds>>

\* With a test of some seconds the wait has an end.
BarrierTimeout(t) ==
  /\ pc[t] = "barrier"
  /\ pc' = [pc EXCEPT ![t] = "connected"]
  /\ UNCHANGED <<config, counts, starts, flags, jobs, bounds>>

\* A client can start a thread for the other direction: with --reverse instead
\* of its own traffic.
StartReversed(t) ==
  \E other \in OneOf(Unused), then \in {"post", "leave"} :
    /\ mode = "client"
    /\ child' = [child EXCEPT ![t] = other]
    /\ after' = [after EXCEPT ![t] = then]
    /\ pc' = [pc EXCEPT ![t] = "count"]
    /\ UNCHANGED <<runNow, runNext>>

\* A client without a connection leaves.  Another one goes straight to the
\* traffic, or first starts a thread.
Proceed(t) ==
  /\ pc[t] = "connected"
  /\ \/ /\ \E then \in {"post", "leave"} : pc' = [pc EXCEPT ![t] = then]
        /\ UNCHANGED starts
     \/ StartReversed(t)
  /\ UNCHANGED <<config, counts, flags, jobs, bounds>>

\* A server has its connection, which the listener has reported.
Receive(t) ==
  /\ pc[t] = "begin" /\ ~IsClient(t)
  /\ pc' = [pc EXCEPT ![t] = "post"]
  /\ UNCHANGED <<config, counts, starts, flags, jobs, bounds>>

PostData(t) ==
  /\ pc[t] = "post"
  /\ Post(t)
  /\ pc' = [pc EXCEPT ![t] = "traffic"]
  /\ UNCHANGED <<config, counts, starts, flags, root, item, final, done,
                 bounds>>

\* The traffic is over: the final packet of EndJob.
EndJob(t) ==
  /\ pc[t] = "traffic"
  /\ final' = [final EXCEPT ![t] = TRUE]
  /\ pc' = [pc EXCEPT ![t] = "endjob"]
  /\ UNCHANGED <<config, counts, starts, flags, pending, root, item, done,
                 bounds>>

\* The report of the server comes after EndJob, at a UDP client.
EndJobDone(t) ==
  /\ pc[t] = "endjob"
  /\ done[t]
  /\ (IsClient(t) /\ Post(Note)) \/ UNCHANGED pending
  /\ pc' = [pc EXCEPT ![t] = "leave"]
  /\ UNCHANGED <<config, counts, starts, flags, root, item, final, done,
                 bounds>>
-----------------------------------------------------------------------------
(* The listener.                                                           *)

Register ==
  /\ pc["listener"] = "begin"
  /\ nonterm' = nonterm + 1
  /\ pc' = [pc EXCEPT !["listener"] = "listen"]
  /\ UNCHANGED <<config, sNum, trfc, starts, flags, jobs, bounds>>

Listen ==
  /\ pc["listener"] = "listen"
  /\ Post(Note)
  /\ pc' = [pc EXCEPT !["listener"] = "serve"]
  /\ UNCHANGED <<config, counts, starts, flags, root, item, final, done,
                 bounds>>

\* The head of the loop of Run; with --singleclient it spins.
Serve ==
  /\ pc["listener"] = "serve"
  /\ interrupted \/ mCount = 0 \/ ~single \/ trfc = 0
  /\ pc' = [pc EXCEPT !["listener"] =
       IF interrupted \/ mCount = 0 THEN "unregister" ELSE "accept"]
  /\ UNCHANGED <<config, counts, starts, flags, jobs, bounds>>

\* The time of the listener is over, or select or accept end with nothing.
AcceptNothing ==
  /\ pc["listener"] = "accept"
  /\ pc' \in {[pc EXCEPT !["listener"] = l] : l \in {"serve", "unregister"}}
  /\ UNCHANGED <<config, counts, starts, flags, jobs, bounds>>

Accept ==
  /\ pc["listener"] = "accept"
  /\ Unused # {}
  /\ mCount' = IF mCount = Unlimited THEN Unlimited ELSE mCount - 1
  /\ pc' = [pc EXCEPT !["listener"] = "accepted"]
  /\ UNCHANGED <<config, counts, starts, begun, ready, interrupted, connects,
                 jobs, bounds>>

\* A peer that is not expected, or whose first message cannot be read.
Reject ==
  /\ pc["listener"] = "accepted"
  /\ (Len(pending) < MaxReports /\ Post(Note)) \/ UNCHANGED pending
  /\ pc' = [pc EXCEPT !["listener"] = "serve"]
  /\ UNCHANGED <<config, counts, starts, flags, root, item, final, done,
                 bounds>>

\* A server, and perhaps a client: at the same time or when it is over.
Spawn ==
  /\ pc["listener"] = "accepted"
  /\ Post(Note)
  /\ \E t \in OneOf(Unused) :
       /\ child' = [child EXCEPT !["listener"] = t]
       /\ \/ UNCHANGED <<runNow, runNext>>
          \/ \E other \in OneOf(Unused \ {t}) :
               \/ /\ runNow' = [runNow EXCEPT ![t] = other]
                  /\ UNCHANGED runNext
               \/ /\ runNext' = [runNext EXCEPT ![t] = other]
                  /\ UNCHANGED runNow
  /\ pc' = [pc EXCEPT !["listener"] = "count"]
  /\ UNCHANGED <<config, counts, after, flags, root, item, final, done,
                 bounds>>

\* A listener that has been released is counted again before it leaves.
Unregister ==
  /\ pc["listener"] = "unregister"
  /\ IF nonterm = 0
     THEN sNum' = sNum + 1 /\ UNCHANGED nonterm
     ELSE nonterm' = nonterm - 1 /\ UNCHANGED sNum
  /\ pc' = [pc EXCEPT !["listener"] = "leave"]
  /\ UNCHANGED <<config, trfc, starts, flags, jobs, bounds>>
-----------------------------------------------------------------------------
(* The reporter.                                                           *)

ReporterReady ==
  /\ pc["reporter"] = "begin"
  /\ begun
  /\ ready' = TRUE
  /\ pc' = [pc EXCEPT !["reporter"] = "root"]
  /\ UNCHANGED <<config, counts, starts, begun, interrupted, mCount, connects,
                 jobs, bounds>>

\* The end of reporter_jobq_set_root: the pending reports go first.
TakePending ==
  /\ root' = pending \o root
  /\ pending' = <<>>
  /\ item' = 1
  /\ pc' = [pc EXCEPT !["reporter"] = IF root' = <<>> THEN "users" ELSE "work"]
  /\ UNCHANGED <<final, done>>

SetRoot ==
  /\ pc["reporter"] = "root"
  /\ interrupted' = (interrupted /\ root # <<>>)
  /\ IF root = <<>> /\ pending = <<>> /\ sNum > 1
     THEN pc' = [pc EXCEPT !["reporter"] = "nap"] /\ UNCHANGED jobs
     ELSE TakePending
  /\ UNCHANGED <<config, counts, starts, begun, ready, mCount, connects,
                 bounds>>

\* A second, or a signal of a thread that posts or ends.
Nap ==
  /\ pc["reporter"] = "nap"
  /\ TakePending
  /\ UNCHANGED <<config, counts, starts, flags, bounds>>

\* Mutant: the reporter takes itself to be alone when one thread is left.
UsersOther ==
  /\ pc["reporter"] = "users"
  /\ pc' = [pc EXCEPT !["reporter"] = IF sNum > 2 THEN "root" ELSE "leave"]
  /\ UNCHANGED <<config, counts, starts, flags, jobs, bounds>>

\* The queue was empty: is another thread left?
Users ==
  /\ pc["reporter"] = "users"
  /\ pc' = [pc EXCEPT !["reporter"] = IF sNum > 1 THEN "root" ELSE "leave"]
  /\ UNCHANGED <<config, counts, starts, flags, jobs, bounds>>

\* Mutant: the final packet is not acknowledged.
ProcessMute ==
  /\ pc["reporter"] = "work"
  /\ LET r == root[item]
         over == r = Note \/ final[r]
     IN /\ root' = IF over THEN RemoveAt(root, item) ELSE root
        /\ done' = done
  /\ IF item + 1 > Len(root')
     THEN item' = 1 /\ pc' = [pc EXCEPT !["reporter"] = "root"]
     ELSE item' = item + 1 /\ UNCHANGED pc
  /\ UNCHANGED <<config, counts, starts, flags, pending, final, bounds>>

\* A report is processed.  When it is removed work_item moves on by one more,
\* so the report after it is left for the next pass.  A final packet that an
\* interval report keeps from being reached counts as not yet there.
Process ==
  /\ pc["reporter"] = "work"
  /\ LET r == root[item]
         over == r = Note \/ final[r]
     IN /\ root' = IF over THEN RemoveAt(root, item) ELSE root
        /\ done' = IF over /\ r # Note THEN [done EXCEPT ![r] = TRUE]
                   ELSE done
  /\ IF item + 1 > Len(root')
     THEN item' = 1 /\ pc' = [pc EXCEPT !["reporter"] = "root"]
     ELSE item' = item + 1 /\ UNCHANGED pc
  /\ UNCHANGED <<config, counts, starts, flags, pending, final, bounds>>
-----------------------------------------------------------------------------
Main == Starting("main") \/ StartRelease \/ JoinAll

TrafficThread(t) ==
  \/ Start(t) \/ StartUndone(t) \/ Connect(t) \/ Proceed(t)
  \/ Receive(t) \/ PostData(t) \/ EndJob(t) \/ EndJobDone(t)
  \/ Leave(t) \/ Destroy(t)

\* What the listener does by itself, and what is left to its peers.
Listener ==
  \/ Starting("listener") \/ Register \/ Listen \/ Serve \/ Reject \/ Spawn
  \/ Unregister \/ Leave("listener") \/ Destroy("listener")

Peers == AcceptNothing \/ Accept

Reporter ==
  \/ ReporterReady \/ SetRoot \/ Nap \/ Users \/ Process
  \/ Leave("reporter") \/ Destroy("reporter")

Environment ==
  \/ \E p \in Threads : StartFails(p) \/ Stop(p)
  \/ Interrupt \/ SignalExit \/ Alarm

Next ==
  \/ Main \/ Listener \/ Peers \/ Reporter \/ Environment
  \/ \E t \in Traffic : TrafficThread(t) \/ BarrierTimeout(t)

Spec == Init /\ [][Next]_vars

\* Every thread keeps being scheduled, connecting and sending come to an end
\* by themselves (a number of bytes, a time, a peer that closes), and so does
\* every timed wait.  No peer has to connect.
Fairness ==
  /\ WF_vars(Main)
  /\ WF_vars(Listener)
  /\ WF_vars(Reporter)
  /\ \A t \in Traffic : WF_vars(TrafficThread(t))

FairSpec == Spec /\ Fairness
-----------------------------------------------------------------------------
Working == {"begin", "barrier", "connected", "post", "traffic", "endjob"}

Positions ==
  Working \cup
  {"idle", "counted", "count", "failing", "chain", "release", "join",
   "joinwait", "exited", "leave", "destroy", "gone", "stopped", "failed",
   "listen", "serve", "accept", "accepted", "unregister",
   "root", "nap", "users", "work"}

\* The types of the variables.  The count goes below 0 when an interrupt
\* releases a listener that thread_stop has counted down already.
TypeOK ==
  /\ pc \in [Threads -> Positions]
  /\ child \in [Threads -> Threads \cup {None}]
  /\ sNum \in -1 .. Cardinality(Threads)
  /\ trfc \in 0 .. Cardinality(Traffic)
  /\ nonterm \in {0, 1}
  /\ mCount \in 0 .. Unlimited /\ connects \in 0 .. Len(parallel)
  /\ pc["reporter"] = "work" => item \in 1 .. Len(root)
  /\ pending \in Seq(Traffic \cup {Note}) /\ root \in Seq(Traffic \cup {Note})
  /\ {begun, ready, interrupted} \subseteq BOOLEAN

\* The threads that have been counted and not counted down again.
Counted ==
  {p \in Threads \ {"main"} :
     /\ pc[p] \notin {"idle", "failed", "stopped", "destroy", "gone", "exited"}
     /\ pc[p] \in {"count", "failing"} => after[p] # "destroy"}

Registered ==
  pc["listener"] \in {"listen", "serve", "accept", "accepted", "count",
                      "failing", "chain", "unregister"}

\* An interrupt has taken the listener out of the count.
Released == Registered /\ nonterm = 0

\* The counts that the whole process ends by are accurate at every moment,
\* except when a listener could not listen and thread_stop left it registered.
CountsExact ==
  ~Exited =>
  /\ trfc = Cardinality(Counted \cap Traffic)
  /\ pc["listener"] # "stopped" =>
       sNum = Cardinality(Counted) - (IF Released THEN 1 ELSE 0)

\* Nobody starts a thread after it is counted down, and nobody runs uncounted.
NoLateStart ==
  /\ signals = 0
  /\ \A p \in Threads : runNext[p] = None

\* A thread that has posted its report, or will, has a reporter to take it.
EndJobServed ==
  NoLateStart =>
    \A t \in Traffic : pc[t] \in Working =>
      pc["reporter"] \notin {"leave", "destroy", "gone"}

\* When main reads the settings of a client to find the next one, these have
\* not been freed, however short the client's life is (FAIL aside).
ChainAlive ==
  pc["main"] = "chain" /\ child["main"] \in Traffic =>
    pc[child["main"]] # "gone"

\* With --singleclient the traffic of two clients never overlaps.
OneClientAtATime ==
  single /\ NoLateStart =>
    \A t, u \in Counted \cap Traffic : u \in {t, runNow[t]} \/ t = runNow[u]

\* The counts that the process ends by are exact, and with --singleclient one
\* client is served at a time (types included).
ThreadsSound ==
  /\ TypeOK
  /\ CountsExact
  /\ OneClientAtATime

\* No thread has failed, been stopped, or been started late.
Orderly ==
  /\ NoLateStart
  /\ \A p \in Threads : pc[p] \notin {"failed", "stopped"}

\* A client ends: its reports are taken, its threads leave, main returns.
ClientEnds == mode = "client" /\ [](Orderly) => <>Exited

\* An interrupt ends a server that has no traffic (any more), even when its
\* listener is left waiting in accept, unless somebody connects just then.
InterruptEnds ==
  [](faults = 0 /\ \A p \in Threads : runNext[p] = None) =>
    (( /\ Released /\ pc["listener"] \in {"serve", "accept", "unregister"}
       /\ Counted \subseteq {"reporter", "listener"}) ~>
       (Exited \/ pc["listener"] = "accepted"))
=============================================================================
