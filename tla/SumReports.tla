------------------------------- MODULE SumReports -------------------------------
(***************************************************************************)
(* The interval and sum reports of iperf2: the traffic threads of a host   *)
(* put packets into their rings, the reporter takes them out ring by ring, *)
(* reports every interval and the end of each flow, and adds the flows up  *)
(* in the sum report that the table of active hosts keeps for the host     *)
(* (Reporter.c, Reports.c, active_hosts.cpp, SetReportStartTime).          *)
(*                                                                         *)
(* A packet is the time of its sample and whether it is the final one; it  *)
(* carries one byte.  Time 0 is the zero of a timeval that is not set.     *)
(***************************************************************************)
EXTENDS Integers, FiniteSets, Sequences

CONSTANTS Flows,     \* the traffic threads of one host
          Tests,     \* the pairs of handlers and --sum-only that are looked at
          Interval,  \* -i, in ticks
          RingSize,  \* slots of a packet ring
          MaxTime    \* bound: the time the samples can have

Kinds == {"client_tcp", "server_tcp", "client_udp", "server_udp", "client_bb"}

ASSUME FlowsAssumption == IsFiniteSet(Flows)
ASSUME TestsAssumption == Tests \subseteq Kinds \X BOOLEAN
ASSUME IntervalAssumption == Interval \in Nat \ {0}
ASSUME BoundsAssumption == RingSize \in Nat \ {0} /\ MaxTime \in Nat \ {0}

VARIABLES kind,     \* the handlers of the flows
          sumOnly,  \* --sum-only: no output handler for a flow
          now,      \* the clock
          pc,       \* where each traffic thread is
          accepted, \* when it was bound to the sum report
          ring,     \* what is in its packet ring
          info,     \* its TransferInfo, and the levels of its ring
          group,    \* the sum report of the host
          bound,    \* thread_count of the host in the table
          pending,  \* the reports that are posted
          root,     \* the reports that the reporter has taken
          at,       \* the one it looks at, or 0
          last      \* the final sum that was printed

config  == <<kind, sumOnly>>
threads == <<pc, accepted>>
host    == <<group, bound>>
jobs    == <<pending, root, at>>
vars == <<config, now, threads, ring, info, host, jobs, last>>

TCP == {"client_tcp", "server_tcp", "client_bb"}
UDP == {"client_udp", "server_udp"}

NoGroup == [live |-> FALSE]
NoSum == -1

\* InitSumReport: the levels of a sum are low and those of a ring high.
InitSumReport ==
  [live |-> TRUE, members |-> {}, count |-> 0, maxcount |-> 0, finals |-> 0,
   start |-> 0, next |-> 0, time |-> 0, prev |-> 0, cur |-> 0,
   cnt |-> 0, up |-> 0, down |-> 0, uplevel |-> "low", downlevel |-> "low",
   mask |-> FALSE]

InitIndividualReport ==
  [start |-> 0, next |-> 0, time |-> 0, prev |-> 0, cur |-> 0,
   cnt |-> 0, uplevel |-> "high", downlevel |-> "high"]

Toggle(level) == IF level = "high" THEN "low" ELSE "high"

Init ==
  /\ \E t \in Tests : kind = t[1] /\ sumOnly = t[2]
  /\ now = 1
  /\ pc = [f \in Flows |-> "idle"]
  /\ accepted = [f \in Flows |-> 0]
  /\ ring = [f \in Flows |-> <<>>]
  /\ info = [f \in Flows |-> InitIndividualReport]
  /\ group = NoGroup
  /\ bound = 0
  /\ pending = <<>> /\ root = <<>> /\ at = 0
  /\ last = NoSum
-----------------------------------------------------------------------------
(* The traffic threads.                                                    *)

\* The host of the flows is in the table, with the flows that are bound to it.
Iperf_host_present == bound > 0

\* Iperf_push_host: the first flow of a host brings a sum report.
Push(f) ==
  /\ pc[f] = "idle"
  /\ LET g == IF Iperf_host_present THEN group ELSE InitSumReport
     IN group' = [g EXCEPT !.members = @ \cup {f}, !.count = @ + 1,
                           !.maxcount = IF g.count + 1 > @ THEN g.count + 1
                                        ELSE @]
  /\ bound' = bound + 1
  /\ pc' = [pc EXCEPT ![f] = "bound"]
  /\ accepted' = [accepted EXCEPT ![f] = now]
  /\ last' = IF Iperf_host_present THEN last ELSE NoSum
  /\ UNCHANGED <<config, now, ring, info, jobs>>

\* A server starts when it has accepted, a client now.
StartTime(f) == IF kind \in {"server_tcp", "server_udp"} THEN accepted[f] ELSE now

\* SetReportStartTime: the first to start is the start of the sum.
Start(f) ==
  /\ pc[f] = "bound"
  /\ LET start == StartTime(f)
     IN /\ info' = [info EXCEPT ![f].start = start,
                                ![f].next = start + Interval]
        /\ group' = IF group.start # 0 THEN group
                    ELSE [group EXCEPT !.start = start,
                                       !.next = start + Interval]
  /\ pending' = Append(pending, f)
  /\ pc' = [pc EXCEPT ![f] = "traffic"]
  /\ UNCHANGED <<config, now, accepted, ring, bound, root, at, last>>

\* One sample for each tick is enough for the reports of every interval.
ReportPacket(f) ==
  /\ pc[f] = "traffic"
  /\ Len(ring[f]) < RingSize
  /\ ring[f] # <<>> => ring[f][Len(ring[f])].time < now
  /\ info[f].time < now
  /\ ring' = [ring EXCEPT ![f] = Append(@, [time |-> now, final |-> FALSE])]
  /\ UNCHANGED <<config, now, threads, info, host, jobs, last>>

\* EndJob puts in the final packet and waits until it has been processed.
EndJob(f) ==
  /\ pc[f] = "traffic"
  /\ Len(ring[f]) < RingSize
  /\ ring' = [ring EXCEPT ![f] = Append(@, [time |-> now, final |-> TRUE])]
  /\ pc' = [pc EXCEPT ![f] = "final"]
  /\ UNCHANGED <<config, now, accepted, info, host, jobs, last>>

\* Mutant: EndJob does not wait for the reporter.
RemoveHostHasty(f) ==
  /\ pc[f] \in {"final", "done"}
  /\ group' = IF bound = 1 THEN NoGroup ELSE [group EXCEPT !.count = @ - 1]
  /\ bound' = bound - 1
  /\ pc' = [pc EXCEPT ![f] = "gone"]
  /\ UNCHANGED <<config, now, accepted, ring, info, jobs, last>>

\* Iperf_remove_host: the last flow of a host frees the sum report.
RemoveHost(f) ==
  /\ pc[f] = "done"
  /\ group' = IF bound = 1 THEN NoGroup ELSE [group EXCEPT !.count = @ - 1]
  /\ bound' = bound - 1
  /\ pc' = [pc EXCEPT ![f] = "gone"]
  /\ UNCHANGED <<config, now, accepted, ring, info, jobs, last>>

Tick ==
  /\ now < MaxTime
  /\ now' = now + 1
  /\ UNCHANGED <<config, threads, ring, info, host, jobs, last>>
-----------------------------------------------------------------------------
(* What the handlers make of a report: i is the record of a flow, g that   *)
(* of a sum, t the time of the packet.                                     *)

\* reporter_set_timestamps_time at the end of an interval.
SetTimestamps(i) == [i EXCEPT !.next = IF i.time >= i.start THEN @ + Interval
                                       ELSE @]

Shift(i) == [i EXCEPT !.prev = i.cur]

\* Mutant: what has been missed is not reported.
MissedNone(i, t) == 0

\* reporter_transfer_protocol_missed_reports: how many intervals without a
\* sample are reported before that of the packet.
Missed(i, t) ==
  IF sumOnly \/ t =< i.next THEN 0 ELSE (t - i.next - 1) \div Interval

\* A flow is counted up with its first sample into an interval of the sum.
CountUp(g, i, t) ==
  IF i.uplevel # g.uplevel /\ g.next >= t
  THEN [group |-> [g EXCEPT !.up = @ + 1],
        info  |-> [i EXCEPT !.uplevel = Toggle(@)]]
  ELSE [group |-> g, info |-> i]

\* reporter_reset_transfer_stats_sum
ResetSum(g) ==
  [Shift(g) EXCEPT !.up = @ - g.down, !.down = 0, !.uplevel = Toggle(@),
                   !.downlevel = Toggle(@)]

\* reporter_transfer_protocol_sum_* at the end of an interval: the levels
\* change only if the sum is printed.
SumInterval(g) ==
  LET c == [SetTimestamps(g) EXCEPT !.cnt = g.cur - g.prev]
  IN Shift(IF c.mask THEN c ELSE ResetSum(c))

\* Mutant: the final sum is that of the last interval.
SumFinalLast(g) == [g EXCEPT !.cnt = g.cur - g.prev]

\* The same at the end: with UDP a printed sum is reset.
SumFinal(g) ==
  LET c == [g EXCEPT !.cnt = g.cur]
  IN IF kind \in UDP
     THEN IF c.mask THEN c ELSE ResetSum(c)
     ELSE IF g.cnt > 0 THEN Shift(c) ELSE c

\* The interval of a flow is over for the sum, which may complete the sum's.
CountDown(g, i) ==
  LET d == IF i.downlevel # g.downlevel THEN [g EXCEPT !.down = @ + 1] ELSE g
  IN IF d.down = d.up
     THEN SumInterval([d EXCEPT !.mask = ~(d.count > 1 \/ sumOnly)])
     ELSE d

\* What the transfer_protocol handler of a flow counts for an interval.
Counted(i, t) == [i EXCEPT !.time = t, !.cnt = i.cur - i.prev]

\* reporter_condprint_time_interval_report: a packet after the end of the
\* interval makes the report.
IntervalReport(g, i, t) ==
  LET c == SetTimestamps(Counted(i, t))
  IN IF i.next >= t
     THEN [group |-> g, info |-> i, advance |-> FALSE]
     ELSE [group |-> CountDown([g EXCEPT !.cur = @ + c.cnt], i),
           info |-> [Shift(c) EXCEPT !.next = @ + Missed(c, t) * Interval,
                                     !.downlevel = IF @ # g.downlevel
                                                   THEN Toggle(@) ELSE @],
           advance |-> TRUE]

\* Mutant: the sum is given all that the flow has counted.
FinalReportAll(g, i, t) ==
  [group |-> [g EXCEPT !.cur = @ + i.cur, !.time = IF @ > t THEN t ELSE @,
                       !.finals = @ + 1],
   info |-> [i EXCEPT !.time = t, !.cnt = i.cur]]

\* What is left of the last interval at the end: the handler of a bounceback
\* client does not count it again.
Left(i) == IF kind = "client_bb" THEN i.cnt ELSE i.cur - i.prev

\* With TCP it is reported on its own.
Partial(i) == kind \in TCP /\ Left(i) > 0 /\ ~sumOnly

\* The handler with final set: what is left goes into the sum, except at a
\* bounceback client.  The sum keeps the smaller of its own time and that of
\* the packet, which is 0 as long as no flow has had a sample.
FinalReport(g, i, t) ==
     [group |->
        [g EXCEPT !.cur = IF kind = "client_bb" THEN @ ELSE @ + Left(i),
                  !.down = IF i.downlevel # g.downlevel THEN @ + 1 ELSE @,
                  !.up = IF i.uplevel # g.uplevel THEN @ + 1 ELSE @,
                  !.time = IF @ > t THEN t ELSE @,
                  !.finals = @ + 1],
      info |-> [i EXCEPT !.time = t, !.cnt = i.cur,
                         !.prev = IF Partial(i) THEN i.cur ELSE @]]
-----------------------------------------------------------------------------
(* The reporter.                                                           *)

\* reporter_jobq_set_root: what is posted goes first.
SetRoot ==
  /\ at = 0
  /\ pending \o root # <<>>
  /\ root' = pending \o root
  /\ pending' = <<>>
  /\ at' = 1
  /\ UNCHANGED <<config, now, threads, ring, info, host, last>>

Following(list, n) == IF n < Len(list) THEN n + 1 ELSE 0

\* The ring is empty, or nothing is left of it to see in this round.
Advance ==
  /\ at # 0
  /\ ring[root[at]] = <<>>
  /\ at' = Following(root, at)
  /\ UNCHANGED <<config, now, threads, ring, info, host, pending, root, last>>

\* A packet of reporter_process_transfer_report that is not final.
ProcessPacket ==
  /\ at # 0
  /\ LET f == root[at]
         p == Head(ring[f])
         u == CountUp(group, info[f], p.time)
         r == IntervalReport(u.group, u.info, p.time)
     IN /\ ring[f] # <<>> /\ ~p.final
        /\ ring' = [ring EXCEPT ![f] = Tail(@)]
        /\ info' = [info EXCEPT ![f] = [r.info EXCEPT !.cur = @ + 1,
                                                      !.time = p.time]]
        /\ group' = [r.group EXCEPT !.time = p.time]
        /\ at' = IF r.advance THEN Following(root, at) ELSE at
  /\ UNCHANGED <<config, now, threads, bound, pending, root, last>>

\* The final one: with as many of them as the sum report has had flows at the
\* same time the final sum is made.  The report leaves the list, and the one
\* after it is not looked at in this round.
ProcessFinal ==
  /\ at # 0
  /\ LET f == root[at]
         p == Head(ring[f])
         u == CountUp(group, info[f], p.time)
         r == FinalReport(u.group, u.info, p.time)
         sum == /\ r.group.finals = r.group.maxcount
                /\ r.group.maxcount > 1 \/ sumOnly
         g == IF sum THEN SumFinal(r.group) ELSE r.group
     IN /\ ring[f] # <<>> /\ p.final
        /\ ring' = [ring EXCEPT ![f] = Tail(@)]
        /\ info' = [info EXCEPT ![f] = r.info]
        /\ group' = g
        /\ last' = IF sum /\ ~g.mask THEN g.cnt ELSE last
        /\ pc' = [pc EXCEPT ![f] = "done"]
        /\ root' = SubSeq(root, 1, at - 1) \o SubSeq(root, at + 1, Len(root))
        /\ at' = IF at = Len(root) THEN 0 ELSE Following(root', at)
  /\ UNCHANGED <<config, now, accepted, bound, pending>>
-----------------------------------------------------------------------------
Thread(f) ==
  Push(f) \/ Start(f) \/ ReportPacket(f) \/ EndJob(f) \/ RemoveHost(f)

Reporter == SetRoot \/ Advance \/ ProcessPacket \/ ProcessFinal

Next == Tick \/ Reporter \/ \E f \in Flows : Thread(f)

Spec == Init /\ [][Next]_vars
-----------------------------------------------------------------------------
Levels == {"low", "high"}

InfoType ==
  [start : Nat, next : Nat, time : Nat, prev : Nat, cur : Nat, cnt : Int,
   uplevel : Levels, downlevel : Levels]

GroupType ==
  [live : {TRUE}, members : SUBSET Flows, count : Int, maxcount : Int,
   finals : Nat, start : Nat, next : Nat, time : Nat, prev : Int, cur : Int,
   cnt : Int, up : Int, down : Int, uplevel : Levels, downlevel : Levels,
   mask : BOOLEAN]

\* The types of the variables.
TypeOK ==
  /\ kind \in Kinds /\ sumOnly \in BOOLEAN
  /\ now \in Nat
  /\ pc \in [Flows -> {"idle", "bound", "traffic", "final", "done", "gone"}]
  /\ accepted \in [Flows -> Nat]
  /\ ring \in [Flows -> Seq([time : Nat, final : BOOLEAN])]
  /\ info \in [Flows -> InfoType]
  /\ group \in GroupType \cup {NoGroup}
  /\ bound \in Int
  /\ {pending, root} \subseteq Seq(Flows) /\ at \in 0 .. Len(root)
  /\ last \in Int

\* The flows that the table still has.
Bound == {f \in Flows : pc[f] \in {"bound", "traffic", "final", "done"}}

Ended(f) == pc[f] \in {"done", "gone"}

\* The sum report is there as long as a flow is bound to it, and above all as
\* long as the reporter may have a packet of such a flow: it is freed by the
\* last flow that leaves, in the thread of that flow.  The reference count of
\* the report and the count of the table agree.
SumHeld ==
  /\ group.live <=> Bound # {}
  /\ group.live => /\ bound = Cardinality(Bound)
                   /\ group.count = bound
  /\ \A f \in Flows : ring[f] # <<>> => f \in Bound

\* What a flow has handed to the sum: what its reports up to now have shown,
\* and with the final one everything.
Handed(f) == IF Ended(f) THEN info[f].cur ELSE info[f].prev

\* The bytes of flows: each is one of the first count[f] of its flow.
BytesOf(flows, count) == UNION {{f} \X (1 .. count[f]) : f \in flows}

\* At every moment the total of the sum is what its flows have handed to it,
\* whatever the order of their interval and final reports (not so with
\* bounceback, whose final report leaves the last interval out).
SumAccounts ==
  group.live /\ kind # "client_bb" =>
    group.cur = Cardinality(BytesOf(group.members, [f \in Flows |-> Handed(f)]))

\* The final sum comes after the end of every flow that it is for and has all
\* of their bytes, if all of them were there at the same time: the number of
\* ends is compared with the largest number of flows at a time.
FinalSumComplete ==
  [][last' \notin {last, NoSum} /\ group.maxcount = Cardinality(group.members)
     => /\ \A f \in group.members : Ended(f)'
        /\ kind # "client_bb" =>
             last' = Cardinality(BytesOf(group.members, [f \in Flows |-> info'[f].cur]))]_vars

\* The interval of a flow is never more than one interval behind what has
\* been processed, after a pause of any length: what is missed is caught up
\* with at once.  With --sum-only nothing is printed, and nothing caught up.
KeepsUp ==
  \A f \in Flows : pc[f] \in {"traffic", "final"} /\ ~sumOnly =>
    info[f].time =< info[f].next + Interval
=============================================================================
