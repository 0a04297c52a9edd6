--------------------------- MODULE SumReportsProofs ---------------------------
(***************************************************************************)
(* Proofs about SumReports, for any flows, intervals and rings: the sum    *)
(* report is there for as long as the reporter may have a packet of one of *)
(* its flows, a flow is never more than an interval behind, the total of   *)
(* the sum is what its flows have handed to it, and the final sum is for   *)
(* all of them.                                                            *)
(***************************************************************************)
EXTENDS SumReports, FiniteSetTheorems, SequenceTheorems, TLAPS

\* The final packet is the last of its ring, and nothing comes after it.
FinalLast ==
  \A f \in Flows :
    /\ ring[f] # <<>> => pc[f] \in {"traffic", "final"}
    /\ \A n \in 1 .. Len(ring[f]) :
         ring[f][n].final => pc[f] = "final" /\ n = Len(ring[f])

\* The counts of the sum report and of the table are those of the flows.
Counts ==
  /\ bound = Cardinality(Bound)
  /\ group.live => group.count = bound
  /\ group.live <=> Bound # {}

\* A flow begins with an untouched report and its interval with its start.
Begins ==
  \A f \in Flows :
    /\ pc[f] \in {"idle", "bound"} => info[f] = InitIndividualReport
    /\ info[f].start =< info[f].next

\* The inductive invariant of SumHeld.
IInv == TypeOK /\ FinalLast /\ Counts

-----------------------------------------------------------------------------
(* The operators of the reports.                                           *)

LEMMA Division ==
  ASSUME NEW a \in Nat, NEW b \in Nat \ {0}
  PROVE  a \div b \in Nat /\ (a \div b) * b \in Nat /\ a < (a \div b) * b + b
  <1>1. a \div b \in Nat /\ a < (a \div b) * b + b
    OBVIOUS
  <1>2. \A m, n \in Nat : m * n \in Nat
    OBVIOUS
  <1>3. QED
    BY <1>1, <1>2

\* A report of a sum that stays one, with the same flows, and with so many more
\* bytes and ends.
GrownGroup(g, h, bytes, ends) ==
  /\ h \in GroupType /\ h.count = g.count /\ h.maxcount = g.maxcount
  /\ h.members = g.members
  /\ h.cur = g.cur + bytes /\ h.finals = g.finals + ends
SameGroup(g, h) ==
  /\ h \in GroupType /\ h.count = g.count /\ h.maxcount = g.maxcount
  /\ h.members = g.members
  /\ h.cur = g.cur /\ h.finals = g.finals

\* A report of a flow that keeps its interval and its bytes.
SameInfo(i, j) ==
  /\ j \in InfoType /\ j.start = i.start /\ j.next = i.next /\ j.time = i.time
  /\ j.prev = i.prev /\ j.cur = i.cur

LEMMA GroupFields ==
  ASSUME NEW g \in GroupType
  PROVE  /\ g.live /\ g.members \subseteq Flows
         /\ g.count \in Int /\ g.maxcount \in Int /\ g.finals \in Nat
         /\ g.start \in Nat /\ g.next \in Nat /\ g.time \in Nat
         /\ g.prev \in Int /\ g.cur \in Int /\ g.cnt \in Int
         /\ g.up \in Int /\ g.down \in Int /\ g.mask \in BOOLEAN
         /\ g.uplevel \in Levels /\ g.downlevel \in Levels
  BY DEF GroupType

LEMMA InfoFields ==
  ASSUME NEW i \in InfoType
  PROVE  /\ i.start \in Nat /\ i.next \in Nat /\ i.time \in Nat
         /\ i.prev \in Nat /\ i.cur \in Nat /\ i.cnt \in Int
         /\ i.uplevel \in Levels /\ i.downlevel \in Levels
  BY DEF InfoType

LEMMA ToggleType ==
  ASSUME NEW l PROVE Toggle(l) \in Levels
  BY DEF Toggle, Levels

LEMMA CountUpType ==
  ASSUME NEW g \in GroupType, NEW i \in InfoType, NEW t
  PROVE  /\ SameGroup(g, CountUp(g, i, t).group)
         /\ SameInfo(i, CountUp(g, i, t).info)
  <1>1. \A n \in Int : SameGroup(g, [g EXCEPT !.up = n])
    BY DEF SameGroup, GroupType
  <1>2. \A l \in Levels : SameInfo(i, [i EXCEPT !.uplevel = l])
    BY DEF SameInfo, InfoType
  <1>3. /\ SameGroup(g, [g EXCEPT !.up = @ + 1])
        /\ SameInfo(i, [i EXCEPT !.uplevel = Toggle(@)])
    BY <1>1, <1>2, GroupFields, ToggleType
  <1>4. SameGroup(g, g) /\ SameInfo(i, i)
    BY DEF SameGroup, SameInfo
  <1>5. QED
    BY <1>3, <1>4 DEF CountUp

LEMMA ShiftGroup ==
  ASSUME NEW g \in GroupType
  PROVE  SameGroup(g, Shift(g))
  <1>1. \A n \in Int : SameGroup(g, [g EXCEPT !.prev = n])
    BY DEF SameGroup, GroupType
  <1>2. QED
    BY <1>1, GroupFields DEF Shift

LEMMA ResetSumType ==
  ASSUME NEW g \in GroupType
  PROVE  SameGroup(g, ResetSum(g))
  <1> DEFINE h == Shift(g)
  <1>1. h \in GroupType /\ SameGroup(g, h)
    BY ShiftGroup DEF SameGroup
  <1>2. ResetSum(g) = [h EXCEPT !.up = @ - g.down, !.down = 0,
                                !.uplevel = Toggle(@),
                                !.downlevel = Toggle(@)]
    BY DEF ResetSum
  <1> HIDE DEF h
  <1> DEFINE n == h.up - g.down
             k == Toggle(h.uplevel)
             l == Toggle(h.downlevel)
             z == 0
             r == [h EXCEPT !.up = n, !.down = z, !.uplevel = k,
                            !.downlevel = l]
  <1>3. n \in Int /\ z \in Int /\ k \in Levels /\ l \in Levels
    BY <1>1, GroupFields, ToggleType
  <1>4. ResetSum(g) = r
    BY <1>2
  <1> HIDE DEF n, z, k, l
  <1>5. SameGroup(h, r)
    BY <1>1, <1>3 DEF SameGroup, GroupType
  <1>6. QED
    BY <1>1, <1>4, <1>5 DEF SameGroup

LEMMA SumIntervalType ==
  ASSUME NEW g \in GroupType
  PROVE  SameGroup(g, SumInterval(g))
  <1> DEFINE h == SetTimestamps(g)
  <1> DEFINE c == [h EXCEPT !.cnt = g.cur - g.prev]
  <1> DEFINE d == IF c.mask THEN c ELSE ResetSum(c)
  <1>1. h \in GroupType /\ SameGroup(g, h)
    <2>1. \A n \in Nat : SameGroup(g, [g EXCEPT !.next = n])
      BY DEF SameGroup, GroupType
    <2>2. (IF g.time >= g.start THEN g.next + Interval ELSE g.next) \in Nat
      BY GroupFields, IntervalAssumption
    <2>3. QED
      BY <2>1, <2>2 DEF SetTimestamps, SameGroup
  <1> HIDE DEF h
  <1>2. c \in GroupType /\ SameGroup(g, c)
    <2>1. \A n \in Int : SameGroup(h, [h EXCEPT !.cnt = n])
      BY <1>1 DEF SameGroup, GroupType
    <2>2. g.cur - g.prev \in Int
      BY GroupFields
    <2>3. QED
      BY <1>1, <2>1, <2>2 DEF SameGroup
  <1>3. SumInterval(g) = Shift(d)
    BY DEF SumInterval, h
  <1> HIDE DEF c
  <1>4. d \in GroupType /\ SameGroup(g, d)
    BY <1>2, ResetSumType DEF SameGroup
  <1> HIDE DEF d
  <1>5. QED
    BY <1>3, <1>4, ShiftGroup DEF SameGroup

LEMMA SumFinalType ==
  ASSUME NEW g \in GroupType
  PROVE  SameGroup(g, SumFinal(g))
  <1> DEFINE c == [g EXCEPT !.cnt = g.cur]
  <1>1. c \in GroupType /\ SameGroup(g, c)
    BY GroupFields DEF GroupType, SameGroup
  <1>2. SumFinal(g) \in {c, ResetSum(c), Shift(c)}
    BY DEF SumFinal
  <1> HIDE DEF c
  <1>3. SameGroup(c, ResetSum(c)) /\ SameGroup(c, Shift(c))
    BY <1>1, ResetSumType, ShiftGroup
  <1>4. QED
    BY <1>1, <1>2, <1>3 DEF SameGroup

LEMMA CountDownType ==
  ASSUME NEW g \in GroupType, NEW i \in InfoType, sumOnly \in BOOLEAN
  PROVE  SameGroup(g, CountDown(g, i))
  <1> DEFINE d == IF i.downlevel # g.downlevel THEN [g EXCEPT !.down = @ + 1]
                  ELSE g
  <1> DEFINE m == ~(d.count > 1 \/ sumOnly)
  <1> DEFINE e == [d EXCEPT !.mask = m]
  <1>1. d \in GroupType /\ SameGroup(g, d)
    <2>1. \A n \in Int : SameGroup(g, [g EXCEPT !.down = n])
      BY DEF SameGroup, GroupType
    <2>2. QED
      BY <2>1, GroupFields DEF SameGroup
  <1>2. CountDown(g, i) = IF d.down = d.up THEN SumInterval(e) ELSE d
    BY DEF CountDown
  <1> HIDE DEF d
  <1>3. m \in BOOLEAN
    OBVIOUS
  <1> HIDE DEF m
  <1>4. e \in GroupType /\ SameGroup(d, e)
    BY <1>1, <1>3 DEF GroupType, SameGroup
  <1> HIDE DEF e
  <1>5. QED
    BY <1>1, <1>2, <1>4, SumIntervalType DEF SameGroup

\* An interval report hands to the sum what it takes off the flow, and leaves
\* the flow at the most one interval behind.
LEMMA IntervalReportType ==
  ASSUME NEW g \in GroupType, NEW i \in InfoType, NEW t \in Nat,
         sumOnly \in BOOLEAN,
         NEW r, r = IntervalReport(g, i, t)
  PROVE  /\ GrownGroup(g, r.group, r.info.prev - i.prev, 0)
         /\ r.info \in InfoType
         /\ r.info.cur = i.cur /\ r.info.prev \in {i.prev, i.cur}
         /\ r.advance \in BOOLEAN
         /\ i.start =< i.next =>
              /\ r.info.start =< r.info.next
              /\ ~sumOnly => t =< r.info.next + Interval
  <1> DEFINE j == [i EXCEPT !.time = t, !.cnt = i.cur - i.prev]
  <1> DEFINE c == SetTimestamps(j)
  <1> DEFINE h == [g EXCEPT !.cur = @ + c.cnt]
  <1> DEFINE s == Shift(c)
  <1> DEFINE m == Missed(c, t) * Interval
  <1> DEFINE l == IF s.downlevel # g.downlevel THEN Toggle(s.downlevel)
                  ELSE s.downlevel
  <1> DEFINE o == [s EXCEPT !.next = @ + m, !.downlevel = l]
  <1>1. /\ i.next >= t => r = [group |-> g, info |-> i, advance |-> FALSE]
        /\ i.next < t => r = [group |-> CountDown(h, i), info |-> o,
                              advance |-> TRUE]
    BY InfoFields DEF IntervalReport, Counted
  <1>2. /\ j \in InfoType /\ j.time = t /\ j.start = i.start /\ j.next = i.next
        /\ j.cur = i.cur /\ j.cnt = i.cur - i.prev
    <2>1. i.cur - i.prev \in Int
      BY InfoFields
    <2>2. \A n \in Int :
            LET k == [i EXCEPT !.time = t, !.cnt = n]
            IN k \in InfoType /\ k.time = t /\ k.start = i.start
                 /\ k.next = i.next /\ k.cur = i.cur /\ k.cnt = n
      BY DEF InfoType
    <2>3. QED
      BY <2>1, <2>2
  <1> HIDE DEF j
  <1>3. /\ c \in InfoType /\ c.start = i.start /\ i.next =< c.next
        /\ c.cur = i.cur /\ c.cnt = i.cur - i.prev
        /\ t >= i.start => c.next = i.next + Interval
    <2> DEFINE n == IF j.time >= j.start THEN j.next + Interval ELSE j.next
    <2>1. /\ n \in Nat /\ i.next =< n
          /\ t >= i.start => n = i.next + Interval
      BY <1>2, InfoFields, IntervalAssumption
    <2>2. c = [j EXCEPT !.next = n]
      BY DEF SetTimestamps
    <2> HIDE DEF n, c
    <2>3. /\ c \in InfoType /\ c.start = j.start /\ c.next = n
          /\ c.cur = j.cur /\ c.cnt = j.cnt
      BY <1>2, <2>1, <2>2 DEF InfoType
    <2>4. QED
      BY <1>2, <2>1, <2>3
  <1> HIDE DEF c
  <1>4. /\ m \in Nat
        /\ ~sumOnly => t =< c.next + m + Interval
    <2>1. CASE sumOnly \/ t =< c.next
      BY <1>3, <2>1, InfoFields, IntervalAssumption DEF Missed
    <2>2. CASE ~sumOnly /\ t > c.next
      <3> DEFINE a == t - c.next - 1
      <3>1. a \in Nat
        BY <1>3, <2>2, InfoFields
      <3>2. /\ Missed(c, t) = (t - c.next - 1) \div Interval
        BY <1>3, <2>2, InfoFields DEF Missed
      <3>3. (a \div Interval) * Interval \in Nat
              /\ a < (a \div Interval) * Interval + Interval
        <4> HIDE DEF a
        <4>1. QED
          BY <3>1, Division, IntervalAssumption
      <3>5. m \in Nat /\ t - c.next - 1 < m + Interval
        BY <3>2, <3>3
      <3> HIDE DEF m
      <3>4. QED
        BY <1>3, <3>5, InfoFields, IntervalAssumption
    <2>3. QED
      BY <1>3, <2>1, <2>2, InfoFields
  <1> HIDE DEF m
  <1>5. h \in GroupType /\ GrownGroup(g, h, i.cur - i.prev, 0)
    <2> DEFINE n == g.cur + c.cnt
    <2>1. n \in Int /\ n = g.cur + (i.cur - i.prev) /\ g.finals + 0 = g.finals
      BY <1>3, GroupFields, InfoFields
    <2>2. h = [g EXCEPT !.cur = n]
      OBVIOUS
    <2> HIDE DEF n, h
    <2>3. QED
      BY <2>1, <2>2 DEF GrownGroup, GroupType
  <1> HIDE DEF h
  <1>6. /\ s \in InfoType /\ s.next = c.next /\ s.start = i.start
        /\ s.cur = i.cur /\ s.prev = i.cur
    <2>1. \A n \in Nat :
            LET k == [c EXCEPT !.prev = n]
            IN k \in InfoType /\ k.next = c.next /\ k.start = c.start
                 /\ k.cur = c.cur /\ k.prev = n
      BY <1>3 DEF InfoType
    <2>2. QED
      BY <1>3, <2>1, InfoFields DEF Shift
  <1> HIDE DEF s
  <1>7. l \in Levels
    BY <1>6, InfoFields, ToggleType
  <1> HIDE DEF l
  <1>8. /\ o \in InfoType /\ o.start = i.start /\ o.next = c.next + m
        /\ o.cur = i.cur /\ o.prev = i.cur
    <2>1. \A n \in Nat :
            LET k == [s EXCEPT !.next = n, !.downlevel = l]
            IN k \in InfoType /\ k.start = s.start /\ k.next = n
                 /\ k.cur = s.cur /\ k.prev = s.prev
      BY <1>6, <1>7 DEF InfoType
    <2>2. s.next + m \in Nat
      BY <1>4, <1>6, InfoFields
    <2>3. QED
      BY <1>6, <2>1, <2>2
  <1> HIDE DEF o
  <1>9. CASE i.next >= t
    <2>1. r.group = g /\ r.info = i /\ r.advance = FALSE
      BY <1>1, <1>9
    <2>2. t =< i.next + Interval
      BY <1>9, InfoFields, IntervalAssumption
    <2>3. GrownGroup(g, g, i.prev - i.prev, 0)
      BY GroupFields, InfoFields DEF GrownGroup
    <2>4. QED
      BY <2>1, <2>2, <2>3
  <1>10. CASE i.next < t
    <2>1. GrownGroup(g, CountDown(h, i), i.cur - i.prev, 0)
      BY <1>5, CountDownType DEF SameGroup, GrownGroup
    <2>2. i.start =< i.next => i.start =< c.next + m
      BY <1>3, <1>4, InfoFields
    <2>3. r.group = CountDown(h, i) /\ r.info = o /\ r.advance = TRUE
      BY <1>1, <1>10
    <2>4. QED
      BY <1>4, <1>8, <2>1, <2>2, <2>3
  <1>11. QED
    BY <1>9, <1>10, InfoFields

\* What a final report hands to the sum.
FinalBytes(i) == IF kind = "client_bb" THEN 0 ELSE i.cur - i.prev

LEMMA FinalReportType ==
  ASSUME NEW g \in GroupType, NEW i \in InfoType, NEW t \in Nat,
         NEW r, r = FinalReport(g, i, t)
  PROVE  /\ GrownGroup(g, r.group, FinalBytes(i), 1)
         /\ r.info \in InfoType
         /\ r.info.cur = i.cur /\ r.info.prev \in {i.prev, i.cur}
         /\ r.info.start = i.start /\ r.info.next = i.next
  <1> DEFINE left == IF kind = "client_bb" THEN i.cnt ELSE i.cur - i.prev
             partial == kind \in TCP /\ left > 0 /\ ~sumOnly
             cur == IF kind = "client_bb" THEN g.cur ELSE g.cur + left
             down == IF i.downlevel # g.downlevel THEN g.down + 1 ELSE g.down
             up == IF i.uplevel # g.uplevel THEN g.up + 1 ELSE g.up
             time == IF g.time > t THEN t ELSE g.time
             finals == g.finals + 1
             prev == IF partial THEN i.cur ELSE i.prev
             h == [g EXCEPT !.cur = cur, !.down = down, !.up = up,
                            !.time = time, !.finals = finals]
             j == [i EXCEPT !.time = t, !.cnt = i.cur, !.prev = prev]
  <1>1. r = [group |-> h, info |-> j]
    <2>1. Left(i) = left
      BY DEF Left
    <2>2. Partial(i) = partial
      BY <2>1 DEF Partial
    <2>3. QED
      BY <2>1, <2>2 DEF FinalReport
  <1>2. left \in Int
    BY InfoFields
  <1>3. cur \in Int /\ cur = g.cur + FinalBytes(i)
    BY <1>2, GroupFields, InfoFields DEF FinalBytes
  <1>4. prev \in Nat /\ i.cur \in Int /\ prev \in {i.prev, i.cur}
    BY InfoFields
  <1>5. /\ down \in Int /\ up \in Int /\ time \in Nat
        /\ finals \in Nat /\ finals = g.finals + 1
    BY GroupFields
  <1> HIDE DEF left, partial, cur, down, up, time, finals, prev
  <1>6. GrownGroup(g, h, FinalBytes(i), 1)
    BY <1>3, <1>5 DEF GrownGroup, GroupType
  <1>7. /\ j \in InfoType /\ j.start = i.start /\ j.next = i.next
        /\ j.cur = i.cur /\ j.prev = prev
    BY <1>4 DEF InfoType
  <1> HIDE DEF h, j
  <1>8. r.group = h /\ r.info = j
    BY <1>1
  <1>9. QED
    BY <1>4, <1>6, <1>7, <1>8
-----------------------------------------------------------------------------
(* The flows of the table.                                                 *)

LEMMA BoundFinite == IsFiniteSet(Bound) /\ Cardinality(Bound) \in Nat
  <1>1. Bound \subseteq Flows
    BY DEF Bound
  <1>2. QED
    BY <1>1, FS_Subset, FS_CardinalityType, FlowsAssumption

\* A flow that moves within the table leaves its counts.
LEMMA SameBound ==
  ASSUME NEW f \in Flows, NEW p, f \in Bound,
         pc \in [Flows -> {"idle", "bound", "traffic", "final", "done", "gone"}],
         p \in {"bound", "traffic", "final", "done"},
         pc' = [pc EXCEPT ![f] = p]
  PROVE  Bound' = Bound
  BY DEF Bound

Pcs == {"idle", "bound", "traffic", "final", "done", "gone"}

Packet == [time : Nat, final : BOOLEAN]

LEMMA InitInv == Init => IInv
  <1> SUFFICES ASSUME Init PROVE IInv
    OBVIOUS
  <1>1. kind \in Kinds /\ sumOnly \in BOOLEAN
    BY TestsAssumption DEF Init
  <1>2. InitIndividualReport \in InfoType
    BY DEF InitIndividualReport, InfoType, Levels
  <1>3. TypeOK
    BY <1>1, <1>2 DEF Init, TypeOK, NoSum
  <1>4. FinalLast
    BY DEF Init, FinalLast
  <1>5. Bound = {}
    BY DEF Init, Bound
  <1>6. Counts
    BY <1>5, FS_EmptySet DEF Init, Counts, NoGroup
  <1>7. QED
    BY <1>3, <1>4, <1>6 DEF IInv

LEMMA InitSumType ==
  /\ InitSumReport \in GroupType
  /\ InitSumReport.count = 0 /\ InitSumReport.maxcount = 0
  BY DEF InitSumReport, GroupType, Levels

\* A flow of the table has a sum report.
LEMMA LiveType ==
  ASSUME TypeOK, Counts, Bound # {}
  PROVE  group \in GroupType /\ group.count = bound
  BY DEF TypeOK, Counts, NoGroup

LEMMA PushInv ==
  ASSUME IInv, NEW f \in Flows, Push(f)
  PROVE  IInv'
  <1> USE DEF IInv
  <1> DEFINE g == IF Iperf_host_present THEN group ELSE InitSumReport
  <1> DEFINE m == IF g.count + 1 > g.maxcount THEN g.count + 1 ELSE g.maxcount
  <1>1. /\ Bound' = Bound \cup {f} /\ f \notin Bound
        /\ pc' \in [Flows -> Pcs]
    BY DEF Push, Iperf_host_present, Bound, TypeOK, Pcs
  <1>2. bound \in Nat /\ bound' = Cardinality(Bound')
    BY <1>1, BoundFinite, FS_AddElement DEF Counts, Push, Iperf_host_present
  <1>3. g \in GroupType /\ g.count = bound
    <2>1. CASE bound = 0
      BY <2>1, InitSumType DEF Iperf_host_present
    <2>2. CASE bound # 0
      <3>1. Bound # {}
        BY <2>2, FS_EmptySet DEF Counts
      <3>2. QED
        BY <1>2, <2>2, <3>1, LiveType DEF Iperf_host_present
    <2>3. QED
      BY <2>1, <2>2
  <1>4. group' = [g EXCEPT !.members = @ \cup {f}, !.count = @ + 1,
                           !.maxcount = m]
    BY DEF Push, Iperf_host_present
  <1> HIDE DEF g
  <1>5. g.members \cup {f} \in SUBSET Flows /\ g.count + 1 \in Int /\ m \in Int
    BY <1>3, GroupFields
  <1> HIDE DEF m
  <1>6. group' \in GroupType /\ group'.count = bound'
    <2> DEFINE a == g.members \cup {f}
               b == g.count + 1
    <2>1. group' = [g EXCEPT !.members = a, !.count = b, !.maxcount = m]
      BY <1>4
    <2>2. b = bound'
      BY <1>3 DEF Push, Iperf_host_present
    <2>3. a \in SUBSET Flows /\ b \in Int
      BY <1>5
    <2> HIDE DEF a, b
    <2>4. QED
      BY <1>3, <1>5, <2>1, <2>2, <2>3 DEF GroupType
  <1>7. accepted' \in [Flows -> Nat]
    BY DEF Push, Iperf_host_present, TypeOK
  <1>8. TypeOK'
    BY <1>1, <1>2, <1>6, <1>7 DEF TypeOK, Push, Iperf_host_present, config, jobs, Pcs, NoSum
  <1>9. FinalLast'
    BY DEF FinalLast, Push, Iperf_host_present, TypeOK
  <1>10. Counts'
    BY <1>1, <1>2, <1>6, GroupFields DEF Counts
  <1>11. QED
    BY <1>8, <1>9, <1>10

LEMMA StartInv ==
  ASSUME IInv, NEW f \in Flows, Start(f)
  PROVE  IInv'
  <1> USE DEF IInv
  <1> DEFINE s == StartTime(f)
  <1> DEFINE n == s + Interval
  <1>1. f \in Bound /\ Bound' = Bound /\ pc' \in [Flows -> Pcs]
    BY DEF Start, TypeOK, Bound, Pcs
  <1>2. group \in GroupType /\ group.count = bound
    BY <1>1, LiveType
  <1>3. s \in Nat /\ n \in Nat
    BY IntervalAssumption DEF TypeOK, StartTime
  <1>4. /\ info' = [info EXCEPT ![f].start = s, ![f].next = n]
        /\ group' = IF group.start # 0 THEN group
                    ELSE [group EXCEPT !.start = s, !.next = n]
        /\ bound' = bound
    BY DEF Start
  <1> HIDE DEF n, s
  <1>5. group' \in GroupType /\ group'.count = bound'
    BY <1>2, <1>3, <1>4 DEF GroupType
  <1>6. info' \in [Flows -> InfoType]
    <2>1. info[f] \in InfoType
      BY DEF TypeOK
    <2>2. [info[f] EXCEPT !.start = s, !.next = n] \in InfoType
      BY <1>3, <2>1 DEF InfoType
    <2>3. info' = [info EXCEPT ![f] = [info[f] EXCEPT !.start = s, !.next = n]]
      BY <1>4 DEF TypeOK
    <2>4. QED
      BY <2>2, <2>3 DEF TypeOK
  <1>7. pending' \in Seq(Flows)
    BY DEF Start, TypeOK
  <1>8. TypeOK'
    BY <1>1, <1>5, <1>6, <1>7 DEF TypeOK, Start, config, Pcs
  <1>9. FinalLast'
    BY DEF FinalLast, Start, TypeOK
  <1>10. Counts'
    BY <1>1, <1>2, <1>4, <1>5, GroupFields DEF Counts
  <1>11. QED
    BY <1>8, <1>9, <1>10

\* What a traffic thread puts in its ring: p is its packet.
LEMMA PutInv ==
  ASSUME IInv, NEW f \in Flows, NEW p \in Packet, pc[f] = "traffic",
         ring' = [ring EXCEPT ![f] = Append(@, p)],
         pc' = IF p.final THEN [pc EXCEPT ![f] = "final"] ELSE pc,
         UNCHANGED <<config, now, accepted, info, host, jobs, last>>
  PROVE  IInv'
  <1> USE DEF IInv
  <1>1. Bound' = Bound
    BY DEF TypeOK, Bound
  <1>2. /\ ring \in [Flows -> Seq(Packet)]
        /\ ring'[f] = Append(ring[f], p)
        /\ \A g \in Flows : g # f => ring'[g] = ring[g]
    BY DEF TypeOK, Packet
  <1>3. ring' \in [Flows -> Seq(Packet)] /\ pc' \in [Flows -> Pcs]
    BY <1>2 DEF TypeOK, Pcs
  <1>4. TypeOK'
    BY <1>3 DEF TypeOK, Pcs, Packet, config, host, jobs
  <1>5. FinalLast'
    <2> SUFFICES ASSUME NEW g \in Flows
                 PROVE  /\ ring'[g] # <<>> => pc'[g] \in {"traffic", "final"}
                        /\ \A n \in 1 .. Len(ring'[g]) :
                             ring'[g][n].final => pc'[g] = "final"
                                                  /\ n = Len(ring'[g])
      BY DEF FinalLast
    <2>1. CASE g # f
      BY <1>2, <2>1 DEF FinalLast, TypeOK
    <2>2. CASE g = f
      <3>1. \A n \in 1 .. Len(ring[f]) : ~ring[f][n].final
        BY DEF FinalLast
      <3>2. /\ Len(ring'[f]) = Len(ring[f]) + 1
            /\ \A n \in 1 .. Len(ring[f]) : ring'[f][n] = ring[f][n]
            /\ ring'[f][Len(ring[f]) + 1] = p
        BY <1>2, AppendProperties
      <3>3. Len(ring[f]) \in Nat
        BY <1>2, LenProperties
      <3>4. p.final => pc'[f] = "final"
        BY DEF TypeOK
      <3>5. pc'[f] \in {"traffic", "final"}
        BY DEF TypeOK
      <3>6. QED
        BY <2>2, <3>1, <3>2, <3>3, <3>4, <3>5
    <2>3. QED
      BY <2>1, <2>2
  <1>6. Counts'
    BY <1>1 DEF Counts, host
  <1>7. QED
    BY <1>4, <1>5, <1>6

LEMMA RemoveHostInv ==
  ASSUME IInv, NEW f \in Flows, RemoveHost(f)
  PROVE  IInv'
  <1> USE DEF IInv
  <1>1. /\ Bound' = Bound \ {f} /\ f \in Bound
        /\ pc' \in [Flows -> Pcs]
    BY DEF RemoveHost, Bound, TypeOK, Pcs
  <1>2. group \in GroupType /\ group.count = bound
    BY <1>1, LiveType
  <1>3. bound \in Nat /\ bound' = Cardinality(Bound')
    BY <1>1, BoundFinite, FS_RemoveElement DEF Counts, RemoveHost
  <1>4. bound = 1 <=> Bound' = {}
    <2>1. IsFiniteSet(Bound')
      BY <1>1, BoundFinite, FS_RemoveElement
    <2>2. Bound' = {} <=> bound' = 0
      BY <1>3, <2>1, FS_EmptySet
    <2>3. QED
      BY <1>3, <2>2 DEF RemoveHost
  <1>5. /\ bound = 1 => group' = NoGroup
        /\ bound # 1 => group' \in GroupType /\ group'.count = bound'
    <2>1. bound # 1 => group' = [group EXCEPT !.count = bound - 1]
      BY <1>2 DEF RemoveHost
    <2> DEFINE b == bound - 1
    <2>2. b \in Int /\ b = bound'
      BY <1>3 DEF RemoveHost
    <2>3. bound # 1 => group' = [group EXCEPT !.count = b]
      BY <2>1
    <2> HIDE DEF b
    <2>4. bound # 1 => group' \in GroupType /\ group'.count = bound'
      BY <1>2, <2>2, <2>3 DEF GroupType
    <2>5. QED
      BY <2>4 DEF RemoveHost
  <1>6. TypeOK'
    BY <1>1, <1>3, <1>5, BoundFinite
       DEF TypeOK, RemoveHost, config, jobs, Pcs
  <1>7. FinalLast'
    <2>1. ring[f] = <<>>
      BY DEF RemoveHost, FinalLast
    <2>2. QED
      BY <2>1 DEF FinalLast, RemoveHost, TypeOK
  <1>8. Counts'
    <2>1. group'.live <=> bound # 1
      BY <1>5, GroupFields DEF NoGroup
    <2>2. QED
      BY <1>3, <1>4, <1>5, <2>1 DEF Counts
  <1>9. QED
    BY <1>6, <1>7, <1>8

\* The reporter has a packet of a flow f: the flow is in the table, its sum
\* report is there, and after CountUp both records are still typed.
LEMMA PacketSeen ==
  ASSUME IInv, at # 0, ring[root[at]] # <<>>
  PROVE  /\ root[at] \in Flows
         /\ pc[root[at]] \in {"traffic", "final"} /\ root[at] \in Bound
         /\ group \in GroupType /\ group.count = bound
         /\ info[root[at]] \in InfoType
         /\ Head(ring[root[at]]) \in Packet
         /\ Head(ring[root[at]]) = ring[root[at]][1]
         /\ Tail(ring[root[at]]) \in Seq(Packet)
         /\ Len(Tail(ring[root[at]])) = Len(ring[root[at]]) - 1
         /\ Len(ring[root[at]]) \in Nat \ {0}
         /\ \A n \in 1 .. Len(Tail(ring[root[at]])) :
              Tail(ring[root[at]])[n] = ring[root[at]][n + 1]
  <1> USE DEF IInv
  <1>1. root[at] \in Flows
    BY DEF TypeOK
  <1>2. pc[root[at]] \in {"traffic", "final"} /\ root[at] \in Bound
    BY <1>1 DEF FinalLast, Bound
  <1>3. group \in GroupType /\ group.count = bound
    BY <1>2, LiveType
  <1>4. ring[root[at]] \in Seq(Packet) /\ info[root[at]] \in InfoType
    BY <1>1 DEF TypeOK, Packet
  <1>5. QED
    BY <1>1, <1>2, <1>3, <1>4, HeadTailProperties, LenProperties

LEMMA ProcessPacketInv ==
  ASSUME IInv, ProcessPacket
  PROVE  IInv'
  <1> USE DEF IInv
  <1> DEFINE f == root[at]
             p == Head(ring[f])
             u == CountUp(group, info[f], p.time)
             r == IntervalReport(u.group, u.info, p.time)
             c == r.info.cur + 1
             t == p.time
  <1>1. /\ at # 0 /\ ring[f] # <<>> /\ ~p.final
        /\ ring' = [ring EXCEPT ![f] = Tail(@)]
        /\ info' = [info EXCEPT ![f] = [r.info EXCEPT !.cur = c, !.time = t]]
        /\ group' = [r.group EXCEPT !.time = t]
        /\ at' = IF r.advance THEN Following(root, at) ELSE at
        /\ UNCHANGED <<config, now, threads, bound, pending, root, last>>
    BY DEF ProcessPacket
  <1>2. /\ f \in Flows /\ pc[f] \in {"traffic", "final"}
        /\ group \in GroupType /\ group.count = bound /\ info[f] \in InfoType
        /\ p \in Packet /\ Tail(ring[f]) \in Seq(Packet)
        /\ Len(Tail(ring[f])) = Len(ring[f]) - 1
        /\ Len(ring[f]) \in Nat \ {0}
        /\ \A n \in 1 .. Len(Tail(ring[f])) :
             Tail(ring[f])[n] = ring[f][n + 1]
    BY <1>1, PacketSeen
  <1>3. t \in Nat
    BY <1>2 DEF Packet
  <1> HIDE DEF p, t, f
  <1>4. /\ u.group \in GroupType /\ u.group.count = bound
        /\ u.info \in InfoType
    BY <1>2, CountUpType DEF SameGroup, SameInfo
  <1> HIDE DEF u
  <1>5. /\ r.group \in GroupType /\ r.group.count = bound
        /\ r.info \in InfoType /\ c \in Nat
    <2>1. sumOnly \in BOOLEAN
      BY DEF TypeOK
    <2>2. r.info \in InfoType /\ r.group \in GroupType /\ r.group.count = u.group.count
      BY <1>3, <1>4, <2>1, IntervalReportType DEF t, GrownGroup
    <2>3. QED
      BY <1>4, <2>2, InfoFields
  <1>6. at' \in 0 .. Len(root')
    BY <1>1 DEF TypeOK, Following
  <1> HIDE DEF r, c
  <1>7. group' \in GroupType /\ group'.count = bound'
    BY <1>1, <1>3, <1>5 DEF GroupType
  <1>8. [r.info EXCEPT !.cur = c, !.time = t] \in InfoType
    BY <1>3, <1>5 DEF InfoType
  <1>9. info' \in [Flows -> InfoType] /\ ring' \in [Flows -> Seq(Packet)]
    BY <1>1, <1>2, <1>8 DEF TypeOK, Packet
  <1>10. TypeOK'
    BY <1>1, <1>6, <1>7, <1>9 DEF TypeOK, config, threads, Packet
  <1>11. FinalLast'
    <2> SUFFICES ASSUME NEW g \in Flows
                 PROVE  /\ ring'[g] # <<>> => pc[g] \in {"traffic", "final"}
                        /\ \A n \in 1 .. Len(ring'[g]) :
                             ring'[g][n].final => pc[g] = "final"
                                                  /\ n = Len(ring'[g])
      BY <1>1 DEF FinalLast, threads
    <2>1. CASE g # f
      <3>1. ring'[g] = ring[g]
        BY <1>1, <1>2, <2>1 DEF TypeOK
      <3>2. QED
        BY <3>1 DEF FinalLast
    <2>2. CASE g = f
      <3>1. ring'[g] = Tail(ring[f])
        BY <1>1, <1>2, <2>2 DEF TypeOK
      <3>2. \A n \in 1 .. Len(Tail(ring[f])) :
              Tail(ring[f])[n].final => /\ pc[f] = "final"
                                        /\ n + 1 = Len(ring[f])
        BY <1>2 DEF FinalLast
      <3>3. QED
        BY <1>2, <2>2, <3>1, <3>2
    <2>3. QED
      BY <2>1, <2>2
  <1>12. Counts'
    <2>1. Bound' = Bound /\ Bound # {}
      BY <1>1, <1>2 DEF Bound, threads
    <2>2. QED
      BY <1>1, <1>7, <2>1, GroupFields DEF Counts
  <1>13. QED
    BY <1>10, <1>11, <1>12

\* A report leaves the list.
LEMMA RemoveOne ==
  ASSUME NEW S, NEW s \in Seq(S), NEW n \in 1 .. Len(s)
  PROVE  LET r == SubSeq(s, 1, n - 1) \o SubSeq(s, n + 1, Len(s))
         IN r \in Seq(S) /\ Len(r) = Len(s) - 1
  <1> DEFINE a == SubSeq(s, 1, n - 1)
             b == SubSeq(s, n + 1, Len(s))
  <1>1. Len(s) \in Nat
    BY LenProperties
  <1>2. a \in Seq(S) /\ Len(a) = n - 1
    BY <1>1
  <1>3. b \in Seq(S) /\ Len(b) = Len(s) - n
    <2>1. \A k \in n + 1 .. Len(s) : s[k] \in S
      BY <1>1, ElementOfSeq
    <2>2. n + 1 \in Int /\ Len(s) \in Int
      BY <1>1
    <2>3. b \in Seq(S) /\ Len(b) = IF n + 1 =< Len(s)
                                  THEN Len(s) - (n + 1) + 1 ELSE 0
      BY <2>1, <2>2, SubSeqProperties
    <2>4. QED
      BY <1>1, <2>3
  <1> HIDE DEF a, b
  <1>4. a \o b \in Seq(S) /\ Len(a \o b) = Len(s) - 1
    <2>1. a \o b \in Seq(S) /\ Len(a \o b) = Len(a) + Len(b)
      BY <1>2, <1>3, ConcatProperties
    <2>2. QED
      BY <1>1, <1>2, <1>3, <2>1
  <1>5. QED
    BY <1>4 DEF a, b

LEMMA ProcessFinalInv ==
  ASSUME IInv, ProcessFinal
  PROVE  IInv'
  <1> USE DEF IInv
  <1> DEFINE f == root[at]
             p == Head(ring[f])
             t == p.time
             u == CountUp(group, info[f], t)
             r == FinalReport(u.group, u.info, t)
             sum == /\ r.group.finals = r.group.maxcount
                    /\ r.group.maxcount > 1 \/ sumOnly
             g == IF sum THEN SumFinal(r.group) ELSE r.group
  <1>1. /\ at # 0 /\ ring[f] # <<>> /\ p.final
        /\ ring' = [ring EXCEPT ![f] = Tail(@)]
        /\ info' = [info EXCEPT ![f] = r.info]
        /\ group' = g
        /\ last' = IF sum /\ ~g.mask THEN g.cnt ELSE last
        /\ pc' = [pc EXCEPT ![f] = "done"]
        /\ root' = SubSeq(root, 1, at - 1) \o SubSeq(root, at + 1, Len(root))
        /\ at' = IF at = Len(root) THEN 0 ELSE Following(root', at)
        /\ UNCHANGED <<config, now, accepted, bound, pending>>
    BY DEF ProcessFinal
  <1>2. /\ f \in Flows /\ pc[f] \in {"traffic", "final"} /\ f \in Bound
        /\ group \in GroupType /\ group.count = bound /\ info[f] \in InfoType
        /\ p \in Packet /\ Tail(ring[f]) \in Seq(Packet)
        /\ Len(Tail(ring[f])) = Len(ring[f]) - 1
        /\ Len(ring[f]) \in Nat \ {0} /\ p = ring[f][1]
        /\ Len(Tail(ring[f])) = 0 => Tail(ring[f]) = <<>>
    <2>1. \A q \in Seq(Packet) : Len(q) = 0 => q = <<>>
      BY EmptySeq
    <2>2. QED
      BY <1>1, <2>1, PacketSeen
  <1> HIDE DEF p, t, f, u, r, sum, g
  <1>3. t \in Nat
    BY <1>2 DEF Packet, t
  <1>4. Len(ring[f]) = 1
    <2>1. ring[f][1].final /\ 1 \in 1 .. Len(ring[f])
      BY <1>1, <1>2
    <2>2. QED
      BY <1>2, <2>1 DEF FinalLast
  <1>5. /\ root' \in Seq(Flows) /\ at' \in 0 .. Len(root')
    <2>1. at \in 1 .. Len(root) /\ root \in Seq(Flows)
      BY <1>1 DEF TypeOK
    <2>2. root' \in Seq(Flows) /\ Len(root') = Len(root) - 1
      <3>1. root' = SubSeq(root, 1, at - 1) \o SubSeq(root, at + 1, Len(root))
        BY <1>1
      <3>2. QED
        BY <2>1, <3>1, RemoveOne
    <2>3. Len(root') \in Nat
      BY <2>2
    <2>4. Following(root', at) \in 0 .. Len(root')
      BY <2>1, <2>3 DEF Following
    <2>5. 0 \in 0 .. Len(root')
      BY <2>3
    <2>6. QED
      BY <1>1, <2>2, <2>4, <2>5
  <1>6. /\ u.group \in GroupType /\ u.group.count = bound
        /\ u.info \in InfoType
    BY <1>2, CountUpType DEF SameGroup, SameInfo, u
  <1>7. /\ r.group \in GroupType /\ r.group.count = bound
        /\ r.info \in InfoType
    BY <1>3, <1>6, FinalReportType DEF GrownGroup, r
  <1>8. g \in GroupType /\ g.count = bound
    BY <1>7, SumFinalType DEF SameGroup, g
  <1>9. last' \in Int
    BY <1>1, <1>8, GroupFields DEF TypeOK
  <1>10. /\ info' \in [Flows -> InfoType] /\ ring' \in [Flows -> Seq(Packet)]
         /\ pc' \in [Flows -> Pcs]
    BY <1>1, <1>2, <1>7 DEF TypeOK, Packet, Pcs
  <1>11. TypeOK'
    BY <1>1, <1>5, <1>8, <1>9, <1>10 DEF TypeOK, config, Packet, Pcs
  <1>12. FinalLast'
    <2> SUFFICES ASSUME NEW h \in Flows
                 PROVE  /\ ring'[h] # <<>> => pc'[h] \in {"traffic", "final"}
                        /\ \A n \in 1 .. Len(ring'[h]) :
                             ring'[h][n].final => pc'[h] = "final"
                                                  /\ n = Len(ring'[h])
      BY DEF FinalLast
    <2>1. CASE h # f
      <3>1. ring'[h] = ring[h] /\ pc'[h] = pc[h]
        BY <1>1, <1>2, <2>1 DEF TypeOK
      <3>2. QED
        BY <3>1 DEF FinalLast
    <2>2. CASE h = f
      <3>1. ring'[h] = Tail(ring[f])
        BY <1>1, <1>2, <2>2 DEF TypeOK
      <3>2. ring'[h] = <<>>
        BY <1>2, <1>4, <3>1
      <3>3. QED
        BY <3>2, LenProperties
    <2>3. QED
      BY <2>1, <2>2
  <1>13. Counts'
    <2>1. Bound' = Bound /\ Bound # {}
      BY <1>1, <1>2, SameBound DEF TypeOK
    <2>2. QED
      BY <1>1, <1>8, <2>1, GroupFields DEF Counts
  <1>14. QED
    BY <1>11, <1>12, <1>13

LEMMA NextInv == IInv /\ [Next]_vars => IInv'
  <1> SUFFICES ASSUME IInv, [Next]_vars PROVE IInv'
    OBVIOUS
  <1>1. CASE UNCHANGED vars
    BY <1>1 DEF IInv, TypeOK, FinalLast, Counts, Bound, vars, config, threads,
                host, jobs
  <1>2. CASE Tick
    BY <1>2 DEF IInv, TypeOK, FinalLast, Counts, Bound, Tick, config, threads,
                host, jobs
  <1>3. CASE SetRoot
    <2>1. pending \o root \in Seq(Flows)
      BY DEF IInv, TypeOK
    <2>2. root' \in Seq(Flows) /\ pending' \in Seq(Flows)
      BY <1>3, <2>1 DEF SetRoot
    <2>3. at' \in 0 .. Len(root')
      <3>1. root' # <<>> /\ at' = 1
        BY <1>3 DEF SetRoot
      <3>2. Len(root') \in Nat /\ Len(root') # 0
        BY <2>2, <3>1, EmptySeq, LenProperties
      <3>3. QED
        BY <3>1, <3>2
    <2>4. TypeOK'
      BY <1>3, <2>2, <2>3 DEF IInv, TypeOK, SetRoot, config, threads, host
    <2>5. QED
      BY <1>3, <2>4 DEF IInv, FinalLast, Counts, Bound, SetRoot, threads, host
  <1>4. CASE Advance
    <2>1. at' \in 0 .. Len(root)
      BY <1>4 DEF IInv, TypeOK, Advance, Following
    <2>2. TypeOK'
      BY <1>4, <2>1 DEF IInv, TypeOK, Advance, config, threads, host
    <2>3. QED
      BY <1>4, <2>2 DEF IInv, FinalLast, Counts, Bound, Advance, threads, host
  <1>5. ASSUME NEW f \in Flows, Thread(f) PROVE IInv'
    <2>1. CASE Push(f)
      BY <2>1, PushInv
    <2>2. CASE Start(f)
      BY <2>2, StartInv
    <2>3. CASE ReportPacket(f)
      <3>1. [time |-> now, final |-> FALSE] \in Packet
        BY DEF IInv, TypeOK, Packet
      <3>2. /\ pc[f] = "traffic" /\ pc' = pc
            /\ ring' = [ring EXCEPT ![f] =
                          Append(@, [time |-> now, final |-> FALSE])]
            /\ UNCHANGED <<config, now, accepted, info, host, jobs, last>>
        BY <2>3 DEF ReportPacket, threads
      <3>3. QED
        BY <3>1, <3>2, PutInv
    <2>4. CASE EndJob(f)
      <3>1. [time |-> now, final |-> TRUE] \in Packet
        BY DEF IInv, TypeOK, Packet
      <3>2. QED
        BY <2>4, <3>1, PutInv DEF EndJob
    <2>5. CASE RemoveHost(f)
      BY <2>5, RemoveHostInv
    <2>6. QED
      BY <1>5, <2>1, <2>2, <2>3, <2>4, <2>5 DEF Thread
  <1>6. QED
    BY <1>1, <1>2, <1>3, <1>4, <1>5, ProcessPacketInv, ProcessFinalInv
       DEF Next, Reporter
-----------------------------------------------------------------------------
\* The types of the reports, their records, rings and lists.
THEOREM TypeCorrect == Spec => []TypeOK
  <1>1. IInv => TypeOK
    BY DEF IInv
  <1>2. QED
    BY InitInv, NextInv, <1>1, PTL DEF Spec

\* The sum report of a host is there as long as one of its flows has a packet
\* that the reporter has not seen, although the thread of the last flow frees
\* it: EndJob waits for the final packet, and nothing is put in after it.
THEOREM Held == Spec => []SumHeld
  <1>1. IInv => SumHeld
    BY DEF IInv, SumHeld, Counts, FinalLast, Bound
  <1>2. QED
    BY InitInv, NextInv, <1>1, PTL DEF Spec
-----------------------------------------------------------------------------
(* The pause of a flow.                                                    *)

\* What one step makes of the reports of a flow that keeps its interval.
KInv == Begins /\ KeepsUp

LEMMA ProcessPacketKeeps ==
  ASSUME IInv, KInv, ProcessPacket
  PROVE  KInv'
  <1> USE DEF IInv, KInv
  <1> DEFINE f == root[at]
             p == Head(ring[f])
             t == p.time
             u == CountUp(group, info[f], t)
             r == IntervalReport(u.group, u.info, t)
             c == r.info.cur + 1
  <1>1. /\ at # 0 /\ ring[f] # <<>>
        /\ info' = [info EXCEPT ![f] = [r.info EXCEPT !.cur = c, !.time = t]]
        /\ pc' = pc /\ sumOnly' = sumOnly
    BY DEF ProcessPacket, threads, config
  <1> HIDE DEF p, t, f, u, r, c
  <1>2. /\ f \in Flows /\ pc[f] \in {"traffic", "final"}
        /\ group \in GroupType /\ info[f] \in InfoType /\ t \in Nat
    BY <1>1, PacketSeen DEF Packet, p, f, t
  <1>3. u.group \in GroupType /\ SameInfo(info[f], u.info)
    BY <1>2, CountUpType DEF SameGroup, u
  <1>4. /\ r.info \in InfoType
        /\ u.info.start =< u.info.next =>
             /\ r.info.start =< r.info.next
             /\ ~sumOnly => t =< r.info.next + Interval
    <2>1. sumOnly \in BOOLEAN /\ u.info \in InfoType
      BY <1>3 DEF TypeOK, SameInfo
    <2>2. QED
      BY <1>2, <1>3, <2>1, IntervalReportType DEF r
  <1>5. /\ info'[f].start =< info'[f].next
        /\ ~sumOnly => info'[f].time =< info'[f].next + Interval
    <2>1. info'[f] = [r.info EXCEPT !.cur = c, !.time = t]
      BY <1>1, <1>2 DEF TypeOK
    <2>2. /\ info'[f].start = r.info.start /\ info'[f].next = r.info.next
          /\ info'[f].time = t
      BY <1>4, <2>1 DEF InfoType
    <2>3. QED
      BY <1>2, <1>3, <1>4, <2>2 DEF Begins, SameInfo
  <1>6. \A g \in Flows : g # f => info'[g] = info[g]
    BY <1>1, <1>2 DEF TypeOK
  <1>7. QED
    BY <1>1, <1>2, <1>5, <1>6 DEF Begins, KeepsUp

LEMMA ProcessFinalKeeps ==
  ASSUME IInv, KInv, ProcessFinal
  PROVE  KInv'
  <1> USE DEF IInv, KInv
  <1> DEFINE f == root[at]
             p == Head(ring[f])
             t == p.time
             u == CountUp(group, info[f], t)
             r == FinalReport(u.group, u.info, t)
  <1>1. /\ at # 0 /\ ring[f] # <<>>
        /\ info' = [info EXCEPT ![f] = r.info]
        /\ pc' = [pc EXCEPT ![f] = "done"] /\ sumOnly' = sumOnly
    BY DEF ProcessFinal, config
  <1> HIDE DEF p, t, f, u, r
  <1>2. /\ f \in Flows
        /\ group \in GroupType /\ info[f] \in InfoType /\ t \in Nat
    BY <1>1, PacketSeen DEF Packet, p, f, t
  <1>3. u.group \in GroupType /\ SameInfo(info[f], u.info)
    BY <1>2, CountUpType DEF SameGroup, u
  <1>4. r.info.start = u.info.start /\ r.info.next = u.info.next
    BY <1>2, <1>3, FinalReportType DEF SameInfo, r
  <1>5. /\ pc'[f] = "done" /\ info'[f].start =< info'[f].next
        /\ \A g \in Flows : g # f => info'[g] = info[g] /\ pc'[g] = pc[g]
    BY <1>1, <1>2, <1>3, <1>4 DEF TypeOK, Begins, SameInfo
  <1>6. QED
    BY <1>1, <1>5 DEF Begins, KeepsUp

LEMMA InitKeeps == Init => KInv
  <1> SUFFICES ASSUME Init PROVE KInv
    OBVIOUS
  <1>1. InitIndividualReport.start = 0 /\ InitIndividualReport.next = 0
    BY DEF InitIndividualReport
  <1>2. QED
    BY <1>1 DEF Init, KInv, Begins, KeepsUp

LEMMA NextKeeps == IInv /\ KInv /\ [Next]_vars => KInv'
  <1> SUFFICES ASSUME IInv, KInv, [Next]_vars PROVE KInv'
    OBVIOUS
  <1>1. CASE UNCHANGED vars \/ Tick \/ SetRoot \/ Advance
    <2>1. UNCHANGED <<pc, info, sumOnly>>
      BY <1>1 DEF vars, config, threads, Tick, SetRoot, Advance
    <2>2. QED
      BY <2>1 DEF KInv, Begins, KeepsUp
  <1>2. ASSUME NEW f \in Flows, Push(f) \/ RemoveHost(f) PROVE KInv'
    <2>1. /\ UNCHANGED <<info, sumOnly>>
          /\ \A g \in Flows :
               /\ pc'[g] \in {"traffic", "final"} => pc[g] = pc'[g]
               /\ pc'[g] \in {"idle", "bound"} => pc[g] \in {"idle", "bound"}
      BY <1>2 DEF Push, Iperf_host_present, RemoveHost, config, IInv, TypeOK
    <2>2. QED
      BY <2>1 DEF KInv, Begins, KeepsUp
  <1>3. ASSUME NEW f \in Flows, ReportPacket(f) \/ EndJob(f) PROVE KInv'
    <2>1. /\ UNCHANGED <<info, sumOnly>> /\ pc[f] = "traffic"
          /\ pc'[f] \in {"traffic", "final"}
          /\ \A g \in Flows : g # f => pc'[g] = pc[g]
      BY <1>3 DEF ReportPacket, EndJob, config, threads, IInv, TypeOK
    <2>2. QED
      BY <2>1 DEF KInv, Begins, KeepsUp
  <1>4. ASSUME NEW f \in Flows, Start(f) PROVE KInv'
    <2> DEFINE s == StartTime(f)
               n == s + Interval
    <2>1. s \in Nat /\ n \in Nat /\ s =< n
      BY IntervalAssumption DEF IInv, TypeOK, StartTime
    <2>2. /\ info' = [info EXCEPT ![f].start = s, ![f].next = n]
          /\ pc[f] = "bound" /\ pc' = [pc EXCEPT ![f] = "traffic"]
          /\ sumOnly' = sumOnly
      BY <1>4 DEF Start, config
    <2> HIDE DEF s, n
    <2>3. info[f] = InitIndividualReport /\ info[f] \in InfoType
      BY <2>2 DEF KInv, Begins, IInv, TypeOK
    <2>4. info[f].time = 0
      BY <2>3 DEF InitIndividualReport
    <2>5. /\ info'[f] = [info[f] EXCEPT !.start = s, !.next = n]
          /\ \A g \in Flows : g # f => info'[g] = info[g]
      BY <2>2 DEF IInv, TypeOK
    <2>6. info'[f].start = s /\ info'[f].next = n /\ info'[f].time = 0
      BY <2>3, <2>4, <2>5 DEF InfoType
    <2>7. 0 =< n + Interval
      BY <2>1, IntervalAssumption
    <2>8. pc'[f] = "traffic" /\ \A g \in Flows : g # f => pc'[g] = pc[g]
      BY <2>2 DEF IInv, TypeOK
    <2>9. QED
      BY <2>1, <2>2, <2>5, <2>6, <2>7, <2>8 DEF KInv, Begins, KeepsUp
  <1>5. QED
    BY <1>1, <1>2, <1>3, <1>4, ProcessPacketKeeps, ProcessFinalKeeps
       DEF Next, Reporter, Thread

\* However long a flow pauses, its next report is never more than an interval
\* behind: the reports that are missed are made up for at once.
THEOREM Keeps == Spec => []KeepsUp
  <1>1. KInv => KeepsUp
    BY DEF KInv
  <1>2. QED
    BY InitInv, NextInv, InitKeeps, NextKeeps, <1>1, PTL DEF Spec
-----------------------------------------------------------------------------
(* The bytes of the sum.                                                   *)

\* The bytes that a flow has handed to the sum, by flow.
HandedBytes == [f \in Flows |-> Handed(f)]

EndedOf(flows) == {f \in flows : Ended(f)}

\* Who is in the sum report, and how many of them have come to their end.
Members ==
  group.live =>
    /\ Bound \subseteq group.members
    /\ \A f \in group.members : pc[f] # "idle"
    /\ group.finals = Cardinality(EndedOf(group.members))
    /\ IsFiniteSet(BytesOf(group.members, HandedBytes))

\* The inductive invariant of SumAccounts.
AInv ==
  /\ \A f \in Flows : info[f].prev =< info[f].cur
  /\ Members /\ SumAccounts

\* A flow that has got some more bytes.
LEMMA BytesGrow ==
  ASSUME NEW S \in SUBSET Flows, NEW f \in S,
         NEW c \in [Flows -> Nat], NEW d \in [Flows -> Nat],
         c[f] =< d[f], \A g \in S : g # f => d[g] = c[g],
         IsFiniteSet(BytesOf(S, c))
  PROVE  /\ IsFiniteSet(BytesOf(S, d))
         /\ Cardinality(BytesOf(S, d)) = Cardinality(BytesOf(S, c)) + (d[f] - c[f])
  <1> DEFINE m == c[f]
             n == d[f]
             I == m + 1 .. n
             M == {f} \X I
  <1>0. m \in Nat /\ n \in Nat /\ m =< n /\ m + 1 \in Int
    OBVIOUS
  <1>1. IsFiniteSet(I) /\ Cardinality(I) = n - m
    <2> HIDE DEF m, n
    <2>1. \A a, b \in Int : /\ IsFiniteSet(a .. b)
                            /\ Cardinality(a .. b) = IF a > b THEN 0 ELSE b - a + 1
      BY FS_Interval
    <2> DEFINE k == m + 1
    <2>2. I = k .. n /\ k \in Int /\ n \in Int /\ (k > n => n - m = 0) /\ n - k + 1 = n - m
      BY <1>0
    <2> HIDE DEF k, I
    <2>3. QED
      BY <2>1, <2>2
  <1>2. IsFiniteSet({f}) /\ Cardinality({f}) = 1
    BY FS_Singleton
  <1>3. IsFiniteSet(M) /\ Cardinality(M) = n - m
    <2> HIDE DEF I, m, n
    <2>1. IsFiniteSet(M) /\ Cardinality(M) = 1 * (n - m)
      BY <1>1, <1>2, FS_Product
    <2>2. QED
      BY <1>0, <2>1
  <1>4. BytesOf(S, d) = BytesOf(S, c) \cup M
    <2>1. ASSUME NEW x PROVE x \in BytesOf(S, d) <=> x \in BytesOf(S, c) \cup M
      <3>1. x \in BytesOf(S, d) <=> \E g \in S : x \in {g} \X (1 .. d[g])
        BY DEF BytesOf
      <3>2. x \in BytesOf(S, c) <=> \E g \in S : x \in {g} \X (1 .. c[g])
        BY DEF BytesOf
      <3>3. x \in {f} \X (1 .. d[f]) <=> x \in {f} \X (1 .. c[f]) \/ x \in M
        BY DEF I
      <3>4. QED
        BY <3>1, <3>2, <3>3
    <2>2. QED
      BY <2>1
  <1>5. BytesOf(S, c) \cap M = {}
    BY DEF BytesOf, I
  <1>6. Cardinality({}) = 0
    BY FS_EmptySet
  <1> HIDE DEF M
  <1>7. Cardinality(BytesOf(S, c)) \in Nat
    BY FS_CardinalityType
  <1>8. /\ IsFiniteSet(BytesOf(S, c) \cup M)
        /\ Cardinality(BytesOf(S, c) \cup M)
             = Cardinality(BytesOf(S, c)) + Cardinality(M) - Cardinality(BytesOf(S, c) \cap M)
    BY <1>3, FS_Union
  <1>9. /\ IsFiniteSet(BytesOf(S, d))
        /\ Cardinality(BytesOf(S, d)) = Cardinality(BytesOf(S, c)) + (n - m)
    <2> DEFINE B == BytesOf(S, c)
               k == Cardinality(B)
    <2>1. k \in Nat
      BY <1>7
    <2>2. Cardinality(B \cap M) = 0
      BY <1>5, <1>6
    <2>3. IsFiniteSet(B \cup M) /\ Cardinality(B \cup M) = k + (n - m) - 0
      BY <1>3, <1>8, <2>2
    <2> HIDE DEF m, n, k
    <2>4. QED
      BY <1>0, <1>4, <2>1, <2>3 DEF k
  <1>10. QED
    BY <1>9

\* A flow that has none.
LEMMA BytesNone ==
  ASSUME NEW S, NEW f, NEW c, c[f] = 0
  PROVE  BytesOf(S \cup {f}, c) = BytesOf(S, c)
  <1>1. {f} \X (1 .. c[f]) = {}
    OBVIOUS
  <1>2. QED
    BY <1>1 DEF BytesOf

\* Only what a flow has handed over counts, and who has come to its end.
LEMMA HandedSame ==
  ASSUME \A f \in Flows : /\ Ended(f)' <=> Ended(f)
                          /\ info'[f].prev = info[f].prev /\ info'[f].cur = info[f].cur
  PROVE  /\ HandedBytes' = HandedBytes
         /\ \A S \in SUBSET Flows : EndedOf(S)' = EndedOf(S)
  <1>1. \A f \in Flows : Handed(f)' = Handed(f)
    BY DEF Handed
  <1>2. QED
    BY <1>1 DEF HandedBytes, EndedOf

LEMMA QuietAccounts ==
  ASSUME IInv, AInv, kind' = kind, Bound' \subseteq Bound,
         \A f \in Flows : /\ Ended(f)' <=> Ended(f)
                          /\ info'[f].prev = info[f].prev /\ info'[f].cur = info[f].cur
                          /\ pc'[f] = "idle" => pc[f] = "idle",
         group'.live => /\ group.live /\ group'.members = group.members
                        /\ group'.cur = group.cur /\ group'.finals = group.finals
  PROVE  AInv'
  <1>1. HandedBytes' = HandedBytes /\ \A S \in SUBSET Flows : EndedOf(S)' = EndedOf(S)
    BY HandedSame
  <1>2. group.live => group.members \subseteq Flows
    BY GroupFields DEF IInv, TypeOK, NoGroup
  <1>3. Members'
    <2> SUFFICES ASSUME group'.live PROVE Members!2'
      BY DEF Members
    <2>1. EndedOf(group.members)' = EndedOf(group.members)
      BY <1>1, <1>2
    <2>2. QED
      BY <1>1, <1>2, <2>1 DEF AInv, Members
  <1>4. SumAccounts'
    BY <1>1 DEF AInv, SumAccounts, HandedBytes
  <1>5. QED
    BY <1>3, <1>4 DEF AInv

LEMMA PushAccounts ==
  ASSUME IInv, Begins, AInv, NEW f \in Flows, Push(f)
  PROVE  AInv'
  <1> USE DEF IInv
  <1> DEFINE g == IF Iperf_host_present THEN group ELSE InitSumReport
             m == IF g.count + 1 > g.maxcount THEN g.count + 1 ELSE g.maxcount
             H == HandedBytes
  <1>1. /\ pc[f] = "idle" /\ pc' = [pc EXCEPT ![f] = "bound"]
        /\ info' = info /\ kind' = kind
        /\ group' = [g EXCEPT !.members = @ \cup {f}, !.count = @ + 1, !.maxcount = m]
    BY DEF Push, config
  <1>2. Bound' = Bound \cup {f}
    BY <1>1 DEF Bound, TypeOK
  <1>3. /\ H' = H
        /\ \A S \in SUBSET Flows : EndedOf(S \cup {f})' = EndedOf(S)
    <2>1. \A h \in Flows : Ended(h)' <=> Ended(h)
      BY <1>1 DEF Ended, TypeOK
    <2>2. ~Ended(f)
      BY <1>1 DEF Ended
    <2>3. H' = H
      BY <1>1, <2>1, HandedSame
    <2>4. QED
      BY <2>1, <2>2, <2>3 DEF EndedOf
  <1>4. H[f] = 0
    BY <1>1 DEF HandedBytes, Handed, Ended, Begins, InitIndividualReport
  <1>5. \A S : BytesOf(S \cup {f}, H) = BytesOf(S, H)
    BY <1>4, BytesNone
  <1>6. /\ g \in GroupType /\ g.members \subseteq Flows
        /\ Bound \subseteq g.members
        /\ \A h \in g.members : pc[h] # "idle"
        /\ g.finals = Cardinality(EndedOf(g.members))
        /\ IsFiniteSet(BytesOf(g.members, H))
        /\ kind # "client_bb" => g.cur = Cardinality(BytesOf(g.members, H))
    <2>1. CASE Iperf_host_present
      <3>1. Bound # {} /\ g = group
        BY <2>1, FS_EmptySet DEF Iperf_host_present, Counts
      <3>2. group \in GroupType
        BY <3>1, LiveType
      <3>3. QED
        BY <3>1, <3>2, GroupFields DEF AInv, Members, SumAccounts, HandedBytes
    <2>2. CASE ~Iperf_host_present
      <3>1. bound = 0
        BY <2>2, BoundFinite DEF Iperf_host_present, Counts
      <3>2. Bound = {}
        BY <3>1, BoundFinite, FS_EmptySet DEF Counts
      <3>3. g = InitSumReport /\ g.members = {} /\ g.finals = 0 /\ g.cur = 0
        BY <2>2 DEF InitSumReport
      <3>4. BytesOf({}, H) = {} /\ EndedOf({}) = {}
        BY DEF BytesOf, EndedOf
      <3>5. QED
        BY <3>2, <3>3, <3>4, InitSumType, FS_EmptySet
    <2>3. QED
      BY <2>1, <2>2
  <1> HIDE DEF g, m
  <1>7. /\ group'.members = g.members \cup {f}
        /\ group'.finals = g.finals /\ group'.cur = g.cur
    BY <1>1, <1>6 DEF GroupType
  <1>8. Members'
    <2>1. \A h \in g.members \cup {f} : pc'[h] # "idle"
      BY <1>1, <1>6 DEF TypeOK
    <2>2. EndedOf(group.members)' = EndedOf(g.members)
      BY <1>3, <1>6, <1>7
    <2>3. BytesOf(group.members, HandedBytes)' = BytesOf(g.members, H)
      BY <1>3, <1>5, <1>7 DEF BytesOf
    <2>4. QED
      BY <1>2, <1>6, <1>7, <2>1, <2>2, <2>3 DEF Members
  <1>9. SumAccounts'
    <2>1. BytesOf(group.members, HandedBytes)' = BytesOf(g.members, H)
      BY <1>3, <1>5, <1>7 DEF BytesOf
    <2>2. QED
      BY <1>1, <1>6, <1>7, <2>1 DEF SumAccounts, HandedBytes
  <1>10. QED
    BY <1>1, <1>8, <1>9 DEF AInv

\* The reporter hands to the sum what it takes off a flow.
LEMMA ReportAccounts ==
  ASSUME IInv, AInv, NEW f \in Flows, f \in Bound, ~Ended(f), group \in GroupType,
         NEW n \in Nat, NEW e \in {0, 1},
         kind' = kind, Bound' = Bound, n \in {info[f].prev, info[f].cur},
         \A h \in Flows : h # f =>
           info'[h] = info[h] /\ (Ended(h)' <=> Ended(h)) /\ (pc'[h] = "idle" => pc[h] = "idle"),
         Handed(f)' = n, Ended(f)' <=> e = 1, pc'[f] # "idle",
         info'[f].prev =< info'[f].cur,
         group'.live, group'.members = group.members, group'.finals = group.finals + e,
         kind # "client_bb" => group'.cur = group.cur + (n - info[f].prev)
  PROVE  AInv'
  <1> USE DEF IInv
  <1> DEFINE S == group.members
             c == HandedBytes
             d == HandedBytes'
  <1>1. /\ S \subseteq Flows /\ f \in S /\ group.live
        /\ group.finals = Cardinality(EndedOf(S)) /\ IsFiniteSet(BytesOf(S, c))
        /\ Bound \subseteq S /\ \A h \in S : pc[h] # "idle"
        /\ info[f] \in InfoType /\ info[f].prev =< info[f].cur
    BY GroupFields DEF AInv, Members, TypeOK
  <1>2. /\ c \in [Flows -> Nat] /\ d \in [Flows -> Nat]
        /\ c[f] = info[f].prev /\ d[f] = n
        /\ \A h \in S : h # f => d[h] = c[h]
    <2>1. \A h \in Flows : Handed(h) \in Nat
      BY InfoFields DEF Handed, TypeOK
    <2>2. \A h \in Flows : h # f => Handed(h)' = Handed(h)
      BY DEF Handed
    <2>3. Handed(f) = info[f].prev
      BY DEF Handed
    <2>4. QED
      BY <1>1, <2>1, <2>2, <2>3 DEF HandedBytes
  <1>3. c[f] =< d[f]
    BY <1>1, <1>2, InfoFields
  <1> HIDE DEF c, d
  <1>4. /\ IsFiniteSet(BytesOf(S, d))
        /\ Cardinality(BytesOf(S, d)) = Cardinality(BytesOf(S, c)) + (d[f] - c[f])
    BY <1>1, <1>2, <1>3, BytesGrow
  <1>5. group'.finals = Cardinality(EndedOf(S)')
    <2>1. EndedOf(S)' = IF e = 1 THEN EndedOf(S) \cup {f} ELSE EndedOf(S)
      BY <1>1 DEF EndedOf
    <2>2. f \notin EndedOf(S) /\ IsFiniteSet(EndedOf(S))
      <3>1. EndedOf(S) \in SUBSET Flows
        BY <1>1 DEF EndedOf
      <3>2. QED
        BY <3>1, FS_Subset, FlowsAssumption DEF EndedOf
    <2>3. Cardinality(EndedOf(S)) \in Nat
      BY <2>2, FS_CardinalityType
    <2>4. Cardinality(EndedOf(S) \cup {f}) = Cardinality(EndedOf(S)) + 1
      <3>1. ASSUME NEW E, NEW h, IsFiniteSet(E), h \notin E
            PROVE  Cardinality(E \cup {h}) = Cardinality(E) + 1
        BY <3>1, FS_AddElement
      <3> HIDE DEF S
      <3>2. QED
        BY <2>2, <3>1
    <2>5. CASE e = 1
      BY <1>1, <2>1, <2>4, <2>5
    <2>6. CASE e = 0
      BY <1>1, <2>1, <2>3, <2>6
    <2>7. QED
      BY <2>5, <2>6
  <1>6. Members'
    <2>1. \A h \in S : pc'[h] # "idle"
      BY <1>1
    <2>2. EndedOf(group.members)' = EndedOf(S)' /\ BytesOf(group.members, HandedBytes)' = BytesOf(S, d)
      BY DEF EndedOf, BytesOf, d
    <2>3. QED
      BY <1>1, <1>4, <1>5, <2>1, <2>2 DEF Members
  <1>7. SumAccounts'
    <2>1. kind # "client_bb" => group.cur = Cardinality(BytesOf(S, c))
      BY <1>1 DEF AInv, SumAccounts, HandedBytes, c
    <2>2. kind # "client_bb" => group'.cur = Cardinality(BytesOf(S, d))
      BY <1>2, <1>4, <2>1
    <2>3. QED
      BY <2>2 DEF SumAccounts, HandedBytes, d
  <1>8. \A h \in Flows : info'[h].prev =< info'[h].cur
    BY DEF AInv
  <1>9. QED
    BY <1>6, <1>7, <1>8 DEF AInv

LEMMA ProcessPacketAccounts ==
  ASSUME IInv, AInv, ProcessPacket, NEW f, f = root[at]
  PROVE  AInv'
  <1> USE DEF IInv
  <1> DEFINE p == Head(ring[f])
             t == p.time
             u == CountUp(group, info[f], t)
             r == IntervalReport(u.group, u.info, t)
             c == r.info.cur + 1
  <1>1. /\ at # 0 /\ ring[f] # <<>>
        /\ info' = [info EXCEPT ![f] = [r.info EXCEPT !.cur = c, !.time = t]]
        /\ group' = [r.group EXCEPT !.time = t]
        /\ pc' = pc /\ kind' = kind
    BY DEF ProcessPacket, threads, config
  <1> HIDE DEF p, t, u, r, c
  <1>2. /\ f \in Flows /\ pc[f] \in {"traffic", "final"} /\ f \in Bound
        /\ group \in GroupType /\ info[f] \in InfoType /\ t \in Nat
    BY <1>1, PacketSeen DEF Packet, p, t
  <1>3. SameGroup(group, u.group) /\ SameInfo(info[f], u.info)
    BY <1>2, CountUpType DEF u
  <1>4. /\ GrownGroup(u.group, r.group, r.info.prev - u.info.prev, 0)
        /\ r.info \in InfoType /\ r.info.cur = u.info.cur
        /\ r.info.prev \in {u.info.prev, u.info.cur}
    <2>1. sumOnly \in BOOLEAN /\ u.info \in InfoType /\ u.group \in GroupType
      BY <1>3 DEF TypeOK, SameInfo, SameGroup
    <2>2. QED
      BY <1>2, <2>1, IntervalReportType DEF r
  <1> DEFINE n == r.info.prev
  <1>5. /\ n \in Nat /\ n \in {info[f].prev, info[f].cur}
        /\ r.group.cur = group.cur + (n - info[f].prev)
        /\ r.group.members = group.members /\ r.group.finals = group.finals
        /\ r.group \in GroupType
    BY <1>2, <1>3, <1>4, GroupFields, InfoFields DEF SameGroup, SameInfo, GrownGroup
  <1>6. /\ info'[f].prev = n /\ info'[f].cur = info[f].cur + 1
        /\ \A h \in Flows : h # f => info'[h] = info[h]
    <2>1. info'[f] = [r.info EXCEPT !.cur = c, !.time = t]
      BY <1>1, <1>2 DEF TypeOK
    <2>2. info'[f].prev = n /\ info'[f].cur = c /\ c = info[f].cur + 1
      BY <1>3, <1>4, <2>1 DEF InfoType, SameInfo, c
    <2>3. QED
      BY <1>1, <1>2, <2>2 DEF TypeOK
  <1>7. /\ group'.live /\ group'.members = group.members /\ group'.finals = group.finals + 0
        /\ group'.cur = group.cur + (n - info[f].prev)
    <2>1. /\ group'.live = r.group.live /\ group'.members = r.group.members
          /\ group'.finals = r.group.finals /\ group'.cur = r.group.cur
      BY <1>1, <1>5 DEF GroupType
    <2>2. QED
      BY <1>2, <1>5, <2>1, GroupFields
  <1> HIDE DEF n
  <1>8. ~Ended(f) /\ (\A h \in Flows : Ended(h)' <=> Ended(h)) /\ Bound' = Bound /\ Handed(f)' = n
    <2>1. ~Ended(f)
      BY <1>2 DEF Ended
    <2>2. \A h \in Flows : Ended(h)' <=> Ended(h)
      BY <1>1 DEF Ended
    <2>3. Bound' = Bound
      BY <1>1 DEF Bound
    <2>4. ~Ended(f)'
      BY <1>2, <2>1, <2>2
    <2>5. Handed(f)' = n
      BY <1>6, <2>4 DEF Handed
    <2>6. QED
      BY <2>1, <2>2, <2>3, <2>5
  <1>9. info'[f].prev =< info'[f].cur
    BY <1>2, <1>5, <1>6, InfoFields DEF AInv
  <1>10. \A h \in Flows : h # f =>
           info'[h] = info[h] /\ (Ended(h)' <=> Ended(h)) /\ (pc'[h] = "idle" => pc[h] = "idle")
    BY <1>1, <1>6, <1>8
  <1>11. pc'[f] # "idle" /\ kind' = kind
    BY <1>1, <1>2
  <1> DEFINE e == 0
  <1>12. e \in {0, 1} /\ (Ended(f)' <=> e = 1) /\ group'.finals = group.finals + e
    <2>1. ~Ended(f)' /\ e # 1
      BY <1>2, <1>8
    <2>2. QED
      BY <1>7, <2>1
  <1> HIDE DEF e
  <1>13. QED
    BY <1>2, <1>5, <1>7, <1>8, <1>9, <1>10, <1>11, <1>12, ReportAccounts

\* What the end of a flow does, in the terms of the invariant: the bytes that
\* are left, unless it is a bounceback's, and one more end.
LEMMA ProcessFinalStep ==
  ASSUME IInv, ProcessFinal, NEW f, f = root[at]
  PROVE  /\ f \in Flows /\ f \in Bound /\ ~Ended(f) /\ Ended(f)'
         /\ info[f] \in InfoType /\ group \in GroupType
         /\ pc' = [pc EXCEPT ![f] = "done"] /\ kind' = kind /\ Bound' = Bound
         /\ \A h \in Flows : h # f => info'[h] = info[h] /\ (Ended(h)' <=> Ended(h))
         /\ info'[f].cur = info[f].cur /\ info'[f].prev \in {info[f].prev, info[f].cur}
         /\ GrownGroup(group, group', FinalBytes(info[f]), 1)
         /\ last' # last => group'.finals = group'.maxcount /\ last' = group'.cur
  <1> USE DEF IInv
  <1> DEFINE p == Head(ring[f])
             t == p.time
             u == CountUp(group, info[f], t)
             r == FinalReport(u.group, u.info, t)
             sum == /\ r.group.finals = r.group.maxcount
                    /\ r.group.maxcount > 1 \/ sumOnly
             g == IF sum THEN SumFinal(r.group) ELSE r.group
  <1>1. /\ at # 0 /\ ring[f] # <<>>
        /\ info' = [info EXCEPT ![f] = r.info]
        /\ group' = g
        /\ last' = IF sum /\ ~g.mask THEN g.cnt ELSE last
        /\ pc' = [pc EXCEPT ![f] = "done"] /\ kind' = kind
    BY DEF ProcessFinal, config
  <1> HIDE DEF p, t, u, r
  <1>2. /\ f \in Flows /\ pc[f] \in {"traffic", "final"} /\ f \in Bound
        /\ group \in GroupType /\ info[f] \in InfoType /\ t \in Nat
    BY <1>1, PacketSeen DEF Packet, p, t
  <1>3. SameGroup(group, u.group) /\ SameInfo(info[f], u.info)
    BY <1>2, CountUpType DEF u
  <1>4. /\ GrownGroup(u.group, r.group, FinalBytes(u.info), 1)
        /\ r.info.cur = u.info.cur /\ r.info.prev \in {u.info.prev, u.info.cur}
    BY <1>2, <1>3, FinalReportType DEF SameGroup, SameInfo, r
  <1>5. GrownGroup(group, r.group, FinalBytes(info[f]), 1)
    BY <1>3, <1>4 DEF SameGroup, SameInfo, GrownGroup, FinalBytes
  <1>6. r.group \in GroupType
    BY <1>5 DEF GrownGroup
  <1>7. SameGroup(r.group, SumFinal(r.group))
    BY <1>6, SumFinalType
  <1>8. GrownGroup(group, g, FinalBytes(info[f]), 1)
    BY <1>5, <1>7 DEF SameGroup, GrownGroup
  <1>9. sum => SumFinal(r.group).cnt = r.group.cur
    <2> DEFINE a == r.group
               k == a.cur
               c == [a EXCEPT !.cnt = k]
    <2>1. SumFinal(a) \in {c, ResetSum(c), Shift(c)}
      BY DEF SumFinal
    <2>2. c.cnt = k /\ DOMAIN c = DOMAIN a /\ "cnt" \in DOMAIN a
      BY <1>6 DEF GroupType
    <2> HIDE DEF c
    <2>3. ResetSum(c).cnt = c.cnt /\ Shift(c).cnt = c.cnt
      BY <2>2 DEF ResetSum, Shift
    <2>4. QED
      BY <2>1, <2>2, <2>3
  <1>10. last' # last => g.finals = g.maxcount /\ last' = g.cur
    BY <1>1, <1>7, <1>9 DEF SameGroup
  <1> HIDE DEF g
  <1>11. /\ ~Ended(f) /\ Ended(f)' /\ Bound' = Bound
         /\ \A h \in Flows : h # f => info'[h] = info[h] /\ (Ended(h)' <=> Ended(h))
    <2>1. pc \in [Flows -> {"idle", "bound", "traffic", "final", "done", "gone"}]
      BY DEF TypeOK
    <2>2. pc'[f] = "done" /\ \A h \in Flows : h # f => pc'[h] = pc[h]
      BY <1>1, <1>2, <2>1
    <2>3. ~Ended(f) /\ Ended(f)'
      BY <1>2, <2>2 DEF Ended
    <2>4. Bound' = Bound
      BY <1>2, <2>2 DEF Bound
    <2>5. \A h \in Flows : h # f => info'[h] = info[h]
      BY <1>1, <1>2 DEF TypeOK
    <2>6. \A h \in Flows : h # f => (Ended(h)' <=> Ended(h))
      BY <2>2 DEF Ended
    <2>7. QED
      BY <2>3, <2>4, <2>5, <2>6
  <1>12. info'[f].cur = info[f].cur /\ info'[f].prev \in {info[f].prev, info[f].cur}
    BY <1>1, <1>2, <1>3, <1>4 DEF TypeOK, SameInfo
  <1>13. QED
    BY <1>1, <1>2, <1>8, <1>10, <1>11, <1>12

LEMMA ProcessFinalAccounts ==
  ASSUME IInv, AInv, ProcessFinal, NEW f, f = root[at]
  PROVE  AInv'
  <1> DEFINE n == info[f].cur
             e == 1
  <1>1. /\ f \in Flows /\ f \in Bound /\ ~Ended(f) /\ Ended(f)'
        /\ info[f] \in InfoType /\ group \in GroupType
        /\ pc' = [pc EXCEPT ![f] = "done"] /\ kind' = kind /\ Bound' = Bound
        /\ \A h \in Flows : h # f => info'[h] = info[h] /\ (Ended(h)' <=> Ended(h))
        /\ info'[f].cur = n /\ info'[f].prev \in {info[f].prev, n}
        /\ GrownGroup(group, group', FinalBytes(info[f]), e)
    BY ProcessFinalStep
  <1>2. n \in Nat /\ n \in {info[f].prev, info[f].cur} /\ Handed(f)' = n
    BY <1>1, InfoFields DEF Handed
  <1>3. info'[f].prev =< info'[f].cur
    BY <1>1, <1>2, InfoFields DEF AInv
  <1>4. /\ group'.live /\ group'.members = group.members
        /\ group'.finals = group.finals + e
        /\ kind # "client_bb" => group'.cur = group.cur + (n - info[f].prev)
    BY <1>1 DEF GrownGroup, GroupType, FinalBytes
  <1>5. pc'[f] = "done" /\ \A h \in Flows : h # f => pc'[h] = pc[h]
    BY <1>1 DEF IInv, TypeOK
  <1>6. e \in {0, 1} /\ (Ended(f)' <=> e = 1) /\ pc'[f] # "idle"
    BY <1>1, <1>5
  <1>7. \A h \in Flows : h # f =>
          info'[h] = info[h] /\ (Ended(h)' <=> Ended(h)) /\ (pc'[h] = "idle" => pc[h] = "idle")
    BY <1>1, <1>5
  <1> HIDE DEF n, e
  <1>8. QED
    BY <1>1, <1>2, <1>3, <1>4, <1>6, <1>7, ReportAccounts

LEMMA InitAccounts == Init => AInv
  <1> SUFFICES ASSUME Init PROVE AInv
    OBVIOUS
  <1>1. ~group.live
    BY DEF Init, NoGroup
  <1>2. \A f \in Flows : info[f].prev = 0 /\ info[f].cur = 0
    BY DEF Init, InitIndividualReport
  <1>3. QED
    BY <1>1, <1>2 DEF AInv, Members, SumAccounts

LEMMA NextAccounts == IInv /\ KInv /\ AInv /\ [Next]_vars => AInv'
  <1> SUFFICES ASSUME IInv, KInv, AInv, [Next]_vars PROVE AInv'
    OBVIOUS
  <1>1. CASE UNCHANGED vars \/ Tick \/ SetRoot \/ Advance
    <2>1. UNCHANGED <<pc, info, kind, group>>
      BY <1>1 DEF vars, config, threads, host, Tick, SetRoot, Advance
    <2>2. QED
      BY <2>1, QuietAccounts DEF Ended, Bound
  <1>2. ASSUME NEW f \in Flows, ReportPacket(f) \/ EndJob(f) PROVE AInv'
    <2>1. /\ UNCHANGED <<info, kind, group>> /\ pc[f] = "traffic"
          /\ pc'[f] \in {"traffic", "final"} /\ \A h \in Flows : h # f => pc'[h] = pc[h]
      BY <1>2 DEF ReportPacket, EndJob, config, threads, host, IInv, TypeOK
    <2>2. \A h \in Flows : (Ended(h)' <=> Ended(h)) /\ (pc'[h] = "idle" => pc[h] = "idle")
      BY <2>1 DEF Ended
    <2>3. Bound' \subseteq Bound
      BY <2>1 DEF Bound
    <2>4. QED
      BY <2>1, <2>2, <2>3, QuietAccounts
  <1>3. ASSUME NEW f \in Flows, RemoveHost(f) PROVE AInv'
    <2>1. /\ UNCHANGED <<info, kind>> /\ pc[f] = "done"
          /\ pc'[f] = "gone" /\ \A h \in Flows : h # f => pc'[h] = pc[h]
      BY <1>3 DEF RemoveHost, config, IInv, TypeOK
    <2>2. \A h \in Flows : (Ended(h)' <=> Ended(h)) /\ (pc'[h] = "idle" => pc[h] = "idle")
      BY <2>1 DEF Ended
    <2>3. Bound' \subseteq Bound
      BY <2>1 DEF Bound
    <2>4. group \in GroupType
      <3>1. f \in Bound
        BY <2>1 DEF Bound
      <3>2. QED
        BY <3>1, LiveType DEF IInv
    <2>5. group'.live => /\ group.live /\ group'.members = group.members
                         /\ group'.cur = group.cur /\ group'.finals = group.finals
      BY <1>3, <2>4 DEF RemoveHost, NoGroup, GroupType
    <2>6. QED
      BY <2>1, <2>2, <2>3, <2>5, QuietAccounts
  <1>4. ASSUME NEW f \in Flows, Start(f) PROVE AInv'
    <2> DEFINE s == StartTime(f)
               n == s + Interval
    <2>1. /\ info' = [info EXCEPT ![f].start = s, ![f].next = n]
          /\ group' = IF group.start # 0 THEN group
                      ELSE [group EXCEPT !.start = s, !.next = n]
          /\ pc[f] = "bound" /\ pc' = [pc EXCEPT ![f] = "traffic"]
          /\ kind' = kind
      BY <1>4 DEF Start, config
    <2> HIDE DEF s, n
    <2>2. \A h \in Flows : info'[h].prev = info[h].prev /\ info'[h].cur = info[h].cur
      <3>1. \A h \in Flows : info[h] \in InfoType
        BY DEF IInv, TypeOK
      <3>2. \A h \in Flows : info'[h] \in {info[h], [info[h] EXCEPT !.start = s, !.next = n]}
        BY <2>1 DEF IInv, TypeOK
      <3>3. QED
        BY <3>1, <3>2 DEF InfoType
    <2>3. /\ pc'[f] = "traffic" /\ \A h \in Flows : h # f => pc'[h] = pc[h]
      BY <2>1 DEF IInv, TypeOK
    <2>4. \A h \in Flows : (Ended(h)' <=> Ended(h)) /\ (pc'[h] = "idle" => pc[h] = "idle")
      BY <2>1, <2>3 DEF Ended
    <2>5. Bound' \subseteq Bound
      BY <2>1, <2>3 DEF Bound
    <2>6. group \in GroupType
      <3>1. f \in Bound
        BY <2>1 DEF Bound
      <3>2. QED
        BY <3>1, LiveType DEF IInv
    <2>7. /\ group.live /\ group'.members = group.members
          /\ group'.cur = group.cur /\ group'.finals = group.finals
      BY <2>1, <2>6 DEF GroupType
    <2>8. QED
      BY <2>1, <2>2, <2>4, <2>5, <2>7, QuietAccounts
  <1>5. ASSUME NEW f \in Flows, Push(f) PROVE AInv'
    BY <1>5, PushAccounts DEF KInv
  <1>6. QED
    BY <1>1, <1>2, <1>3, <1>4, <1>5, ProcessPacketAccounts, ProcessFinalAccounts
       DEF Next, Reporter, Thread

\* The total of the sum is what its flows have handed to it, whatever the order
\* of their interval and final reports.
THEOREM Accounts == Spec => []SumAccounts
  <1>1. AInv => SumAccounts
    BY DEF AInv
  <1>2. QED
    BY InitInv, NextInv, InitKeeps, NextKeeps, InitAccounts, NextAccounts, <1>1,
       PTL DEF Spec

\* The number of ends is that of the flows only after the end of every one.
LEMMA FinalStep ==
  IInv /\ KInv /\ AInv /\ [Next]_vars =>
    (last' \notin {last, NoSum} /\ group.maxcount = Cardinality(group.members)
     => /\ \A f \in group.members : Ended(f)'
        /\ kind # "client_bb" =>
             last' = Cardinality(BytesOf(group.members, [f \in Flows |-> info'[f].cur])))
  <1> SUFFICES ASSUME IInv, KInv, AInv, [Next]_vars, last' \notin {last, NoSum},
                      group.maxcount = Cardinality(group.members)
               PROVE  /\ \A f \in group.members : Ended(f)'
                      /\ kind # "client_bb" =>
                           last' = Cardinality(BytesOf(group.members,
                                                       [f \in Flows |-> info'[f].cur]))
    OBVIOUS
  <1>1. ProcessFinal
    BY DEF Next, Reporter, Thread, vars, Tick, SetRoot, Advance, ProcessPacket,
           Push, Start, ReportPacket, EndJob, RemoveHost
  <1>2. PICK f : f = root[at]
    OBVIOUS
  <1>3. AInv'
    BY NextAccounts
  <1>4. /\ kind' = kind /\ group \in GroupType
        /\ GrownGroup(group, group', FinalBytes(info[f]), 1)
        /\ group'.finals = group'.maxcount /\ last' = group'.cur
    BY <1>1, <1>2, ProcessFinalStep
  <1> DEFINE S == group.members
  <1>5. /\ S \subseteq Flows /\ group'.live /\ group'.members = S
        /\ group'.finals = Cardinality(S)
    BY <1>4, GroupFields DEF GrownGroup
  <1>6. EndedOf(S)' = S
    <2>1. EndedOf(group.members)' \subseteq S
      BY <1>5 DEF EndedOf
    <2>2. Cardinality(EndedOf(group.members)') = Cardinality(S)
      BY <1>3, <1>5 DEF AInv, Members
    <2>3. EndedOf(group.members)' = S
      <3>1. IsFiniteSet(S)
        BY <1>5, FS_Subset, FlowsAssumption
      <3> HIDE DEF S
      <3>2. QED
        BY <2>1, <2>2, <3>1, FS_Subset
    <2>4. QED
      BY <1>5, <2>3 DEF EndedOf
  <1>7. \A h \in S : Ended(h)'
    BY <1>5, <1>6 DEF EndedOf
  <1>8. ASSUME kind # "client_bb"
        PROVE  last' = Cardinality(BytesOf(S, [h \in Flows |-> info'[h].cur]))
    <2>1. group'.cur = Cardinality(BytesOf(S, [h \in Flows |-> Handed(h)]'))
      BY <1>3, <1>4, <1>5, <1>8 DEF AInv, SumAccounts, BytesOf
    <2>2. BytesOf(S, [h \in Flows |-> Handed(h)]') = BytesOf(S, [h \in Flows |-> info'[h].cur])
      BY <1>5, <1>7 DEF BytesOf, Handed
    <2>3. QED
      BY <1>4, <2>1, <2>2
  <1>9. QED
    BY <1>7, <1>8

\* The final sum has every flow in it, up to its last byte.
THEOREM FinalSum == Spec => FinalSumComplete
  <1>1. IInv /\ KInv /\ AInv /\ [Next]_vars =>
          [last' \notin {last, NoSum} /\ group.maxcount = Cardinality(group.members)
           => /\ \A f \in group.members : Ended(f)'
              /\ kind # "client_bb" =>
                   last' = Cardinality(BytesOf(group.members,
                                               [f \in Flows |-> info'[f].cur]))]_vars
    BY FinalStep
  <1>2. QED
    BY InitInv, NextInv, InitKeeps, NextKeeps, InitAccounts, NextAccounts, <1>1,
       PTL DEF Spec, FinalSumComplete
=============================================================================
