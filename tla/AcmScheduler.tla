---------------------------- MODULE AcmScheduler ----------------------------
(***************************************************************************)
(* RunACM of runtime/acm.go under the scheduler that Run starts: a job     *)
(* every second that, when the current entry of the ACM list has lasted    *)
(* for its Duration, picks another at random and changes the rate of the   *)
(* two devices to a share of the bandwidth.                                *)
(*                                                                         *)
(* gocron runs each job in a goroutine of its own and does not wait for    *)
(* the one before.  A job that waits for tc longer than a second overlaps  *)
(* the next, and they share CurrentACM and ACMCounter without a lock: each *)
(* access is a step of its own.  Rates are in kbit: Run configures them in *)
(* kbit and RunACM in mbit.                                                *)
(***************************************************************************)
EXTENDS Integers

CONSTANTS Entries,   \* of ACM lists: [weight, duration], weights in percent
          Forward,   \* t.Bandwidth.Forward
          Return,    \* t.Bandwidth.Return
          QoS,       \* the class changed is 1:20 with QoS, else 1:1
          Jobs,      \* the goroutines that can be at work at the same time
          MaxTicks   \* bound on the seconds

ASSUME EntriesAssumption == Entries \subseteq [weight : Nat, duration : Int]
ASSUME BandwidthAssumption ==
  Forward \in Nat /\ Return \in Nat /\ QoS \in BOOLEAN
ASSUME JobsAssumption == Jobs # {} /\ MaxTicks \in Nat

VARIABLES ACMList,     \* t.ACMList, of which the order does not matter
          CurrentACM,  \* t.CurrentACM, NoACM before the first choice
          ACMCounter,  \* t.ACMCounter
          classRate,   \* rate of the class of each device, in kbit
          pc,          \* where each job is
          local,       \* forward, return and the counter as a job has read them
          ticks,       \* seconds passed
          dwell,       \* history: jobs ended since CurrentACM was chosen
          tcFailed,    \* history: a tc of the last change has failed
          overlapped   \* history: a job was started while another was at work

acmVars == <<ACMList, CurrentACM, ACMCounter, classRate, pc, local, ticks, dwell,
             tcFailed, overlapped>>

NoACM == [weight |-> 100, duration |-> 0, none |-> TRUE]

\* math.Round(bandwidth * weight), in mbit; with QoS one less.
Share(bw, acm) == (bw * acm.weight + 50) \div 100 - (IF QoS THEN 1 ELSE 0)

Mbit == 1000

\* The rate Run has given the class: kbit, one less for the class 1:20.
ConfiguredRate(bw) == IF QoS THEN bw - 1 ELSE bw

AcmInit ==
  /\ ACMList \in SUBSET Entries
  /\ CurrentACM = NoACM
  /\ ACMCounter = 0
  /\ classRate = [GW |-> ConfiguredRate(Return), ST |-> ConfiguredRate(Forward)]
  /\ pc = [j \in Jobs |-> "idle"]
  /\ local = [j \in Jobs |-> [forward |-> 0, return |-> 0, counter |-> 0]]
  /\ ticks = 0
  /\ dwell = 0
  /\ tcFailed = FALSE
  /\ overlapped = FALSE

Idle == \A j \in Jobs : pc[j] = "idle"

\* The scheduler starts a job.
Tick(j) ==
  /\ pc[j] = "idle"
  /\ ticks < MaxTicks
  /\ ticks' = ticks + 1
  /\ overlapped' = (overlapped \/ ~Idle)
  /\ pc' = [pc EXCEPT ![j] = "check"]
  /\ UNCHANGED <<ACMList, CurrentACM, ACMCounter, classRate, local, dwell, tcFailed>>

Check(j) ==
  /\ pc[j] = "check"
  /\ pc' = [pc EXCEPT ![j] =
       IF CurrentACM = NoACM \/ ACMCounter >= CurrentACM.duration
       THEN "pick" ELSE "count"]
  /\ UNCHANGED <<ACMList, CurrentACM, ACMCounter, classRate, local, ticks, dwell,
                 tcFailed, overlapped>>

\* rand.Intn panics for an empty list, and the process ends.
Pick(j) ==
  /\ pc[j] = "pick"
  /\ \/ /\ ACMList = {}
        /\ pc' = [k \in Jobs |-> "panic"]
        /\ UNCHANGED <<CurrentACM, dwell, tcFailed>>
     \/ /\ CurrentACM' \in ACMList
        /\ pc' = [pc EXCEPT ![j] = "forward"]
        /\ dwell' = 0
        /\ tcFailed' = FALSE
  /\ UNCHANGED <<ACMList, ACMCounter, classRate, local, ticks, overlapped>>

\* The weight is read twice, once for each direction.
ReadForward(j) ==
  /\ pc[j] = "forward"
  /\ local' = [local EXCEPT ![j].forward = Share(Forward, CurrentACM) * Mbit]
  /\ pc' = [pc EXCEPT ![j] = "return"]
  /\ UNCHANGED <<ACMList, CurrentACM, ACMCounter, classRate, ticks, dwell, tcFailed,
                 overlapped>>

\* Mutant: the share of the return link is computed from the forward one.
ReadReturnEarly(j) ==
  /\ pc[j] = "return"
  /\ local' = [local EXCEPT ![j].return = local[j].forward]
  /\ pc' = [pc EXCEPT ![j] = "GW"]
  /\ UNCHANGED <<ACMList, CurrentACM, ACMCounter, classRate, ticks, dwell, tcFailed,
                 overlapped>>

ReadReturn(j) ==
  /\ pc[j] = "return"
  /\ local' = [local EXCEPT ![j].return = Share(Return, CurrentACM) * Mbit]
  /\ pc' = [pc EXCEPT ![j] = "GW"]
  /\ UNCHANGED <<ACMList, CurrentACM, ACMCounter, classRate, ticks, dwell, tcFailed,
                 overlapped>>

\* tc class change on a device; tc refuses the rate 0, and its failure is
\* only logged.
SetRate(j, dev, value) ==
  \/ /\ value > 0
     /\ classRate' = [classRate EXCEPT ![dev] = value]
     /\ UNCHANGED tcFailed
  \/ /\ tcFailed' = TRUE
     /\ UNCHANGED classRate

\* Mutant: GW is given the rate of the forward link.
ChangeGWForward(j) ==
  /\ pc[j] = "GW"
  /\ SetRate(j, "GW", local[j].forward)
  /\ pc' = [pc EXCEPT ![j] = "ST"]
  /\ UNCHANGED <<ACMList, CurrentACM, ACMCounter, local, ticks, dwell,
                 overlapped>>

ChangeGW(j) ==
  /\ pc[j] = "GW"
  /\ SetRate(j, "GW", local[j].return)
  /\ pc' = [pc EXCEPT ![j] = "ST"]
  /\ UNCHANGED <<ACMList, CurrentACM, ACMCounter, local, ticks, dwell,
                 overlapped>>

ChangeST(j) ==
  /\ pc[j] = "ST"
  /\ SetRate(j, "ST", local[j].forward)
  /\ pc' = [pc EXCEPT ![j] = "reset"]
  /\ UNCHANGED <<ACMList, CurrentACM, ACMCounter, local, ticks, dwell,
                 overlapped>>

Reset(j) ==
  /\ pc[j] = "reset"
  /\ ACMCounter' = 0
  /\ pc' = [pc EXCEPT ![j] = "count"]
  /\ UNCHANGED <<ACMList, CurrentACM, classRate, local, ticks, dwell, tcFailed,
                 overlapped>>

\* t.ACMCounter++ reads and then writes.
CountRead(j) ==
  /\ pc[j] = "count"
  /\ local' = [local EXCEPT ![j].counter = ACMCounter]
  /\ pc' = [pc EXCEPT ![j] = "store"]
  /\ UNCHANGED <<ACMList, CurrentACM, ACMCounter, classRate, ticks, dwell, tcFailed,
                 overlapped>>

CountWrite(j) ==
  /\ pc[j] = "store"
  /\ ACMCounter' = local[j].counter + 1
  /\ pc' = [pc EXCEPT ![j] = "idle"]
  /\ dwell' = dwell + 1
  /\ UNCHANGED <<ACMList, CurrentACM, classRate, local, ticks, tcFailed,
                 overlapped>>

RunACM(j) ==
  \/ Check(j) \/ Pick(j) \/ ReadForward(j) \/ ReadReturn(j) \/ ChangeGW(j)
  \/ ChangeST(j) \/ Reset(j) \/ CountRead(j) \/ CountWrite(j)

AcmNext == \E j \in Jobs : Tick(j) \/ RunACM(j)

AcmSpec == AcmInit /\ [][AcmNext]_acmVars
-----------------------------------------------------------------------------
\* The types of the variables.
AcmTypeOK ==
  /\ CurrentACM \in ACMList \cup {NoACM}
  /\ ACMCounter \in Nat /\ dwell \in Nat
  /\ classRate \in [{"GW", "ST"} -> Int]
  /\ pc \in [Jobs -> {"idle", "check", "pick", "forward", "return", "GW", "ST",
                      "reset", "count", "store", "panic"}]
  /\ local \in [Jobs -> [forward : Int, return : Int, counter : Nat]]
  /\ ticks \in 0 .. MaxTicks
  /\ tcFailed \in BOOLEAN /\ overlapped \in BOOLEAN

\* As long as no jobs overlap, between two of them both directions have the
\* rate of the entry that is current, unless a tc has failed.
RatesOfCurrent ==
  Idle /\ CurrentACM # NoACM /\ ~tcFailed /\ ~overlapped =>
    /\ classRate["GW"] = Share(Return, CurrentACM) * Mbit
    /\ classRate["ST"] = Share(Forward, CurrentACM) * Mbit

\* As long as no jobs overlap, an entry lasts for exactly its Duration, and
\* never less than one job.
LastsItsDuration ==
  [][ \A j \in Jobs :
        /\ pc[j] = "check" /\ pc'[j] = "pick"
        /\ CurrentACM # NoACM /\ ~overlapped
        => dwell = IF CurrentACM.duration > 1 THEN CurrentACM.duration
                   ELSE 1 ]_acmVars

\* However the jobs overlap, GW only ever has a rate of the return link and ST
\* one of the forward link, of some entry or as Run has configured it.
RatesFromList ==
  /\ classRate["GW"] \in {ConfiguredRate(Return)}
                           \cup {Share(Return, a) * Mbit : a \in ACMList}
  /\ classRate["ST"] \in {ConfiguredRate(Forward)}
                           \cup {Share(Forward, a) * Mbit : a \in ACMList}
=============================================================================
