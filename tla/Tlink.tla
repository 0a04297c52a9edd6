------------------------------- MODULE Tlink --------------------------------
(***************************************************************************)
(* The life of tlink processes on one host (main.go, runtime/trunks.go):   *)
(* start, with or without --flush, the commands of FlushTables and Run one *)
(* by one, each a child process that may fail, the wait for a signal, and  *)
(* SIGTERM or SIGINT at any point, followed by another start.              *)
(*                                                                         *)
(* The state of the kernel outlives the process, and so may the command    *)
(* that was running when the signal came: os.Exit does not wait for it.    *)
(***************************************************************************)
EXTENDS LinkKernel, FiniteSets

CONSTANTS Configs(_),   \* the configurations processes are started with, for
                        \* each value of t.QoS
          QoSValues,    \* the values of t.QoS
          KernelBugged, \* uname reports the kernel of issue 6
          MaxRuns,      \* bound on the processes started one after another
          MaxFaults     \* bound on the commands that fail by themselves

\* Bandwidths in kbit, delays in ms, whole numbers.
ASSUME ConfigsAssumption ==
  \A q \in QoSValues :
    Configs(q) \subseteq [forward : Nat, return : Nat, denomination : Nat,
                          jitter : Nat]
ASSUME FlagsAssumption ==
  QoSValues \subseteq BOOLEAN /\ KernelBugged \in BOOLEAN
ASSUME BoundsAssumption == MaxRuns \in Nat /\ MaxFaults \in Nat

\* The configurations whose commands tc can all carry out: a rate is left for
\* every class and, with QoS, the last netem of ST has the jitter it needs.
WellFormed ==
  \A q \in QoSValues : \A c \in Configs(q) :
    /\ c.forward > 0 /\ c.return > 0
    /\ q => /\ c.forward > 1 /\ c.return > 1 /\ c.jitter > 1
            /\ ~KernelBugged

VARIABLES kernel,    \* the configuration of the kernel
          status,    \* "off", "busy" with a command, or "up" in select {}
          qos,       \* t.QoS, the same for all processes
          config,    \* the configuration of the process
          flush,     \* its --flush
          todo,      \* the commands not yet finished, the first one running
          flushErr,  \* the error of iptables -F, which FlushTables returns
          exitCode,  \* of the last process that ended
          orphans,   \* commands still running although their process is gone,
                     \* each with the number of its process
          runs,      \* processes started
          faults,    \* commands failed by themselves
          alone,     \* history: this process flushed, and no command of an
                     \* earlier one was left when it started
          failed,    \* history: commands of this process failed by themselves
          noise      \* history: ever a command failed by itself, ended after
                     \* its process, or a process was killed while busy

vars == <<kernel, status, qos, config, flush, todo, flushErr, exitCode,
          orphans, runs, faults, alone, failed, noise>>
-----------------------------------------------------------------------------
(* The commands.                                                           *)

\* math.Round of half a whole number.
Half(n) == (n + 1) \div 2

\* 1.5 * (bw * 1000000) * (denomination / (2 * 1000)) / (8 * 1500), rounded.
Qlen(bw, denomination) == (bw * denomination + 8) \div 16

Mark(nic, dscp, mark) ==
  [op |-> "mark", nic |-> nic, dscp |-> dscp, mark |-> mark]
Root(dev, default) == [op |-> "addRoot", dev |-> dev, default |-> default]
Class(dev, parent, id, rate) ==
  [op |-> "addClass", dev |-> dev, parent |-> parent, id |-> id, rate |-> rate]
Netem(dev, class, delay, jitter, limit) ==
  [op |-> "addNetem", dev |-> dev, class |-> class, delay |-> delay,
   jitter |-> jitter, limit |-> limit]
Filter(dev, mark, class) ==
  [op |-> "addFilter", dev |-> dev, mark |-> mark, class |-> class]

FlushCommands ==
  << [op |-> "flushMarks"],
     [op |-> "delFilters", dev |-> "GW"], [op |-> "delRoot", dev |-> "GW"],
     [op |-> "delFilters", dev |-> "ST"], [op |-> "delRoot", dev |-> "ST"] >>

\* The jitter given to netem, 0 for none.
Jitter(c, jittered) == IF jittered THEN Half(c.jitter) ELSE 0

\* Mutant: the filter comes before the class and its netem.
PlainLinkFilterFirst(dev, mark, bw, c, jittered) ==
  << Root(dev, 30), Filter(dev, mark, 1), Class(dev, 0, 1, bw),
     Netem(dev, 1, Half(c.denomination), Jitter(c, jittered),
           Qlen(bw, c.denomination)) >>

\* Without QoS a device has one class; its default class does not exist.
PlainLink(dev, mark, bw, c, jittered) ==
  << Root(dev, 30), Class(dev, 0, 1, bw),
     Netem(dev, 1, Half(c.denomination), Jitter(c, jittered),
           Qlen(bw, c.denomination)),
     Filter(dev, mark, 1) >>

PlainCommands(c, jittered) ==
  << [op |-> "sysctl"], Mark("ST", "any", 10), Mark("GW", "any", 20) >>
    \o PlainLink("GW", 10, c.return, c, jittered)
    \o PlainLink("ST", 20, c.forward, c, jittered)

\* Mutant: the general rule comes last and wins.
QoSMarksLast(nic, mark) ==
  << Mark(nic, "0x2c", mark + 1), Mark(nic, "0x2e", mark + 1),
     Mark(nic, "any", mark) >>

QoSMarks(nic, mark) ==
  << Mark(nic, "any", mark), Mark(nic, "0x2c", mark + 1),
     Mark(nic, "0x2e", mark + 1) >>

\* With QoS a device has a class for VoIP and one, the default, for the rest.
QoSLink(dev, mark, parent, rates, delayRest, qlens, c, jittered) ==
  << Root(dev, 20), Class(dev, 0, 1, rates[1]), Class(dev, parent, 10, 2),
     Netem(dev, 10, Half(c.denomination), Jitter(c, jittered), qlens[1]),
     Class(dev, parent, 20, rates[2]),
     Netem(dev, 20, delayRest, Jitter(c, jittered), qlens[2]),
     Filter(dev, mark + 1, 10), Filter(dev, mark, 20) >>

\* The last netem of ST is given no delay when there is no jitter.
QoSCommands(c, jittered) ==
  << [op |-> "sysctl"] >> \o QoSMarks("ST", 10) \o QoSMarks("GW", 20)
    \o QoSLink("GW", 10, 1, <<c.return, c.return - 1>>, Half(c.denomination),
               <<Qlen(c.return, c.denomination),
                 Qlen(c.return, c.denomination)>>,
               c, jittered)
    \o QoSLink("ST", 20, 0, <<c.forward, c.forward - 1>>,
               IF jittered THEN Half(c.denomination) ELSE Malformed,
               <<Qlen(2, c.denomination), Qlen(c.forward - 1, c.denomination)>>,
               c, jittered)

RunCommands(c, jittered) ==
  IF qos THEN QoSCommands(c, jittered) ELSE PlainCommands(c, jittered)

\* What isKernelVersionBugged may answer: a uname that fails means FALSE.
BuggedAnswers == IF KernelBugged THEN BOOLEAN ELSE {FALSE}

HasJitter(c) == {c.jitter > 1 /\ ~bugged : bugged \in BuggedAnswers}
-----------------------------------------------------------------------------
NoConfig == [forward |-> 0, return |-> 0, denomination |-> 0, jitter |-> 0]

Init ==
  /\ kernel = Empty
  /\ status = "off"
  /\ qos \in QoSValues
  /\ config = NoConfig
  /\ flush = FALSE
  /\ todo = <<>>
  /\ flushErr = FALSE
  /\ exitCode = 0
  /\ orphans = {}
  /\ runs = 0
  /\ faults = 0
  /\ alone = FALSE
  /\ failed = FALSE
  /\ noise = FALSE

\* Mutant: the tables are flushed whatever the value of --flush.
StartAlwaysFlushes(c, f) ==
  /\ status = "off"
  /\ runs < MaxRuns
  /\ \E jittered \in HasJitter(c) :
       todo' = FlushCommands \o RunCommands(c, jittered)
  /\ status' = "busy"
  /\ config' = c
  /\ flush' = f
  /\ flushErr' = FALSE
  /\ runs' = runs + 1
  /\ alone' = (f /\ orphans = {})
  /\ failed' = FALSE
  /\ UNCHANGED <<kernel, qos, exitCode, orphans, faults, noise>>

\* InitTrunks succeeds.  What will be run is fixed by the configuration and
\* by the answer of uname.
Start(c, f) ==
  /\ status = "off"
  /\ runs < MaxRuns
  /\ \E jittered \in HasJitter(c) :
       todo' = (IF f THEN FlushCommands ELSE <<>>) \o RunCommands(c, jittered)
  /\ status' = "busy"
  /\ config' = c
  /\ flush' = f
  /\ flushErr' = FALSE
  /\ runs' = runs + 1
  /\ alone' = (f /\ orphans = {})
  /\ failed' = FALSE
  /\ UNCHANGED <<kernel, qos, exitCode, orphans, faults, noise>>

\* InitTrunks returns an error: main exits before it runs a command.
StartFails ==
  /\ status = "off"
  /\ runs < MaxRuns
  /\ runs' = runs + 1
  /\ exitCode' = 1
  /\ UNCHANGED <<kernel, status, qos, config, flush, todo, flushErr, orphans,
                 faults, alone, failed, noise>>

\* The command that is running ends; ok is FALSE when it fails by itself.
\* runTC, runIPtables and runSYSCTL log a failure; only FlushTables keeps an
\* error, and only that of iptables.
Finish(ok) ==
  LET cmd == Head(todo) IN
  /\ status = "busy"
  /\ ok \/ faults < MaxFaults
  /\ kernel' = IF ok THEN After(kernel, cmd) ELSE kernel
  /\ flushErr' = (flushErr \/ (cmd.op = "flushMarks" /\ ~ok))
  /\ faults' = IF ok THEN faults ELSE faults + 1
  /\ failed' = (failed \/ ~ok)
  /\ noise' = (noise \/ ~ok)

\* FlushTables has run its last command and returns an error.
FlushFailed ==
  /\ flushErr
  /\ Head(todo) = FlushCommands[Len(FlushCommands)]

Command(ok) ==
  /\ Finish(ok)
  /\ ~FlushFailed
  /\ todo' = Tail(todo)
  /\ status' = IF Tail(todo) = <<>> THEN "up" ELSE "busy"
  /\ UNCHANGED <<qos, config, flush, exitCode, orphans, runs, alone>>

\* main exits after "Impossible to flush tables".
FlushExit(ok) ==
  /\ Finish(ok)
  /\ FlushFailed
  /\ todo' = <<>>
  /\ status' = "off"
  /\ exitCode' = 1
  /\ UNCHANGED <<qos, config, flush, orphans, runs, alone>>

\* initSignals exits at once.  The command that is running dies too when the
\* signal goes to the whole process group, and is left alone otherwise.
Signal ==
  /\ status \in {"busy", "up"}
  /\ status' = "off"
  /\ todo' = <<>>
  /\ \/ orphans' = orphans
     \/ status = "busy" /\ orphans' = orphans \cup {<<runs, Head(todo)>>}
  /\ exitCode' = 0
  /\ noise' = (noise \/ status = "busy")
  /\ UNCHANGED <<kernel, qos, config, flush, flushErr, runs, faults, alone,
                 failed>>

OrphanDone(orphan) ==
  /\ kernel' = After(kernel, orphan[2])
  /\ orphans' = orphans \ {orphan}
  /\ UNCHANGED <<status, qos, config, flush, todo, flushErr, exitCode, runs,
                 faults, alone, failed, noise>>

Next ==
  \/ \E c \in Configs(qos), f \in BOOLEAN : Start(c, f)
  \/ StartFails
  \/ \E ok \in BOOLEAN : Command(ok) \/ FlushExit(ok)
  \/ Signal
  \/ \E orphan \in orphans : OrphanDone(orphan)

Spec == Init /\ [][Next]_vars
-----------------------------------------------------------------------------
\* The types of the variables; the process has a command running exactly
\* while it is busy.
TypeOK ==
  /\ status \in {"off", "busy", "up"}
  /\ config \in Configs(qos) \cup {NoConfig}
  /\ todo = <<>> <=> status # "busy"
  /\ exitCode \in {0, 1}
  /\ runs \in 0 .. MaxRuns
  /\ faults \in 0 .. MaxFaults
  /\ \A orphan \in orphans : orphan[1] \in 1 .. runs
  /\ DOMAIN kernel.tree = Devices
  /\ {qos, flush, flushErr, alone, failed, noise} \subseteq BOOLEAN

\* The treatment configuration c asks for: packets coming in on ST leave on
\* GW, the return link, and the others take the forward link.  With QoS the
\* two DSCP values get a class of their own.
Wanted(c, dev, dscp) ==
  LET bw   == IF dev = "ST" THEN c.return ELSE c.forward
      rate == IF ~qos THEN bw ELSE IF dscp = "other" THEN bw - 1 ELSE 2
  IN [rate |-> rate, delay |-> Half(c.denomination)]

\* The part of a treatment that Wanted speaks of.
Shaping(k, dev, dscp) ==
  LET t == Treatment(k, dev, dscp) IN [rate |-> t.rate, delay |-> t.delay]

\* The link between ST and GW is emulated as configuration c says.
Emulates(k, c) ==
  /\ k.forward
  /\ \A dev \in Devices, dscp \in Dscps :
       Shaping(k, dev, dscp) = Wanted(c, dev, dscp)

\* A process started with --flush, alone and with commands that do not fail,
\* is up only when every packet, in both directions and of each kind, is
\* treated as its configuration says, whatever earlier processes left behind.
LinkAsConfigured ==
  status = "up" /\ alone /\ ~failed => Emulates(kernel, config)

\* Such a process, whatever tc commands fail, leaves each MARK rule once.
MarkedOnce ==
  status = "up" /\ alone =>
    \A i, j \in 1 .. Len(kernel.mangle) :
      kernel.mangle[i] = kernel.mangle[j] => i = j

\* Short of failures, interruptions and commands outliving their process, a
\* process that is up finds the link emulated as one configuration says, of
\* this process or an earlier one: never a mixture of two.
OneConfiguration ==
  status = "up" /\ ~noise => \E c \in Configs(qos) : Emulates(kernel, c)

\* The state of the link in one invariant: what a process that is up finds is
\* what it asked for, each rule once, and never a mixture of two
\* configurations (types included).
LinkState ==
  /\ TypeOK
  /\ LinkAsConfigured
  /\ MarkedOnce
  /\ OneConfiguration

\* Without QoS and --flush the first configuration wins: once the link is
\* emulated as it says, no command of a later process changes that.
FirstConfigurationWins ==
  [][ ~qos /\ ~flush /\ ~noise' =>
        \A c \in Configs(qos) :
          Emulates(kernel, c) => Emulates(kernel', c) ]_vars

\* Without QoS a direction is shaped in one step, rate and delay together,
\* and unshaped in one step: no packet sees one without the other, nor the
\* rate of one configuration turn into that of another.
ShapedInOneStep ==
  [][ ~qos /\ ~noise' => \A dev \in Devices, dscp \in Dscps :
        LET before == Treatment(kernel, dev, dscp)
            after  == Treatment(kernel', dev, dscp)
        IN before # after => Unshaped \in {before, after} ]_vars
=============================================================================
