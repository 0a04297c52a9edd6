----------------------------- MODULE TlinkProofs -----------------------------
(***************************************************************************)
(* Proofs about the parts of tlink: LinkInterfaces, how it finds its       *)
(* devices, Tlink, what it makes of the kernel, and AcmScheduler, how it   *)
(* changes the rates.                                                      *)
(*                                                                         *)
(* LinkInterfaces, for every host and configuration file.  The loop        *)
(* compares each address with a t.NIC that it has changed itself.  That    *)
(* this makes no difference rests on the names of interfaces not being     *)
(* addresses (NamesAssumption).                                            *)
(*                                                                         *)
(* Tlink, for every set of configurations that is WellFormed, and for      *)
(* any number of processes and of failing commands.  The inductive         *)
(* invariant follows a process by the place of its last command in its     *)
(* program: what the commands up to there have made of the tables, when    *)
(* the process flushed them, or what they found complete, when it did not. *)
(*                                                                         *)
(* AcmScheduler, for every list of entries, every bandwidth and any number *)
(* of overlapping jobs: each device only ever gets rates of its own        *)
(* direction; and as long as no two jobs overlap, the rates are those of   *)
(* the current entry, which lasts for its Duration.                        *)
(***************************************************************************)
EXTENDS Tlink, LinkInterfaces, AcmScheduler, SequenceTheorems, WellFoundedInduction, TLAPS
-----------------------------------------------------------------------------
(* Finding the devices.                                                    *)

\* Among the first n addresses the first one that is c belongs to x or, when
\* there is none, x is still c.
Resolved(x, c, n) ==
  \/ x = c /\ \A i \in 1 .. n : host[i].ip # c
  \/ \E i \in 1 .. n :
       /\ host[i].ip = c /\ x = host[i].name
       /\ \A j \in 1 .. i - 1 : host[j].ip # c

LookupTypes ==
  /\ host \in Seq(Bindings)
  /\ \A i \in DOMAIN host : host[i].name \in ifaces
  /\ ifaces \subseteq Names
  /\ conf \in [st : NicValues, gw : NicValues, nil : BOOLEAN]
  /\ nic \in [st : NicValues, gw : NicValues, nil : BOOLEAN]
  /\ next \in 1 .. Len(host) + 1
  /\ lookup \in {"check", "find", "ok", "error", "panic"}

\* The inductive invariant.
LookupInv ==
  /\ LookupTypes
  /\ lookup = "check" => nic = conf /\ next = 1
  /\ lookup = "find" => /\ Resolved(nic.st, conf.st, next - 1)
                        /\ Resolved(nic.gw, conf.gw, next - 1)
  /\ lookup = "ok" => /\ nic.st \in ifaces /\ nic.gw \in ifaces
                      /\ DevicesAsConfigured
-----------------------------------------------------------------------------
\* Each address of the host is that of an interface, and not a name of one.
LEMMA Address ==
  ASSUME LookupTypes, NEW i \in 1 .. Len(host)
  PROVE  host[i].name \in ifaces /\ host[i].ip \notin Names
  <1>1. host[i] \in Bindings
    BY DEF LookupTypes
  <1>2. host[i].ip \notin Names
    BY <1>1, NamesAssumption DEF Bindings
  <1>3. QED
    BY <1>2 DEF LookupTypes

\* A turn of the loop resolves a device of which the file says c, and leaves
\* one that it has resolved before.
LEMMA ResolvedNext ==
  ASSUME LookupTypes, next <= Len(host), NEW x, NEW c,
         Resolved(x, c, next - 1)
  PROVE  /\ Resolved(IF host[next].ip = x THEN host[next].name ELSE x, c, next)
         /\ x # c => host[next].ip # x
  <1> USE DEF LookupTypes
  <1>1. CASE x = c /\ \A i \in 1 .. next - 1 : host[i].ip # c
    <2>1. CASE host[next].ip = c
      BY <1>1, <2>1 DEF Resolved
    <2>2. CASE host[next].ip # c
      BY <1>1, <2>2 DEF Resolved
    <2>3. QED
      BY <1>1, <2>1, <2>2
  <1>2. CASE \E i \in 1 .. next - 1 :
               /\ host[i].ip = c /\ x = host[i].name
               /\ \A j \in 1 .. i - 1 : host[j].ip # c
    <2>1. PICK i \in 1 .. next - 1 :
            /\ host[i].ip = c /\ x = host[i].name
            /\ \A j \in 1 .. i - 1 : host[j].ip # c
      BY <1>2
    <2>2. x \in Names /\ host[next].ip \notin Names
      BY <2>1, Address
    <2>3. host[next].ip # x
      BY <2>2
    <2>4. i \in 1 .. next
      OBVIOUS
    <2>5. QED
      BY <2>1, <2>3, <2>4 DEF Resolved
  <1>3. QED
    BY <1>1, <1>2 DEF Resolved

\* A device that has been resolved at the end of the loop is the interface
\* that carries the address.
LEMMA ResolvedCarrier ==
  ASSUME LookupTypes, NEW x, NEW c, Resolved(x, c, Len(host)), x # c
  PROVE  Carried(c) /\ x = CarrierOf(c) /\ x \in ifaces
  <1>1. PICK i \in 1 .. Len(host) :
          /\ host[i].ip = c /\ x = host[i].name
          /\ \A j \in 1 .. i - 1 : host[j].ip # c
    BY DEF Resolved
  <1> DEFINE carriers == {k \in DOMAIN host : host[k].ip = c}
  <1>2. i \in carriers /\ \A j \in carriers : i <= j
    BY <1>1 DEF LookupTypes
  <1>3. \A k \in carriers : (\A j \in carriers : k <= j) => k = i
    BY <1>2 DEF LookupTypes
  <1>4. (CHOOSE k \in carriers : \A j \in carriers : k <= j) = i
    BY <1>2, <1>3
  <1>5. QED
    BY <1>1, <1>2, <1>4 DEF Carried, CarrierOf, LookupTypes
-----------------------------------------------------------------------------
\* InitTrunks starts in the invariant.
LEMMA InitLookupInv == LookupInit => LookupInv
  <1> SUFFICES ASSUME LookupInit PROVE LookupInv
    OBVIOUS
  <1> USE MaxAddressesAssumption DEF LookupInit
  <1>1. host \in Seq(Bindings)
    BY DEF Hosts
  <1>2. conf \in [st : NicValues, gw : NicValues, nil : BOOLEAN]
    <2>1. "" \in NicValues
      BY DEF NicValues
    <2>2. CASE conf = NoConf
      BY <2>1, <2>2 DEF NoConf
    <2>3. CASE conf \in [st : NicValues, gw : NicValues, nil : {FALSE}]
      BY <2>3
    <2>4. QED
      BY <2>2, <2>3 DEF Confs
  <1>3. LookupTypes
    BY <1>1, <1>2 DEF LookupTypes
  <1>4. QED
    BY <1>3 DEF LookupInv

\* A step of the loop over the addresses keeps it.
LEMMA FindAddressStep == ASSUME LookupInv, FindAddress PROVE LookupInv'
  <1> DEFINE Turn(x) == IF host[next].ip = x THEN host[next].name ELSE x
  <1> USE DEF LookupInv
  <1>1. /\ lookup = "find" /\ lookup' = "find" /\ next <= Len(host)
        /\ next' = next + 1
        /\ UNCHANGED <<host, ifaces, conf>>
        /\ nic' = [nic EXCEPT !.gw = Turn(nic.gw), !.st = Turn(nic.st)]
    BY DEF FindAddress
  <1>2. nic'.st = Turn(nic.st) /\ nic'.gw = Turn(nic.gw)
    BY <1>1 DEF LookupTypes
  <1>3. next \in 1 .. Len(host) /\ LookupTypes
    BY <1>1 DEF LookupTypes
  <1>4. LookupTypes'
    <2>1. host[next].name \in NicValues
      <3>1. host[next].name \in ifaces
        BY <1>3, Address
      <3>2. QED
        BY <1>3, <3>1 DEF LookupTypes, NicValues
    <2>2. Turn(nic.st) \in NicValues /\ Turn(nic.gw) \in NicValues
      BY <1>3, <2>1 DEF LookupTypes
    <2>3. nic' \in [st : NicValues, gw : NicValues, nil : BOOLEAN]
      <3> HIDE DEF Turn
      <3>1. QED
        BY <1>1, <1>3, <2>2 DEF LookupTypes
    <2>4. next' \in 1 .. Len(host) + 1
      BY <1>1, <1>3
    <2>5. QED
      BY <1>1, <2>3, <2>4 DEF LookupTypes
  <1>5. /\ Resolved(Turn(nic.st), conf.st, next)
        /\ Resolved(Turn(nic.gw), conf.gw, next)
    BY <1>1, ResolvedNext
  <1>6. /\ Resolved(nic.st, conf.st, next - 1)'
        /\ Resolved(nic.gw, conf.gw, next - 1)'
    <2>1. next' - 1 = next
      BY <1>1 DEF LookupTypes
    <2>2. QED
      BY <1>1, <1>2, <1>5, <2>1 DEF Resolved
  <1>7. QED
    BY <1>1, <1>4, <1>6

\* LookupInv is an invariant of InitTrunks.
THEOREM LookupInvariance == LookupSpec => []LookupInv
  <1>1. LookupInv /\ [LookupNext]_lookupVars => LookupInv'
    <2> SUFFICES ASSUME LookupInv, [LookupNext]_lookupVars PROVE LookupInv'
      OBVIOUS
    <2>1. CASE CheckInterfaces
      <3>1. LookupTypes'
        BY <2>1 DEF CheckInterfaces, LookupInv, LookupTypes
      <3>2. CASE lookup' = "ok"
        BY <2>1, <3>1, <3>2 DEF CheckInterfaces, LookupInv, DevicesAsConfigured
      <3>3. CASE lookup' = "find"
        BY <2>1, <3>1, <3>3 DEF CheckInterfaces, LookupInv, Resolved
      <3>4. QED
        BY <2>1, <3>2, <3>3 DEF CheckInterfaces
    <2>2. CASE CheckNil \/ FindFails
      BY <2>2 DEF CheckNil, FindFails, LookupInv, LookupTypes
    <2>3. CASE FindAddress
      BY <2>3, FindAddressStep
    <2>4. CASE FindResult
      <3>1. LookupTypes' /\ lookup = "find" /\ next - 1 = Len(host)
        BY <2>4 DEF FindResult, LookupInv, LookupTypes
      <3>2. lookup' = "ok" => nic.st # conf.st /\ nic.gw # conf.gw
        BY <2>4 DEF FindResult
      <3>3. lookup' = "ok" =>
              /\ Carried(conf.st) /\ nic.st = CarrierOf(conf.st)
              /\ Carried(conf.gw) /\ nic.gw = CarrierOf(conf.gw)
              /\ nic.st \in ifaces /\ nic.gw \in ifaces
        BY <3>1, <3>2, ResolvedCarrier DEF LookupInv
      <3>4. QED
        BY <2>4, <3>1, <3>3 DEF FindResult, LookupInv, DevicesAsConfigured,
           Carried, CarrierOf
    <2>5. CASE UNCHANGED lookupVars
      BY <2>5
        DEF lookupVars, LookupInv, LookupTypes, Resolved, DevicesAsConfigured, Carried,
         CarrierOf
    <2>6. QED
      BY <2>1, <2>2, <2>3, <2>4, <2>5 DEF LookupNext
  <1>2. QED
    BY InitLookupInv, <1>1, PTL DEF LookupSpec

\* Run is handed two interfaces of the host.
THEOREM LookupTypeCorrect == LookupSpec => []LookupTypeOK
  <1>1. LookupInv => LookupTypeOK
    BY DEF LookupInv, LookupTypes, LookupTypeOK
  <1>2. QED
    BY LookupInvariance, <1>1, PTL

\* They are the ones the file names, or the first that carry its addresses.
THEOREM Configured == LookupSpec => []DevicesAsConfigured
  <1>1. LookupInv => DevicesAsConfigured
    BY DEF LookupInv, DevicesAsConfigured
  <1>2. QED
    BY LookupInvariance, <1>1, PTL

\* A name the loop has found is not taken for an address later on.
THEOREM Stays == LookupSpec => FoundStays
  <1>1. LookupInv /\ [LookupNext]_lookupVars =>
          [ /\ nic.st # conf.st => nic'.st = nic.st
            /\ nic.gw # conf.gw => nic'.gw = nic.gw ]_lookupVars
    <2> SUFFICES ASSUME LookupInv, LookupNext
                 PROVE  /\ nic.st # conf.st => nic'.st = nic.st
                        /\ nic.gw # conf.gw => nic'.gw = nic.gw
      BY DEF lookupVars
    <2>1. CASE FindAddress
      <3>1. /\ nic.st # conf.st => host[next].ip # nic.st
            /\ nic.gw # conf.gw => host[next].ip # nic.gw
        BY <2>1, ResolvedNext DEF FindAddress, LookupInv
      <3>2. QED
        BY <2>1, <3>1 DEF FindAddress, LookupInv, LookupTypes
    <2>2. CASE ~FindAddress
      BY <2>2 DEF LookupNext, CheckInterfaces, CheckNil, FindFails, FindResult
    <2>3. QED
      BY <2>1, <2>2
  <1>2. QED
    BY LookupInvariance, <1>1, PTL DEF LookupSpec, FoundStays
-----------------------------------------------------------------------------
(* The commands, by their place in the program.                            *)

\* How many commands mark packets, and how many build the tree of a device.
MarkCount == IF qos THEN 6 ELSE 2
BlockLen == IF qos THEN 8 ELSE 4

Marks == IF qos THEN QoSMarks("ST", 10) \o QoSMarks("GW", 20)
         ELSE << Mark("ST", "any", 10), Mark("GW", "any", 20) >>

\* The commands that build the tree of a device.
Block(c, jittered, dev) ==
  IF qos
  THEN IF dev = "GW"
       THEN QoSLink("GW", 10, 1, <<c.return, c.return - 1>>,
                    Half(c.denomination),
                    <<Qlen(c.return, c.denomination),
                      Qlen(c.return, c.denomination)>>, c, jittered)
       ELSE QoSLink("ST", 20, 0, <<c.forward, c.forward - 1>>,
                    IF jittered THEN Half(c.denomination) ELSE Malformed,
                    <<Qlen(2, c.denomination),
                      Qlen(c.forward - 1, c.denomination)>>, c, jittered)
  ELSE IF dev = "GW" THEN PlainLink("GW", 10, c.return, c, jittered)
       ELSE PlainLink("ST", 20, c.forward, c, jittered)

\* Where the block of a device begins among the commands of Run.
Before(dev) == 1 + MarkCount + IF dev = "GW" THEN 0 ELSE BlockLen
RunLen == 1 + MarkCount + 2 * BlockLen

\* What Run runs: the sysctl, the marks, the block of GW, the block of ST.
LEMMA Lists ==
  ASSUME NEW c, NEW j
  PROVE  /\ Len(Marks) = MarkCount
         /\ \A d \in Devices : Len(Block(c, j, d)) = BlockLen
         /\ Len(RunCommands(c, j)) = RunLen
         /\ RunCommands(c, j)[1] = [op |-> "sysctl"]
         /\ \A i \in 1 .. MarkCount : RunCommands(c, j)[1 + i] = Marks[i]
         /\ \A d \in Devices : \A i \in 1 .. BlockLen : RunCommands(c, j)[Before(d) + i] = Block(c, j, d)[i]
<1> DEFINE R == RunCommands(c, j)
<1>1. CASE qos
  <2> USE <1>1 DEF MarkCount, BlockLen, RunLen, Before, Devices
  <2>1. Len(Marks) = 6 BY DEF Marks, QoSMarks
  <2>2. \A d \in Devices : Len(Block(c, j, d)) = BlockLen BY DEF Block, QoSLink
  <2>3. R = QoSCommands(c, j) BY DEF RunCommands
  <2>4. Len(R) = 23 /\ R[1] = [op |-> "sysctl"]
    BY <2>3 DEF QoSCommands, QoSLink, QoSMarks
  <2>5. /\ R[2] = Marks[1] /\ R[3] = Marks[2] /\ R[4] = Marks[3]
        /\ R[5] = Marks[4] /\ R[6] = Marks[5] /\ R[7] = Marks[6]
    BY <2>3 DEF QoSCommands, QoSLink, QoSMarks, Marks
  <2>6. \A i \in 1 .. 8 : R[7 + i] = Block(c, j, "GW")[i]
    <3>1. LET b == Block(c, j, "GW")
          IN /\ R[8] = b[1] /\ R[9] = b[2] /\ R[10] = b[3] /\ R[11] = b[4]
             /\ R[12] = b[5] /\ R[13] = b[6] /\ R[14] = b[7] /\ R[15] = b[8]
      BY <2>3 DEF QoSCommands, QoSLink, QoSMarks, Block
    <3> HIDE DEF R
    <3> QED BY <3>1
  <2>7. \A i \in 1 .. 8 : R[15 + i] = Block(c, j, "ST")[i]
    <3>1. LET b == Block(c, j, "ST")
          IN /\ R[16] = b[1] /\ R[17] = b[2] /\ R[18] = b[3] /\ R[19] = b[4]
             /\ R[20] = b[5] /\ R[21] = b[6] /\ R[22] = b[7] /\ R[23] = b[8]
      BY <2>3 DEF QoSCommands, QoSLink, QoSMarks, Block
    <3> HIDE DEF R
    <3> QED BY <3>1
  <2> HIDE DEF R
  <2>8. \A i \in 1 .. 6 : R[1 + i] = Marks[i] BY <2>5
  <2>9. RunLen = 23 /\ MarkCount = 6 /\ BlockLen = 8 /\ Before("GW") = 7 /\ Before("ST") = 15 OBVIOUS
  <2> QED BY <2>1, <2>2, <2>4, <2>6, <2>7, <2>8, <2>9 DEF R
<1>2. CASE ~qos
  <2> USE <1>2 DEF MarkCount, BlockLen, RunLen, Before, Devices
  <2>1. Len(Marks) = 2 BY DEF Marks
  <2>2. \A d \in Devices : Len(Block(c, j, d)) = BlockLen BY DEF Block, PlainLink
  <2>3. R = PlainCommands(c, j) BY DEF RunCommands
  <2>4. Len(R) = 11 /\ R[1] = [op |-> "sysctl"] BY <2>3 DEF PlainCommands, PlainLink
  <2>5. R[2] = Marks[1] /\ R[3] = Marks[2]
    BY <2>3 DEF PlainCommands, PlainLink, Marks
  <2>6. \A i \in 1 .. 4 : R[3 + i] = Block(c, j, "GW")[i]
    <3>1. LET b == Block(c, j, "GW")
          IN R[4] = b[1] /\ R[5] = b[2] /\ R[6] = b[3] /\ R[7] = b[4]
      BY <2>3 DEF PlainCommands, PlainLink, Block
    <3> HIDE DEF R
    <3> QED BY <3>1
  <2>7. \A i \in 1 .. 4 : R[7 + i] = Block(c, j, "ST")[i]
    <3>1. LET b == Block(c, j, "ST")
          IN R[8] = b[1] /\ R[9] = b[2] /\ R[10] = b[3] /\ R[11] = b[4]
      BY <2>3 DEF PlainCommands, PlainLink, Block
    <3> HIDE DEF R
    <3> QED BY <3>1
  <2> HIDE DEF R
  <2>8. \A i \in 1 .. 2 : R[1 + i] = Marks[i] BY <2>5
  <2>9. RunLen = 11 /\ MarkCount = 2 /\ BlockLen = 4 /\ Before("GW") = 3 /\ Before("ST") = 7 OBVIOUS
  <2> QED BY <2>1, <2>2, <2>4, <2>6, <2>7, <2>8, <2>9 DEF R
<1> QED BY <1>1, <1>2
-----------------------------------------------------------------------------
(* Types.                                                                  *)

MarkCommands == {Marks[i] : i \in 1 .. MarkCount}
ClassCommands == [op : {"addClass"}, dev : Devices, parent : Nat, id : Nat, rate : Int]
NetemCommands == [op : {"addNetem"}, dev : Devices, class : Nat, delay : Int, jitter : Int, limit : Int]
FilterCommands == [op : {"addFilter"}, dev : Devices, mark : Nat, class : Nat]
RootCommands == [op : {"addRoot"}, dev : Devices, default : Nat]
DelCommands == [op : {"delFilters", "delRoot"}, dev : Devices]
BuildCommands == RootCommands \cup ClassCommands \cup NetemCommands \cup FilterCommands
Commands == MarkCommands \cup BuildCommands \cup DelCommands \cup [op : {"sysctl", "flushMarks"}]

Trees == [htb : BOOLEAN, default : Nat, class : SUBSET ClassCommands, netem : SUBSET NetemCommands,
          filter : SUBSET FilterCommands]
Kernels == [forward : BOOLEAN, mangle : Seq(MarkCommands), tree : [Devices -> Trees]]

\* Without its htb a device has nothing of it.
Bare(k) == \A d \in Devices : ~k.tree[d].htb => k.tree[d] = NoTree

\* The rules that mark packets, field by field.
LEMMA MarkFields ==
  ASSUME NEW m \in MarkCommands
  PROVE  /\ m = [op |-> "mark", nic |-> m.nic, dscp |-> m.dscp, mark |-> m.mark]
         /\ m.nic \in Devices /\ m.dscp \in Dscps \cup {"any"} /\ m.mark \in Nat
         /\ ~qos => m.dscp = "any" /\ m.mark = IF m.nic = "ST" THEN 10 ELSE 20
<1>1. PICK i \in 1 .. MarkCount : m = Marks[i] BY DEF MarkCommands
<1>2. CASE qos
  <2> DEFINE q == QoSMarks("ST", 10) \o QoSMarks("GW", 20)
  <2>1. /\ q[1] = Mark("ST", "any", 10) /\ q[2] = Mark("ST", "0x2c", 11) /\ q[3] = Mark("ST", "0x2e", 11)
        /\ q[4] = Mark("GW", "any", 20) /\ q[5] = Mark("GW", "0x2c", 21) /\ q[6] = Mark("GW", "0x2e", 21)
    BY DEF QoSMarks
  <2>2. Marks = q BY <1>2 DEF Marks
  <2> HIDE DEF q
  <2> QED BY <1>1, <1>2, <2>1, <2>2 DEF MarkCount, Mark, Devices, Dscps
<1>3. CASE ~qos BY <1>1, <1>3 DEF MarkCount, Marks, Mark, Devices, Dscps
<1> QED BY <1>2, <1>3

\* The queue lengths and halves are whole numbers.
LEMMA QlenType ==
  ASSUME NEW b \in Int, NEW d \in Int
  PROVE  Qlen(b, d) \in Int /\ Half(d) \in Int /\ (d \in Nat => Half(d) \in Nat)
<1>1. b * d \in Int OBVIOUS
<1> QED BY <1>1 DEF Qlen, Half

\* The commands of a block, and that they are those of a device.
LEMMA BlockTypes ==
  ASSUME NEW c \in [forward : Nat, return : Nat, denomination : Nat, jitter : Nat], NEW j \in BOOLEAN,
         NEW d \in Devices, NEW i \in 1 .. BlockLen
  PROVE  Block(c, j, d)[i] \in BuildCommands /\ Block(c, j, d)[i].dev = d
<1>1. /\ Half(c.denomination) \in Int /\ Jitter(c, j) \in Int
      /\ Qlen(c.return, c.denomination) \in Int /\ Qlen(c.forward, c.denomination) \in Int
      /\ Qlen(2, c.denomination) \in Int /\ Qlen(c.forward - 1, c.denomination) \in Int
  <2>1. /\ c.denomination \in Int /\ c.jitter \in Int /\ c.return \in Int /\ c.forward \in Int
        /\ c.forward - 1 \in Int /\ 2 \in Int
    OBVIOUS
  <2>2. Half(c.jitter) \in Int /\ Half(c.denomination) \in Int BY <2>1, QlenType
  <2> QED BY <2>1, <2>2, QlenType DEF Jitter
<1>2. ASSUME NEW delay \in Int, NEW jit \in Int, NEW limit \in Int, NEW class \in Nat
      PROVE  Netem(d, class, delay, jit, limit) \in NetemCommands
  BY DEF Netem, NetemCommands
<1>3. ASSUME NEW rate \in Int, NEW p \in Nat, NEW id \in Nat
  PROVE Class(d, p, id, rate) \in ClassCommands
  BY DEF Class, ClassCommands
<1>4. ASSUME NEW m \in Nat, NEW id \in Nat PROVE Filter(d, m, id) \in FilterCommands
  BY DEF Filter, FilterCommands
<1>5. Root(d, 20) \in RootCommands /\ Root(d, 30) \in RootCommands
  BY DEF Root, RootCommands
<1>6. Malformed \in Int BY DEF Malformed
<1>7. CASE qos
  <2>1. ASSUME NEW m \in Nat, NEW p \in Nat, NEW r1 \in Int, NEW r2 \in Int, NEW dl \in Int, NEW q1 \in Int, NEW q2 \in Int,
               Block(c, j, d) = QoSLink(d, m, p, <<r1, r2>>, dl, <<q1, q2>>, c, j)
        PROVE  Block(c, j, d)[i] \in BuildCommands
    <3> DEFINE b == Block(c, j, d)
    <3>1. /\ b[1] \in BuildCommands /\ b[2] \in BuildCommands /\ b[3] \in BuildCommands /\ b[4] \in BuildCommands
          /\ b[5] \in BuildCommands /\ b[6] \in BuildCommands /\ b[7] \in BuildCommands /\ b[8] \in BuildCommands
      <4> DEFINE x == Half(c.denomination)
                 y == Jitter(c, j)
      <4>1. b = << Root(d, 20), Class(d, 0, 1, r1), Class(d, p, 10, 2), Netem(d, 10, x, y, q1),
                   Class(d, p, 20, r2), Netem(d, 20, dl, y, q2), Filter(d, m + 1, 10), Filter(d, m, 20) >>
        BY <2>1 DEF QoSLink
      <4>2. x \in Int /\ y \in Int BY <1>1
      <4> HIDE DEF x, y, b
      <4>3. /\ Root(d, 20) \in RootCommands /\ Class(d, 0, 1, r1) \in ClassCommands
            /\ Class(d, p, 10, 2) \in ClassCommands /\ Class(d, p, 20, r2) \in ClassCommands
        BY <1>3, <1>5
      <4>4. Netem(d, 10, x, y, q1) \in NetemCommands /\ Netem(d, 20, dl, y, q2) \in NetemCommands
        BY <1>2, <4>2
      <4>5. Filter(d, m + 1, 10) \in FilterCommands /\ Filter(d, m, 20) \in FilterCommands
        BY <1>4
      <4>6. \A e \in RootCommands \cup ClassCommands \cup NetemCommands \cup FilterCommands : e \in BuildCommands
        BY DEF BuildCommands
      <4> QED BY <4>1, <4>3, <4>4, <4>5, <4>6
    <3> HIDE DEF b
    <3>2. b[i] \in BuildCommands BY <1>7, <3>1 DEF BlockLen
    <3> QED BY <3>2 DEF b
  <2>2. Block(c, j, d)[i] \in BuildCommands
    <3>1. CASE d = "GW"
      <4>1. Block(c, j, d) = QoSLink(d, 10, 1, <<c.return, c.return - 1>>, Half(c.denomination),
                                     <<Qlen(c.return, c.denomination), Qlen(c.return, c.denomination)>>, c, j)
        BY <1>7, <3>1 DEF Block
      <4> QED BY SMTT(30), <1>1, <2>1, <4>1
    <3>2. CASE d = "ST"
      <4> DEFINE delay == IF j THEN Half(c.denomination) ELSE Malformed
      <4>1. Block(c, j, d) = QoSLink(d, 20, 0, <<c.forward, c.forward - 1>>, delay,
                                     <<Qlen(2, c.denomination), Qlen(c.forward - 1, c.denomination)>>, c, j)
        BY <1>7, <3>2 DEF Block
      <4>2. delay \in Int BY <1>1, <1>6
      <4> HIDE DEF delay
      <4> QED BY SMTT(30), <1>1, <2>1, <4>1, <4>2
    <3> QED BY <3>1, <3>2 DEF Devices
  <2>3. Block(c, j, d)[i].dev = d
    BY SMTT(30), <1>7 DEF Block, Devices, QoSLink, Root, Class, Netem, Filter, BlockLen
  <2> QED BY <2>2, <2>3
<1>8. CASE ~qos
  <2>1. ASSUME NEW m \in Nat, NEW r \in Int, Qlen(r, c.denomination) \in Int,
               Block(c, j, d) = PlainLink(d, m, r, c, j)
        PROVE  Block(c, j, d)[i] \in BuildCommands
    <3> DEFINE b == Block(c, j, d)
    <3>1. b[1] \in BuildCommands /\ b[2] \in BuildCommands /\ b[3] \in BuildCommands /\ b[4] \in BuildCommands
      BY SMTT(30), <1>1, <1>2, <1>3, <1>4, <1>5, <2>1 DEF PlainLink, BuildCommands
    <3> HIDE DEF b
    <3>2. b[i] \in BuildCommands BY <1>8, <3>1 DEF BlockLen
    <3> QED BY <3>2 DEF b
  <2>2. Block(c, j, d)[i] \in BuildCommands
    BY <1>1, <1>8, <2>1 DEF Block, Devices
  <2>3. Block(c, j, d)[i].dev = d
    BY <1>8 DEF Block, Devices, PlainLink, Root, Class, Netem, Filter, BlockLen
  <2> QED BY <2>2, <2>3
<1> QED BY <1>7, <1>8

\* Whatever command the kernel is given, it stays one of these.
LEMMA AfterTypes ==
  ASSUME NEW k \in Kernels, Bare(k), NEW cmd \in Commands
  PROVE  After(k, cmd) \in Kernels /\ Bare(After(k, cmd))
<1>1. CASE ~Accepted(k, cmd) BY <1>1 DEF After
<1>2. CASE Accepted(k, cmd)
  <2>0. After(k, cmd) = Effect(k, cmd) BY <1>2 DEF After
  <2>1. CASE cmd \in MarkCommands
    <3>1. Effect(k, cmd) = [k EXCEPT !.mangle = Append(@, cmd)]
      BY <2>1, MarkFields DEF Effect
    <3>2. Append(k.mangle, cmd) \in Seq(MarkCommands)
      BY <2>1, AppendProperties DEF Kernels
    <3>3. After(k, cmd) \in Kernels /\ After(k, cmd).tree = k.tree
      BY <2>0, <3>1, <3>2 DEF Kernels
    <3> QED BY <3>3 DEF Bare
  <2>2. CASE cmd \in [op : {"sysctl", "flushMarks"}]
    <3>1. <<>> \in Seq(MarkCommands) OBVIOUS
    <3> QED BY <2>0, <2>2, <3>1 DEF Effect, Kernels, Bare
  <2>3. ASSUME NEW t \in Trees, ~t.htb => t = NoTree, NEW d \in Devices,
               Effect(k, cmd) = [k EXCEPT !.tree[d] = t]
        PROVE  After(k, cmd) \in Kernels /\ Bare(After(k, cmd))
    <3> DEFINE g == [k.tree EXCEPT ![d] = t]
    <3>1. g \in [Devices -> Trees] /\ \A e \in Devices : ~g[e].htb => g[e] = NoTree
      BY <2>3 DEF Kernels, Bare
    <3>2. After(k, cmd) = [k EXCEPT !.tree = g] BY <2>0, <2>3 DEF Kernels
    <3> HIDE DEF g
    <3>3. After(k, cmd) \in Kernels /\ After(k, cmd).tree = g
      BY <3>1, <3>2 DEF Kernels
    <3> QED BY <3>1, <3>3 DEF Bare
  <2>4. CASE cmd \in DelCommands
    <3>1. cmd.dev \in Devices /\ k.tree[cmd.dev] \in Trees /\ k.tree[cmd.dev].htb
      BY <1>2, <2>4 DEF DelCommands, Accepted, Kernels
    <3>2. [k.tree[cmd.dev] EXCEPT !.filter = {}] \in Trees /\ [k.tree[cmd.dev] EXCEPT !.filter = {}].htb
      BY <3>1 DEF Trees
    <3>3. NoTree \in Trees BY DEF NoTree, Trees
    <3> DEFINE t == [k.tree[cmd.dev] EXCEPT !.filter = {}]
    <3>4. \/ Effect(k, cmd) = [k EXCEPT !.tree[cmd.dev] = t]
          \/ Effect(k, cmd) = [k EXCEPT !.tree[cmd.dev] = NoTree]
      BY <2>4 DEF Effect, DelCommands, Kernels
    <3>5. t \in Trees /\ t.htb BY <3>2
    <3> HIDE DEF t
    <3> QED BY <2>3, <3>1, <3>3, <3>4, <3>5
  <2>5. CASE cmd \in RootCommands
    <3>1. cmd.dev \in Devices /\ k.tree[cmd.dev] \in Trees /\ cmd.default \in Nat
      BY <2>5 DEF RootCommands, Kernels
    <3> DEFINE t == [k.tree[cmd.dev] EXCEPT !.htb = TRUE, !.default = cmd.default]
    <3>2. t \in Trees /\ t.htb BY <3>1 DEF Trees
    <3>3. Effect(k, cmd) = [k EXCEPT !.tree[cmd.dev] = t]
      BY <2>5 DEF Effect, RootCommands, Kernels
    <3> HIDE DEF t
    <3> QED BY <2>3, <3>1, <3>2, <3>3
  <2>6. CASE cmd \in ClassCommands
    <3>1. cmd.dev \in Devices /\ k.tree[cmd.dev] \in Trees /\ k.tree[cmd.dev].htb
      BY <1>2, <2>6 DEF ClassCommands, Accepted, Kernels
    <3> DEFINE t == [k.tree[cmd.dev] EXCEPT !.class = @ \cup {cmd}]
    <3>2. t \in Trees /\ t.htb BY <2>6, <3>1 DEF Trees
    <3>3. Effect(k, cmd) = [k EXCEPT !.tree[cmd.dev] = t]
      BY <2>6 DEF Effect, ClassCommands, Kernels
    <3> HIDE DEF t
    <3> QED BY <2>3, <3>1, <3>2, <3>3
  <2>7. CASE cmd \in NetemCommands
    <3>0. cmd.dev \in Devices /\ k.tree[cmd.dev] \in Trees /\ HasClass(k.tree[cmd.dev], cmd.class)
      BY <1>2, <2>7 DEF NetemCommands, Accepted, Kernels
    <3>1. cmd.dev \in Devices /\ k.tree[cmd.dev] \in Trees /\ k.tree[cmd.dev].htb
      BY <3>0 DEF HasClass, Bare, NoTree, Trees
    <3> DEFINE t == [k.tree[cmd.dev] EXCEPT !.netem = @ \cup {cmd}]
    <3>2. t \in Trees /\ t.htb BY <2>7, <3>1 DEF Trees
    <3>3. Effect(k, cmd) = [k EXCEPT !.tree[cmd.dev] = t]
      BY <2>7 DEF Effect, NetemCommands, Kernels
    <3> HIDE DEF t
    <3> QED BY <2>3, <3>1, <3>2, <3>3
  <2>8. CASE cmd \in FilterCommands
    <3>1. cmd.dev \in Devices /\ k.tree[cmd.dev] \in Trees /\ k.tree[cmd.dev].htb
      BY <1>2, <2>8 DEF FilterCommands, Accepted, Kernels
    <3> DEFINE t == [k.tree[cmd.dev] EXCEPT !.filter = @ \cup {cmd}]
    <3>2. t \in Trees /\ t.htb BY <2>8, <3>1 DEF Trees
    <3>3. Effect(k, cmd) = [k EXCEPT !.tree[cmd.dev] = t]
      BY <2>8 DEF Effect, FilterCommands, Kernels
    <3> HIDE DEF t
    <3> QED BY <2>3, <3>1, <3>2, <3>3
  <2> QED BY <2>1, <2>2, <2>4, <2>5, <2>6, <2>7, <2>8 DEF Commands, BuildCommands
<1> QED BY <1>1, <1>2
-----------------------------------------------------------------------------
(* The tree of a device, command by command.                               *)

\* A configuration of a process, and the jitter it uses.
Used(c, j) ==
  WellFormed /\ qos \in QoSValues /\ c \in Configs(qos) /\ j \in HasJitter(c)

\* What WellFormed gives for a configuration in use.
LEMMA UsedFacts ==
  ASSUME NEW c, NEW j, Used(c, j)
  PROVE  /\ c \in [forward : Nat, return : Nat, denomination : Nat, jitter : Nat]
         /\ j \in BOOLEAN /\ c.forward > 0 /\ c.return > 0
         /\ qos => c.forward > 1 /\ c.return > 1 /\ j
<1>1. c \in [forward : Nat, return : Nat, denomination : Nat, jitter : Nat] /\ c.forward > 0 /\ c.return > 0
  BY ConfigsAssumption DEF Used, WellFormed
<1>2. j \in BOOLEAN
  BY <1>1, FlagsAssumption DEF Used, HasJitter, BuggedAnswers
<1>3. qos => c.forward > 1 /\ c.return > 1 /\ c.jitter > 1 /\ ~KernelBugged
  BY ConfigsAssumption DEF Used, WellFormed
<1>4. qos => j BY <1>3, FlagsAssumption DEF Used, HasJitter, BuggedAnswers
<1> QED BY <1>1, <1>2, <1>3, <1>4

Bandwidth(c, dev) == IF dev = "GW" THEN c.return ELSE c.forward
\* The mark of the packets that leave on a device.
MarkFor(dev) == IF dev = "GW" THEN 10 ELSE 20

\* What a block says.
IsBlock(b, c, d) ==
  /\ \A i \in 1 .. BlockLen : b[i] \in BuildCommands /\ b[i].dev = d
  /\ Half(c.denomination) \in Nat
  /\ b[1].op = "addRoot" /\ b[2].op = "addClass" /\ b[2].parent = 0 /\ b[2].id = 1 /\ b[2].rate > 0
  /\ qos => /\ b[1].default = 20
            /\ b[3].op = "addClass" /\ b[3].parent \in {0, 1} /\ b[3].id = 10 /\ b[3].rate = 2
            /\ b[4].op = "addNetem" /\ b[4].class = 10 /\ b[4].delay = Half(c.denomination)
            /\ b[5].op = "addClass" /\ b[5].parent \in {0, 1} /\ b[5].id = 20
            /\ b[5].rate = Bandwidth(c, d) - 1 /\ b[5].rate > 0
            /\ b[6].op = "addNetem" /\ b[6].class = 20 /\ b[6].delay = Half(c.denomination)
            /\ b[7].op = "addFilter" /\ b[7].mark = MarkFor(d) + 1 /\ b[7].class = 10
            /\ b[8].op = "addFilter" /\ b[8].mark = MarkFor(d) /\ b[8].class = 20
  /\ ~qos => /\ b[1].default = 30 /\ b[2].rate = Bandwidth(c, d)
             /\ b[3].op = "addNetem" /\ b[3].class = 1 /\ b[3].delay = Half(c.denomination)
             /\ b[4].op = "addFilter" /\ b[4].mark = MarkFor(d) /\ b[4].class = 1

\* The block of a device, command by command.
LEMMA BlockIs ==
  ASSUME NEW c, NEW j, Used(c, j), NEW d \in Devices
  PROVE  IsBlock(Block(c, j, d), c, d)
<1> DEFINE b == Block(c, j, d)
<1>0. /\ c \in [forward : Nat, return : Nat, denomination : Nat, jitter : Nat] /\ j \in BOOLEAN
      /\ c.forward > 0 /\ c.return > 0 /\ c.forward \in Int /\ c.return \in Int
      /\ qos => c.forward > 1 /\ c.return > 1 /\ j
  <2>1. /\ c \in [forward : Nat, return : Nat, denomination : Nat, jitter : Nat] /\ j \in BOOLEAN
        /\ c.forward > 0 /\ c.return > 0
        /\ qos => c.forward > 1 /\ c.return > 1 /\ j
    BY UsedFacts
  <2>2. c.forward \in Int /\ c.return \in Int BY <2>1
  <2> QED BY <2>1, <2>2
<1>1. \A i \in 1 .. BlockLen : b[i] \in BuildCommands /\ b[i].dev = d
  BY <1>0, BlockTypes
<1>2. Half(c.denomination) \in Nat
  <2>1. c.denomination \in Nat /\ c.denomination \in Int BY <1>0
  <2> QED BY <2>1, QlenType
<1>3. CASE qos
  <2>1. ASSUME NEW m, NEW p \in {0, 1}, NEW r1, NEW r2, NEW dl, NEW q1, NEW q2,
               b = QoSLink(d, m, p, <<r1, r2>>, dl, <<q1, q2>>, c, j)
        PROVE  /\ b[1].op = "addRoot" /\ b[2].op = "addClass" /\ b[2].parent = 0 /\ b[2].id = 1 /\ b[2].rate = r1
               /\ b[1].default = 20
               /\ b[3].op = "addClass" /\ b[3].parent \in {0, 1} /\ b[3].id = 10 /\ b[3].rate = 2
               /\ b[4].op = "addNetem" /\ b[4].class = 10 /\ b[4].delay = Half(c.denomination)
               /\ b[5].op = "addClass" /\ b[5].parent \in {0, 1} /\ b[5].id = 20 /\ b[5].rate = r2
               /\ b[6].op = "addNetem" /\ b[6].class = 20 /\ b[6].delay = dl
               /\ b[7].op = "addFilter" /\ b[7].mark = m + 1 /\ b[7].class = 10
               /\ b[8].op = "addFilter" /\ b[8].mark = m /\ b[8].class = 20
    <3> HIDE DEF b
    <3> QED BY <2>1 DEF QoSLink, Root, Class, Netem, Filter
  <2>2. CASE d = "GW"
    <3>1. b = QoSLink(d, 10, 1, <<c.return, c.return - 1>>, Half(c.denomination),
                      <<Qlen(c.return, c.denomination), Qlen(c.return, c.denomination)>>, c, j)
      BY <1>3, <2>2 DEF Block
    <3>2. Bandwidth(c, d) = c.return /\ MarkFor(d) = 10
      BY <2>2 DEF Bandwidth, MarkFor
    <3> HIDE DEF b
    <3>3. /\ b[1].op = "addRoot" /\ b[2].op = "addClass" /\ b[2].parent = 0 /\ b[2].id = 1 /\ b[2].rate = c.return
          /\ b[1].default = 20
          /\ b[3].op = "addClass" /\ b[3].parent \in {0, 1} /\ b[3].id = 10 /\ b[3].rate = 2
          /\ b[4].op = "addNetem" /\ b[4].class = 10 /\ b[4].delay = Half(c.denomination)
          /\ b[5].op = "addClass" /\ b[5].parent \in {0, 1} /\ b[5].id = 20 /\ b[5].rate = c.return - 1
          /\ b[6].op = "addNetem" /\ b[6].class = 20 /\ b[6].delay = Half(c.denomination)
          /\ b[7].op = "addFilter" /\ b[7].mark = 10 + 1 /\ b[7].class = 10
          /\ b[8].op = "addFilter" /\ b[8].mark = 10 /\ b[8].class = 20
      BY <2>1, <3>1
    <3>4. c.return > 0 /\ c.return - 1 > 0 BY <1>0, <1>3
    <3>5. IsBlock(b, c, d) BY <1>1, <1>2, <1>3, <3>2, <3>3, <3>4 DEF IsBlock
    <3> QED BY <3>5 DEF b
  <2>3. CASE d = "ST"
    <3>1. b = QoSLink(d, 20, 0, <<c.forward, c.forward - 1>>, Half(c.denomination),
                      <<Qlen(2, c.denomination), Qlen(c.forward - 1, c.denomination)>>, c, j)
      BY <1>0, <1>3, <2>3 DEF Block
    <3>2. Bandwidth(c, d) = c.forward /\ MarkFor(d) = 20
      BY <2>3 DEF Bandwidth, MarkFor
    <3> HIDE DEF b
    <3>3. /\ b[1].op = "addRoot" /\ b[2].op = "addClass" /\ b[2].parent = 0 /\ b[2].id = 1 /\ b[2].rate = c.forward
          /\ b[1].default = 20
          /\ b[3].op = "addClass" /\ b[3].parent \in {0, 1} /\ b[3].id = 10 /\ b[3].rate = 2
          /\ b[4].op = "addNetem" /\ b[4].class = 10 /\ b[4].delay = Half(c.denomination)
          /\ b[5].op = "addClass" /\ b[5].parent \in {0, 1} /\ b[5].id = 20 /\ b[5].rate = c.forward - 1
          /\ b[6].op = "addNetem" /\ b[6].class = 20 /\ b[6].delay = Half(c.denomination)
          /\ b[7].op = "addFilter" /\ b[7].mark = 20 + 1 /\ b[7].class = 10
          /\ b[8].op = "addFilter" /\ b[8].mark = 20 /\ b[8].class = 20
      BY <2>1, <3>1
    <3>4. c.forward > 0 /\ c.forward - 1 > 0 BY <1>0, <1>3
    <3>5. IsBlock(b, c, d) BY <1>1, <1>2, <1>3, <3>2, <3>3, <3>4 DEF IsBlock
    <3> QED BY <3>5 DEF b
  <2> HIDE DEF b
  <2> QED BY <2>2, <2>3 DEF Devices, b
<1>4. CASE ~qos
  <2>1. b = PlainLink(d, MarkFor(d), Bandwidth(c, d), c, j)
    BY <1>4 DEF Block, MarkFor, Bandwidth, Devices
  <2>2. Bandwidth(c, d) > 0 BY <1>0 DEF Bandwidth
  <2> HIDE DEF b
  <2>3. /\ b[1].op = "addRoot" /\ b[2].op = "addClass" /\ b[2].parent = 0 /\ b[2].id = 1
        /\ b[2].rate = Bandwidth(c, d) /\ b[1].default = 30
        /\ b[3].op = "addNetem" /\ b[3].class = 1 /\ b[3].delay = Half(c.denomination)
        /\ b[4].op = "addFilter" /\ b[4].mark = MarkFor(d) /\ b[4].class = 1
    BY <2>1 DEF PlainLink, Root, Class, Netem, Filter
  <2>4. IsBlock(b, c, d) BY <1>1, <1>2, <1>4, <2>2, <2>3 DEF IsBlock
  <2> QED BY <2>4 DEF b
<1> QED BY <1>3, <1>4

\* Of the first n commands of a list, those at some places.
Part(b, at, n) == {b[i] : i \in at \cap 1 .. n}

\* One more command adds itself or nothing to a part of a list.
LEMMA PartNext ==
  ASSUME NEW b, NEW at, NEW n \in Nat
  PROVE  /\ n + 1 \in at => Part(b, at, n + 1) = Part(b, at, n) \cup {b[n + 1]}
         /\ n + 1 \notin at => Part(b, at, n + 1) = Part(b, at, n)
         /\ Part(b, at, 0) = {}
<1>1. 1 .. n + 1 = (1 .. n) \cup {n + 1} OBVIOUS
<1>2. 1 .. 0 = {} OBVIOUS
<1> QED BY <1>1, <1>2 DEF Part

ClassAt == IF qos THEN {2, 3, 5} ELSE {2}
NetemAt == IF qos THEN {4, 6} ELSE {3}
FilterAt == IF qos THEN {7, 8} ELSE {4}

\* What the first n commands of a block make of a device without a tree.
TreeAt(b, n) ==
  IF n = 0 THEN NoTree
  ELSE [htb |-> TRUE, default |-> b[1].default, class |-> Part(b, ClassAt, n), netem |-> Part(b, NetemAt, n),
        filter |-> Part(b, FilterAt, n)]

\* What a tree built up to some place consists of.
LEMMA TreeFields ==
  ASSUME NEW b, NEW n \in Nat
  PROVE  /\ TreeAt(b, n).htb <=> n >= 1
         /\ TreeAt(b, n).class = Part(b, ClassAt, n)
         /\ TreeAt(b, n).netem = Part(b, NetemAt, n)
         /\ TreeAt(b, n).filter = Part(b, FilterAt, n)
         /\ TreeAt(b, n).default = IF n = 0 THEN 0 ELSE b[1].default
<1>1. CASE n = 0
  <2>1. TreeAt(b, n) = NoTree BY <1>1 DEF TreeAt
  <2>2. ~NoTree.htb /\ NoTree.class = {} /\ NoTree.netem = {} /\ NoTree.filter = {} /\ NoTree.default = 0
    BY DEF NoTree
  <2>3. Part(b, ClassAt, 0) = {} /\ Part(b, NetemAt, 0) = {} /\ Part(b, FilterAt, 0) = {}
    BY DEF Part
  <2> HIDE DEF NoTree
  <2> QED BY <1>1, <2>1, <2>2, <2>3
<1>2. CASE n # 0 BY <1>2 DEF TreeAt
<1> QED BY <1>1, <1>2

\* Two trees with the same fields are the same.
LEMMA TreeEqual ==
  ASSUME NEW s \in Trees, NEW t \in Trees, s.htb <=> t.htb, s.default = t.default, s.class = t.class,
         s.netem = t.netem, s.filter = t.filter
  PROVE  s = t
BY DEF Trees

\* A tree built up to some place is a tree.
LEMMA TreeAtType ==
  ASSUME NEW b, NEW c, NEW d \in Devices, IsBlock(b, c, d), NEW n \in 0 .. BlockLen
  PROVE  TreeAt(b, n) \in Trees
<1>1. b[1] \in RootCommands
  BY
    DEF IsBlock, BlockLen, BuildCommands, RootCommands, ClassCommands, NetemCommands, FilterCommands
<1>2. \A i \in ClassAt \cap 1 .. n : b[i] \in ClassCommands
  BY
    DEF IsBlock, BlockLen, ClassAt, BuildCommands, RootCommands, ClassCommands, NetemCommands, FilterCommands
<1>3. \A i \in NetemAt \cap 1 .. n : b[i] \in NetemCommands
  BY
    DEF IsBlock, BlockLen, NetemAt, BuildCommands, RootCommands, ClassCommands, NetemCommands, FilterCommands
<1>4. \A i \in FilterAt \cap 1 .. n : b[i] \in FilterCommands
  BY
    DEF IsBlock, BlockLen, FilterAt, BuildCommands, RootCommands, ClassCommands, NetemCommands, FilterCommands
<1>5. /\ Part(b, ClassAt, n) \subseteq ClassCommands /\ Part(b, NetemAt, n) \subseteq NetemCommands
      /\ Part(b, FilterAt, n) \subseteq FilterCommands
  BY <1>2, <1>3, <1>4 DEF Part
<1>6. NoTree \in Trees BY DEF NoTree, Trees
<1>7. b[1].default \in Nat BY <1>1 DEF RootCommands
<1> QED BY <1>5, <1>6, <1>7 DEF TreeAt, Trees

\* On a tree built up to a place, the next command builds the next one: none
\* of the commands of a block is refused.
LEMMA BlockBuilds ==
  ASSUME NEW c, NEW j, Used(c, j), NEW d \in Devices, NEW n \in 0 .. BlockLen - 1, NEW k \in Kernels,
         k.tree[d] = TreeAt(Block(c, j, d), n)
  PROVE  After(k, Block(c, j, d)[n + 1]).tree[d] = TreeAt(Block(c, j, d), n + 1)
<1> DEFINE b == Block(c, j, d)
           cmd == b[n + 1]
           t == k.tree[d]
           made == TreeAt(b, n + 1)
<1>0. IsBlock(b, c, d) /\ t = TreeAt(b, n) BY BlockIs
<1> SUFFICES After(k, cmd).tree[d] = made OBVIOUS
<1> HIDE DEF b, t, cmd
<1>1. n \in Nat /\ n + 1 \in Nat /\ n + 1 \in 1 .. BlockLen /\ n + 1 # 0
  BY DEF BlockLen
<1>2. cmd \in BuildCommands /\ cmd.dev = d BY <1>0, <1>1 DEF IsBlock, cmd
<1>3. k.tree \in [Devices -> Trees] /\ k = [forward |-> k.forward, mangle |-> k.mangle, tree |-> k.tree]
  BY DEF Kernels
<1>4. /\ t.htb <=> n >= 1
      /\ t.class = Part(b, ClassAt, n) /\ t.netem = Part(b, NetemAt, n)
      /\ t.filter = Part(b, FilterAt, n) /\ t.default = IF n = 0 THEN 0 ELSE b[1].default
  BY <1>0, <1>1, TreeFields
<1>5. /\ made.htb /\ made.default = b[1].default
      /\ made.class = IF n + 1 \in ClassAt THEN t.class \cup {cmd} ELSE t.class
      /\ made.netem = IF n + 1 \in NetemAt THEN t.netem \cup {cmd} ELSE t.netem
      /\ made.filter = IF n + 1 \in FilterAt THEN t.filter \cup {cmd} ELSE t.filter
  <2>1. /\ made.htb <=> n + 1 >= 1
        /\ made.class = Part(b, ClassAt, n + 1) /\ made.netem = Part(b, NetemAt, n + 1)
        /\ made.filter = Part(b, FilterAt, n + 1) /\ made.default = b[1].default
    BY <1>1, TreeFields
  <2> HIDE DEF made
  <2>2. \A at : Part(b, at, n + 1) = IF n + 1 \in at THEN Part(b, at, n) \cup {cmd} ELSE Part(b, at, n)
    <3> TAKE at
    <3>1. CASE n + 1 \in at BY <1>1, <3>1, PartNext DEF cmd
    <3>2. CASE n + 1 \notin at BY <1>1, <3>2, PartNext
    <3> QED BY <3>1, <3>2
  <2>3. /\ made.class = IF n + 1 \in ClassAt THEN t.class \cup {cmd} ELSE t.class
        /\ made.netem = IF n + 1 \in NetemAt THEN t.netem \cup {cmd} ELSE t.netem
        /\ made.filter = IF n + 1 \in FilterAt THEN t.filter \cup {cmd} ELSE t.filter
    BY <1>4, <2>1, <2>2
  <2> QED BY <1>1, <2>1, <2>3
<1>6. t \in Trees /\ made \in Trees BY <1>0, <1>1, <1>3, TreeAtType DEF t
<1> HIDE DEF made
<1>7. ASSUME NEW s \in Trees, After(k, cmd).tree[d] = s, s.htb, s.default = made.default, s.class = made.class,
             s.netem = made.netem, s.filter = made.filter
      PROVE  After(k, cmd).tree[d] = made
  BY <1>5, <1>6, <1>7, TreeEqual
<1>8. CASE n = 0
  <2>1. cmd.op = "addRoot" /\ ~t.htb BY <1>0, <1>4, <1>8 DEF IsBlock, cmd
  <2>2. After(k, cmd).tree[d] = [t EXCEPT !.htb = TRUE, !.default = cmd.default]
    BY <1>2, <1>3, <2>1 DEF t, After, Accepted, Effect
  <2>3. cmd.default \in Nat /\ made.default = cmd.default
    BY <1>2, <1>5, <1>8, <2>1
      DEF cmd, BuildCommands, RootCommands, ClassCommands, NetemCommands, FilterCommands
  <2>4. n + 1 \notin ClassAt /\ n + 1 \notin NetemAt /\ n + 1 \notin FilterAt
    BY <1>8 DEF ClassAt, NetemAt, FilterAt
  <2> DEFINE s == [t EXCEPT !.htb = TRUE, !.default = cmd.default]
  <2>5. /\ s \in Trees /\ s.htb /\ s.default = cmd.default /\ s.class = t.class /\ s.netem = t.netem
        /\ s.filter = t.filter
    BY <1>6, <2>3 DEF Trees
  <2> HIDE DEF s
  <2> QED BY <1>5, <1>7, <2>2, <2>3, <2>4, <2>5 DEF s
<1>9. CASE n + 1 \in ClassAt
  <2>1. cmd.op = "addClass" /\ t.htb /\ cmd.rate > 0
    BY <1>0, <1>1, <1>4, <1>9 DEF IsBlock, ClassAt, cmd
  <2>2. cmd.parent = 0 \/ HasClass(t, cmd.parent)
    <3>1. n + 1 # 2 => b[2] \in Part(b, ClassAt, n) BY <1>9 DEF ClassAt, Part
    <3>2. b[2].id = 1 /\ (cmd.parent \in {0, 1}) /\ (n + 1 = 2 => cmd.parent = 0)
      BY <1>0, <1>9 DEF IsBlock, ClassAt, cmd
    <3> QED BY <1>4, <3>1, <3>2 DEF HasClass
  <2>3. ~HasClass(t, cmd.id)
    <3>1. \A i \in ClassAt \cap 1 .. n : b[i].id # cmd.id
      BY <1>0, <1>9 DEF IsBlock, ClassAt, cmd
    <3> QED BY <1>4, <3>1 DEF HasClass, Part
  <2>4. After(k, cmd).tree[d] = [t EXCEPT !.class = @ \cup {cmd}]
    BY <1>2, <1>3, <2>1, <2>2, <2>3 DEF t, After, Accepted, Effect
  <2>5. n + 1 \notin NetemAt /\ n + 1 \notin FilterAt /\ n # 0
    BY <1>1, <1>9 DEF ClassAt, NetemAt, FilterAt
  <2>6. cmd \in ClassCommands
    BY <1>2, <2>1
      DEF BuildCommands, RootCommands, ClassCommands, NetemCommands, FilterCommands
  <2> DEFINE s == [t EXCEPT !.class = @ \cup {cmd}]
  <2>7. /\ s \in Trees /\ s.htb /\ s.default = t.default /\ s.class = t.class \cup {cmd} /\ s.netem = t.netem
        /\ s.filter = t.filter
    BY <1>6, <2>1, <2>6 DEF Trees
  <2> HIDE DEF s
  <2> QED BY <1>4, <1>5, <1>7, <1>9, <2>4, <2>5, <2>7 DEF s
<1>10. CASE n + 1 \in NetemAt
  <2>1. cmd.op = "addNetem" /\ cmd.delay # Malformed
    BY <1>0, <1>10 DEF IsBlock, NetemAt, Malformed, cmd
  <2>2. HasClass(t, cmd.class)
    <3>1. \E i \in ClassAt \cap 1 .. n : b[i].id = cmd.class
      BY <1>0, <1>10 DEF IsBlock, ClassAt, NetemAt, cmd
    <3> QED BY <1>4, <3>1 DEF HasClass, Part
  <2>3. \A e \in t.netem : e.class # cmd.class
    <3>1. \A i \in NetemAt \cap 1 .. n : b[i].class # cmd.class
      BY <1>0, <1>10 DEF IsBlock, NetemAt, cmd
    <3> QED BY <1>4, <3>1 DEF Part
  <2>4. After(k, cmd).tree[d] = [t EXCEPT !.netem = @ \cup {cmd}]
    BY <1>2, <1>3, <2>1, <2>2, <2>3 DEF t, After, Accepted, Effect
  <2>5. n + 1 \notin ClassAt /\ n + 1 \notin FilterAt /\ n # 0
    BY <1>1, <1>10 DEF ClassAt, NetemAt, FilterAt
  <2>6. cmd \in NetemCommands
    BY <1>2, <2>1
      DEF BuildCommands, RootCommands, ClassCommands, NetemCommands, FilterCommands
  <2> DEFINE s == [t EXCEPT !.netem = @ \cup {cmd}]
  <2>7. /\ s \in Trees /\ (s.htb <=> t.htb) /\ s.default = t.default /\ s.class = t.class
        /\ s.netem = t.netem \cup {cmd} /\ s.filter = t.filter
    BY <1>6, <2>1, <2>6 DEF Trees
  <2> HIDE DEF s
  <2>8. s.htb BY <1>1, <1>4, <2>5, <2>7
  <2> QED BY <1>4, <1>5, <1>7, <1>10, <2>4, <2>5, <2>7, <2>8 DEF s
<1>11. CASE n + 1 \in FilterAt
  <2>1. cmd.op = "addFilter" /\ t.htb
    BY <1>0, <1>1, <1>4, <1>11 DEF IsBlock, FilterAt, cmd
  <2>4. After(k, cmd).tree[d] = [t EXCEPT !.filter = @ \cup {cmd}]
    BY <1>2, <1>3, <2>1 DEF t, After, Accepted, Effect
  <2>5. n + 1 \notin ClassAt /\ n + 1 \notin NetemAt /\ n # 0
    BY <1>1, <1>11 DEF ClassAt, NetemAt, FilterAt
  <2>6. cmd \in FilterCommands
    BY <1>2, <2>1
      DEF BuildCommands, RootCommands, ClassCommands, NetemCommands, FilterCommands
  <2> DEFINE s == [t EXCEPT !.filter = @ \cup {cmd}]
  <2>7. /\ s \in Trees /\ s.htb /\ s.default = t.default /\ s.class = t.class /\ s.netem = t.netem
        /\ s.filter = t.filter \cup {cmd}
    BY <1>6, <2>1, <2>6 DEF Trees
  <2> HIDE DEF s
  <2> QED BY <1>4, <1>5, <1>7, <1>11, <2>4, <2>5, <2>7 DEF s
<1>12. n = 0 \/ n + 1 \in ClassAt \/ n + 1 \in NetemAt \/ n + 1 \in FilterAt
  BY DEF BlockLen, ClassAt, NetemAt, FilterAt
<1> QED BY <1>8, <1>9, <1>10, <1>11, <1>12
-----------------------------------------------------------------------------
(* What a complete link does with a packet.                                *)

\* After its first rules the table has the first n marks of a process.
MarksAfter(mangle, base, n) ==
  Len(mangle) = base + n /\ \A i \in 1 .. n : mangle[base + i] = Marks[i]

\* The last n rules of the table are the first n marks of a process.
MarksLast(mangle, n) ==
  \E base \in 0 .. Len(mangle) : MarksAfter(mangle, base, n)

\* After all the marks, whatever is before them, the mark of a packet is that
\* of its device and DSCP.
LEMMA MarkOfMarks ==
  ASSUME NEW k, k.mangle \in Seq(MarkCommands), MarksLast(k.mangle, MarkCount), NEW dev \in Devices, NEW dscp \in Dscps
  PROVE  MarkOf(k, dev, dscp) = MarkFor(Other(dev)) + IF qos /\ dscp # "other" THEN 1 ELSE 0
<1>1. PICK base \in Nat : Len(k.mangle) = base + MarkCount /\ \A i \in 1 .. MarkCount : k.mangle[base + i] = Marks[i]
  <2>1. Len(k.mangle) \in Nat BY LenProperties
  <2> QED BY <2>1 DEF MarksLast, MarksAfter
<1> DEFINE matching == {i \in 1 .. Len(k.mangle) : k.mangle[i].nic = dev /\ k.mangle[i].dscp \in {"any", dscp}}
           rules == k.mangle
<1>2. ASSUME NEW last \in matching, \A i \in matching : i <= last
      PROVE  MarkOf(k, dev, dscp) = rules[last].mark
  <2>1. \A i \in matching : (\A l \in matching : l <= i) => i = last BY <1>2
  <2>2. (CHOOSE i \in matching : \A l \in matching : l <= i) = last BY <1>2, <2>1
  <2> QED BY <2>2 DEF MarkOf
<1>3. CASE ~qos
  <2> DEFINE last == base + IF dev = "ST" THEN 1 ELSE 2
  <2>1. MarkCount = 2 BY <1>3 DEF MarkCount
  <2>2. rules[base + 1] = Mark("ST", "any", 10) /\ rules[base + 2] = Mark("GW", "any", 20) /\ Len(rules) = base + 2
    BY <1>1, <1>3, <2>1 DEF Marks
  <2>3. last \in matching /\ \A i \in matching : i <= last /\ rules[last].mark = MarkFor(Other(dev))
    BY <2>2 DEF Mark, Devices, MarkFor, Other
  <2> HIDE DEF matching, last, rules
  <2> QED BY <1>2, <1>3, <2>3 DEF MarkFor
<1>4. CASE qos
  <2> DEFINE last == base + (IF dev = "ST" THEN 0 ELSE 3) + IF dscp = "other" THEN 1 ELSE IF dscp = "0x2c" THEN 2 ELSE 3
             q == QoSMarks("ST", 10) \o QoSMarks("GW", 20)
  <2>1. MarkCount = 6 BY <1>4 DEF MarkCount
  <2>2. Marks = q BY <1>4 DEF Marks
  <2>3. /\ q[1] = Mark("ST", "any", 10) /\ q[2] = Mark("ST", "0x2c", 11) /\ q[3] = Mark("ST", "0x2e", 11)
        /\ q[4] = Mark("GW", "any", 20) /\ q[5] = Mark("GW", "0x2c", 21) /\ q[6] = Mark("GW", "0x2e", 21)
    BY DEF QoSMarks
  <2> HIDE DEF q
  <2>4. \A i \in 1 .. 6 : rules[base + i] = q[i]
    BY <1>1, <2>1, <2>2
  <2> DEFINE Rule(i, from, kind, mark) == rules[base + i].nic = from /\ rules[base + i].dscp = kind /\ rules[base + i].mark = mark
  <2>5. /\ Rule(1, "ST", "any", 10) /\ Rule(2, "ST", "0x2c", 11) /\ Rule(3, "ST", "0x2e", 11)
        /\ Rule(4, "GW", "any", 20) /\ Rule(5, "GW", "0x2c", 21) /\ Rule(6, "GW", "0x2e", 21)
    <3>1. 1 \in 1 .. 6 /\ 2 \in 1 .. 6 /\ 3 \in 1 .. 6 /\ 4 \in 1 .. 6 /\ 5 \in 1 .. 6 /\ 6 \in 1 .. 6 OBVIOUS
    <3>2. /\ rules[base + 1] = q[1] /\ rules[base + 2] = q[2] /\ rules[base + 3] = q[3]
          /\ rules[base + 4] = q[4] /\ rules[base + 5] = q[5] /\ rules[base + 6] = q[6]
      BY <2>4, <3>1
    <3> HIDE DEF rules
    <3> QED BY <2>3, <3>2 DEF Mark
  <2>6. Len(rules) = base + 6 BY <1>1, <2>1
  <2>7. last \in matching
    BY SMTT(30), <2>5, <2>6 DEF Devices, Dscps
  <2>8. ASSUME NEW i \in matching PROVE i <= last
    <3>1. i \in 1 .. base + 6 /\ rules[i].nic = dev /\ rules[i].dscp \in {"any", dscp}
      BY <2>6
    <3>2. i <= base \/ i = base + 1 \/ i = base + 2 \/ i = base + 3 \/ i = base + 4 \/ i = base + 5 \/ i = base + 6
      BY <3>1
    <3> HIDE DEF rules
    <3>3. CASE dev = "ST" /\ dscp = "other" BY <2>5, <3>1, <3>2, <3>3
    <3>4. CASE dev = "ST" /\ dscp = "0x2c" BY <2>5, <3>1, <3>2, <3>4
    <3>5. CASE dev = "ST" /\ dscp = "0x2e" BY <2>5, <3>1, <3>2, <3>5
    <3>6. CASE dev = "GW" /\ dscp = "other" BY <2>5, <3>1, <3>2, <3>6
    <3>7. CASE dev = "GW" /\ dscp = "0x2c" BY <2>5, <3>1, <3>2, <3>7
    <3>8. CASE dev = "GW" /\ dscp = "0x2e" BY <2>5, <3>1, <3>2, <3>8
    <3> QED BY <3>3, <3>4, <3>5, <3>6, <3>7, <3>8 DEF Devices, Dscps
  <2>9. rules[last].mark = MarkFor(Other(dev)) + IF dscp # "other" THEN 1 ELSE 0
    <3> HIDE DEF rules
    <3>3. CASE dev = "ST" BY <2>5, <3>3 DEF Dscps, MarkFor, Other
    <3>4. CASE dev = "GW" BY <2>5, <3>4 DEF Dscps, MarkFor, Other
    <3> QED BY <3>3, <3>4 DEF Devices
  <2> HIDE DEF matching, last, rules
  <2> QED BY <1>2, <1>4, <2>7, <2>8, <2>9
<1> QED BY <1>3, <1>4

\* A class that one filter selects, and the netem below it.
LEMMA TreatmentBy ==
  ASSUME NEW k, NEW dev, NEW dscp, NEW tree, tree = k.tree[Other(dev)],
         NEW f \in tree.filter, NEW class \in tree.class, NEW netem \in tree.netem,
         f.mark = MarkOf(k, dev, dscp), f.class = class.id, netem.class = class.id, class.id # 0,
         \A g \in tree.filter : g.mark = f.mark => g = f,
         \A e \in tree.class : e.id = class.id => e = class,
         \A e \in tree.netem : e.class = class.id => e = netem
  PROVE  /\ ClassOf(tree, MarkOf(k, dev, dscp)) = class.id
         /\ Treatment(k, dev, dscp) = [rate |-> class.rate, delay |-> netem.delay, jitter |-> netem.jitter,
                                       limit |-> netem.limit]
<1> DEFINE mark == MarkOf(k, dev, dscp)
           selected == {g.class : g \in {h \in tree.filter : h.mark = mark}}
           known == {id \in selected \cup {tree.default} : HasClass(tree, id)}
<1>1. selected = {class.id} OBVIOUS
<1>2. selected \cap known = {class.id} BY <1>1 DEF HasClass
<1>3. (CHOOSE id \in selected \cap known : TRUE) = class.id BY <1>2
<1>4. ClassOf(tree, mark) = class.id BY <1>2, <1>3 DEF ClassOf
<1>5. (CHOOSE e \in tree.class : e.id = class.id) = class OBVIOUS
<1>6. {e \in tree.netem : e.class = class.id} = {netem} OBVIOUS
<1>7. (CHOOSE n \in {netem} : TRUE) = netem OBVIOUS
<1> HIDE DEF mark, selected, known
<1> QED BY <1>4, <1>5, <1>6, <1>7 DEF Treatment, mark

\* The link is emulated as c says.
Complete(k, c, j) ==
  /\ k.forward /\ MarksLast(k.mangle, MarkCount)
  /\ \A d \in Devices : k.tree[d] = TreeAt(Block(c, j, d), BlockLen)

\* Where the class and the netem of a packet are in the block.
ClassPlace(dscp) == IF ~qos THEN 2 ELSE IF dscp = "other" THEN 5 ELSE 3
NetemPlace(dscp) == IF ~qos THEN 3 ELSE IF dscp = "other" THEN 6 ELSE 4

\* Where the tree and the marks are complete, a packet finds its class and the
\* netem below it.
LEMMA CompleteTreatment ==
  ASSUME NEW k \in Kernels, NEW c, NEW j, Used(c, j), Complete(k, c, j), NEW dev \in Devices, NEW dscp \in Dscps
  PROVE  LET class == Block(c, j, Other(dev))[ClassPlace(dscp)]
             netem == Block(c, j, Other(dev))[NetemPlace(dscp)]
         IN  /\ Treatment(k, dev, dscp) = [rate |-> class.rate, delay |-> netem.delay, jitter |-> netem.jitter,
                                           limit |-> netem.limit]
             /\ class.rate = Wanted(c, dev, dscp).rate /\ netem.delay = Wanted(c, dev, dscp).delay
             /\ class.rate > 0
<1> DEFINE d == Other(dev)
           b == Block(c, j, d)
           tree == TreeAt(b, BlockLen)
           place == IF ~qos THEN 4 ELSE IF dscp = "other" THEN 8 ELSE 7
           class == b[ClassPlace(dscp)]
           netem == b[NetemPlace(dscp)]
           f == b[place]
<1>1. d \in Devices /\ (dev = "ST" <=> d = "GW") BY DEF Other, Devices
<1>2. IsBlock(b, c, d) BY <1>1, BlockIs
<1> SUFFICES /\ Treatment(k, dev, dscp) = [rate |-> class.rate, delay |-> netem.delay, jitter |-> netem.jitter,
                                           limit |-> netem.limit]
             /\ class.rate = Wanted(c, dev, dscp).rate /\ netem.delay = Wanted(c, dev, dscp).delay
             /\ class.rate > 0
  OBVIOUS
<1>3. tree = k.tree[Other(dev)] BY <1>1 DEF Complete
<1>4. MarkOf(k, dev, dscp) = MarkFor(d) + IF qos /\ dscp # "other" THEN 1 ELSE 0
  BY MarkOfMarks DEF Complete, Kernels
<1> HIDE DEF d, b
<1>5. /\ tree.class = {b[i] : i \in ClassAt} /\ tree.netem = {b[i] : i \in NetemAt}
      /\ tree.filter = {b[i] : i \in FilterAt}
  <2>1. BlockLen \in Nat /\ ClassAt \cap 1 .. BlockLen = ClassAt /\ NetemAt \cap 1 .. BlockLen = NetemAt
        /\ FilterAt \cap 1 .. BlockLen = FilterAt
    BY DEF BlockLen, ClassAt, NetemAt, FilterAt
  <2> QED BY <2>1, TreeFields DEF Part
<1> HIDE DEF tree
<1>6. /\ f \in tree.filter /\ class \in tree.class /\ netem \in tree.netem
  BY <1>5 DEF FilterAt, ClassAt, NetemAt, ClassPlace, NetemPlace
<1>7. /\ f.class = class.id /\ netem.class = class.id /\ class.id # 0 /\ f.mark = MarkOf(k, dev, dscp)
  <2>1. CASE qos
    <3>1. CASE dscp = "other"
      BY <1>2, <1>4, <2>1, <3>1 DEF IsBlock, ClassPlace, NetemPlace, MarkFor
    <3>2. CASE dscp # "other"
      BY <1>2, <1>4, <2>1, <3>2 DEF IsBlock, ClassPlace, NetemPlace, MarkFor
    <3> QED BY <3>1, <3>2
  <2>2. CASE ~qos
    <3>1. MarkOf(k, dev, dscp) = MarkFor(d) BY <1>4, <2>2 DEF MarkFor
    <3> QED BY <1>2, <2>2, <3>1 DEF IsBlock, ClassPlace, NetemPlace
  <2> QED BY <2>1, <2>2
<1>8. MarkFor(d) + 1 # MarkFor(d) BY DEF MarkFor
<1>9. \A g \in tree.filter : g.mark = f.mark => g = f
  BY <1>2, <1>5, <1>8 DEF IsBlock, FilterAt
<1>10. \A e \in tree.class : e.id = class.id => e = class
  BY <1>2, <1>5 DEF IsBlock, ClassAt, ClassPlace
<1>11. \A e \in tree.netem : e.class = class.id => e = netem
  BY <1>2, <1>5, <1>7 DEF IsBlock, NetemAt, NetemPlace, ClassPlace
<1>12. Treatment(k, dev, dscp) = [rate |-> class.rate, delay |-> netem.delay, jitter |-> netem.jitter,
                                  limit |-> netem.limit]
  <2> HIDE DEF f, class, netem
  <2> QED BY <1>3, <1>6, <1>7, <1>9, <1>10, <1>11, TreatmentBy
<1>13. /\ class.rate = Wanted(c, dev, dscp).rate /\ netem.delay = Wanted(c, dev, dscp).delay
       /\ class.rate > 0
  <2>1. CASE qos
    BY <1>1, <1>2, <2>1
      DEF IsBlock, ClassPlace, NetemPlace, Wanted, Bandwidth, Dscps
  <2>2. CASE ~qos
    BY <1>1, <1>2, <2>2 DEF IsBlock, ClassPlace, NetemPlace, Wanted, Bandwidth
  <2> QED BY <2>1, <2>2
<1> QED BY <1>12, <1>13

\* A complete kernel emulates the link of the configuration.
LEMMA CompleteEmulates ==
  ASSUME NEW k \in Kernels, NEW c, NEW j, Used(c, j), Complete(k, c, j)
  PROVE  Emulates(k, c)
<1>1. ASSUME NEW dev \in Devices, NEW dscp \in Dscps
  PROVE Shaping(k, dev, dscp) = Wanted(c, dev, dscp)
  <2>1. Treatment(k, dev, dscp).rate = Wanted(c, dev, dscp).rate /\ Treatment(k, dev, dscp).delay = Wanted(c, dev, dscp).delay
    <3> DEFINE class == Block(c, j, Other(dev))[ClassPlace(dscp)]
               netem == Block(c, j, Other(dev))[NetemPlace(dscp)]
    <3>1. /\ Treatment(k, dev, dscp) = [rate |-> class.rate, delay |-> netem.delay, jitter |-> netem.jitter,
                                       limit |-> netem.limit]
          /\ class.rate = Wanted(c, dev, dscp).rate /\ netem.delay = Wanted(c, dev, dscp).delay
      BY CompleteTreatment
    <3> HIDE DEF class, netem
    <3> QED BY <3>1
  <2>2. Wanted(c, dev, dscp) = [rate |-> Wanted(c, dev, dscp).rate, delay |-> Wanted(c, dev, dscp).delay]
    BY DEF Wanted
  <2> QED BY <2>1, <2>2 DEF Shaping
<1> QED BY <1>1 DEF Emulates, Complete
-----------------------------------------------------------------------------
(* What one command of a program does to the kernel.  Its place is that    *)
(* among the commands of Run; those of FlushTables have places up to 0.    *)

CommandAt(c, j, i) == IF i >= 1 THEN RunCommands(c, j)[i] ELSE FlushCommands[5 + i]

Program(c, j, f) == (IF f THEN FlushCommands ELSE <<>>) \o RunCommands(c, j)

FirstPlace(f) == IF f THEN -4 ELSE 1

\* How many of the marks, and of the commands of a block, are among the
\* commands up to a place.
Clamp(n, max) == IF n < 0 THEN 0 ELSE IF n > max THEN max ELSE n
MarksRun(p) == Clamp(p - 1, MarkCount)
BlockRun(p, dev) == Clamp(p - Before(dev), BlockLen)

\* How long the parts of the program are.
LEMMA Numbers ==
  /\ MarkCount \in Nat \ {0} /\ BlockLen \in Nat \ {0} /\ RunLen = 1 + MarkCount + 2 * BlockLen
  /\ Before("GW") = 1 + MarkCount /\ Before("ST") = 1 + MarkCount + BlockLen
BY DEF MarkCount, BlockLen, RunLen, Before

\* The commands of FlushTables.
LEMMA FlushList ==
  /\ Len(FlushCommands) = 5
  /\ FlushCommands[1] = [op |-> "flushMarks"]
  /\ FlushCommands[2] = [op |-> "delFilters", dev |-> "GW"] /\ FlushCommands[3] = [op |-> "delRoot", dev |-> "GW"]
  /\ FlushCommands[4] = [op |-> "delFilters", dev |-> "ST"] /\ FlushCommands[5] = [op |-> "delRoot", dev |-> "ST"]
BY DEF FlushCommands

\* The command at each place.
LEMMA CommandIs ==
  ASSUME NEW c, NEW j, NEW p \in -5 .. RunLen - 1
  PROVE  /\ p = -5 => CommandAt(c, j, p + 1) = [op |-> "flushMarks"]
         /\ p = -4 => CommandAt(c, j, p + 1) = [op |-> "delFilters", dev |-> "GW"]
         /\ p = -3 => CommandAt(c, j, p + 1) = [op |-> "delRoot", dev |-> "GW"]
         /\ p = -2 => CommandAt(c, j, p + 1) = [op |-> "delFilters", dev |-> "ST"]
         /\ p = -1 => CommandAt(c, j, p + 1) = [op |-> "delRoot", dev |-> "ST"]
         /\ p = 0 => CommandAt(c, j, p + 1) = [op |-> "sysctl"]
         /\ p \in 1 .. MarkCount => CommandAt(c, j, p + 1) = Marks[p]
         /\ \A d \in Devices : p - Before(d) \in 0 .. BlockLen - 1 =>
              CommandAt(c, j, p + 1) = Block(c, j, d)[p - Before(d) + 1]
         /\ \/ p \in -5 .. MarkCount
            \/ \E d \in Devices : p - Before(d) \in 0 .. BlockLen - 1
<1> DEFINE R == RunCommands(c, j)
<1>1. /\ R[1] = [op |-> "sysctl"] /\ \A i \in 1 .. MarkCount : R[1 + i] = Marks[i]
      /\ \A d \in Devices : \A i \in 1 .. BlockLen : R[Before(d) + i] = Block(c, j, d)[i]
  BY Lists
<1>2. /\ p >= 0 => CommandAt(c, j, p + 1) = R[p + 1]
      /\ p < 0 => CommandAt(c, j, p + 1) = FlushCommands[6 + p]
  BY Numbers DEF CommandAt
<1> HIDE DEF R
<1>3. p \in Int /\ -5 <= p BY Numbers
<1>4. /\ p = -5 => CommandAt(c, j, p + 1) = [op |-> "flushMarks"]
      /\ p = -4 => CommandAt(c, j, p + 1) = [op |-> "delFilters", dev |-> "GW"]
      /\ p = -3 => CommandAt(c, j, p + 1) = [op |-> "delRoot", dev |-> "GW"]
      /\ p = -2 => CommandAt(c, j, p + 1) = [op |-> "delFilters", dev |-> "ST"]
      /\ p = -1 => CommandAt(c, j, p + 1) = [op |-> "delRoot", dev |-> "ST"]
  BY <1>2, FlushList
<1>5. p = 0 => CommandAt(c, j, p + 1) = [op |-> "sysctl"] BY <1>1, <1>2
<1>6. p \in 1 .. MarkCount => CommandAt(c, j, p + 1) = Marks[p] BY <1>1, <1>2
<1>7. ASSUME NEW d \in Devices, p - Before(d) \in 0 .. BlockLen - 1
      PROVE  CommandAt(c, j, p + 1) = Block(c, j, d)[p - Before(d) + 1]
  <2> DEFINE i == p - Before(d) + 1
  <2>1. Before(d) \in Nat /\ p >= 0 /\ i \in 1 .. BlockLen /\ Before(d) + i = p + 1
    BY <1>3, <1>7, Numbers DEF Devices
  <2> HIDE DEF i
  <2>2. CommandAt(c, j, p + 1) = Block(c, j, d)[i] BY <1>1, <1>2, <2>1
  <2> QED BY <2>2 DEF i
<1>8. \/ p \in -5 .. MarkCount
      \/ \E d \in Devices : p - Before(d) \in 0 .. BlockLen - 1
  BY <1>3, Numbers DEF Devices
<1> QED BY <1>4, <1>5, <1>6, <1>7, <1>8

\* A sequence of elements of a set is one over the set.
LEMMA Listed ==
  ASSUME NEW S, NEW e1 \in S, NEW e2 \in S, NEW e3 \in S
  PROVE  /\ <<e1, e2, e3>> \in Seq(S)
         /\ \A e4 \in S : <<e1, e2, e3, e4>> \in Seq(S)
         /\ \A e4, e5, e6, e7, e8 \in S : <<e1, e2, e3, e4, e5, e6, e7, e8>> \in Seq(S)
OBVIOUS

\* A program is the commands at its places, each one of Commands.
LEMMA ProgramIs ==
  ASSUME NEW c, NEW j, Used(c, j), NEW f \in BOOLEAN
  PROVE  /\ Program(c, j, f) \in Seq(Commands)
         /\ Len(Program(c, j, f)) = RunLen + 1 - FirstPlace(f)
         /\ \A i \in 1 .. Len(Program(c, j, f)) : Program(c, j, f)[i] = CommandAt(c, j, FirstPlace(f) - 1 + i)
         /\ \A i \in -4 .. RunLen : CommandAt(c, j, i) \in Commands
<1> DEFINE R == RunCommands(c, j)
           P == Program(c, j, f)
<1>1. ASSUME NEW i \in 1 .. MarkCount PROVE Marks[i] \in Commands
  BY DEF Commands, MarkCommands
<1>2. ASSUME NEW d \in Devices, NEW i \in 1 .. BlockLen
  PROVE Block(c, j, d)[i] \in Commands
  <2>1. c \in [forward : Nat, return : Nat, denomination : Nat, jitter : Nat] /\ j \in BOOLEAN
    BY UsedFacts
  <2> QED BY <1>2, <2>1, BlockTypes DEF Commands
<1>3. [op |-> "sysctl"] \in Commands /\ FlushCommands \in Seq(Commands)
  <2>1. [op |-> "sysctl"] \in Commands /\ [op |-> "flushMarks"] \in Commands
    BY DEF Commands
  <2>2. \A d \in Devices, o \in {"delFilters", "delRoot"} : [op |-> o, dev |-> d] \in Commands
    BY DEF Commands, DelCommands
  <2>3. /\ [op |-> "delFilters", dev |-> "GW"] \in Commands /\ [op |-> "delRoot", dev |-> "GW"] \in Commands
        /\ [op |-> "delFilters", dev |-> "ST"] \in Commands /\ [op |-> "delRoot", dev |-> "ST"] \in Commands
    BY <2>2 DEF Devices
  <2> HIDE DEF Commands
  <2> QED BY <2>1, <2>3 DEF FlushCommands
<1>4. Len(R) = RunLen /\ RunLen \in Nat BY Lists, Numbers
<1>5. R \in Seq(Commands)
  <2>1. CASE qos
    <3> DEFINE G == Block(c, j, "GW")
               S == Block(c, j, "ST")
               M == QoSMarks("ST", 10)
               N == QoSMarks("GW", 20)
    <3>1. R = ((<< [op |-> "sysctl"] >> \o M) \o N) \o G \o S
      BY <2>1 DEF RunCommands, QoSCommands, Block
    <3>2. M \in Seq(Commands) /\ N \in Seq(Commands)
      <4>1. Marks = M \o N /\ MarkCount = 6 BY <2>1 DEF Marks, MarkCount
      <4>2. /\ M = <<(M \o N)[1], (M \o N)[2], (M \o N)[3]>>
            /\ N = <<(M \o N)[4], (M \o N)[5], (M \o N)[6]>>
        BY DEF QoSMarks
      <4>3. /\ Marks[1] \in Commands /\ Marks[2] \in Commands /\ Marks[3] \in Commands
            /\ Marks[4] \in Commands /\ Marks[5] \in Commands /\ Marks[6] \in Commands
        <5>1. \A i \in 1 .. 6 : Marks[i] \in Commands BY <1>1, <4>1
        <5> QED BY <5>1
      <4> DEFINE m == <<(M \o N)[1], (M \o N)[2], (M \o N)[3]>>
                 n == <<(M \o N)[4], (M \o N)[5], (M \o N)[6]>>
      <4>4. /\ (M \o N)[1] \in Commands /\ (M \o N)[2] \in Commands /\ (M \o N)[3] \in Commands
            /\ (M \o N)[4] \in Commands /\ (M \o N)[5] \in Commands /\ (M \o N)[6] \in Commands
        <5> HIDE DEF M, N
        <5> QED BY <4>1, <4>3
      <4>5. M = m /\ N = n BY <4>2
      <4> HIDE DEF M, N
      <4>6. m \in Seq(Commands) /\ n \in Seq(Commands) BY <4>4, Listed
      <4> HIDE DEF m, n
      <4> QED BY <4>5, <4>6
    <3>3. ASSUME NEW d \in Devices PROVE Block(c, j, d) \in Seq(Commands)
      <4> DEFINE b == Block(c, j, d)
      <4>1. b = <<b[1], b[2], b[3], b[4], b[5], b[6], b[7], b[8]>>
        BY <2>1 DEF Block, QoSLink
      <4> DEFINE t == <<b[1], b[2], b[3], b[4], b[5], b[6], b[7], b[8]>>
      <4>2. /\ b[1] \in Commands /\ b[2] \in Commands /\ b[3] \in Commands /\ b[4] \in Commands
            /\ b[5] \in Commands /\ b[6] \in Commands /\ b[7] \in Commands /\ b[8] \in Commands
        BY <1>2, <2>1, <3>3 DEF BlockLen
      <4> HIDE DEF b
      <4>3. t \in Seq(Commands) BY <4>2, Listed
      <4>4. b = t BY <4>1
      <4> HIDE DEF t
      <4>5. b \in Seq(Commands) BY <4>3, <4>4
      <4> QED BY <4>5 DEF b
    <3>4. G \in Seq(Commands) /\ S \in Seq(Commands) BY <3>3 DEF Devices
    <3>5. << [op |-> "sysctl"] >> \in Seq(Commands) BY <1>3
    <3> HIDE DEF G, S, M, N, R
    <3> QED BY <3>1, <3>2, <3>4, <3>5, ConcatProperties
  <2>2. CASE ~qos
    <3> DEFINE G == Block(c, j, "GW")
               S == Block(c, j, "ST")
               M == << [op |-> "sysctl"], Mark("ST", "any", 10), Mark("GW", "any", 20) >>
    <3>1. R = M \o G \o S
      BY <2>2 DEF RunCommands, PlainCommands, Block
    <3>2. M \in Seq(Commands)
      <4>1. Marks[1] = Mark("ST", "any", 10) /\ Marks[2] = Mark("GW", "any", 20) /\ MarkCount = 2
        BY <2>2 DEF Marks, MarkCount
      <4>2. Marks[1] \in Commands /\ Marks[2] \in Commands BY <1>1, <4>1
      <4> QED BY <1>3, <4>1, <4>2
    <3>3. ASSUME NEW d \in Devices PROVE Block(c, j, d) \in Seq(Commands)
      <4> DEFINE b == Block(c, j, d)
      <4>1. b = <<b[1], b[2], b[3], b[4]>> BY <2>2 DEF Block, PlainLink
      <4> DEFINE t == <<b[1], b[2], b[3], b[4]>>
      <4>2. b[1] \in Commands /\ b[2] \in Commands /\ b[3] \in Commands /\ b[4] \in Commands
        BY <1>2, <2>2, <3>3 DEF BlockLen
      <4> HIDE DEF b
      <4>3. t \in Seq(Commands) BY <4>2, Listed
      <4>4. b = t BY <4>1
      <4> HIDE DEF t
      <4>5. b \in Seq(Commands) BY <4>3, <4>4
      <4> QED BY <4>5 DEF b
    <3>4. G \in Seq(Commands) /\ S \in Seq(Commands) BY <3>3 DEF Devices
    <3> HIDE DEF G, S, M, R
    <3> QED BY <3>1, <3>2, <3>4, ConcatProperties
  <2> QED BY <2>1, <2>2
<1> HIDE DEF R
<1>6. \A i \in -4 .. RunLen : CommandAt(c, j, i) \in Commands
  <2>1. Len(FlushCommands) = 5 BY FlushList
  <2>2. \A i \in 1 .. 5 : FlushCommands[i] \in Commands BY <1>3, <2>1, ElementOfSeq
  <2>3. \A i \in 1 .. RunLen : R[i] \in Commands BY <1>4, <1>5, ElementOfSeq
  <2> QED BY <1>4, <2>2, <2>3 DEF CommandAt, R
<1>7. CASE f
  <2>1. P = FlushCommands \o R BY <1>7 DEF Program, R
  <2>2. /\ P \in Seq(Commands) /\ Len(P) = 5 + RunLen
        /\ \A i \in 1 .. 5 + RunLen : P[i] = IF i <= 5 THEN FlushCommands[i] ELSE R[i - 5]
    <3>1. Len(FlushCommands) = 5 BY FlushList
    <3>2. /\ FlushCommands \o R \in Seq(Commands) /\ Len(FlushCommands \o R) = Len(FlushCommands) + Len(R)
          /\ \A i \in 1 .. Len(FlushCommands) + Len(R) : (FlushCommands \o R)[i] =
               IF i <= Len(FlushCommands) THEN FlushCommands[i] ELSE R[i - Len(FlushCommands)]
      BY <1>3, <1>5, ConcatProperties
    <3> QED BY <1>4, <2>1, <3>1, <3>2
  <2> HIDE DEF P
  <2>3. P \in Seq(Commands) /\ Len(P) = RunLen + 1 - FirstPlace(f)
    BY <1>4, <1>7, <2>2 DEF FirstPlace
  <2>4. ASSUME NEW i \in 1 .. Len(P)
  PROVE  P[i] = CommandAt(c, j, FirstPlace(f) - 1 + i)
    <3>1. i \in Int /\ 5 + (FirstPlace(f) - 1 + i) = i /\ FirstPlace(f) - 1 + i = i - 5
      BY <1>7, <2>2, <1>4 DEF FirstPlace
    <3>2. CommandAt(c, j, i - 5) = IF i <= 5 THEN FlushCommands[i] ELSE R[i - 5]
      BY <3>1 DEF CommandAt, R
    <3> QED BY <1>4, <2>2, <3>1, <3>2
  <2> QED BY <1>6, <2>3, <2>4 DEF P
<1>8. CASE ~f
  <2>1. P = <<>> \o R BY <1>8 DEF Program, R
  <2>2. P = R BY <1>5, <2>1, ConcatEmptySeq
  <2>3. \A i \in 1 .. RunLen : R[i] = CommandAt(c, j, i) BY <1>4 DEF CommandAt, R
  <2> HIDE DEF P
  <2>4. FirstPlace(f) = 1 BY <1>8 DEF FirstPlace
  <2>5. P \in Seq(Commands) /\ Len(P) = RunLen + 1 - FirstPlace(f)
    BY <1>4, <1>5, <2>2, <2>4
  <2>6. ASSUME NEW i \in 1 .. Len(P)
  PROVE  P[i] = CommandAt(c, j, FirstPlace(f) - 1 + i)
    <3>1. i \in 1 .. RunLen /\ FirstPlace(f) - 1 + i = i BY <1>4, <2>2, <2>4
    <3> QED BY <2>2, <2>3, <3>1
  <2> QED BY <1>6, <2>5, <2>6 DEF P
<1> QED BY <1>7, <1>8
-----------------------------------------------------------------------------
(* The effect of the commands on the parts of the kernel.                  *)

\* sysctl turns forwarding on and does nothing else.
LEMMA SysctlDoes ==
  ASSUME NEW k \in Kernels, NEW cmd, cmd = [op |-> "sysctl"]
  PROVE  After(k, cmd).forward /\ After(k, cmd).mangle = k.mangle /\ After(k, cmd).tree = k.tree
BY DEF After, Accepted, Effect, Kernels

\* A MARK rule is appended to those there are.
LEMMA MarkDoes ==
  ASSUME NEW k \in Kernels, NEW cmd \in MarkCommands
  PROVE  /\ After(k, cmd).mangle = Append(k.mangle, cmd)
         /\ After(k, cmd).tree = k.tree /\ After(k, cmd).forward = k.forward
<1>1. cmd.op = "mark" BY MarkFields
<1> QED BY <1>1 DEF After, Accepted, Effect, Kernels

\* iptables -F takes all the rules away.
LEMMA FlushMarksDoes ==
  ASSUME NEW k \in Kernels, NEW cmd, cmd = [op |-> "flushMarks"]
  PROVE  After(k, cmd).mangle = <<>> /\ After(k, cmd).tree = k.tree /\ After(k, cmd).forward = k.forward
BY DEF After, Accepted, Effect, Kernels

\* tc filter del and tc qdisc del touch one device; the second leaves it bare.
LEMMA DelDoes ==
  ASSUME NEW k \in Kernels, Bare(k), NEW d \in Devices, NEW o \in {"delFilters", "delRoot"}, NEW cmd,
         cmd = [op |-> o, dev |-> d]
  PROVE  /\ After(k, cmd).mangle = k.mangle /\ After(k, cmd).forward = k.forward
         /\ \A e \in Devices \ {d} : After(k, cmd).tree[e] = k.tree[e]
         /\ o = "delRoot" => After(k, cmd).tree[d] = NoTree
<1>1. CASE o = "delFilters"
  <2>1. After(k, cmd) = IF k.tree[d].htb THEN [k EXCEPT !.tree[d].filter = {}] ELSE k
    BY <1>1 DEF After, Accepted, Effect
  <2> QED BY <1>1, <2>1 DEF Kernels
<1>2. CASE o = "delRoot"
  <2>1. After(k, cmd) = IF k.tree[d].htb THEN [k EXCEPT !.tree[d] = NoTree] ELSE k
    BY <1>2 DEF After, Accepted, Effect
  <2> HIDE DEF NoTree
  <2> QED BY <1>2, <2>1 DEF Kernels, Bare
<1> QED BY <1>1, <1>2

\* A tc add touches the tree of its device.
LEMMA BuildDoes ==
  ASSUME NEW k \in Kernels, NEW cmd \in BuildCommands
  PROVE  /\ After(k, cmd).mangle = k.mangle /\ After(k, cmd).forward = k.forward
         /\ \A e \in Devices \ {cmd.dev} : After(k, cmd).tree[e] = k.tree[e]
<1>1. \/ cmd.op = "addRoot" \/ cmd.op = "addClass" \/ cmd.op = "addNetem" \/ cmd.op = "addFilter"
  BY DEF BuildCommands, RootCommands, ClassCommands, NetemCommands, FilterCommands
<1>2. CASE ~Accepted(k, cmd) BY <1>2 DEF After
<1>3. CASE Accepted(k, cmd)
  <2>1. After(k, cmd) = Effect(k, cmd) BY <1>3 DEF After
  <2>2. CASE cmd.op = "addRoot"
    <3> DEFINE t == [k.tree[cmd.dev] EXCEPT !.htb = TRUE, !.default = cmd.default]
    <3>1. cmd \in RootCommands
      BY <2>2
        DEF BuildCommands, RootCommands, ClassCommands, NetemCommands, FilterCommands
    <3>2. Effect(k, cmd) = [k EXCEPT !.tree[cmd.dev] = t]
      BY <3>1 DEF Effect, RootCommands, Kernels
    <3> HIDE DEF t
    <3> QED BY <2>1, <3>2 DEF Kernels
  <2>3. CASE cmd.op = "addClass" BY <2>1, <2>3 DEF Effect, Kernels
  <2>4. CASE cmd.op = "addNetem" BY <2>1, <2>4 DEF Effect, Kernels
  <2>5. CASE cmd.op = "addFilter" BY <2>1, <2>5 DEF Effect, Kernels
  <2> QED BY <1>1, <2>2, <2>3, <2>4, <2>5
<1> QED BY <1>2, <1>3

\* Where a tree is complete, whoever made it, another process changes nothing:
\* its qdiscs and classes are refused, and its filters are there.
LEMMA BlockRefused ==
  ASSUME NEW c, NEW j, Used(c, j), NEW e, NEW l, Used(e, l), NEW d \in Devices, NEW i \in 1 .. BlockLen,
         NEW k \in Kernels, k.tree[d] = TreeAt(Block(e, l, d), BlockLen)
  PROVE  After(k, Block(c, j, d)[i]).tree[d] = k.tree[d]
<1> DEFINE b == Block(e, l, d)
           a == Block(c, j, d)
           cmd == a[i]
           t == k.tree[d]
<1>1. IsBlock(b, e, d) /\ IsBlock(a, c, d) /\ t = TreeAt(b, BlockLen) BY BlockIs
<1> SUFFICES After(k, cmd).tree[d] = t OBVIOUS
<1> HIDE DEF a, b, t, cmd
<1>2. /\ t.htb /\ t.class = {b[n] : n \in ClassAt} /\ t.netem = {b[n] : n \in NetemAt}
      /\ t.filter = {b[n] : n \in FilterAt}
  <2>1. BlockLen \in Nat /\ BlockLen >= 1 /\ ClassAt \cap 1 .. BlockLen = ClassAt
        /\ NetemAt \cap 1 .. BlockLen = NetemAt /\ FilterAt \cap 1 .. BlockLen = FilterAt
    BY DEF BlockLen, ClassAt, NetemAt, FilterAt
  <2> QED BY <1>1, <2>1, TreeFields DEF Part
<1>3. cmd \in BuildCommands /\ cmd.dev = d BY <1>1 DEF IsBlock, cmd
<1>4. i = 1 \/ i \in ClassAt \/ i \in NetemAt \/ i \in FilterAt
  BY DEF BlockLen, ClassAt, NetemAt, FilterAt
<1>5. CASE i = 1
  <2>1. cmd.op = "addRoot" BY <1>1, <1>5 DEF IsBlock, cmd
  <2> QED BY <1>2, <1>3, <2>1 DEF After, Accepted, t
<1>6. CASE i \in ClassAt
  <2>1. cmd.op = "addClass" /\ cmd.id = b[i].id
    BY <1>1, <1>6 DEF IsBlock, ClassAt, cmd
  <2>2. HasClass(t, cmd.id) BY <1>2, <1>6, <2>1 DEF HasClass
  <2> QED BY <1>3, <2>1, <2>2 DEF After, Accepted, t
<1>7. CASE i \in NetemAt
  <2>1. cmd.op = "addNetem" /\ cmd.class = b[i].class
    BY <1>1, <1>7 DEF IsBlock, NetemAt, cmd
  <2>2. \E n \in t.netem : n.class = cmd.class BY <1>2, <1>7, <2>1
  <2> QED BY <1>3, <2>1, <2>2 DEF After, Accepted, t
<1>8. CASE i \in FilterAt
  <2>1. /\ cmd.op = "addFilter" /\ b[i].op = "addFilter" /\ cmd.mark = b[i].mark /\ cmd.class = b[i].class
        /\ b[i] \in BuildCommands /\ b[i].dev = d
    BY <1>1, <1>8 DEF IsBlock, FilterAt, cmd
  <2>2. cmd \in FilterCommands /\ b[i] \in FilterCommands
    BY <1>3, <2>1
      DEF BuildCommands, RootCommands, ClassCommands, NetemCommands, FilterCommands
  <2>3. cmd = b[i] BY <1>3, <2>1, <2>2 DEF FilterCommands
  <2>4. t.filter \cup {cmd} = t.filter BY <1>2, <1>8, <2>3
  <2>5. After(k, cmd).tree[d] = [t EXCEPT !.filter = @ \cup {cmd}]
    BY <1>2, <1>3, <2>1 DEF After, Accepted, Effect, Kernels, t
  <2>6. t \in Trees BY DEF Kernels, t
  <2> QED BY <2>4, <2>5, <2>6 DEF Trees
<1> QED BY <1>4, <1>5, <1>6, <1>7, <1>8
-----------------------------------------------------------------------------
(* One command further.                                                    *)

\* Where FlushTables works on a device: its filters, then its root.
DelAt(d) == IF d = "GW" THEN -4 ELSE -2

\* What the command at a place of the program does to each part of the kernel.
LEMMA StepDoes ==
  ASSUME NEW c, NEW j, Used(c, j), NEW k \in Kernels, Bare(k), NEW p \in -5 .. RunLen - 1,
         NEW cmd, cmd = CommandAt(c, j, p + 1), NEW after, after = After(k, cmd)
  PROVE  /\ after \in Kernels /\ Bare(after)
         /\ k.forward => after.forward
         /\ p = 0 => after.forward
         /\ p = -5 => after.mangle = <<>>
         /\ p \in 1 .. MarkCount => after.mangle = Append(k.mangle, Marks[p])
         /\ p # -5 /\ p \notin 1 .. MarkCount => after.mangle = k.mangle
         /\ \A d \in Devices :
              /\ p = DelAt(d) + 1 => after.tree[d] = NoTree
              /\ p \notin {DelAt(d), DelAt(d) + 1} /\ p - Before(d) \notin 0 .. BlockLen - 1 =>
                   after.tree[d] = k.tree[d]
<1>0. /\ p = -5 => cmd = [op |-> "flushMarks"]
      /\ p = -4 => cmd = [op |-> "delFilters", dev |-> "GW"]
      /\ p = -3 => cmd = [op |-> "delRoot", dev |-> "GW"]
      /\ p = -2 => cmd = [op |-> "delFilters", dev |-> "ST"]
      /\ p = -1 => cmd = [op |-> "delRoot", dev |-> "ST"]
      /\ p = 0 => cmd = [op |-> "sysctl"]
      /\ p \in 1 .. MarkCount => cmd = Marks[p]
      /\ \A d \in Devices : p - Before(d) \in 0 .. BlockLen - 1 => cmd = Block(c, j, d)[p - Before(d) + 1]
      /\ \/ p \in -5 .. MarkCount
         \/ \E d \in Devices : p - Before(d) \in 0 .. BlockLen - 1
  BY CommandIs
<1>1. after \in Kernels /\ Bare(after)
  <2>1. cmd \in Commands
    <3>1. p + 1 \in -4 .. RunLen BY Numbers
    <3> QED BY <3>1, ProgramIs
  <2> QED BY <2>1, AfterTypes
<1>2. \A d \in Devices : Before(d) \in Nat /\ Before(d) > MarkCount /\ DelAt(d) \in -4 .. -2
  BY Numbers DEF Devices, DelAt
<1>3. p \in Int /\ MarkCount \in Nat /\ MarkCount > 0 /\ BlockLen \in Nat BY Numbers
<1>4. CASE p = -5
  BY <1>0, <1>1, <1>2, <1>3, <1>4, FlushMarksDoes
<1>5. ASSUME NEW d \in Devices, NEW o \in {"delFilters", "delRoot"}, p = DelAt(d) + IF o = "delRoot" THEN 1 ELSE 0
      PROVE  /\ after.forward = k.forward /\ after.mangle = k.mangle
             /\ o = "delRoot" => after.tree[d] = NoTree
             /\ \A e \in Devices \ {d} : after.tree[e] = k.tree[e]
  <2>1. cmd = [op |-> o, dev |-> d] BY <1>0, <1>5 DEF DelAt, Devices
  <2> QED BY <2>1, DelDoes
<1>6. CASE p \in -4 .. -1
  <2>1. \E d \in Devices, o \in {"delFilters", "delRoot"} : p = DelAt(d) + IF o = "delRoot" THEN 1 ELSE 0
    <3>1. p = -4 \/ p = -3 \/ p = -2 \/ p = -1 BY <1>6
    <3> QED BY <3>1 DEF DelAt, Devices
  <2>2. PICK d \in Devices, o \in {"delFilters", "delRoot"} : p = DelAt(d) + IF o = "delRoot" THEN 1 ELSE 0
    BY <2>1
  <2>3. /\ after.forward = k.forward /\ after.mangle = k.mangle
        /\ o = "delRoot" => after.tree[d] = NoTree
        /\ \A e \in Devices \ {d} : after.tree[e] = k.tree[e]
    BY <1>5, <2>2
  <2>4. /\ p = DelAt(d) + 1 => o = "delRoot"
        /\ \A e \in Devices \ {d} : p \notin {DelAt(e), DelAt(e) + 1}
        /\ p \in {DelAt(d), DelAt(d) + 1}
    BY <2>2 DEF DelAt, Devices
  <2>5. p # -5 /\ p # 0 /\ p \notin 1 .. MarkCount BY <1>6
  <2> QED BY <1>1, <2>3, <2>4, <2>5
<1>7. CASE p = 0
  BY <1>0, <1>1, <1>2, <1>3, <1>7, SysctlDoes
<1>8. CASE p \in 1 .. MarkCount
  <2>1. cmd \in MarkCommands BY <1>0, <1>8 DEF MarkCommands
  <2>2. after.mangle = Append(k.mangle, Marks[p]) /\ after.tree = k.tree /\ after.forward = k.forward
    BY <1>0, <1>8, <2>1, MarkDoes
  <2>3. p # 0 /\ p # -5 /\ \A d \in Devices : p \notin {DelAt(d), DelAt(d) + 1}
    BY <1>2, <1>3, <1>8
  <2>4. \A d \in Devices : p # DelAt(d) + 1 BY <2>3
  <2> QED BY <1>1, <1>8, <2>2, <2>3, <2>4
<1>9. ASSUME NEW d \in Devices, p - Before(d) \in 0 .. BlockLen - 1
      PROVE  /\ after.forward = k.forward /\ after.mangle = k.mangle
             /\ \A e \in Devices \ {d} : after.tree[e] = k.tree[e]
             /\ p > MarkCount /\ \A e \in Devices : p \notin {DelAt(e), DelAt(e) + 1}
  <2> DEFINE i == p - Before(d) + 1
  <2>1. i \in 1 .. BlockLen BY <1>2, <1>3, <1>9
  <2>2. cmd = Block(c, j, d)[i] BY <1>0, <1>9
  <2>3. c \in [forward : Nat, return : Nat, denomination : Nat, jitter : Nat] /\ j \in BOOLEAN
    BY UsedFacts
  <2> HIDE DEF i
  <2>4. cmd \in BuildCommands /\ cmd.dev = d BY <2>1, <2>2, <2>3, BlockTypes
  <2>5. p > MarkCount /\ \A e \in Devices : p \notin {DelAt(e), DelAt(e) + 1}
    BY <1>2, <1>3, <1>9
  <2> QED BY <2>4, <2>5, BuildDoes
<1>10. ASSUME NEW d \in Devices, p - Before(d) \in 0 .. BlockLen - 1
  PROVE p # 0 /\ p # -5 /\ p \notin 1 .. MarkCount
  BY <1>2, <1>3, <1>10
<1>11. \/ p = -5 \/ p \in -4 .. -1 \/ p = 0 \/ p \in 1 .. MarkCount
       \/ \E d \in Devices : p - Before(d) \in 0 .. BlockLen - 1
  BY <1>0, <1>3
<1>12. CASE \E d \in Devices : p - Before(d) \in 0 .. BlockLen - 1
  <2>1. PICK d \in Devices : p - Before(d) \in 0 .. BlockLen - 1 BY <1>12
  <2>2. /\ after.forward = k.forward /\ after.mangle = k.mangle
        /\ \A e \in Devices \ {d} : after.tree[e] = k.tree[e]
        /\ p > MarkCount /\ \A e \in Devices : p \notin {DelAt(e), DelAt(e) + 1}
    BY <1>9, <2>1
  <2>3. p # 0 /\ p # -5 /\ p \notin 1 .. MarkCount BY <1>10, <2>1
  <2>4. ASSUME NEW e \in Devices
        PROVE  p # DelAt(e) + 1 /\ (p - Before(e) \notin 0 .. BlockLen - 1 => after.tree[e] = k.tree[e])
    BY <2>1, <2>2
  <2> QED BY <1>1, <2>2, <2>3, <2>4
<1> QED BY <1>4, <1>6, <1>7, <1>8, <1>11, <1>12

\* The tree of a device at a place of the program, when the device had none.
LEMMA MadeStep ==
  ASSUME NEW c, NEW j, Used(c, j), NEW k \in Kernels, Bare(k), NEW p \in -5 .. RunLen - 1,
         NEW cmd, cmd = CommandAt(c, j, p + 1), NEW after, after = After(k, cmd), NEW d \in Devices,
         \/ p = DelAt(d) + 1
         \/ p > DelAt(d) + 1 /\ k.tree[d] = TreeAt(Block(c, j, d), BlockRun(p, d))
  PROVE  after.tree[d] = TreeAt(Block(c, j, d), BlockRun(p + 1, d))
<1>1. Before(d) \in Nat /\ DelAt(d) \in -4 .. -2 /\ p \in Int /\ BlockLen \in Nat
  BY Numbers DEF Devices, DelAt
<1>2. CASE p = DelAt(d) + 1
  <2>1. after.tree[d] = NoTree BY <1>2, StepDoes
  <2>2. BlockRun(p + 1, d) = 0 BY <1>1, <1>2 DEF BlockRun, Clamp
  <2> QED BY <2>1, <2>2 DEF TreeAt
<1>3. CASE p > DelAt(d) + 1 /\ p - Before(d) \in 0 .. BlockLen - 1
  <2> DEFINE n == p - Before(d)
  <2>1. n \in 0 .. BlockLen - 1 /\ BlockRun(p, d) = n /\ BlockRun(p + 1, d) = n + 1
    BY <1>1, <1>3 DEF BlockRun, Clamp
  <2>2. cmd = Block(c, j, d)[n + 1] BY <1>3, CommandIs
  <2>3. k.tree[d] = TreeAt(Block(c, j, d), n) BY <1>1, <1>3, <2>1
  <2> HIDE DEF n
  <2> QED BY <2>1, <2>2, <2>3, BlockBuilds
<1>4. CASE p > DelAt(d) + 1 /\ p - Before(d) \notin 0 .. BlockLen - 1
  <2>1. after.tree[d] = k.tree[d] BY <1>1, <1>4, StepDoes
  <2>2. BlockRun(p + 1, d) = BlockRun(p, d) BY <1>1, <1>4 DEF BlockRun, Clamp
  <2>3. k.tree[d] = TreeAt(Block(c, j, d), BlockRun(p, d)) BY <1>1, <1>4
  <2> QED BY <2>1, <2>2, <2>3
<1> QED BY <1>2, <1>3, <1>4

\* Where the trees are complete, whoever made them, a process that does not
\* flush leaves them so.
LEMMA OverStep ==
  ASSUME NEW c, NEW j, Used(c, j), NEW e, NEW l, Used(e, l), NEW k \in Kernels, Bare(k), NEW p \in 0 .. RunLen - 1,
         NEW cmd, cmd = CommandAt(c, j, p + 1), NEW after, after = After(k, cmd), NEW d \in Devices,
         k.tree[d] = TreeAt(Block(e, l, d), BlockLen)
  PROVE  after.tree[d] = TreeAt(Block(e, l, d), BlockLen)
<1>1. Before(d) \in Nat /\ DelAt(d) \in -4 .. -2 /\ p \in Int /\ p >= 0 /\ BlockLen \in Nat /\ RunLen \in Nat
      /\ p \in -5 .. RunLen - 1
  BY Numbers DEF Devices, DelAt
<1>2. CASE p - Before(d) \in 0 .. BlockLen - 1
  <2> DEFINE i == p - Before(d) + 1
  <2>1. i \in 1 .. BlockLen BY <1>1, <1>2
  <2>2. cmd = Block(c, j, d)[i] BY <1>1, <1>2, CommandIs
  <2> HIDE DEF i
  <2> QED BY <2>1, <2>2, BlockRefused
<1>3. CASE p - Before(d) \notin 0 .. BlockLen - 1
  <2>1. p \notin {DelAt(d), DelAt(d) + 1} BY <1>1
  <2> QED BY <1>1, <1>3, <2>1, StepDoes
<1> QED BY <1>2, <1>3

\* The marks of a process stay the last ones, one command after another.
LEMMA MarksStep ==
  ASSUME NEW c, NEW j, Used(c, j), NEW k \in Kernels, Bare(k), NEW p \in -5 .. RunLen - 1,
         NEW cmd, cmd = CommandAt(c, j, p + 1), NEW after, after = After(k, cmd), NEW base \in Nat,
         p > -5, MarksAfter(k.mangle, base, MarksRun(p))
  PROVE  MarksAfter(after.mangle, base, MarksRun(p + 1))
<1>1. p \in Int /\ MarkCount \in Nat BY Numbers
<1>2. CASE p \in 1 .. MarkCount
  <2>1. after.mangle = Append(k.mangle, Marks[p]) BY <1>2, StepDoes
  <2>2. MarksRun(p) = p - 1 /\ MarksRun(p + 1) = p BY <1>1, <1>2 DEF MarksRun, Clamp
  <2>3. Len(k.mangle) = base + (p - 1) /\ \A i \in 1 .. p - 1 : k.mangle[base + i] = Marks[i]
    BY <2>2 DEF MarksAfter
  <2>4. k.mangle \in Seq(MarkCommands) /\ Marks[p] \in MarkCommands
    BY <1>2 DEF Kernels, MarkCommands
  <2>5. /\ Len(after.mangle) = Len(k.mangle) + 1
        /\ \A i \in 1 .. Len(k.mangle) : after.mangle[i] = k.mangle[i]
        /\ after.mangle[Len(k.mangle) + 1] = Marks[p]
    BY <2>1, <2>4, AppendProperties
  <2>6. ASSUME NEW i \in 1 .. p PROVE after.mangle[base + i] = Marks[i]
    <3>1. CASE i = p BY <1>1, <2>3, <2>5, <3>1
    <3>2. CASE i # p
      <4>1. i \in 1 .. p - 1 /\ base + i \in 1 .. Len(k.mangle) BY <1>1, <2>3, <3>2
      <4> QED BY <2>3, <2>5, <4>1
    <3> QED BY <3>1, <3>2
  <2>7. Len(after.mangle) = base + p BY <1>1, <2>3, <2>5
  <2> QED BY <2>2, <2>6, <2>7 DEF MarksAfter
<1>3. CASE p \notin 1 .. MarkCount
  <2>1. after.mangle = k.mangle BY <1>1, <1>3, StepDoes
  <2>2. MarksRun(p + 1) = MarksRun(p) BY <1>1, <1>3 DEF MarksRun, Clamp
  <2> QED BY <2>1, <2>2
<1> QED BY <1>2, <1>3

\* No mark twice, and only those of the commands up to a place.
MarksOnce(mangle, n) ==
  /\ \A i \in 1 .. Len(mangle) : \E m \in 1 .. n : mangle[i] = Marks[m]
  /\ \A i, l \in 1 .. Len(mangle) : mangle[i] = mangle[l] => i = l

\* No two rules of a process are the same.
LEMMA MarksDistinct == \A m, n \in 1 .. MarkCount : Marks[m] = Marks[n] => m = n
<1>1. CASE qos
  <2> DEFINE q == QoSMarks("ST", 10) \o QoSMarks("GW", 20)
  <2>1. /\ q[1] = Mark("ST", "any", 10) /\ q[2] = Mark("ST", "0x2c", 11) /\ q[3] = Mark("ST", "0x2e", 11)
        /\ q[4] = Mark("GW", "any", 20) /\ q[5] = Mark("GW", "0x2c", 21) /\ q[6] = Mark("GW", "0x2e", 21)
    BY DEF QoSMarks
  <2>2. Marks = q /\ MarkCount = 6 BY <1>1 DEF Marks, MarkCount
  <2>3. \A m \in 1 .. 6 : Marks[m].dscp = (IF m \in {1, 4} THEN "any" ELSE IF m \in {2, 5} THEN "0x2c" ELSE "0x2e")
                          /\ Marks[m].nic = IF m < 4 THEN "ST" ELSE "GW"
    <3> HIDE DEF q
    <3> QED BY <2>1, <2>2 DEF Mark
  <2> HIDE DEF q
  <2> QED BY <2>2, <2>3
<1>2. CASE ~qos
  <2>1. MarkCount = 2 /\ Marks[1].nic = "ST" /\ Marks[2].nic = "GW"
    BY <1>2 DEF Marks, MarkCount, Mark
  <2> QED BY <2>1
<1> QED BY <1>1, <1>2

\* After a flush each rule is appended once, whatever commands fail.
LEMMA OnceStep ==
  ASSUME NEW c, NEW j, Used(c, j), NEW k \in Kernels, Bare(k), NEW p \in -5 .. RunLen - 1,
         NEW cmd, cmd = CommandAt(c, j, p + 1), NEW after, after = After(k, cmd),
         p > -5 => MarksOnce(k.mangle, MarksRun(p))
  PROVE  MarksOnce(after.mangle, MarksRun(p + 1))
<1>1. p \in Int /\ MarkCount \in Nat BY Numbers
<1>2. CASE p = -5
  <2>1. after.mangle = <<>> BY <1>2, StepDoes
  <2> QED BY <2>1 DEF MarksOnce
<1>3. CASE p \in 1 .. MarkCount
  <2>1. after.mangle = Append(k.mangle, Marks[p]) BY <1>3, StepDoes
  <2>2. MarksRun(p) = p - 1 /\ MarksRun(p + 1) = p BY <1>1, <1>3 DEF MarksRun, Clamp
  <2>3. MarksOnce(k.mangle, p - 1) BY <1>3, <2>2
  <2>4. k.mangle \in Seq(MarkCommands) /\ Marks[p] \in MarkCommands
    BY <1>3 DEF Kernels, MarkCommands
  <2>5. /\ Len(k.mangle) \in Nat /\ Len(after.mangle) = Len(k.mangle) + 1
        /\ \A i \in 1 .. Len(k.mangle) : after.mangle[i] = k.mangle[i]
        /\ after.mangle[Len(k.mangle) + 1] = Marks[p]
    BY <2>1, <2>4, AppendProperties, LenProperties
  <2>6. ASSUME NEW i \in 1 .. Len(k.mangle)
        PROVE  after.mangle[i] # Marks[p] /\ \E m \in 1 .. p : after.mangle[i] = Marks[m]
    <3>1. PICK m \in 1 .. p - 1 : k.mangle[i] = Marks[m] BY <2>3 DEF MarksOnce
    <3>2. m \in 1 .. MarkCount /\ m # p /\ m \in 1 .. p BY <1>1, <1>3
    <3>3. Marks[m] # Marks[p] BY <1>3, <3>2, MarksDistinct
    <3>4. after.mangle[i] = Marks[m] BY <2>5, <3>1
    <3> QED BY <3>2, <3>3, <3>4
  <2>7. \A i \in 1 .. Len(after.mangle) : i \in 1 .. Len(k.mangle) \/ i = Len(k.mangle) + 1
    BY <2>5
  <2>8. MarksOnce(after.mangle, p)
    <3>1. ASSUME NEW i \in 1 .. Len(after.mangle)
      PROVE \E m \in 1 .. p : after.mangle[i] = Marks[m]
      <4>1. p \in 1 .. p BY <1>1, <1>3
      <4> QED BY <2>5, <2>6, <2>7, <4>1
    <3>2. ASSUME NEW i \in 1 .. Len(after.mangle), NEW l \in 1 .. Len(after.mangle), after.mangle[i] = after.mangle[l]
          PROVE  i = l
      <4>1. CASE i \in 1 .. Len(k.mangle) /\ l \in 1 .. Len(k.mangle)
        BY <2>3, <2>5, <3>2, <4>1 DEF MarksOnce
      <4>2. i \in 1 .. Len(k.mangle) => after.mangle[i] # Marks[p] BY <2>6
      <4>3. l \in 1 .. Len(k.mangle) => after.mangle[l] # Marks[p] BY <2>6
      <4>4. after.mangle[Len(k.mangle) + 1] = Marks[p] BY <2>5
      <4> QED BY <2>7, <3>2, <4>1, <4>2, <4>3, <4>4
    <3> QED BY <3>1, <3>2 DEF MarksOnce
  <2> QED BY <2>2, <2>8
<1>4. CASE p # -5 /\ p \notin 1 .. MarkCount
  <2>1. after.mangle = k.mangle BY <1>4, StepDoes
  <2>2. MarksRun(p + 1) = MarksRun(p) BY <1>1, <1>4 DEF MarksRun, Clamp
  <2> QED BY <1>1, <1>4, <2>1, <2>2
<1> QED BY <1>2, <1>3, <1>4
-----------------------------------------------------------------------------
(* The inductive invariant.                                                *)

Types ==
  /\ qos \in QoSValues
  /\ kernel \in Kernels /\ Bare(kernel)
  /\ status \in {"off", "busy", "up"}
  /\ config \in Configs(qos) \cup {NoConfig}
  /\ todo \in Seq(Commands) /\ (todo = <<>> <=> status # "busy")
  /\ exitCode \in {0, 1} /\ runs \in 0 .. MaxRuns /\ faults \in 0 .. MaxFaults
  /\ orphans \subseteq (1 .. runs) \X Commands
  /\ flush \in BOOLEAN /\ flushErr \in BOOLEAN /\ alone \in BOOLEAN /\ failed \in BOOLEAN /\ noise \in BOOLEAN

\* The place of the last command that has ended.
Place == RunLen - Len(todo)

\* What the history variables tell.
History ==
  /\ status # "off" => runs >= 1
  /\ alone /\ status # "off" => flush /\ orphans = {}
  /\ ~noise => ~failed /\ orphans = {} /\ (status # "off" => (alone <=> flush))
  /\ flushErr => failed
  /\ flushErr /\ status = "busy" => Place < 0
  /\ status = "up" => ~flushErr

\* The commands left are the last ones of the program.
Queue(j) ==
  /\ Place >= FirstPlace(flush) - 1
  /\ \A i \in 1 .. Len(todo) : todo[i] = CommandAt(config, j, Place + i)

\* The process itself has made what a device has.
Own(j) == \A d \in Devices : Place > DelAt(d) + 1 =>
            kernel.tree[d] = TreeAt(Block(config, j, d), BlockRun(Place, d))

\* A process that flushed, alone and without a failure, has made everything.
Flushed(j) ==
  /\ Place > -5 => MarksAfter(kernel.mangle, 0, MarksRun(Place))
  /\ Own(j)
  /\ Place > 0 => kernel.forward

\* The trees are those of some configuration.
Over(k) ==
  /\ k.forward
  /\ \E c \in Configs(qos), l \in BOOLEAN :
       Used(c, l) /\ \A d \in Devices : k.tree[d] = TreeAt(Block(c, l, d), BlockLen)

\* A process that did not flush finds a complete link, or none.
Kept(j) ==
  /\ MarksLast(kernel.mangle, MarksRun(Place))
  /\ \/ Own(j) /\ (Place > 0 => kernel.forward)
     \/ Over(kernel)

Running ==
  status # "off" =>
    \E j \in BOOLEAN :
      /\ Used(config, j) /\ Queue(j)
      /\ alone /\ ~failed => Flushed(j)
      /\ ~noise /\ ~flush => Kept(j)

\* Whatever fails, the marks of a process that flushed alone are there once.
Once == status # "off" /\ alone /\ ~flushErr /\ Place > -5 => MarksOnce(kernel.mangle, MarksRun(Place))

\* Between two processes the link is complete, or nobody has touched it.
Settled ==
  status = "off" /\ ~noise =>
    \/ kernel = Empty
    \/ Over(kernel) /\ MarksLast(kernel.mangle, MarkCount)

\* What commands and trees have in common without QoS.
PlainCommand(cmd) ==
  /\ cmd.op = "addRoot" => cmd.default = 30
  /\ cmd.op = "addClass" => cmd.id = 1
  /\ cmd.op = "addFilter" => cmd.mark = MarkFor(cmd.dev) /\ cmd.class = 1

PlainTree(t, d) ==
  /\ t.default \in {0, 30}
  /\ \A e \in t.class : e.id = 1
  /\ \A f \in t.filter : f.mark = MarkFor(d) /\ f.class = 1

Plain ==
  ~qos => /\ \A d \in Devices : PlainTree(kernel.tree[d], d)
          /\ \A i \in 1 .. Len(todo) : PlainCommand(todo[i])
          /\ \A orphan \in orphans : PlainCommand(orphan[2])

IInv == WellFormed /\ Types /\ History /\ Running /\ Once /\ Settled /\ Plain
-----------------------------------------------------------------------------
\* Without QoS every command of a program is plain.
LEMMA ProgramPlain ==
  ASSUME ~qos, NEW c, NEW j, Used(c, j), NEW p \in -5 .. RunLen - 1
  PROVE  PlainCommand(CommandAt(c, j, p + 1))
<1> DEFINE cmd == CommandAt(c, j, p + 1)
<1>1. /\ p = -5 => cmd = [op |-> "flushMarks"]
      /\ p = -4 => cmd = [op |-> "delFilters", dev |-> "GW"]
      /\ p = -3 => cmd = [op |-> "delRoot", dev |-> "GW"]
      /\ p = -2 => cmd = [op |-> "delFilters", dev |-> "ST"]
      /\ p = -1 => cmd = [op |-> "delRoot", dev |-> "ST"]
      /\ p = 0 => cmd = [op |-> "sysctl"]
      /\ p \in 1 .. MarkCount => cmd = Marks[p]
      /\ \A d \in Devices : p - Before(d) \in 0 .. BlockLen - 1 => cmd = Block(c, j, d)[p - Before(d) + 1]
      /\ \/ p \in -5 .. MarkCount
         \/ \E d \in Devices : p - Before(d) \in 0 .. BlockLen - 1
  BY CommandIs
<1> HIDE DEF cmd
<1>2. CASE p \in 1 .. MarkCount
  <2>1. cmd \in MarkCommands BY <1>1, <1>2 DEF MarkCommands
  <2>2. cmd.op = "mark" BY <2>1, MarkFields
  <2> QED BY <2>2 DEF PlainCommand, cmd
<1>3. ASSUME NEW d \in Devices, p - Before(d) \in 0 .. BlockLen - 1
  PROVE PlainCommand(cmd)
  <2> DEFINE b == Block(c, j, d)
  <2>1. IsBlock(b, c, d) BY BlockIs
  <2>2. p - Before(d) + 1 \in 1 .. 4 BY <1>3, Numbers DEF Devices, BlockLen
  <2>3. cmd = b[1] \/ cmd = b[2] \/ cmd = b[3] \/ cmd = b[4]
    <3> HIDE DEF b
    <3>1. cmd = b[p - Before(d) + 1] BY <1>1, <1>3 DEF b
    <3> QED BY <2>2, <3>1
  <2> HIDE DEF b
  <2>4. cmd.dev = d BY <2>1, <2>3 DEF IsBlock, BlockLen
  <2> QED BY <2>1, <2>3, <2>4 DEF IsBlock, PlainCommand
<1>4. CASE p \in -5 .. 0
  <2>1. p = -5 \/ p = -4 \/ p = -3 \/ p = -2 \/ p = -1 \/ p = 0 BY <1>4
  <2>2. cmd.op \in {"flushMarks", "delFilters", "delRoot", "sysctl"} BY <1>1, <2>1
  <2> QED BY <2>2 DEF PlainCommand, cmd
<1>5. p \in -5 .. MarkCount => p \in -5 .. 0 \/ p \in 1 .. MarkCount BY Numbers
<1> QED BY <1>1, <1>2, <1>3, <1>4, <1>5 DEF cmd

\* Plain commands keep plain trees plain.
LEMMA AfterPlain ==
  ASSUME NEW k \in Kernels, \A d \in Devices : PlainTree(k.tree[d], d), NEW cmd \in Commands, PlainCommand(cmd)
  PROVE  \A d \in Devices : PlainTree(After(k, cmd).tree[d], d)
<1> DEFINE after == After(k, cmd)
<1>1. CASE ~Accepted(k, cmd) BY <1>1 DEF After
<1>2. CASE Accepted(k, cmd)
  <2>1. after = Effect(k, cmd) BY <1>2 DEF After
  <2>2. ASSUME NEW t, NEW d \in Devices, after = [k EXCEPT !.tree[d] = t], PlainTree(t, d)
        PROVE  \A e \in Devices : PlainTree(after.tree[e], e)
    <3> HIDE DEF after
    <3> QED BY <2>2 DEF Kernels
  <2>3. CASE cmd \in MarkCommands BY <2>3, MarkDoes
  <2>4. CASE cmd \in [op : {"sysctl", "flushMarks"}]
    BY <2>1, <2>4 DEF Effect, Kernels
  <2>5. CASE cmd \in DelCommands
    <3> DEFINE t == [k.tree[cmd.dev] EXCEPT !.filter = {}]
    <3>1. after = [k EXCEPT !.tree[cmd.dev] = t] \/ after = [k EXCEPT !.tree[cmd.dev] = NoTree]
      BY <2>1, <2>5 DEF Effect, DelCommands, Kernels
    <3>2. cmd.dev \in Devices BY <2>5 DEF DelCommands
    <3>3. PlainTree(t, cmd.dev) /\ PlainTree(NoTree, cmd.dev)
      <4>1. PlainTree(k.tree[cmd.dev], cmd.dev) /\ k.tree[cmd.dev] \in Trees
        BY <3>2 DEF Kernels
      <4> QED BY <4>1 DEF PlainTree, NoTree, Trees
    <3> HIDE DEF t
    <3> QED BY <2>2, <3>1, <3>2, <3>3
  <2>6. CASE cmd \in BuildCommands
    <3>1. cmd.dev \in Devices
      BY <2>6
        DEF BuildCommands, RootCommands, ClassCommands, NetemCommands, FilterCommands
    <3>2. PlainTree(k.tree[cmd.dev], cmd.dev) /\ k.tree[cmd.dev] \in Trees
      BY <3>1 DEF Kernels
    <3>3. CASE cmd \in RootCommands
      <4> DEFINE t == [k.tree[cmd.dev] EXCEPT !.htb = TRUE, !.default = cmd.default]
      <4>1. after = [k EXCEPT !.tree[cmd.dev] = t]
        <5>1. cmd.op = "addRoot" BY <3>3 DEF RootCommands
        <5> QED BY <2>1, <3>1, <5>1 DEF Effect, Kernels
      <4>2. PlainTree(t, cmd.dev)
        BY <3>2, <3>3 DEF PlainTree, PlainCommand, RootCommands, Trees
      <4> HIDE DEF t
      <4> QED BY <2>2, <3>1, <4>1, <4>2
    <3>4. CASE cmd \in ClassCommands
      <4> DEFINE t == [k.tree[cmd.dev] EXCEPT !.class = @ \cup {cmd}]
      <4>1. after = [k EXCEPT !.tree[cmd.dev] = t]
        BY <2>1, <3>4 DEF Effect, ClassCommands, Kernels
      <4>2. PlainTree(t, cmd.dev)
        BY <3>2, <3>4 DEF PlainTree, PlainCommand, ClassCommands, Trees
      <4> HIDE DEF t
      <4> QED BY <2>2, <3>1, <4>1, <4>2
    <3>5. CASE cmd \in NetemCommands
      <4> DEFINE t == [k.tree[cmd.dev] EXCEPT !.netem = @ \cup {cmd}]
      <4>1. after = [k EXCEPT !.tree[cmd.dev] = t]
        BY <2>1, <3>5 DEF Effect, NetemCommands, Kernels
      <4>2. PlainTree(t, cmd.dev)
        BY <3>2, <3>5 DEF PlainTree, PlainCommand, NetemCommands, Trees
      <4> HIDE DEF t
      <4> QED BY <2>2, <3>1, <4>1, <4>2
    <3>6. CASE cmd \in FilterCommands
      <4> DEFINE t == [k.tree[cmd.dev] EXCEPT !.filter = @ \cup {cmd}]
      <4>1. after = [k EXCEPT !.tree[cmd.dev] = t]
        BY <2>1, <3>6 DEF Effect, FilterCommands, Kernels
      <4>2. PlainTree(t, cmd.dev)
        BY <3>2, <3>6 DEF PlainTree, PlainCommand, FilterCommands, Trees
      <4> HIDE DEF t
      <4> QED BY <2>2, <3>1, <4>1, <4>2
    <3> QED BY <2>6, <3>3, <3>4, <3>5, <3>6 DEF BuildCommands
  <2> QED BY <2>3, <2>4, <2>5, <2>6 DEF Commands
<1> QED BY <1>1, <1>2
-----------------------------------------------------------------------------
\* A step leaves t.QoS, and with it the commands, as they are.
LEMMA Frame ==
  ASSUME qos' = qos
  PROVE  /\ Kernels' = Kernels /\ Commands' = Commands /\ RunLen' = RunLen /\ MarkCount' = MarkCount
         /\ \A c, j : Used(c, j)' <=> Used(c, j)
         /\ \A c, j, i : CommandAt(c, j, i)' = CommandAt(c, j, i)
         /\ \A c, j, d : Block(c, j, d)' = Block(c, j, d)
         /\ \A b, n : TreeAt(b, n)' = TreeAt(b, n)
         /\ \A p : MarksRun(p)' = MarksRun(p)
         /\ \A p, d : BlockRun(p, d)' = BlockRun(p, d)
         /\ \A m, b, n : MarksAfter(m, b, n)' <=> MarksAfter(m, b, n)
         /\ \A m, n : MarksLast(m, n)' <=> MarksLast(m, n)
         /\ \A m, n : MarksOnce(m, n)' <=> MarksOnce(m, n)
         /\ \A k : Over(k)' <=> Over(k)
<1>1. MarkCount' = MarkCount /\ BlockLen' = BlockLen BY DEF MarkCount, BlockLen
<1>2. RunLen' = RunLen /\ \A d : Before(d)' = Before(d) BY <1>1 DEF RunLen, Before
<1>3. Marks' = Marks BY DEF Marks
<1>4. MarkCommands' = MarkCommands BY <1>1, <1>3 DEF MarkCommands
<1>5. Kernels' = Kernels /\ Commands' = Commands BY <1>4 DEF Kernels, Commands
<1>6. \A c, j : Used(c, j)' <=> Used(c, j) BY DEF Used
<1>7. \A c, j : RunCommands(c, j)' = RunCommands(c, j) BY DEF RunCommands
<1>8. \A c, j, i : CommandAt(c, j, i)' = CommandAt(c, j, i) BY <1>7 DEF CommandAt
<1>9. \A c, j, d : Block(c, j, d)' = Block(c, j, d) BY DEF Block
<1>10. ClassAt' = ClassAt /\ NetemAt' = NetemAt /\ FilterAt' = FilterAt
  BY DEF ClassAt, NetemAt, FilterAt
<1>11. \A b, n : TreeAt(b, n)' = TreeAt(b, n) BY <1>10 DEF TreeAt
<1>12. \A p : MarksRun(p)' = MarksRun(p) BY <1>1 DEF MarksRun
<1>13. \A p, d : BlockRun(p, d)' = BlockRun(p, d) BY <1>1, <1>2 DEF BlockRun
<1>14. \A m, b, n : MarksAfter(m, b, n)' <=> MarksAfter(m, b, n)
  BY <1>3 DEF MarksAfter
<1>15. \A m, n : MarksLast(m, n)' <=> MarksLast(m, n) BY <1>14 DEF MarksLast
<1>16. \A m, n : MarksOnce(m, n)' <=> MarksOnce(m, n) BY <1>3 DEF MarksOnce
<1>17. \A k : Over(k)' <=> Over(k) BY <1>1, <1>6, <1>9, <1>11 DEF Over
<1> QED
  BY <1>1, <1>2, <1>5, <1>6, <1>8, <1>9, <1>11, <1>12, <1>13, <1>14, <1>15, <1>16, <1>17

\* The first process finds the invariant.
LEMMA InitIInv == WellFormed /\ Init => IInv
<1> SUFFICES ASSUME WellFormed, Init PROVE IInv OBVIOUS
<1> USE DEF Init
<1>1. Empty \in Kernels /\ Bare(Empty)
  <2>1. <<>> \in Seq(MarkCommands) OBVIOUS
  <2>2. NoTree \in Trees BY DEF NoTree, Trees
  <2> QED BY <2>1, <2>2 DEF Empty, Kernels, Bare
<1>2. Types
  <2>1. todo \in Seq(Commands) /\ todo = <<>> OBVIOUS
  <2>2. runs \in 0 .. MaxRuns /\ faults \in 0 .. MaxFaults /\ exitCode \in {0, 1}
    BY BoundsAssumption
  <2>3. orphans \subseteq (1 .. runs) \X Commands OBVIOUS
  <2>4. /\ qos \in QoSValues /\ config \in Configs(qos) \cup {NoConfig}
        /\ kernel \in Kernels /\ Bare(kernel) BY <1>1
  <2>5. status = "off" OBVIOUS
  <2>6. flush \in BOOLEAN /\ flushErr \in BOOLEAN /\ alone \in BOOLEAN /\ failed \in BOOLEAN /\ noise \in BOOLEAN
    OBVIOUS
  <2> HIDE DEF Init
  <2> QED BY <2>1, <2>2, <2>3, <2>4, <2>5, <2>6 DEF Types
<1>3. History BY DEF History
<1>4. Running /\ Once /\ Settled BY DEF Running, Once, Settled
<1>5. Plain
  <2>1. \A d \in Devices : kernel.tree[d] = NoTree BY DEF Empty
  <2>2. \A d \in Devices : PlainTree(NoTree, d) BY DEF PlainTree, NoTree
  <2> QED BY <2>1, <2>2 DEF Plain
<1> QED BY <1>2, <1>3, <1>4, <1>5 DEF IInv

\* Nothing at all is complete after no mark.
LEMMA NoMarks ==
  ASSUME NEW k \in Kernels PROVE MarksLast(k.mangle, 0)
<1>1. Len(k.mangle) \in Nat BY LenProperties DEF Kernels
<1> QED BY <1>1 DEF MarksLast, MarksAfter

\* A start, with or without --flush, keeps it.
LEMMA StartStep ==
  ASSUME IInv, NEW c \in Configs(qos), NEW f \in BOOLEAN, Start(c, f) PROVE IInv'
<1> USE DEF Start
<1>1. PICK j \in HasJitter(c) : todo' = (IF f THEN FlushCommands ELSE <<>>) \o RunCommands(c, j) OBVIOUS
<1>2. Used(c, j) /\ j \in BOOLEAN
  <2>1. Used(c, j) BY <1>1 DEF Used, IInv, Types
  <2> QED BY <2>1, UsedFacts
<1>3. /\ todo' \in Seq(Commands) /\ Len(todo') = RunLen + 1 - FirstPlace(f)
      /\ \A i \in 1 .. Len(todo') : todo'[i] = CommandAt(c, j, FirstPlace(f) - 1 + i)
  <2>1. todo' = Program(c, j, f) BY <1>1 DEF Program
  <2> QED BY <1>2, <2>1, ProgramIs
<1>4. Place' = FirstPlace(f) - 1 /\ FirstPlace(f) = (IF f THEN -4 ELSE 1) /\ todo' # <<>>
  <2>1. RunLen \in Nat /\ RunLen > 2 BY Numbers
  <2>2. FirstPlace(f) = (IF f THEN -4 ELSE 1) BY DEF FirstPlace
  <2>3. Place' = RunLen - Len(todo') BY Frame DEF Place
  <2>4. Len(todo') > 0 BY <1>3, <2>1, <2>2
  <2> QED BY <1>3, <2>1, <2>2, <2>3, <2>4
<1>5. Types'
  <2>1. runs' \in 0 .. MaxRuns /\ 1 .. runs \subseteq 1 .. runs'
    BY BoundsAssumption DEF IInv, Types
  <2>2. (orphans \subseteq (1 .. runs') \X Commands) BY <2>1 DEF IInv, Types
  <2> QED BY <1>3, <1>4, <2>1, <2>2, Frame DEF IInv, Types
<1>6. History'
  <2>1. runs' >= 1 BY DEF IInv, Types
  <2> QED BY <2>1 DEF IInv, Types, History
<1>7. Running'
  <2>1. Used(config, j)' BY <1>2, Frame
  <2>2. Queue(j)' BY <1>3, <1>4, Frame DEF Queue
  <2>3. ASSUME alone' PROVE Flushed(j)'
    <3>1. Place' = -5 BY <1>4, <2>3
    <3> QED BY <3>1 DEF Flushed, Own, DelAt, Devices
  <2>4. ASSUME ~noise', ~flush' PROVE Kept(j)'
    <3>1. Place' = 0 BY <1>4, <2>4
    <3>2. MarksLast(kernel.mangle, 0) BY NoMarks DEF IInv, Types
    <3>3. MarksRun(0) = 0 /\ \A d \in Devices : BlockRun(0, d) = 0
      BY Numbers DEF MarksRun, BlockRun, Clamp, Devices
    <3>4. kernel = Empty \/ Over(kernel) BY <2>4 DEF IInv, Settled
    <3>5. CASE kernel = Empty
      <4>1. \A d \in Devices : kernel.tree[d] = NoTree BY <3>5 DEF Empty
      <4>2. Own(j)' BY <3>1, <3>3, <4>1, Frame DEF Own, TreeAt
      <4> QED BY <3>1, <3>2, <3>3, <4>2, Frame DEF Kept
    <3>6. CASE Over(kernel) BY <3>1, <3>2, <3>3, <3>6, Frame DEF Kept
    <3> QED BY <3>4, <3>5, <3>6
  <2> QED BY <1>2, <2>1, <2>2, <2>3, <2>4 DEF Running
<1>8. Once' BY <1>4 DEF Once
<1>9. Settled' BY DEF Settled
<1>10. Plain'
  <2> SUFFICES ASSUME ~qos, NEW i \in 1 .. Len(todo') PROVE PlainCommand(todo'[i])
    BY DEF IInv, Plain
  <2>1. FirstPlace(f) - 2 + i \in -5 .. RunLen - 1 /\ FirstPlace(f) - 1 + i = (FirstPlace(f) - 2 + i) + 1
    BY <1>3, <1>4, Numbers
  <2> QED BY <1>2, <1>3, <2>1, ProgramPlain
<1> QED BY <1>5, <1>6, <1>7, <1>8, <1>9, <1>10 DEF IInv
\* What a running process can rely on: its next command is that of its place.
LEMMA NextCommand ==
  ASSUME IInv, status = "busy"
  PROVE  /\ Len(todo) \in Nat /\ Len(todo) >= 1 /\ Head(todo) \in Commands
         /\ Tail(todo) \in Seq(Commands) /\ Len(Tail(todo)) = Len(todo) - 1
         /\ \A i \in 1 .. Len(todo) - 1 : Tail(todo)[i] = todo[i + 1]
         /\ Place \in -5 .. RunLen - 1 /\ Place >= FirstPlace(flush) - 1
         /\ \A j \in BOOLEAN : Queue(j) => Head(todo) = CommandAt(config, j, Place + 1)
<1>1. todo \in Seq(Commands) /\ todo # <<>> BY DEF IInv, Types
<1>2. /\ Len(todo) \in Nat /\ Len(todo) >= 1 /\ Head(todo) = todo[1] /\ todo[1] \in Commands
      /\ Tail(todo) \in Seq(Commands) /\ Len(Tail(todo)) = Len(todo) - 1
      /\ \A i \in 1 .. Len(todo) - 1 : Tail(todo)[i] = todo[i + 1]
  BY <1>1
<1>3. Place >= FirstPlace(flush) - 1 /\ flush \in BOOLEAN
  BY DEF IInv, Types, Running, Queue
<1>4. RunLen \in Nat BY Numbers
<1>5. Place \in -5 .. RunLen - 1
  BY <1>2, <1>3, <1>4 DEF Place, FirstPlace
<1>6. \A j \in BOOLEAN : Queue(j) => Head(todo) = CommandAt(config, j, Place + 1)
  BY <1>2 DEF Queue
<1> QED BY <1>2, <1>3, <1>5, <1>6

\* iptables -F is only ever the first command of FlushTables.
LEMMA FlushMarksAt ==
  ASSUME NEW c, NEW j, Used(c, j), NEW p \in -5 .. RunLen - 1, CommandAt(c, j, p + 1).op = "flushMarks"
  PROVE  p = -5
<1> DEFINE cmd == CommandAt(c, j, p + 1)
<1>1. /\ p = -5 => cmd = [op |-> "flushMarks"]
      /\ p = -4 => cmd = [op |-> "delFilters", dev |-> "GW"]
      /\ p = -3 => cmd = [op |-> "delRoot", dev |-> "GW"]
      /\ p = -2 => cmd = [op |-> "delFilters", dev |-> "ST"]
      /\ p = -1 => cmd = [op |-> "delRoot", dev |-> "ST"]
      /\ p = 0 => cmd = [op |-> "sysctl"]
      /\ p \in 1 .. MarkCount => cmd = Marks[p]
      /\ \A d \in Devices : p - Before(d) \in 0 .. BlockLen - 1 => cmd = Block(c, j, d)[p - Before(d) + 1]
      /\ \/ p \in -5 .. MarkCount
         \/ \E d \in Devices : p - Before(d) \in 0 .. BlockLen - 1
  BY CommandIs
<1>0. cmd.op = "flushMarks" OBVIOUS
<1> HIDE DEF cmd
<1>2. p \notin 1 .. MarkCount
  <2> SUFFICES ASSUME p \in 1 .. MarkCount PROVE FALSE OBVIOUS
  <2>1. cmd \in MarkCommands BY <1>1 DEF MarkCommands
  <2>2. cmd.op = "mark" BY <2>1, MarkFields
  <2> QED BY <1>0, <2>2
<1>3. ASSUME NEW d \in Devices, p - Before(d) \in 0 .. BlockLen - 1 PROVE FALSE
  <2>1. p - Before(d) + 1 \in 1 .. BlockLen BY <1>3, Numbers DEF Devices
  <2>2. c \in [forward : Nat, return : Nat, denomination : Nat, jitter : Nat] /\ j \in BOOLEAN
    BY UsedFacts
  <2>3. cmd \in BuildCommands BY <1>1, <1>3, <2>1, <2>2, BlockTypes
  <2> QED
    BY <1>0, <2>3
      DEF BuildCommands, RootCommands, ClassCommands, NetemCommands, FilterCommands
<1>4. p \in -5 .. 0 BY <1>1, <1>2, <1>3, Numbers
<1>5. p = -5 \/ p = -4 \/ p = -3 \/ p = -2 \/ p = -1 \/ p = 0 BY <1>4
<1> QED BY <1>0, <1>1, <1>5

\* The end of a command, well or not, keeps it.
LEMMA CommandStep ==
  ASSUME IInv, NEW ok \in BOOLEAN, Command(ok) PROVE IInv'
<1> DEFINE cmd == Head(todo)
           p == Place
<1>1. status = "busy" /\ qos' = qos BY DEF Command, Finish
<1>2. PICK j \in BOOLEAN :
        /\ Used(config, j) /\ Queue(j)
        /\ alone /\ ~failed => Flushed(j)
        /\ ~noise /\ ~flush => Kept(j)
  BY <1>1 DEF IInv, Running
<1>3. /\ p \in -5 .. RunLen - 1 /\ cmd = CommandAt(config, j, p + 1) /\ cmd \in Commands /\ p >= FirstPlace(flush) - 1
  BY <1>1, <1>2, NextCommand
<1>4. /\ Len(todo) \in Nat /\ Len(todo) >= 1
      /\ todo' = Tail(todo) /\ todo' \in Seq(Commands) /\ Len(todo') = Len(todo) - 1
      /\ \A i \in 1 .. Len(todo') : todo'[i] = todo[i + 1]
  BY <1>1, NextCommand DEF Command
<1>5. Place' = p + 1 /\ RunLen \in Nat /\ p \in Int /\ (todo' = <<>> <=> p + 1 = RunLen)
  <2>1. RunLen \in Nat BY Numbers
  <2>2. Place' = RunLen - Len(todo') BY <1>1, Frame DEF Place
  <2>3. todo' = <<>> <=> Len(todo') = 0 BY <1>4, EmptySeq
  <2>4. p = RunLen - Len(todo) BY DEF Place
  <2> QED BY <1>4, <2>1, <2>2, <2>3, <2>4
<1>6. kernel \in Kernels /\ Bare(kernel) BY DEF IInv, Types
<1>7. kernel' = IF ok THEN After(kernel, cmd) ELSE kernel BY DEF Command, Finish
<1>8. kernel' \in Kernels /\ Bare(kernel') BY <1>3, <1>6, <1>7, AfterTypes
<1>9. /\ flushErr' = (flushErr \/ (cmd.op = "flushMarks" /\ ~ok)) /\ failed' = (failed \/ ~ok)
      /\ noise' = (noise \/ ~ok) /\ ~FlushFailed
      /\ status' = IF todo' = <<>> THEN "up" ELSE "busy"
      /\ config' = config /\ flush' = flush /\ alone' = alone /\ orphans' = orphans /\ runs' = runs
      /\ exitCode' = exitCode
      /\ faults' = (IF ok THEN faults ELSE faults + 1) /\ (ok \/ faults < MaxFaults)
  BY DEF Command, Finish
<1> HIDE DEF cmd, p
<1>10. Types'
  <2>1. faults' \in 0 .. MaxFaults BY <1>9, BoundsAssumption DEF IInv, Types
  <2>2. flushErr' \in BOOLEAN /\ failed' \in BOOLEAN /\ noise' \in BOOLEAN BY <1>9
  <2> QED BY <1>1, <1>4, <1>8, <1>9, <2>1, <2>2, Frame DEF IInv, Types
<1>11. flushErr' => p + 1 < 0
  <2>1. CASE flushErr
    <3>1. p < 0 BY <1>1, <2>1 DEF IInv, History, p
    <3>2. p # -1
      <4> SUFFICES ASSUME p = -1 PROVE FALSE OBVIOUS
      <4>1. cmd = FlushCommands[5] BY <1>3 DEF CommandAt
      <4> QED BY <1>9, <2>1, <4>1, FlushList DEF FlushFailed, cmd
    <3> QED BY <1>5, <3>1, <3>2
  <2>2. CASE cmd.op = "flushMarks" /\ ~ok
    <3>1. p = -5 BY <1>2, <1>3, <2>2, FlushMarksAt
    <3> QED BY <3>1
  <2> QED BY <1>9, <2>1, <2>2
<1>12. History'
  <2>1. status' = "up" => ~flushErr' BY <1>5, <1>9, <1>11
  <2>2. ~noise' => ~noise /\ ok /\ ~failed' BY <1>9 DEF IInv, History
  <2>3. flushErr' => failed' BY <1>9 DEF IInv, History
  <2> QED BY <1>1, <1>5, <1>9, <1>11, <2>1, <2>2, <2>3 DEF IInv, History
<1>13. Running'
  <2>1. Used(config, j)' BY <1>1, <1>2, <1>9, Frame
  <2>2. Queue(j)'
    <3>1. Place' >= FirstPlace(flush') - 1
      BY <1>3, <1>5, <1>9 DEF FirstPlace, IInv, Types
    <3>2. ASSUME NEW i \in 1 .. Len(todo')
      PROVE todo'[i] = CommandAt(config, j, Place' + i)
      <4>1. i + 1 \in 1 .. Len(todo) /\ p + (i + 1) = Place' + i BY <1>4, <1>5
      <4>2. todo[i + 1] = CommandAt(config, j, p + (i + 1))
        BY <1>2, <4>1 DEF Queue, p
      <4> QED BY <1>4, <4>1, <4>2
    <3> QED BY <1>1, <1>9, <3>1, <3>2, Frame DEF Queue
  <2>3. ASSUME ok, NEW d \in Devices, p > DelAt(d), p > DelAt(d) + 1 => kernel.tree[d] = TreeAt(Block(config, j, d), BlockRun(p, d))
        PROVE  kernel'.tree[d] = TreeAt(Block(config, j, d), BlockRun(p + 1, d))
    <3>1. p = DelAt(d) + 1 \/ p > DelAt(d) + 1 BY <1>5, <2>3 DEF DelAt
    <3> QED BY <1>2, <1>3, <1>6, <1>7, <2>3, <3>1, MadeStep
  <2>4. ok /\ Own(j) => Own(j)'
    <3> SUFFICES ASSUME ok, Own(j), NEW d \in Devices, p + 1 > DelAt(d) + 1
                 PROVE  kernel'.tree[d] = TreeAt(Block(config, j, d), BlockRun(p + 1, d))
      BY <1>1, <1>5, <1>9, Frame DEF Own
    <3>1. p > DelAt(d) BY <1>5 DEF DelAt
    <3> QED BY <2>3, <3>1 DEF Own, p
  <2>5. ok /\ p >= 0 => (p + 1 > 0 /\ (p > 0 => kernel.forward) => kernel'.forward)
    BY <1>2, <1>3, <1>5, <1>6, <1>7, StepDoes
  <2>6. ASSUME alone', ~failed' PROVE Flushed(j)'
    <3>1. ok /\ Flushed(j) BY <1>2, <1>9, <2>6
    <3>2. ASSUME p + 1 > -5 PROVE MarksAfter(kernel'.mangle, 0, MarksRun(p + 1))
      <4>1. CASE p = -5
        <5>1. kernel'.mangle = <<>> BY <1>2, <1>3, <1>6, <1>7, <3>1, <4>1, StepDoes
        <5>2. MarksRun(p + 1) = 0 BY <4>1, Numbers DEF MarksRun, Clamp
        <5> QED BY <5>1, <5>2 DEF MarksAfter
      <4>2. CASE p > -5
        <5>1. MarksAfter(kernel.mangle, 0, MarksRun(p)) BY <3>1, <4>2 DEF Flushed, p
        <5> QED BY <1>2, <1>3, <1>6, <1>7, <3>1, <4>2, <5>1, MarksStep
      <4> QED BY <1>5, <3>2, <4>1, <4>2, <1>3
    <3>3. p + 1 > 0 => kernel'.forward BY <1>5, <2>5, <3>1 DEF Flushed, p
    <3> QED BY <1>1, <1>5, <2>4, <3>1, <3>2, <3>3, Frame DEF Flushed
  <2>7. ASSUME ~noise', ~flush' PROVE Kept(j)'
    <3>1. ok /\ ~noise /\ ~flush /\ Kept(j) BY <1>2, <1>9, <2>7
    <3>2. p >= 0 BY <1>3, <3>1 DEF FirstPlace
    <3>3. MarksLast(kernel'.mangle, MarksRun(p + 1))
      <4>1. PICK base \in 0 .. Len(kernel.mangle) : MarksAfter(kernel.mangle, base, MarksRun(p))
        BY <3>1 DEF Kept, MarksLast, p
      <4>2. base \in Nat /\ p > -5 BY <1>5, <1>6, <3>2, LenProperties DEF Kernels
      <4>3. MarksAfter(kernel'.mangle, base, MarksRun(p + 1))
        BY <1>2, <1>3, <1>6, <1>7, <3>1, <4>1, <4>2, MarksStep
      <4>4. Len(kernel'.mangle) = base + MarksRun(p + 1) /\ MarksRun(p + 1) \in Nat
        BY <1>5, <4>3, Numbers DEF MarksAfter, MarksRun, Clamp
      <4> QED BY <4>2, <4>3, <4>4 DEF MarksLast
    <3>4. CASE Own(j) /\ (p > 0 => kernel.forward)
      <4>1. Own(j)' /\ (p + 1 > 0 => kernel'.forward)
        BY <1>5, <2>4, <2>5, <3>1, <3>2, <3>4
      <4> QED BY <1>1, <1>5, <3>3, <4>1, Frame DEF Kept
    <3>5. CASE Over(kernel)
      <4>1. PICK c \in Configs(qos), l \in BOOLEAN :
              Used(c, l) /\ \A d \in Devices : kernel.tree[d] = TreeAt(Block(c, l, d), BlockLen)
        BY <3>5 DEF Over
      <4>2. kernel'.forward BY <1>2, <1>3, <1>6, <1>7, <3>1, <3>5, StepDoes DEF Over
      <4>3. p \in 0 .. RunLen - 1 BY <1>3, <3>2
      <4>4. \A d \in Devices : kernel'.tree[d] = TreeAt(Block(c, l, d), BlockLen)
        BY <1>2, <1>3, <1>6, <1>7, <3>1, <4>1, <4>3, OverStep
      <4>5. Over(kernel') BY <4>1, <4>2, <4>4 DEF Over
      <4> QED BY <1>1, <1>5, <3>3, <4>5, Frame DEF Kept
    <3> QED BY <3>1, <3>4, <3>5 DEF Kept, p
  <2> QED BY <2>1, <2>2, <2>6, <2>7 DEF Running
<1>14. Once'
  <2> SUFFICES ASSUME alone, ~flushErr'
  PROVE  MarksOnce(kernel'.mangle, MarksRun(p + 1))
    BY <1>1, <1>5, <1>9, Frame DEF Once
  <2>1. p > -5 => MarksOnce(kernel.mangle, MarksRun(p))
    BY <1>1, <1>9 DEF IInv, Once, p
  <2>2. CASE ok BY <1>2, <1>3, <1>6, <1>7, <2>1, <2>2, OnceStep
  <2>3. CASE ~ok
    <3>1. p # -5
      <4> SUFFICES ASSUME p = -5 PROVE FALSE OBVIOUS
      <4>1. cmd = [op |-> "flushMarks"] 
        <5>1. p \in -5 .. RunLen - 1 /\ cmd = CommandAt(config, j, p + 1) BY <1>3
        <5> HIDE DEF p, cmd
        <5> QED BY <5>1, CommandIs
      <4> QED BY <1>9, <2>3, <4>1
    <3>2. MarksOnce(kernel.mangle, MarksRun(p)) BY <1>3, <2>1, <3>1
    <3>3. \A m \in 1 .. MarksRun(p) : m \in 1 .. MarksRun(p + 1)
      BY <1>5, Numbers DEF MarksRun, Clamp
    <3> QED BY <1>7, <2>3, <3>2, <3>3 DEF MarksOnce
  <2> QED BY <2>2, <2>3
<1>15. Settled' BY <1>9 DEF Settled
<1>16. Plain'
  <2> SUFFICES ASSUME ~qos PROVE Plain' BY <1>1 DEF Plain
  <2>1. PlainCommand(cmd)
    <3>1. cmd = todo[1] /\ 1 \in 1 .. Len(todo) BY <1>4 DEF cmd, IInv, Types
    <3> QED BY <3>1 DEF IInv, Plain
  <2>2. \A d \in Devices : PlainTree(kernel'.tree[d], d)
    BY <1>3, <1>6, <1>7, <2>1, AfterPlain DEF IInv, Plain
  <2>3. \A i \in 1 .. Len(todo') : PlainCommand(todo'[i])
    <3> TAKE i \in 1 .. Len(todo')
    <3>1. i + 1 \in 1 .. Len(todo) BY <1>4
    <3> QED BY <1>4, <3>1 DEF IInv, Plain
  <2> QED BY <1>9, <2>2, <2>3 DEF IInv, Plain
<1> QED BY <1>10, <1>12, <1>13, <1>14, <1>15, <1>16 DEF IInv
\* A process that is up has gone through its whole program.
LEMMA UpComplete ==
  ASSUME IInv, status = "up"
  PROVE  /\ alone /\ ~failed => \E j \in BOOLEAN : Used(config, j) /\ Complete(kernel, config, j)
         /\ ~noise => Over(kernel) /\ MarksLast(kernel.mangle, MarkCount)
<1>1. PICK j \in BOOLEAN :
        /\ Used(config, j) /\ Queue(j)
        /\ alone /\ ~failed => Flushed(j)
        /\ ~noise /\ ~flush => Kept(j)
  BY DEF IInv, Running
<1>2. Place = RunLen /\ RunLen \in Nat /\ RunLen > 2
  <2>1. todo = <<>> BY DEF IInv, Types
  <2>2. RunLen \in Nat /\ RunLen > 2 BY Numbers
  <2> QED BY <2>1, <2>2 DEF Place
<1>3. MarksRun(Place) = MarkCount /\ \A d \in Devices : BlockRun(Place, d) = BlockLen
  BY <1>2, Numbers DEF MarksRun, BlockRun, Clamp, Devices
<1>4. Own(j) => \A d \in Devices : kernel.tree[d] = TreeAt(Block(config, j, d), BlockLen)
  <2>1. \A d \in Devices : Place > DelAt(d) + 1 BY <1>2 DEF DelAt
  <2> QED BY <1>3, <2>1 DEF Own
<1>5. Flushed(j) => Complete(kernel, config, j)
  <2> SUFFICES ASSUME Flushed(j) PROVE Complete(kernel, config, j) OBVIOUS
  <2>1. kernel.forward /\ MarksAfter(kernel.mangle, 0, MarkCount)
    BY <1>2, <1>3 DEF Flushed
  <2>2. 0 \in 0 .. Len(kernel.mangle) BY LenProperties DEF IInv, Types, Kernels
  <2> QED BY <1>4, <2>1, <2>2 DEF Flushed, Complete, MarksLast
<1>6. config \in Configs(qos) BY <1>1 DEF Used
<1>7. (\A d \in Devices : kernel.tree[d] = TreeAt(Block(config, j, d), BlockLen)) /\ kernel.forward => Over(kernel)
  BY <1>1, <1>6 DEF Over
<1>8. ASSUME ~noise PROVE Over(kernel) /\ MarksLast(kernel.mangle, MarkCount)
  <2>1. CASE flush
    <3>1. Complete(kernel, config, j) BY <1>1, <1>5, <1>8, <2>1 DEF IInv, History
    <3> QED BY <1>7, <3>1 DEF Complete
  <2>2. CASE ~flush BY <1>1, <1>2, <1>3, <1>4, <1>7, <1>8, <2>2 DEF Kept
  <2> QED BY <2>1, <2>2 DEF IInv, Types
<1> QED BY <1>1, <1>5, <1>8

\* The other steps keep it: a start that fails, the exit after a flush that
\* failed, a signal, the end of a command that outlived its process.
LEMMA OtherSteps ==
  ASSUME IInv,
         \/ StartFails \/ Signal \/ UNCHANGED vars
         \/ \E ok \in BOOLEAN : FlushExit(ok)
         \/ \E orphan \in orphans : OrphanDone(orphan)
  PROVE  IInv'
<1>1. CASE StartFails
  <2> USE <1>1 DEF StartFails
  <2>1. Place' = Place BY Frame DEF Place
  <2>2. runs' \in 0 .. MaxRuns /\ 1 .. runs \subseteq 1 .. runs'
    BY BoundsAssumption DEF IInv, Types
  <2>3. Types' BY <2>2, Frame DEF IInv, Types
  <2>4. History' BY DEF IInv, History
  <2>5. Running' /\ Once' BY DEF Running, Once
  <2>6. Settled' BY Frame DEF IInv, Settled
  <2>7. Plain' BY DEF IInv, Plain
  <2> QED BY <2>3, <2>4, <2>5, <2>6, <2>7 DEF IInv
<1>2. CASE Signal
  <2> USE <1>2 DEF Signal
  <2>1. Types'
    <3>1. todo' \in Seq(Commands) OBVIOUS
    <3>2. orphans' \subseteq (1 .. runs) \X Commands
      <4>1. CASE orphans' = orphans BY <4>1 DEF IInv, Types
      <4>2. CASE status = "busy" /\ orphans' = orphans \cup {<<runs, Head(todo)>>}
        <5>1. Head(todo) \in Commands BY <4>2, NextCommand
        <5>2. runs \in 1 .. runs BY <4>2 DEF IInv, Types, History
        <5> QED BY <4>2, <5>1, <5>2 DEF IInv, Types
      <4> QED BY <4>1, <4>2
    <3>3. noise' \in BOOLEAN BY DEF IInv, Types
    <3>4. Kernels' = Kernels /\ Commands' = Commands BY Frame
    <3>5. exitCode' \in {0, 1} /\ status' = "off" /\ todo' = <<>> OBVIOUS
    <3> QED BY <3>1, <3>2, <3>3, <3>4, <3>5 DEF IInv, Types
  <2>2. History'
    <3>1. ~noise' => ~failed' /\ orphans' = {} BY DEF IInv, History
    <3> QED BY <3>1 DEF IInv, History
  <2>3. Running' /\ Once' BY DEF Running, Once
  <2>4. Settled'
    <3> SUFFICES ASSUME ~noise'
      PROVE Over(kernel) /\ MarksLast(kernel.mangle, MarkCount)
      BY Frame DEF Settled
    <3>1. ~noise /\ status = "up" OBVIOUS
    <3> QED BY <3>1, UpComplete
  <2>5. Plain'
    <3> SUFFICES ASSUME ~qos PROVE Plain' BY DEF Plain
    <3>1. \A orphan \in orphans' : PlainCommand(orphan[2])
      <4>1. CASE orphans' = orphans BY <4>1 DEF IInv, Plain
      <4>2. CASE status = "busy" /\ orphans' = orphans \cup {<<runs, Head(todo)>>}
        <5>1. Head(todo) = todo[1] /\ 1 \in 1 .. Len(todo)
          BY <4>2, NextCommand DEF IInv, Types
        <5>2. PlainCommand(Head(todo)) BY <5>1 DEF IInv, Plain
        <5>3. \A orphan \in orphans : PlainCommand(orphan[2]) BY DEF IInv, Plain
        <5> QED BY <4>2, <5>2, <5>3
      <4> QED BY <4>1, <4>2
    <3> QED BY <3>1 DEF IInv, Plain
  <2> QED BY <2>1, <2>2, <2>3, <2>4, <2>5 DEF IInv
<1>3. ASSUME NEW ok \in BOOLEAN, FlushExit(ok) PROVE IInv'
  <2> USE <1>3 DEF FlushExit, Finish
  <2>1. status = "busy" /\ Head(todo) \in Commands BY NextCommand
  <2>2. noise'
    <3>1. flushErr BY DEF FlushFailed
    <3>2. noise BY <3>1 DEF IInv, History
    <3> QED BY <3>2
  <2>3. kernel' \in Kernels /\ Bare(kernel')
    <3>1. kernel' = After(kernel, Head(todo)) \/ kernel' = kernel OBVIOUS
    <3> QED BY <2>1, <3>1, AfterTypes DEF IInv, Types
  <2>4. Types'
    <3>1. todo' \in Seq(Commands) OBVIOUS
    <3>2. faults' \in 0 .. MaxFaults BY BoundsAssumption DEF IInv, Types
    <3>3. flushErr' \in BOOLEAN /\ failed' \in BOOLEAN /\ noise' \in BOOLEAN
      BY DEF IInv, Types
    <3>4. Kernels' = Kernels /\ Commands' = Commands BY Frame
    <3> QED BY <2>3, <3>1, <3>2, <3>3, <3>4 DEF IInv, Types
  <2>5. History'
    <3>1. flushErr' => failed' BY DEF IInv, History
    <3> QED BY <2>2, <3>1 DEF IInv, History
  <2>6. Running' /\ Once' /\ Settled' BY <2>2 DEF Running, Once, Settled
  <2>7. Plain'
    <3> SUFFICES ASSUME ~qos PROVE Plain' BY DEF Plain
    <3>1. Head(todo) = todo[1] /\ 1 \in 1 .. Len(todo)
      BY NextCommand DEF IInv, Types
    <3>2. PlainCommand(Head(todo)) BY <3>1 DEF IInv, Plain
    <3>3. kernel' = After(kernel, Head(todo)) \/ kernel' = kernel OBVIOUS
    <3>4. \A d \in Devices : PlainTree(kernel'.tree[d], d)
      BY <2>1, <3>2, <3>3, AfterPlain DEF IInv, Plain, Types
    <3> QED BY <3>4 DEF IInv, Plain
  <2> QED BY <2>4, <2>5, <2>6, <2>7 DEF IInv
<1>4. ASSUME NEW orphan \in orphans, OrphanDone(orphan) PROVE IInv'
  <2> USE <1>4 DEF OrphanDone
  <2>1. orphan[2] \in Commands BY DEF IInv, Types
  <2>2. kernel' \in Kernels /\ Bare(kernel') BY <2>1, AfterTypes DEF IInv, Types
  <2>3. noise /\ ~(alone /\ status # "off") BY DEF IInv, History, Types
  <2>4. Place' = Place BY Frame DEF Place
  <2>5. Types' BY <2>2, Frame DEF IInv, Types
  <2>6. History' BY <2>3, <2>4 DEF IInv, History
  <2>7. Running'
    <3> SUFFICES ASSUME status # "off" PROVE Running' BY DEF Running
    <3>1. PICK j \in BOOLEAN : Used(config, j) /\ Queue(j) BY DEF IInv, Running
    <3>2. Queue(j)' BY <2>4, <3>1, Frame DEF Queue
    <3>3. Used(config, j)' BY <3>1, Frame
    <3> QED BY <2>3, <3>2, <3>3 DEF Running
  <2>8. Once' /\ Settled' BY <2>3 DEF Once, Settled
  <2>9. Plain'
    <3> SUFFICES ASSUME ~qos PROVE Plain' BY DEF Plain
    <3>1. PlainCommand(orphan[2]) BY DEF IInv, Plain
    <3>2. \A d \in Devices : PlainTree(kernel'.tree[d], d)
      BY <2>1, <3>1, AfterPlain DEF IInv, Plain, Types
    <3> QED BY <3>2 DEF IInv, Plain
  <2> QED BY <2>5, <2>6, <2>7, <2>8, <2>9 DEF IInv
<1>5. CASE UNCHANGED vars
  <2> USE <1>5 DEF vars
  <2>1. Place' = Place BY Frame DEF Place
  <2>2. Types' BY Frame DEF IInv, Types
  <2>3. History' BY <2>1 DEF IInv, History
  <2>4. Running'
    <3> SUFFICES ASSUME status # "off" PROVE Running' BY DEF Running
    <3>1. PICK j \in BOOLEAN :
            /\ Used(config, j) /\ Queue(j)
            /\ alone /\ ~failed => Flushed(j)
            /\ ~noise /\ ~flush => Kept(j)
      BY DEF IInv, Running
    <3>2. Queue(j)' /\ Used(config, j)' BY <2>1, <3>1, Frame DEF Queue
    <3>3. Own(j) <=> Own(j)' BY <2>1, Frame DEF Own
    <3>4. Flushed(j) => Flushed(j)' BY <2>1, <3>3, Frame DEF Flushed
    <3>5. Kept(j) => Kept(j)' BY <2>1, <3>3, Frame DEF Kept
    <3> QED BY <3>1, <3>2, <3>4, <3>5 DEF Running
  <2>5. Once' BY <2>1, Frame DEF IInv, Once
  <2>6. Settled' BY Frame DEF IInv, Settled
  <2>7. Plain' BY DEF IInv, Plain
  <2> QED BY <2>2, <2>3, <2>4, <2>5, <2>6, <2>7 DEF IInv
<1> QED BY <1>1, <1>2, <1>3, <1>4, <1>5

\* IInv is an invariant of tlink, for every set of well-formed configurations.
THEOREM Invariance == WellFormed /\ Spec => []IInv
<1>1. WellFormed /\ Init => IInv BY InitIInv
<1>2. IInv /\ [Next]_vars => IInv'
  <2> SUFFICES ASSUME IInv, [Next]_vars PROVE IInv' OBVIOUS
  <2>1. ASSUME NEW c \in Configs(qos), NEW f \in BOOLEAN, Start(c, f) PROVE IInv'
    BY <2>1, StartStep
  <2>2. ASSUME NEW ok \in BOOLEAN, Command(ok) PROVE IInv' BY <2>2, CommandStep
  <2> QED BY <2>1, <2>2, OtherSteps DEF Next
<1> QED BY <1>1, <1>2, PTL DEF Spec

\* The invariant says what LinkState says.
LEMMA IInvLinkState == ASSUME IInv PROVE LinkState
<1>1. TypeOK
  <2>1. kernel.tree \in [Devices -> Trees] BY DEF IInv, Types, Kernels
  <2>2. qos \in BOOLEAN BY FlagsAssumption DEF IInv, Types
  <2>3. \A orphan \in orphans : orphan[1] \in 1 .. runs BY DEF IInv, Types
  <2> QED BY <2>1, <2>2, <2>3 DEF IInv, Types, TypeOK
<1>2. LinkAsConfigured
  <2> SUFFICES ASSUME status = "up", alone, ~failed PROVE Emulates(kernel, config)
    BY DEF LinkAsConfigured
  <2>1. PICK j \in BOOLEAN : Used(config, j) /\ Complete(kernel, config, j)
    BY UpComplete
  <2> QED BY <2>1, CompleteEmulates DEF IInv, Types
<1>3. MarkedOnce
  <2> SUFFICES ASSUME status = "up", alone
  PROVE  MarksOnce(kernel.mangle, MarksRun(Place))
    BY DEF MarkedOnce, MarksOnce
  <2>1. Place > -5
    <3>1. todo = <<>> /\ RunLen \in Nat BY Numbers DEF IInv, Types
    <3> QED BY <3>1 DEF Place
  <2> QED BY <2>1 DEF IInv, Once, History
<1>4. OneConfiguration
  <2> SUFFICES ASSUME status = "up", ~noise
  PROVE  \E c \in Configs(qos) : Emulates(kernel, c)
    BY DEF OneConfiguration
  <2>1. Over(kernel) /\ MarksLast(kernel.mangle, MarkCount) BY UpComplete
  <2>2. PICK c \in Configs(qos), l \in BOOLEAN :
          Used(c, l) /\ \A d \in Devices : kernel.tree[d] = TreeAt(Block(c, l, d), BlockLen)
    BY <2>1 DEF Over
  <2>3. Complete(kernel, c, l) BY <2>1, <2>2 DEF Over, Complete
  <2> QED BY <2>2, <2>3, CompleteEmulates DEF IInv, Types
<1> QED BY <1>1, <1>2, <1>3, <1>4 DEF LinkState

\* A process that is up finds the link as its own configuration says if it
\* flushed alone and nothing failed, each rule once if it flushed alone, and
\* short of noise as one configuration says, whatever came before.
THEOREM Link == WellFormed /\ Spec => []LinkState
BY Invariance, IInvLinkState, PTL
-----------------------------------------------------------------------------
(* Without QoS: one class for a device, used or not.                       *)

\* Whether the class of a device is used by the packets coming in on the other.
Shaped(k, d) ==
  /\ \E i \in 1 .. Len(k.mangle) : k.mangle[i].nic = Other(d)
  /\ k.tree[d].class # {} /\ k.tree[d].filter # {}

\* What the packets get then.
Shape(k, d) ==
  LET rate == (CHOOSE c \in k.tree[d].class : c.id = 1).rate
      below == {n \in k.tree[d].netem : n.class = 1}
      n == CHOOSE n \in below : TRUE
  IN IF below = {} THEN [Unshaped EXCEPT !.rate = rate]
     ELSE [rate |-> rate, delay |-> n.delay, jitter |-> n.jitter, limit |-> n.limit]

\* A set of positions has a last one.
LEMMA Largest ==
  ASSUME NEW n \in Nat, NEW S \in SUBSET (1 .. n), S # {}
  PROVE  \E i \in S : \A j \in S : j <= i
<1> DEFINE T == {n - i : i \in S}
           R == OpToRel(<, Nat)
<1>1. IsWellFoundedOn(R, Nat) BY NatLessThanWellFounded
<1>2. T \subseteq Nat OBVIOUS
<1>3. T # {}
  <2>1. PICK i \in S : TRUE OBVIOUS
  <2>2. n - i \in T BY <2>1
  <2> HIDE DEF T
  <2> QED BY <2>2
<1> HIDE DEF R, T
<1>4. PICK x \in T : \A y \in T : ~(<<y, x>> \in R) BY <1>1, <1>2, <1>3, WFMin
<1>5. \A y \in Nat, z \in Nat : y < z => <<y, z>> \in R BY DEF R, OpToRel
<1>6. ASSUME NEW y \in T PROVE x <= y
  <2>1. x \in Nat /\ y \in Nat BY <1>2, <1>4
  <2>2. ~(y < x) BY <1>4, <1>5, <2>1
  <2> QED BY <2>1, <2>2
<1>7. PICK i \in S : x = n - i BY <1>4 DEF T
<1>8. ASSUME NEW j \in S PROVE j <= i
  <2>1. n - j \in T BY DEF T
  <2> QED BY <1>6, <1>7, <2>1
<1> QED BY <1>8

\* Without QoS a packet is marked as soon as there is a rule for its device.
LEMMA PlainMark ==
  ASSUME ~qos, NEW k \in Kernels, NEW dev \in Devices, NEW dscp \in Dscps
  PROVE  MarkOf(k, dev, dscp) =
           IF \E i \in 1 .. Len(k.mangle) : k.mangle[i].nic = dev THEN MarkFor(Other(dev)) ELSE 0
<1> DEFINE matching == {i \in 1 .. Len(k.mangle) : k.mangle[i].nic = dev /\ k.mangle[i].dscp \in {"any", dscp}}
           last == CHOOSE i \in matching : \A l \in matching : l <= i
<1>1. ASSUME NEW i \in 1 .. Len(k.mangle)
      PROVE  /\ k.mangle[i].dscp = "any"
             /\ k.mangle[i].nic = dev => k.mangle[i].mark = MarkFor(Other(dev))
  <2>1. k.mangle[i] \in MarkCommands BY ElementOfSeq DEF Kernels
  <2> QED BY <2>1, MarkFields DEF MarkFor, Other, Devices
<1>2. MarkOf(k, dev, dscp) = IF matching = {} THEN 0 ELSE k.mangle[last].mark
  BY DEF MarkOf
<1>3. matching # {} <=> \E i \in 1 .. Len(k.mangle) : k.mangle[i].nic = dev BY <1>1
<1>4. ASSUME matching # {} PROVE last \in matching
  <2>1. matching \in SUBSET (1 .. Len(k.mangle)) /\ Len(k.mangle) \in Nat
    BY LenProperties DEF Kernels
  <2> HIDE DEF matching
  <2>2. \E i \in matching : \A l \in matching : l <= i BY <1>4, <2>1, Largest
  <2> QED BY <2>2
<1> QED BY <1>1, <1>2, <1>3, <1>4

\* Without QoS a packet is shaped by the one class, or not at all.
LEMMA PlainTreatment ==
  ASSUME ~qos, NEW k \in Kernels, NEW d \in Devices, PlainTree(k.tree[d], d), NEW dscp \in Dscps
  PROVE  Treatment(k, Other(d), dscp) = IF Shaped(k, d) THEN Shape(k, d) ELSE Unshaped
<1> DEFINE dev == Other(d)
           tree == k.tree[d]
           mark == MarkOf(k, dev, dscp)
           selected == {f.class : f \in {g \in tree.filter : g.mark = mark}}
           known == {id \in selected \cup {tree.default} : HasClass(tree, id)}
           id == ClassOf(tree, mark)
<1>1. dev \in Devices /\ Other(dev) = d BY DEF Other, Devices
<1>2. mark = IF \E i \in 1 .. Len(k.mangle) : k.mangle[i].nic = dev THEN MarkFor(d) ELSE 0
  <2> HIDE DEF dev
  <2> QED BY <1>1, PlainMark
<1>3. MarkFor(d) # 0 BY DEF MarkFor
<1>4. ~HasClass(tree, tree.default) /\ (HasClass(tree, 1) <=> tree.class # {})
  BY DEF PlainTree, HasClass
<1>5. id = IF Shaped(k, d) THEN 1 ELSE 0
  <2> HIDE DEF mark
  <2>1. CASE Shaped(k, d)
    <3>1. mark = MarkFor(d) /\ tree.filter # {} /\ tree.class # {}
      BY <1>2, <2>1 DEF Shaped
    <3>2. \A g \in tree.filter : g.mark = mark /\ g.class = 1 BY <3>1 DEF PlainTree
    <3>3. selected = {1} BY <3>1, <3>2
    <3> HIDE DEF selected
    <3>4. selected \cap known = {1} BY <1>4, <3>1, <3>3
    <3> HIDE DEF known
    <3>5. id = CHOOSE x \in selected \cap known : TRUE
      BY <3>4 DEF ClassOf, selected, known
    <3>6. (CHOOSE x \in selected \cap known : TRUE) = 1 BY <3>4
    <3> QED BY <2>1, <3>5, <3>6
  <2>2. CASE ~Shaped(k, d)
    <3>1. known = {}
      <4>1. CASE tree.class = {} BY <4>1 DEF HasClass
      <4>2. CASE tree.filter = {} BY <1>4, <4>2
      <4>3. CASE ~\E i \in 1 .. Len(k.mangle) : k.mangle[i].nic = dev
        <5>1. mark = 0 BY <1>2, <4>3
        <5>2. \A g \in tree.filter : g.mark # mark BY <1>3, <5>1 DEF PlainTree
        <5> QED BY <1>4, <5>2
      <4> QED BY <2>2, <4>1, <4>2, <4>3 DEF Shaped
    <3>2. selected \cap known = {} BY <3>1
    <3> HIDE DEF selected, known
    <3> QED BY <2>2, <3>1, <3>2 DEF ClassOf, selected, known
  <2> QED BY <2>1, <2>2
<1>6. Treatment(k, dev, dscp) =
        LET rate == (CHOOSE c \in tree.class : c.id = id).rate
            below == {n \in tree.netem : n.class = id}
        IN IF id = 0 THEN Unshaped
           ELSE IF below = {} THEN [Unshaped EXCEPT !.rate = rate]
           ELSE LET n == CHOOSE n \in below : TRUE
                IN [rate |-> rate, delay |-> n.delay, jitter |-> n.jitter, limit |-> n.limit]
  <2> HIDE DEF dev
  <2> QED BY <1>1 DEF Treatment
<1> HIDE DEF id, mark, selected, known
<1>7. CASE Shaped(k, d)
  <2>1. id = 1 BY <1>5, <1>7
  <2> QED BY <1>6, <1>7, <2>1 DEF Shape
<1>8. CASE ~Shaped(k, d)
  <2>1. id = 0 BY <1>5, <1>8
  <2> QED BY <1>6, <1>8, <2>1
<1> QED BY <1>7, <1>8

\* Where packets are shaped before and after a command, it has not changed how,
\* unless it puts a netem below a class that is in use.
LEMMA ShapeKept ==
  ASSUME ~qos, NEW k \in Kernels, Bare(k), \A d \in Devices : PlainTree(k.tree[d], d),
         NEW cmd \in Commands, PlainCommand(cmd), NEW after, after = After(k, cmd), NEW d \in Devices,
         cmd.op = "addNetem" /\ cmd.dev = d => after.tree[d] = k.tree[d] \/ k.tree[d].filter = {},
         Shaped(k, d), Shaped(after, d)
  PROVE  Shape(after, d) = Shape(k, d)
<1> SUFFICES after.tree[d].class = k.tree[d].class /\ after.tree[d].netem = k.tree[d].netem
  BY DEF Shape
<1>1. CASE after.tree[d] = k.tree[d] BY <1>1
<1>2. k.tree[d].class # {} /\ k.tree[d].filter # {} /\ after.tree[d].class # {} /\ after.tree[d].filter # {}
  BY DEF Shaped
<1>3. CASE ~Accepted(k, cmd)
  <2>1. after = k BY <1>3 DEF After
  <2> QED BY <1>1, <2>1
<1>4. CASE Accepted(k, cmd)
  <2>1. after = Effect(k, cmd) BY <1>4 DEF After
  <2>2. CASE cmd \in MarkCommands BY <1>1, <2>2, MarkDoes
  <2>3. CASE cmd \in [op : {"sysctl", "flushMarks"}]
    <3>1. after.tree = k.tree BY <2>1, <2>3 DEF Effect, Kernels
    <3> QED BY <1>1, <3>1
  <2>4. CASE cmd \in DelCommands
    <3>1. cmd.dev \in Devices /\ cmd.op \in {"delFilters", "delRoot"} /\ cmd = [op |-> cmd.op, dev |-> cmd.dev]
      BY <2>4 DEF DelCommands
    <3>2. CASE cmd.dev # d
      <4>1. after.tree[d] = k.tree[d] BY <3>1, <3>2, DelDoes
      <4> QED BY <1>1, <4>1
    <3>3. CASE cmd.dev = d
      <4>1. after.tree[d].filter = {}
        <5> DEFINE t == [k.tree[d] EXCEPT !.filter = {}]
        <5>1. k.tree \in [Devices -> Trees] /\ t.filter = {} /\ NoTree.filter = {}
          BY DEF Kernels, Trees, NoTree
        <5>2. \/ Effect(k, cmd).tree = [k.tree EXCEPT ![d] = t]
              \/ Effect(k, cmd).tree = [k.tree EXCEPT ![d] = NoTree]
          <6>1. CASE cmd.op = "delFilters" BY <3>3, <6>1 DEF Effect, Kernels
          <6>2. CASE cmd.op = "delRoot" BY <3>3, <6>2 DEF Effect, Kernels
          <6> QED BY <3>1, <6>1, <6>2
        <5> HIDE DEF t
        <5> QED BY <2>1, <5>1, <5>2
      <4> QED BY <1>2, <4>1
    <3> QED BY <3>2, <3>3
  <2>5. CASE cmd \in BuildCommands /\ cmd.dev # d
    <3>1. after.tree[d] = k.tree[d] BY <2>5, BuildDoes
    <3> QED BY <1>1, <3>1
  <2>6. CASE cmd \in BuildCommands /\ cmd.dev = d
    <3>1. CASE cmd \in RootCommands
      <4>1. ~k.tree[d].htb BY <1>4, <2>6, <3>1 DEF Accepted, RootCommands
      <4>2. k.tree[d].class = {} BY <4>1 DEF Bare, NoTree
      <4> QED BY <1>2, <4>2
    <3>2. CASE cmd \in ClassCommands
      <4>1. ~HasClass(k.tree[d], 1)
        BY <1>4, <2>6, <3>2 DEF Accepted, ClassCommands, PlainCommand
      <4>2. k.tree[d].class = {} BY <4>1 DEF HasClass, PlainTree
      <4> QED BY <1>2, <4>2
    <3>3. CASE cmd \in NetemCommands
      <4>1. after.tree[d] = k.tree[d] \/ k.tree[d].filter = {}
        BY <2>6, <3>3 DEF NetemCommands
      <4> QED BY <1>1, <1>2, <4>1
    <3>4. CASE cmd \in FilterCommands
      <4> DEFINE t == [k.tree[cmd.dev] EXCEPT !.filter = @ \cup {cmd}]
      <4>1. after = [k EXCEPT !.tree[cmd.dev] = t]
        BY <2>1, <3>4 DEF Effect, FilterCommands, Kernels
      <4>2. k.tree[d] \in Trees /\ k.tree[cmd.dev] = k.tree[d] BY <2>6 DEF Kernels
      <4>3. t.class = k.tree[d].class /\ t.netem = k.tree[d].netem BY <4>2 DEF Trees
      <4> HIDE DEF t
      <4>4. after.tree[d] = t BY <2>6, <4>1 DEF Kernels
      <4> QED BY <4>3, <4>4
    <3> QED BY <2>6, <3>1, <3>2, <3>3, <3>4 DEF BuildCommands
  <2> QED BY <2>2, <2>3, <2>4, <2>5, <2>6 DEF Commands
<1> QED BY <1>3, <1>4
\* Short of noise a process puts a netem only where there is no filter yet, or
\* in vain.
LEMMA NetemStep ==
  ASSUME IInv, status = "busy", ~noise, ~qos, NEW d \in Devices, Head(todo).op = "addNetem", Head(todo).dev = d
  PROVE  After(kernel, Head(todo)).tree[d] = kernel.tree[d] \/ kernel.tree[d].filter = {}
<1> DEFINE cmd == Head(todo)
           p == Place
<1>1. PICK j \in BOOLEAN :
        /\ Used(config, j) /\ Queue(j)
        /\ alone /\ ~failed => Flushed(j)
        /\ ~noise /\ ~flush => Kept(j)
  BY DEF IInv, Running
<1>2. p \in -5 .. RunLen - 1 /\ cmd = CommandAt(config, j, p + 1)
  BY <1>1, NextCommand
<1> HIDE DEF p
<1>3. \E e \in Devices : p - Before(e) \in 0 .. BlockLen - 1
  <2> SUFFICES ASSUME p \in -5 .. MarkCount PROVE FALSE BY <1>2, CommandIs
  <2>1. CASE p \in 1 .. MarkCount
    <3>1. cmd = Marks[p] BY <1>2, <2>1, CommandIs
    <3>2. cmd \in MarkCommands BY <2>1, <3>1 DEF MarkCommands
    <3> QED BY <3>2, MarkFields
  <2>2. CASE p \in -5 .. 0
    <3>1. p = -5 \/ p = -4 \/ p = -3 \/ p = -2 \/ p = -1 \/ p = 0 BY <2>2
    <3>2. CommandAt(config, j, p + 1).op \in {"flushMarks", "delFilters", "delRoot", "sysctl"}
      BY <1>2, <3>1, CommandIs
    <3> QED BY <1>2, <3>2
  <2>3. p \in 1 .. MarkCount \/ p \in -5 .. 0 BY Numbers
  <2> QED BY <2>1, <2>2, <2>3
<1>4. PICK e \in Devices : p - Before(e) \in 0 .. BlockLen - 1 BY <1>3
<1> DEFINE b == Block(config, j, e)
           i == p - Before(e) + 1
<1>5. IsBlock(b, config, e) /\ BlockLen = 4 BY <1>1, BlockIs DEF BlockLen
<1>6. i \in 1 .. 4 /\ cmd = b[i] BY <1>2, <1>4, <1>5, CommandIs, Numbers DEF Devices
<1> HIDE DEF b, i
<1>7. e = d /\ i = 3
  <2>1. b[i].dev = e /\ b[i].dev = d BY <1>5, <1>6 DEF IsBlock
  <2>2. i = 1 \/ i = 2 \/ i = 3 \/ i = 4 BY <1>6
  <2>3. b[i].op = "addNetem" BY <1>6
  <2> QED BY <1>5, <2>1, <2>2, <2>3 DEF IsBlock
<1>8. p >= 0 /\ p > DelAt(d) + 1 /\ BlockRun(p, d) = 2
  <2>1. Before(d) \in Nat /\ p - Before(d) = 2 /\ p \in Int
    BY <1>2, <1>6, <1>7, Numbers DEF Devices, i
  <2> QED BY <1>5, <2>1 DEF DelAt, BlockRun, Clamp
<1>9. CASE Own(j)
  <2>1. kernel.tree[d] = TreeAt(Block(config, j, d), 2) BY <1>8, <1>9 DEF Own, p
  <2>2. kernel.tree[d].filter = Part(Block(config, j, d), FilterAt, 2)
    BY <2>1, TreeFields
  <2> QED BY <2>2 DEF Part, FilterAt
<1>10. CASE ~flush /\ Over(kernel)
  <2>1. PICK c \in Configs(qos), l \in BOOLEAN :
          Used(c, l) /\ \A f \in Devices : kernel.tree[f] = TreeAt(Block(c, l, f), BlockLen)
    BY <1>10 DEF Over
  <2>2. p \in 0 .. RunLen - 1 BY <1>2, <1>8
  <2>3. kernel.tree[d] = TreeAt(Block(c, l, d), BlockLen) /\ kernel \in Kernels /\ Bare(kernel)
    BY <2>1 DEF IInv, Types
  <2>4. After(kernel, cmd).tree[d] = TreeAt(Block(c, l, d), BlockLen)
    BY <1>1, <1>2, <2>1, <2>2, <2>3, OverStep
  <2> QED BY <2>3, <2>4
<1>11. flush => Own(j) BY <1>1 DEF IInv, History, Flushed
<1> QED BY <1>1, <1>9, <1>10, <1>11 DEF Kept, IInv, Types

\* What a step does to the kernel short of noise: the next command of the
\* process, or nothing.
LEMMA QuietStep ==
  ASSUME IInv, [Next]_vars, ~noise'
  PROVE  kernel' = kernel \/ (status = "busy" /\ ~noise /\ kernel' = After(kernel, Head(todo)))
<1>1. ASSUME NEW ok \in BOOLEAN, Command(ok)
  PROVE status = "busy" /\ ~noise /\ kernel' = After(kernel, Head(todo))
  BY <1>1 DEF Command, Finish
<1>2. ASSUME NEW ok \in BOOLEAN, FlushExit(ok) PROVE FALSE
  BY <1>2 DEF FlushExit, Finish, FlushFailed, IInv, History
<1>3. ASSUME NEW orphan \in orphans, OrphanDone(orphan) PROVE FALSE
  BY <1>3 DEF OrphanDone, IInv, History
<1>4. CASE StartFails \/ Signal \/ UNCHANGED vars
  BY <1>4 DEF StartFails, Signal, vars
<1>5. ASSUME NEW c, NEW f, Start(c, f) PROVE kernel' = kernel BY <1>5 DEF Start
<1> QED BY <1>1, <1>2, <1>3, <1>4, <1>5 DEF Next

\* Without QoS, as long as there is no noise, no command ever changes the shape
\* of a direction that is shaped before it and after it.
THEOREM OneStep == WellFormed /\ Spec => ShapedInOneStep
<1>1. IInv /\ [Next]_vars =>
        [ ~qos /\ ~noise' => \A dev \in Devices, dscp \in Dscps :
            LET before == Treatment(kernel, dev, dscp)
                after  == Treatment(kernel', dev, dscp)
            IN before # after => Unshaped \in {before, after} ]_vars
  <2> SUFFICES ASSUME IInv, [Next]_vars, ~qos, ~noise', NEW dev \in Devices, NEW dscp \in Dscps,
                      Treatment(kernel, dev, dscp) # Treatment(kernel', dev, dscp)
               PROVE  Unshaped \in {Treatment(kernel, dev, dscp), Treatment(kernel', dev, dscp)}
    OBVIOUS
  <2> DEFINE d == Other(dev)
             cmd == Head(todo)
  <2>1. d \in Devices /\ Other(d) = dev BY DEF Other, Devices
  <2>2. CASE kernel' = kernel BY <2>2
  <2>3. CASE status = "busy" /\ ~noise /\ kernel' = After(kernel, cmd)
    <3> HIDE DEF d
    <3>1. /\ kernel \in Kernels /\ Bare(kernel) /\ cmd \in Commands
          /\ \A e \in Devices : PlainTree(kernel.tree[e], e)
      BY <2>3, NextCommand DEF IInv, Types, Plain
    <3>2. PlainCommand(cmd)
      <4>1. cmd = todo[1] /\ 1 \in 1 .. Len(todo)
        BY <2>3, NextCommand DEF IInv, Types
      <4> QED BY <4>1 DEF IInv, Plain
    <3>3. kernel' \in Kernels /\ \A e \in Devices : PlainTree(kernel'.tree[e], e)
      BY <2>3, <3>1, <3>2, AfterTypes, AfterPlain
    <3>4. cmd.op = "addNetem" /\ cmd.dev = d => kernel'.tree[d] = kernel.tree[d] \/ kernel.tree[d].filter = {}
      BY <2>1, <2>3, NetemStep
    <3>5. Shaped(kernel, d) /\ Shaped(kernel', d) => Shape(kernel', d) = Shape(kernel, d)
      <4> HIDE DEF cmd
      <4> QED BY <2>1, <2>3, <3>1, <3>2, <3>4, ShapeKept
    <3>6. /\ Treatment(kernel, dev, dscp) = IF Shaped(kernel, d) THEN Shape(kernel, d) ELSE Unshaped
          /\ Treatment(kernel', dev, dscp) = IF Shaped(kernel', d) THEN Shape(kernel', d) ELSE Unshaped
      BY <2>1, <3>1, <3>3, PlainTreatment
    <3> HIDE DEF cmd
    <3> QED BY <3>5, <3>6
  <2> QED BY <2>2, <2>3, QuietStep
<1> QED BY Invariance, <1>1, PTL DEF Spec, ShapedInOneStep

\* Without QoS and --flush a link that is emulated as some configuration says
\* stays so through every command of every later process.
THEOREM FirstWins == WellFormed /\ Spec => FirstConfigurationWins
<1>1. IInv /\ [Next]_vars =>
        [ ~qos /\ ~flush /\ ~noise' =>
            \A c \in Configs(qos) : Emulates(kernel, c) => Emulates(kernel', c) ]_vars
  <2> SUFFICES ASSUME IInv, [Next]_vars, ~qos, ~flush, ~noise', NEW c \in Configs(qos), Emulates(kernel, c)
               PROVE  Emulates(kernel', c)
    OBVIOUS
  <2> DEFINE cmd == Head(todo)
             p == Place
  <2>1. CASE kernel' = kernel BY <2>1 DEF Emulates, Shaping
  <2>2. CASE status = "busy" /\ ~noise /\ kernel' = After(kernel, cmd)
    <3>1. PICK j \in BOOLEAN : Used(config, j) /\ Queue(j) /\ Kept(j)
      BY <2>2 DEF IInv, Running
    <3>2. /\ p \in -5 .. RunLen - 1 /\ cmd = CommandAt(config, j, p + 1) /\ cmd \in Commands /\ p >= 0
      BY <2>2, <3>1, NextCommand DEF FirstPlace
    <3>3. kernel \in Kernels /\ Bare(kernel) /\ \A e \in Devices : PlainTree(kernel.tree[e], e)
      BY DEF IInv, Types, Plain
    <3>4. ASSUME NEW d \in Devices PROVE Shaped(kernel, d)
      <4>1. Other(d) \in Devices /\ "other" \in Dscps BY DEF Other, Devices, Dscps
      <4>2. Shaping(kernel, Other(d), "other") = Wanted(c, Other(d), "other")
        BY <4>1 DEF Emulates
      <4>3. Treatment(kernel, Other(d), "other").rate = Wanted(c, Other(d), "other").rate
        BY <4>2 DEF Shaping, Wanted
      <4>4. c.forward > 0 /\ c.return > 0 /\ c.forward \in Nat /\ c.return \in Nat
        BY ConfigsAssumption DEF IInv, Types, WellFormed
      <4>5. Wanted(c, Other(d), "other").rate # 0 BY <4>4 DEF Wanted
      <4>6. Treatment(kernel, Other(d), "other") # Unshaped
        BY <4>3, <4>5 DEF Unshaped
      <4> QED BY <3>3, <4>1, <4>6, PlainTreatment
    <3>5. Over(kernel)
      <4> SUFFICES ASSUME Own(j) PROVE FALSE BY <3>1 DEF Kept
      <4>1. p > DelAt("ST") + 1 /\ "ST" \in Devices BY <3>2 DEF DelAt, Devices
      <4>2. kernel.tree["ST"] = TreeAt(Block(config, j, "ST"), BlockRun(p, "ST"))
        BY <4>1 DEF Own
      <4>3. BlockRun(p, "ST") \in 0 .. 3
        <5>1. Before("ST") \in Nat /\ RunLen = Before("ST") + 4 /\ BlockLen = 4
          BY Numbers DEF BlockLen
        <5> HIDE DEF p
        <5> QED BY <3>2, <5>1 DEF BlockRun, Clamp
      <4> DEFINE n == BlockRun(p, "ST")
      <4> HIDE DEF n
      <4>4. n \in Nat /\ n \in 0 .. 3 /\ kernel.tree["ST"] = TreeAt(Block(config, j, "ST"), n)
        BY <4>2, <4>3 DEF n
      <4>5. kernel.tree["ST"].filter = Part(Block(config, j, "ST"), FilterAt, n)
        BY <4>4, TreeFields
      <4>6. FilterAt \cap 1 .. n = {} BY <4>4 DEF FilterAt
      <4>7. kernel.tree["ST"].filter = {} BY <4>5, <4>6 DEF Part
      <4> QED BY <3>4, <4>1, <4>7 DEF Shaped
    <3>6. PICK e \in Configs(qos), l \in BOOLEAN :
            Used(e, l) /\ \A d \in Devices : kernel.tree[d] = TreeAt(Block(e, l, d), BlockLen)
      BY <3>5 DEF Over
    <3> HIDE DEF p, cmd
    <3>7. \A d \in Devices : kernel'.tree[d] = kernel.tree[d]
      <4> TAKE d \in Devices
      <4>1. p \in 0 .. RunLen - 1 BY <3>2
      <4>2. kernel'.tree[d] = TreeAt(Block(e, l, d), BlockLen)
        BY <2>2, <3>1, <3>2, <3>3, <3>6, <4>1, OverStep
      <4> QED BY <3>6, <4>2
    <3>8. kernel' \in Kernels /\ kernel'.forward
      BY <2>2, <3>1, <3>2, <3>3, StepDoes DEF Emulates
    <3>9. kernel'.mangle = kernel.mangle \/ \E m \in 1 .. MarkCount : kernel'.mangle = Append(kernel.mangle, Marks[m])
      <4>1. p # -5 BY <3>2
      <4> QED BY SMTT(30), <2>2, <3>1, <3>2, <3>3, <4>1, StepDoes
    <3>10. ASSUME NEW d \in Devices PROVE Shaped(kernel', d)
      <4>1. PICK i \in 1 .. Len(kernel.mangle) : kernel.mangle[i].nic = Other(d)
        BY <3>4 DEF Shaped
      <4>2. \E n \in 1 .. Len(kernel'.mangle) : kernel'.mangle[n].nic = Other(d)
        <5>1. CASE kernel'.mangle = kernel.mangle BY <4>1, <5>1
        <5>2. ASSUME NEW m \in 1 .. MarkCount, kernel'.mangle = Append(kernel.mangle, Marks[m])
              PROVE  i \in 1 .. Len(kernel'.mangle) /\ kernel'.mangle[i] = kernel.mangle[i]
          <6>1. kernel.mangle \in Seq(MarkCommands) /\ Marks[m] \in MarkCommands
            BY <3>3 DEF Kernels, MarkCommands
          <6>2. /\ Len(kernel'.mangle) = Len(kernel.mangle) + 1 /\ Len(kernel.mangle) \in Nat
                /\ \A n \in 1 .. Len(kernel.mangle) : kernel'.mangle[n] = kernel.mangle[n]
            BY <5>2, <6>1, AppendProperties, LenProperties
          <6> QED BY <6>2
        <5> QED BY <3>9, <4>1, <5>1, <5>2
      <4> QED BY <3>4, <3>7, <4>2 DEF Shaped
    <3>11. ASSUME NEW dev \in Devices, NEW dscp \in Dscps
      PROVE Shaping(kernel', dev, dscp) = Shaping(kernel, dev, dscp)
      <4> DEFINE d == Other(dev)
      <4>1. d \in Devices /\ Other(d) = dev BY DEF Other, Devices
      <4> HIDE DEF d
      <4>2. Treatment(kernel, dev, dscp) = Shape(kernel, d)
        BY <3>3, <3>4, <4>1, PlainTreatment
      <4>3. PlainTree(kernel'.tree[d], d) BY <3>3, <3>7, <4>1
      <4>4. Treatment(kernel', dev, dscp) = Shape(kernel', d)
        BY <3>8, <3>10, <4>1, <4>3, PlainTreatment
      <4>5. Shape(kernel', d) = Shape(kernel, d)
        <5>1. kernel'.tree[d].class = kernel.tree[d].class /\ kernel'.tree[d].netem = kernel.tree[d].netem
          BY <3>7, <4>1
        <5> QED BY <5>1 DEF Shape
      <4> QED BY <4>2, <4>4, <4>5 DEF Shaping
    <3> QED BY <3>8, <3>11 DEF Emulates
  <2> QED BY <2>1, <2>2, QuietStep
<1> QED BY Invariance, <1>1, PTL DEF Spec, FirstConfigurationWins
-----------------------------------------------------------------------------
(* The scheduler of the ACM.                                               *)

AcmTypes ==
  /\ ACMList \subseteq Entries
  /\ CurrentACM \in ACMList \cup {NoACM}
  /\ ACMCounter \in Nat /\ dwell \in Nat
  /\ classRate \in [{"GW", "ST"} -> Int]
  /\ pc \in [Jobs -> {"idle", "check", "pick", "forward", "return", "GW", "ST",
                      "reset", "count", "store", "panic"}]
  /\ local \in [Jobs -> [forward : Int, return : Int, counter : Nat]]
  /\ tcFailed \in BOOLEAN /\ overlapped \in BOOLEAN

ForwardRates == {Share(Forward, a) * Mbit : a \in ACMList}
ReturnRates  == {Share(Return, a) * Mbit : a \in ACMList}

\* Between the choice of an entry and the reset of the counter.
Changing == {"forward", "return", "GW", "ST", "reset"}

\* What a job has read belongs to some entry, whatever other jobs do.
ReadFromList ==
  \A j \in Jobs :
    /\ pc[j] \in Changing => CurrentACM \in ACMList
    /\ pc[j] \in {"return", "GW", "ST"} => local[j].forward \in ForwardRates
    /\ pc[j] \in {"GW", "ST"} => local[j].return \in ReturnRates

\* Without overlapping there is one job at a time.
OneJob ==
  \A j, k \in Jobs :
    {pc[j], pc[k]} \cap {"idle", "panic"} = {} => j = k

ForwardOf(acm) == Share(Forward, acm) * Mbit
ReturnOf(acm)  == Share(Return, acm) * Mbit

\* How far that job has carried the current entry to the devices.
CarriedSoFar ==
  /\ \A j \in Jobs :
       /\ pc[j] \in {"return", "GW", "ST"} =>
            local[j].forward = ForwardOf(CurrentACM)
       /\ pc[j] \in {"GW", "ST"} => local[j].return = ReturnOf(CurrentACM)
       /\ pc[j] \in {"ST", "reset"} /\ ~tcFailed =>
            classRate["GW"] = ReturnOf(CurrentACM)
       /\ pc[j] = "reset" /\ ~tcFailed => classRate["ST"] = ForwardOf(CurrentACM)
  /\ (\A j \in Jobs : pc[j] \notin Changing) /\ CurrentACM # NoACM /\ ~tcFailed
       => /\ classRate["GW"] = ReturnOf(CurrentACM)
          /\ classRate["ST"] = ForwardOf(CurrentACM)

\* The jobs an entry lasts for.
Lasts == IF CurrentACM.duration > 1 THEN CurrentACM.duration ELSE 1

\* The counter counts the jobs since the current entry was chosen.
Counted ==
  CurrentACM # NoACM =>
    /\ (\A j \in Jobs : pc[j] \notin Changing) => ACMCounter = dwell
    /\ \A j \in Jobs : pc[j] \in Changing => dwell = 0
    /\ \A j \in Jobs : pc[j] \in {"count", "store"} =>
         dwell >= 0 /\ dwell < Lasts
    /\ \A j \in Jobs : pc[j] = "store" => local[j].counter = ACMCounter
    /\ (\A j \in Jobs :
          pc[j] \notin Changing \cup {"count", "store", "pick"}) =>
         dwell >= 1 /\ dwell <= Lasts

\* The inductive invariant.
AcmInv ==
  /\ AcmTypes /\ RatesFromList /\ ReadFromList
  /\ ~overlapped => OneJob /\ CarriedSoFar /\ Counted
-----------------------------------------------------------------------------
\* A share of a bandwidth is a whole number.
LEMMA ShareType ==
  ASSUME NEW bw \in Nat, NEW acm \in Entries
  PROVE  Share(bw, acm) * Mbit \in Int
  <1>1. acm.weight \in Nat
    BY EntriesAssumption
  <1>2. bw * acm.weight \in Int
    BY <1>1
  <1>3. (bw * acm.weight + 50) \div 100 \in Int
    BY <1>2
  <1>4. QED
    BY <1>3 DEF Share, Mbit

\* A Duration is a whole number, and so is the time an entry lasts for.
LEMMA DurationType ==
  ASSUME AcmTypes
  PROVE  /\ CurrentACM.duration \in Int
         /\ Lasts \in Int /\ Lasts >= 1 /\ Lasts >= CurrentACM.duration
         /\ Lasts = 1 \/ Lasts = CurrentACM.duration
  <1>1. CASE CurrentACM = NoACM
    BY <1>1 DEF NoACM, Lasts
  <1>2. CASE CurrentACM \in ACMList
    <2>1. CurrentACM \in [weight : Nat, duration : Int]
      BY <1>2, EntriesAssumption DEF AcmTypes
    <2>2. CurrentACM.duration \in Int
      BY <2>1
    <2>3. QED
      BY <2>2 DEF Lasts
  <1>3. QED
    BY <1>1, <1>2 DEF AcmTypes

\* A job is started.
LEMMA TickIInv == ASSUME AcmInv, NEW j \in Jobs, Tick(j) PROVE AcmInv'
  <1> USE DEF AcmInv, AcmTypes
  <1>1. /\ pc[j] = "idle" /\ pc' = [pc EXCEPT ![j] = "check"]
        /\ overlapped' = (overlapped \/ ~Idle)
        /\ UNCHANGED <<ACMList, CurrentACM, ACMCounter, classRate, local, dwell,
                       tcFailed>>
    BY DEF Tick
  <1>2. AcmTypes'
    BY <1>1 DEF AcmTypes
  <1>3. RatesFromList'
    BY <1>1 DEF RatesFromList
  <1>4. ReadFromList'
    BY <1>1 DEF ReadFromList, Changing, ForwardRates, ReturnRates
  <1>5. CASE ~overlapped'
    <2>1. OneJob'
      BY <1>1, <1>5 DEF OneJob, Idle
    <2>2. CarriedSoFar'
      BY <1>1, <1>5 DEF OneJob, CarriedSoFar, Changing
    <2>3. Counted'
      BY <1>1, <1>5 DEF OneJob, Counted, Changing, Lasts
    <2>4. QED
      BY <1>2, <1>3, <1>4, <2>1, <2>2, <2>3
  <1>6. QED
    BY <1>2, <1>3, <1>4, <1>5

\* The duration of the current entry is looked at.
LEMMA CheckIInv == ASSUME AcmInv, NEW j \in Jobs, Check(j) PROVE AcmInv'
  <1> USE DEF AcmInv, AcmTypes
  <1>1. /\ pc[j] = "check"
        /\ pc' = [pc EXCEPT ![j] =
             IF CurrentACM = NoACM \/ ACMCounter >= CurrentACM.duration
             THEN "pick" ELSE "count"]
        /\ UNCHANGED <<ACMList, CurrentACM, ACMCounter, classRate, local, dwell,
                       tcFailed, overlapped>>
    BY DEF Check
  <1>2. AcmTypes'
    BY <1>1 DEF AcmTypes
  <1>3. RatesFromList'
    BY <1>1 DEF RatesFromList
  <1>4. ReadFromList'
    BY <1>1 DEF ReadFromList, Changing, ForwardRates, ReturnRates
  <1>5. CASE ~overlapped'
    <2>1. OneJob'
      BY <1>1, <1>5 DEF OneJob
    <2>2. CarriedSoFar'
      BY <1>1, <1>5 DEF OneJob, CarriedSoFar, Changing
    <2>3. Counted'
      <3>1. Lasts' = Lasts
        BY <1>1 DEF Lasts
      <3>2. QED
        BY <1>1, <1>5, <3>1, DurationType DEF OneJob, Counted, Changing
    <2>4. QED
      BY <1>2, <1>3, <1>4, <2>1, <2>2, <2>3
  <1>6. QED
    BY <1>2, <1>3, <1>4, <1>5

\* An entry is chosen.
LEMMA PickIInv == ASSUME AcmInv, NEW j \in Jobs, Pick(j) PROVE AcmInv'
  <1> USE DEF AcmInv, AcmTypes
  <1>1. /\ pc[j] = "pick"
        /\ \/ /\ ACMList = {}
              /\ pc' = [k \in Jobs |-> "panic"]
              /\ UNCHANGED <<CurrentACM, dwell, tcFailed>>
           \/ /\ CurrentACM' \in ACMList
              /\ pc' = [pc EXCEPT ![j] = "forward"]
              /\ dwell' = 0 /\ tcFailed' = FALSE
        /\ UNCHANGED <<ACMList, ACMCounter, classRate, local, overlapped>>
    BY DEF Pick
  <1>2. AcmTypes'
    <2>1. pc' \in [Jobs -> {"idle", "check", "pick", "forward", "return", "GW",
                         "ST", "reset", "count", "store", "panic"}]
      BY <1>1
    <2>2. CurrentACM' \in ACMList' \cup {NoACM}
      BY <1>1
    <2>3. dwell' \in Nat
      BY <1>1
    <2>4. tcFailed' \in BOOLEAN
      <3>1. CASE UNCHANGED tcFailed
        BY <3>1
      <3>2. CASE tcFailed' = FALSE
        BY <3>2
      <3>3. QED
        BY <1>1, <3>1, <3>2
    <2>5. QED
      BY <1>1, <2>1, <2>2, <2>3, <2>4
  <1>3. RatesFromList'
    BY <1>1 DEF RatesFromList
  <1>4. ReadFromList'
    BY <1>1 DEF ReadFromList, Changing, ForwardRates, ReturnRates
  <1>5. CASE ~overlapped'
    <2>1. OneJob'
      BY <1>1, <1>5 DEF OneJob
    <2>2. CarriedSoFar'
      BY <1>1, <1>5 DEF OneJob, CarriedSoFar, Changing
    <2>3. Counted'
      <3>1. CASE ACMList = {} /\ UNCHANGED <<CurrentACM, dwell>>
        BY <1>1, <1>5, <3>1, DurationType DEF OneJob, Counted, Changing
      <3>2. CASE pc' = [pc EXCEPT ![j] = "forward"] /\ dwell' = 0
        BY <1>1, <1>5, <3>2, DurationType DEF OneJob, Counted, Changing
      <3>3. QED
        BY <1>1, <3>1, <3>2
    <2>4. QED
      BY <1>2, <1>3, <1>4, <2>1, <2>2, <2>3
  <1>6. QED
    BY <1>2, <1>3, <1>4, <1>5

\* The weight is read for one direction.
LEMMA ReadForwardIInv == ASSUME AcmInv, NEW j \in Jobs, ReadForward(j) PROVE AcmInv'
  <1> USE DEF AcmInv, AcmTypes
  <1>1. /\ pc[j] = "forward" /\ pc' = [pc EXCEPT ![j] = "return"]
        /\ local' = [local EXCEPT
             ![j].forward = Share(Forward, CurrentACM) * Mbit]
        /\ UNCHANGED <<ACMList, CurrentACM, ACMCounter, classRate, dwell, tcFailed,
                       overlapped>>
    BY DEF ReadForward
  <1>2. AcmTypes'
    <2>1. CurrentACM \in Entries
      BY <1>1 DEF ReadFromList, Changing
    <2>2. Share(Forward, CurrentACM) * Mbit \in Int
      BY <2>1, ShareType, BandwidthAssumption
    <2>3. QED
      BY <1>1, <2>2
  <1>3. RatesFromList'
    BY <1>1 DEF RatesFromList
  <1>4. ReadFromList'
    BY <1>1 DEF ReadFromList, Changing, ForwardRates, ReturnRates
  <1>5. CASE ~overlapped'
    <2>1. OneJob'
      BY <1>1, <1>5 DEF OneJob
    <2>2. CarriedSoFar'
      BY <1>1, <1>5 DEF OneJob, CarriedSoFar, Changing, ForwardOf
    <2>3. Counted'
      BY <1>1, <1>5 DEF OneJob, Counted, Changing, Lasts
    <2>4. QED
      BY <1>2, <1>3, <1>4, <2>1, <2>2, <2>3
  <1>6. QED
    BY <1>2, <1>3, <1>4, <1>5

\* The weight is read for one direction.
LEMMA ReadReturnIInv == ASSUME AcmInv, NEW j \in Jobs, ReadReturn(j) PROVE AcmInv'
  <1> USE DEF AcmInv, AcmTypes
  <1>1. /\ pc[j] = "return" /\ pc' = [pc EXCEPT ![j] = "GW"]
        /\ local' = [local EXCEPT
             ![j].return = Share(Return, CurrentACM) * Mbit]
        /\ UNCHANGED <<ACMList, CurrentACM, ACMCounter, classRate, dwell, tcFailed,
                       overlapped>>
    BY DEF ReadReturn
  <1>2. AcmTypes'
    <2>1. CurrentACM \in Entries
      BY <1>1 DEF ReadFromList, Changing
    <2>2. Share(Return, CurrentACM) * Mbit \in Int
      BY <2>1, ShareType, BandwidthAssumption
    <2>3. QED
      BY <1>1, <2>2
  <1>3. RatesFromList'
    BY <1>1 DEF RatesFromList
  <1>4. ReadFromList'
    BY <1>1 DEF ReadFromList, Changing, ForwardRates, ReturnRates
  <1>5. CASE ~overlapped'
    <2>1. OneJob'
      BY <1>1, <1>5 DEF OneJob
    <2>2. CarriedSoFar'
      BY <1>1, <1>5 DEF OneJob, CarriedSoFar, Changing, ReturnOf
    <2>3. Counted'
      BY <1>1, <1>5 DEF OneJob, Counted, Changing, Lasts
    <2>4. QED
      BY <1>2, <1>3, <1>4, <2>1, <2>2, <2>3
  <1>6. QED
    BY <1>2, <1>3, <1>4, <1>5

\* The rate of a device is changed, or its tc fails.
LEMMA ChangeGWIInv == ASSUME AcmInv, NEW j \in Jobs, ChangeGW(j) PROVE AcmInv'
  <1> USE DEF AcmInv, AcmTypes
  <1>1. /\ pc[j] = "GW" /\ pc' = [pc EXCEPT ![j] = "ST"]
        /\ \/ /\ classRate' = [classRate EXCEPT !["GW"] = local[j].return]
              /\ UNCHANGED tcFailed
           \/ tcFailed' = TRUE /\ UNCHANGED classRate
        /\ UNCHANGED <<ACMList, CurrentACM, ACMCounter, local, dwell,
                       overlapped>>
    BY DEF ChangeGW, SetRate
  <1>2. AcmTypes'
    BY <1>1 DEF AcmTypes
  <1>3. RatesFromList'
    BY <1>1 DEF RatesFromList, ReadFromList, ReturnRates
  <1>4. ReadFromList'
    BY <1>1 DEF ReadFromList, Changing, ForwardRates, ReturnRates
  <1>5. CASE ~overlapped'
    <2>1. OneJob'
      BY <1>1, <1>5 DEF OneJob
    <2>2. CarriedSoFar'
      BY <1>1, <1>5 DEF OneJob, CarriedSoFar, Changing
    <2>3. Counted'
      BY <1>1, <1>5 DEF OneJob, Counted, Changing, Lasts
    <2>4. QED
      BY <1>2, <1>3, <1>4, <2>1, <2>2, <2>3
  <1>6. QED
    BY <1>2, <1>3, <1>4, <1>5

\* The rate of a device is changed, or its tc fails.
LEMMA ChangeSTIInv == ASSUME AcmInv, NEW j \in Jobs, ChangeST(j) PROVE AcmInv'
  <1> USE DEF AcmInv, AcmTypes
  <1>1. /\ pc[j] = "ST" /\ pc' = [pc EXCEPT ![j] = "reset"]
        /\ \/ /\ classRate' = [classRate EXCEPT !["ST"] = local[j].forward]
              /\ UNCHANGED tcFailed
           \/ tcFailed' = TRUE /\ UNCHANGED classRate
        /\ UNCHANGED <<ACMList, CurrentACM, ACMCounter, local, dwell,
                       overlapped>>
    BY DEF ChangeST, SetRate
  <1>2. AcmTypes'
    BY <1>1 DEF AcmTypes
  <1>3. RatesFromList'
    BY <1>1 DEF RatesFromList, ReadFromList, ForwardRates
  <1>4. ReadFromList'
    BY <1>1 DEF ReadFromList, Changing, ForwardRates, ReturnRates
  <1>5. CASE ~overlapped'
    <2>1. OneJob'
      BY <1>1, <1>5 DEF OneJob
    <2>2. CarriedSoFar'
      BY <1>1, <1>5 DEF OneJob, CarriedSoFar, Changing
    <2>3. Counted'
      BY <1>1, <1>5 DEF OneJob, Counted, Changing, Lasts
    <2>4. QED
      BY <1>2, <1>3, <1>4, <2>1, <2>2, <2>3
  <1>6. QED
    BY <1>2, <1>3, <1>4, <1>5

\* The counter is reset.
LEMMA ResetIInv == ASSUME AcmInv, NEW j \in Jobs, Reset(j) PROVE AcmInv'
  <1> USE DEF AcmInv, AcmTypes
  <1>1. /\ pc[j] = "reset" /\ pc' = [pc EXCEPT ![j] = "count"]
        /\ ACMCounter' = 0
        /\ UNCHANGED <<ACMList, CurrentACM, classRate, local, dwell, tcFailed,
                       overlapped>>
    BY DEF Reset
  <1>2. AcmTypes'
    BY <1>1 DEF AcmTypes
  <1>3. RatesFromList'
    BY <1>1 DEF RatesFromList
  <1>4. ReadFromList'
    BY <1>1 DEF ReadFromList, Changing, ForwardRates, ReturnRates
  <1>5. CASE ~overlapped'
    <2>1. OneJob'
      BY <1>1, <1>5 DEF OneJob
    <2>2. CarriedSoFar'
      BY <1>1, <1>5 DEF OneJob, CarriedSoFar, Changing
    <2>3. Counted'
      <3>1. Lasts' = Lasts
        BY <1>1 DEF Lasts
      <3>2. QED
        BY <1>1, <1>5, <3>1, DurationType DEF OneJob, Counted, Changing
    <2>4. QED
      BY <1>2, <1>3, <1>4, <2>1, <2>2, <2>3
  <1>6. QED
    BY <1>2, <1>3, <1>4, <1>5

\* The counter is read.
LEMMA CountReadIInv == ASSUME AcmInv, NEW j \in Jobs, CountRead(j) PROVE AcmInv'
  <1> USE DEF AcmInv, AcmTypes
  <1>1. /\ pc[j] = "count" /\ pc' = [pc EXCEPT ![j] = "store"]
        /\ local' = [local EXCEPT ![j].counter = ACMCounter]
        /\ UNCHANGED <<ACMList, CurrentACM, ACMCounter, classRate, dwell, tcFailed,
                       overlapped>>
    BY DEF CountRead
  <1>2. AcmTypes'
    BY <1>1 DEF AcmTypes
  <1>3. RatesFromList'
    BY <1>1 DEF RatesFromList
  <1>4. ReadFromList'
    BY <1>1 DEF ReadFromList, Changing, ForwardRates, ReturnRates
  <1>5. CASE ~overlapped'
    <2>1. OneJob'
      BY <1>1, <1>5 DEF OneJob
    <2>2. CarriedSoFar'
      BY <1>1, <1>5 DEF OneJob, CarriedSoFar, Changing
    <2>3. Counted'
      BY <1>1, <1>5 DEF OneJob, Counted, Changing, Lasts
    <2>4. QED
      BY <1>2, <1>3, <1>4, <2>1, <2>2, <2>3
  <1>6. QED
    BY <1>2, <1>3, <1>4, <1>5

\* The counter is written, and the job is over.
LEMMA CountWriteIInv == ASSUME AcmInv, NEW j \in Jobs, CountWrite(j) PROVE AcmInv'
  <1> USE DEF AcmInv, AcmTypes
  <1>1. /\ pc[j] = "store" /\ pc' = [pc EXCEPT ![j] = "idle"]
        /\ ACMCounter' = local[j].counter + 1 /\ dwell' = dwell + 1
        /\ UNCHANGED <<ACMList, CurrentACM, classRate, local, tcFailed, overlapped>>
    BY DEF CountWrite
  <1>2. AcmTypes'
    BY <1>1 DEF AcmTypes
  <1>3. RatesFromList'
    BY <1>1 DEF RatesFromList
  <1>4. ReadFromList'
    BY <1>1 DEF ReadFromList, Changing, ForwardRates, ReturnRates
  <1>5. CASE ~overlapped'
    <2>1. OneJob'
      BY <1>1, <1>5 DEF OneJob
    <2>2. CarriedSoFar'
      BY <1>1, <1>5 DEF OneJob, CarriedSoFar, Changing
    <2>3. Counted'
      <3>1. Lasts' = Lasts
        BY <1>1 DEF Lasts
      <3>2. QED
        BY <1>1, <1>5, <3>1, DurationType DEF OneJob, Counted, Changing
    <2>4. QED
      BY <1>2, <1>3, <1>4, <2>1, <2>2, <2>3
  <1>6. QED
    BY <1>2, <1>3, <1>4, <1>5
-----------------------------------------------------------------------------
\* The scheduler starts in the invariant.
LEMMA AcmInitInv == AcmInit => AcmInv
  <1> SUFFICES ASSUME AcmInit PROVE AcmInv
    OBVIOUS
  <1> USE BandwidthAssumption DEF AcmInit
  <1>1. ConfiguredRate(Return) \in Int /\ ConfiguredRate(Forward) \in Int
    BY DEF ConfiguredRate
  <1>2. classRate \in [{"GW", "ST"} -> Int]
    BY <1>1
  <1>3. AcmTypes
    <2>1. ACMList \subseteq Entries /\ CurrentACM \in ACMList \cup {NoACM}
      OBVIOUS
    <2>2. local \in [Jobs -> [forward : Int, return : Int, counter : Nat]]
      OBVIOUS
    <2>3. pc \in [Jobs -> {"idle", "check", "pick", "forward", "return", "GW",
                        "ST", "reset", "count", "store", "panic"}]
      OBVIOUS
    <2>4. ACMCounter \in Nat /\ dwell \in Nat
      OBVIOUS
    <2>5. tcFailed \in BOOLEAN /\ overlapped \in BOOLEAN
      OBVIOUS
    <2>6. QED
      BY <1>2, <2>1, <2>2, <2>3, <2>4, <2>5 DEF AcmTypes
  <1>4. RatesFromList /\ ReadFromList
    BY DEF RatesFromList, ReadFromList, Changing
  <1>5. OneJob /\ CarriedSoFar /\ Counted
    BY DEF OneJob, CarriedSoFar, Counted
  <1>6. QED
    BY <1>3, <1>4, <1>5 DEF AcmInv

\* IInv is an invariant of the scheduler and its jobs.
THEOREM AcmInvariance == AcmSpec => []AcmInv
  <1>1. AcmInv /\ [AcmNext]_acmVars => AcmInv'
    <2> SUFFICES ASSUME AcmInv, [AcmNext]_acmVars PROVE AcmInv'
      OBVIOUS
    <2>1. ASSUME NEW j \in Jobs, Tick(j) \/ RunACM(j) PROVE AcmInv'
      BY <2>1, TickIInv, CheckIInv, PickIInv, ReadForwardIInv, ReadReturnIInv,
         ChangeGWIInv, ChangeSTIInv, ResetIInv, CountReadIInv, CountWriteIInv
         DEF RunACM
    <2>2. CASE UNCHANGED acmVars
      BY <2>2 DEF acmVars, AcmInv, AcmTypes, RatesFromList, ReadFromList,
         ForwardRates, ReturnRates, OneJob, CarriedSoFar, Counted, Lasts
    <2>3. QED
      BY <2>1, <2>2 DEF AcmNext
  <1>2. QED
    BY AcmInitInv, <1>1, PTL DEF AcmSpec

\* The variables keep their types, and the jobs started their bound.
THEOREM AcmTypeCorrect == AcmSpec => []AcmTypeOK
  <1>1. AcmInit => ticks \in 0 .. MaxTicks
    BY JobsAssumption DEF AcmInit
  <1>2. ticks \in 0 .. MaxTicks /\ [AcmNext]_acmVars => (ticks \in 0 .. MaxTicks)'
    BY JobsAssumption DEF acmVars, AcmNext, Tick, RunACM, Check, Pick, ReadForward,
       ReadReturn, ChangeGW, ChangeST, SetRate, Reset, CountRead, CountWrite
  <1>3. AcmInv /\ ticks \in 0 .. MaxTicks => AcmTypeOK
    BY DEF AcmInv, AcmTypes, AcmTypeOK
  <1>4. QED
    BY AcmInvariance, <1>1, <1>2, <1>3, PTL DEF AcmSpec

\* However the jobs overlap, a device never gets a rate of the other link: the
\* bandwidths are parameters of the job, read from nothing that jobs share.
THEOREM OwnRates == AcmSpec => []RatesFromList
  <1>1. AcmInv => RatesFromList
    BY DEF AcmInv
  <1>2. QED
    BY AcmInvariance, <1>1, PTL

\* As long as no jobs overlap and no tc fails, the devices have, between two
\* jobs, the rates of the current entry.
THEOREM CurrentRates == AcmSpec => []RatesOfCurrent
  <1>1. AcmInv => RatesOfCurrent
    BY DEF AcmInv, CarriedSoFar, Changing, ForwardOf, ReturnOf, Idle, RatesOfCurrent
  <1>2. QED
    BY AcmInvariance, <1>1, PTL

\* As long as no jobs overlap, an entry lasts for exactly its Duration, and at
\* least for one job.
THEOREM EntryLasts == AcmSpec => LastsItsDuration
  <1> DEFINE Change == \A j \in Jobs :
               /\ pc[j] = "check" /\ pc'[j] = "pick"
               /\ CurrentACM # NoACM /\ ~overlapped
               => dwell = IF CurrentACM.duration > 1 THEN CurrentACM.duration
                          ELSE 1
  <1>1. AcmInv /\ [AcmNext]_acmVars => [Change]_acmVars
    <2> SUFFICES ASSUME AcmInv, AcmNext, NEW j \in Jobs,
                        pc[j] = "check", pc'[j] = "pick",
                        CurrentACM # NoACM, ~overlapped
                 PROVE  dwell = Lasts
      BY DEF acmVars, Lasts
    <2>1. PICK k \in Jobs : Tick(k) \/ RunACM(k)
      BY DEF AcmNext
    <2>2. ACMCounter >= CurrentACM.duration
      BY <2>1 DEF Tick, RunACM, Check, Pick, ReadForward, ReadReturn,
         ChangeGW, ChangeST, Reset, CountRead, CountWrite, AcmInv, AcmTypes
    <2>3. \A i \in Jobs : i # j => pc[i] \in {"idle", "panic"}
      BY DEF AcmInv, OneJob
    <2>4. ACMCounter = dwell /\ dwell >= 1 /\ dwell <= Lasts
      BY <2>3 DEF AcmInv, Counted, Changing
    <2>5. CurrentACM.duration \in Int
      BY EntriesAssumption DEF AcmInv, AcmTypes
    <2>6. QED
      BY <2>2, <2>4, <2>5 DEF Lasts, AcmInv, AcmTypes
  <1>2. QED
    BY AcmInvariance, <1>1, PTL DEF AcmSpec, LastsItsDuration
=============================================================================
