-------------------------- MODULE IperfTestProofs ---------------------------
(***************************************************************************)
(* Proofs about how the two ends of an iperf2 test agree on it, and about  *)
(* how the two directions of a full duplex test start and end together.    *)
(*                                                                         *)
(* TestExchange, for any sets of options and any listeners: the settings   *)
(* are Given as long as options are read, a client whose settings have     *)
(* been completed is Completed, its streams speak, and what the listener   *)
(* makes of the header is a function of both (Taken).  That is ExchangeInv;*)
(* AckMatched, HeaderCovers and SameTest follow from it and from the lemmas*)
(* that say, flag by flag, what the operators of TestHeader do.            *)
(* OrderFree has an invariant of its own, Ordered: the settings are the    *)
(* Outcome of the options read so far, whatever their order.               *)
(*                                                                         *)
(* FullDuplex, for every timeout of the barrier: the types, the common     *)
(* start, who ends the test, and when the final sum is printed.  One       *)
(* barrier serves the start and the stop, and what its count means depends *)
(* on where both threads are.  As long as no wait has expired the test of a*)
(* client is in one of eight phases; the other parts of IInv hold after    *)
(* that, too.                                                              *)
(***************************************************************************)
EXTENDS FullDuplex, TestExchange, FiniteSetTheorems, TLAPS

(* The options: what each of them gives                                    *)

Loads == {"BounceBack", "WorkingLoadUp", "WorkingLoadDown"}

\* What an option gives the fields that the test depends on.
Givable(v) ==
  /\ {"flags", "bail"} \cap DOMAIN v = {}
  /\ "thread" \in DOMAIN v => v["thread"] \in {"unknown", "client", "listener"}
  /\ "mode" \in DOMAIN v => v["mode"] \in {"normal", "dual", "tradeoff"}
  /\ "len" \in DOMAIN v => v["len"] \in Nat \ {0}
  /\ "bbytes" \in DOMAIN v => v["bbytes"] \in Int
  /\ "breply" \in DOMAIN v => v["breply"] \in Int
  /\ "cca" \in DOMAIN v => v["cca"] \in Controls
  /\ "loadcca" \in DOMAIN v => v["loadcca"] \in Controls

\* And which flags it sets: a bounceback and the working loads come with the
\* enhanced reports, and no option makes the payload a small one.
Settable(set) ==
  /\ set \cap Loads # {} => "Enhanced" \in set
  /\ "SmallTripTime" \notin set

Sane(e) == Settable(e.set) /\ "Enhanced" \notin e.clear /\ Givable(e.values)

AllSane(table) == \A row \in table : Sane(row[2])

\* A row whose effect is sane makes the option's effect sane.
LEMMA SaneRow ==
  ASSUME NEW o, NEW e, Sane(e) PROVE Sane(<<o, e>>[2])
  OBVIOUS

\* What makes an effect sane, kind by kind.
LEMMA SaneEffect ==
  ASSUME NEW set, NEW clear, NEW values, Settable(set), "Enhanced" \notin clear, Givable(values)
  PROVE  Sane(Effect(set, clear, values))
  BY SMT DEF Sane, Effect

LEMMA GivableNone == Givable(NoValue)
  BY SMT DEF Givable, NoValue

LEMMA SaneFlags ==
  ASSUME NEW set, Settable(set) PROVE Sane(Flags(set))
  BY GivableNone, SaneEffect, SMT DEF Flags

LEMMA SaneValue ==
  ASSUME NEW values, Givable(values) PROVE Sane(Value(values))
  <1>1. Settable({})
    BY SMT DEF Settable
  <1> QED
    BY <1>1, SaneEffect, SMT DEF Value

LEMMA SaneGiven ==
  ASSUME NEW set, NEW values, Settable(set), Givable(values) PROVE Sane(Both(set, values))
  BY SaneEffect, SMT DEF Both

-----------------------------------------------------------------------------
\* The options, group by group.
LEMMA SaneLoadOptions == AllSane(LoadOptions)
  <1>1. /\ Settable({"SingleClient"})
        /\ Settable({"IPV4"})
        /\ Settable({"IPV6"})
        /\ Settable({"BWSet"})
        /\ Settable({"BWSet", "VaryLoad"})
        /\ Settable({"Enhanced"})
        /\ Settable({"Enhanced", "FrameInterval"})
        /\ Settable({"BuflenSet"})
    BY SMT DEF Settable, Loads
  <1>2. /\ Givable([units |-> "bw", rate |-> Mega])
        /\ Givable([units |-> "pps", rate |-> 2])
        /\ Givable([mode |-> "dual"])
        /\ Givable([imode |-> "time"])
        /\ Givable([imode |-> "frames"])
        /\ Givable([len |-> 16])
        /\ Givable([len |-> 64])
        /\ Givable([len |-> 200])
    BY SMT DEF Givable, Controls
  <1>3. /\ Sane(Flags({"SingleClient"}))
        /\ Sane(Flags({"IPV4"}))
        /\ Sane(Flags({"IPV6"}))
        /\ Sane(Flags({"Enhanced"}))
    BY <1>1, SaneFlags, SMT
  <1>4. /\ Sane(Both({"BWSet"}, [units |-> "bw", rate |-> Mega]))
        /\ Sane(Both({"BWSet"}, [units |-> "pps", rate |-> 2]))
        /\ Sane(Both({"BWSet", "VaryLoad"}, [units |-> "bw", rate |-> Mega]))
        /\ Sane(Value([mode |-> "dual"]))
        /\ Sane(Value([imode |-> "time"]))
        /\ Sane(Both({"Enhanced", "FrameInterval"}, [imode |-> "frames"]))
        /\ Sane(Both({"BuflenSet"}, [len |-> 16]))
        /\ Sane(Both({"BuflenSet"}, [len |-> 64]))
        /\ Sane(Both({"BuflenSet"}, [len |-> 200]))
    BY <1>1, <1>2, SaneValue, SaneGiven, SMT
  <1> QED
    BY <1>3, <1>4, SaneRow, ZenonT(60) DEF AllSane, LoadOptions

LEMMA SaneLimitOptions == AllSane(LimitOptions)
  <1>1. /\ Settable({"PrintMSS"})
        /\ Settable({})
        /\ Settable({"IncrDstPort"})
        /\ Settable({"ModeTime", "ServerModeTime"})
        /\ Settable({"UDP"})
        /\ Settable({"NoConnReport"})
        /\ Settable({"NoSettReport"})
        /\ Settable({"CSV", "NoSettReport", "NoConnReport"})
        /\ Settable({"Realtime"})
    BY SMT DEF Settable, Loads
  <1>2. /\ Givable([amount |-> Mega])
        /\ Givable([port |-> 6])
        /\ Givable([port |-> 5, portlast |-> 6])
        /\ Givable([mode |-> "tradeoff"])
        /\ Givable([infinite |-> TRUE])
        /\ Givable([amount |-> 500])
    BY SMT DEF Givable, Controls
  <1>3. /\ Sane(Flags({"PrintMSS"}))
        /\ Sane(Flags({"UDP"}))
        /\ Sane(Flags({"NoConnReport"}))
        /\ Sane(Flags({"NoSettReport"}))
        /\ Sane(Flags({"CSV", "NoSettReport", "NoConnReport"}))
        /\ Sane(Flags({"Realtime"}))
    BY <1>1, SaneFlags, SMT
  <1>4. /\ Sane(Effect({}, {"ModeTime"}, [amount |-> Mega]))
        /\ Sane(Effect({}, {"STDOUT"}, NoValue))
        /\ Sane(Value([port |-> 6]))
        /\ Sane(Both({"IncrDstPort"}, [port |-> 5, portlast |-> 6]))
        /\ Sane(Value([mode |-> "tradeoff"]))
        /\ Sane(Both({"ModeTime", "ServerModeTime"}, [infinite |-> TRUE]))
        /\ Sane(Both({"ModeTime", "ServerModeTime"}, [amount |-> 500]))
    BY <1>1, <1>2, GivableNone, SaneValue, SaneGiven, SaneEffect, SMT
  <1> QED
    BY <1>3, <1>4, SaneRow, ZenonT(60) DEF AllSane, LimitOptions

LEMMA SaneEsotericOptions == AllSane(EsotericOptions)
  <1>1. /\ Settable({"Localhost"})
        /\ Settable({"Localhost", "LocalPort"})
        /\ Settable({"Compat"})
        /\ Settable({"Daemon"})
        /\ Settable({"FileInput"})
        /\ Settable({"SSMMulticast"})
        /\ Settable({"FileInput", "STDIN"})
        /\ Settable({"TCPMSS", "PrintMSS"})
        /\ Settable({"NoDelay"})
        /\ Settable({"Reverse"})
        /\ Settable({"SetTOS"})
        /\ Settable({"UDP", "SingleUDP", "SingleClient"})
        /\ Settable({"IPV6"})
        /\ Settable({"SuggestWin"})
        /\ Settable({"PeerVerDetect"})
        /\ Settable({"CongestionControl"})
    BY SMT DEF Settable, Loads
  <1>2. /\ Givable([mode |-> "normal"])
        /\ Givable([listenport |-> 7])
        /\ Givable([threads |-> 2])
        /\ Givable([tos |-> 8])
        /\ Givable([ttl |-> 300])
        /\ Givable([cca |-> "reno"])
    BY SMT DEF Givable, Controls
  <1>3. /\ Sane(Flags({"Localhost"}))
        /\ Sane(Flags({"Localhost", "LocalPort"}))
        /\ Sane(Flags({"Daemon"}))
        /\ Sane(Flags({"FileInput"}))
        /\ Sane(Flags({"SSMMulticast"}))
        /\ Sane(Flags({"FileInput", "STDIN"}))
        /\ Sane(Flags({"TCPMSS", "PrintMSS"}))
        /\ Sane(Flags({"NoDelay"}))
        /\ Sane(Flags({"Reverse"}))
        /\ Sane(Flags({"UDP", "SingleUDP", "SingleClient"}))
        /\ Sane(Flags({"IPV6"}))
        /\ Sane(Flags({"SuggestWin"}))
        /\ Sane(Flags({"PeerVerDetect"}))
    BY <1>1, SaneFlags, SMT
  <1>4. /\ Sane(Both({"Compat"}, [mode |-> "normal"]))
        /\ Sane(Value([listenport |-> 7]))
        /\ Sane(Value([threads |-> 2]))
        /\ Sane(Both({"SetTOS"}, [tos |-> 8]))
        /\ Sane(Value([ttl |-> 300]))
        /\ Sane(Both({"CongestionControl"}, [cca |-> "reno"]))
    BY <1>1, <1>2, SaneValue, SaneGiven, SMT
  <1> QED
    BY <1>3, <1>4, SaneRow, ZenonT(60) DEF AllSane, EsotericOptions

LEMMA SaneStartOptions == AllSane(StartOptions)
  <1>1. /\ Settable({"IncrDstIP"})
        /\ Settable({"IncrDstPort"})
        /\ Settable({"IncrSrcIP"})
        /\ Settable({"IncrSrcPort"})
        /\ Settable({"IgnoreShutdown"})
        /\ Settable({"SumServerDstIP"})
        /\ Settable({"SyncTransferID"})
        /\ Settable({"TxStartTime", "Enhanced"})
        /\ Settable({"NoConnectSync"})
        /\ Settable({"TxHoldback"})
        /\ Settable({"TripTime"})
        /\ Settable({"NoUDPfin"})
        /\ Settable({"ConnectOnly"})
        /\ Settable({"SumOnly"})
        /\ Settable({"DontRoute"})
    BY SMT DEF Settable, Loads
  <1>2. /\ Givable([retrytimer |-> 2])
        /\ Givable([retrytime |-> 3])
    BY SMT DEF Givable, Controls
  <1>3. /\ Sane(Flags({"IncrDstIP"}))
        /\ Sane(Flags({"IncrDstPort"}))
        /\ Sane(Flags({"IncrSrcIP"}))
        /\ Sane(Flags({"IncrSrcPort"}))
        /\ Sane(Flags({"IgnoreShutdown"}))
        /\ Sane(Flags({"SumServerDstIP"}))
        /\ Sane(Flags({"SyncTransferID"}))
        /\ Sane(Flags({"TxStartTime", "Enhanced"}))
        /\ Sane(Flags({"NoConnectSync"}))
        /\ Sane(Flags({"TxHoldback"}))
        /\ Sane(Flags({"TripTime"}))
        /\ Sane(Flags({"NoUDPfin"}))
        /\ Sane(Flags({"SumOnly"}))
        /\ Sane(Flags({"DontRoute"}))
    BY <1>1, SaneFlags, SMT
  <1>4. /\ Sane(Effect({"ConnectOnly"}, {"NoConnReport"}, NoValue))
        /\ Sane(Value([retrytimer |-> 2]))
        /\ Sane(Value([retrytime |-> 3]))
    BY <1>1, <1>2, GivableNone, SaneValue, SaneEffect, SMT
  <1> QED
    BY <1>3, <1>4, SaneRow, ZenonT(60) DEF AllSane, StartOptions

LEMMA SaneKeyOptions == AllSane(KeyOptions)
  <1>1. /\ Settable({"NearCongest"})
        /\ Settable({"Omit"})
        /\ Settable({"PermitKey"})
        /\ Settable({"Histogram", "Enhanced"})
        /\ Settable({"JitterHistogram", "Enhanced"})
        /\ Settable({"FullDuplex"})
        /\ Settable({"OverrideTOS"})
        /\ Settable({"FQPacing"})
        /\ Settable({"FQPacingStep", "Enhanced"})
        /\ Settable({"Isochronous", "Enhanced"})
    BY SMT DEF Settable, Loads
  <1>2. /\ Givable([key |-> NoText])
        /\ Givable([key |-> "abc"])
        /\ Givable([key |-> "abcd"])
        /\ Givable([tos |-> 4])
        /\ Givable([fps |-> 60, ipg |-> 5])
    BY SMT DEF Givable, Controls
  <1>3. /\ Sane(Flags({"NearCongest"}))
        /\ Sane(Flags({"Omit"}))
        /\ Sane(Flags({"Histogram", "Enhanced"}))
        /\ Sane(Flags({"JitterHistogram", "Enhanced"}))
        /\ Sane(Flags({"FullDuplex"}))
        /\ Sane(Flags({"OverrideTOS"}))
        /\ Sane(Flags({"FQPacing"}))
        /\ Sane(Flags({"FQPacingStep", "Enhanced"}))
    BY <1>1, SaneFlags, SMT
  <1>4. /\ Sane(Both({"PermitKey"}, [key |-> NoText]))
        /\ Sane(Both({"PermitKey"}, [key |-> "abc"]))
        /\ Sane(Both({"PermitKey"}, [key |-> "abcd"]))
        /\ Sane(Value([tos |-> 4]))
        /\ Sane(Both({"Isochronous", "Enhanced"}, [fps |-> 60, ipg |-> 5]))
    BY <1>1, <1>2, SaneValue, SaneGiven, SMT
  <1> QED
    BY <1>3, <1>4, SaneRow, ZenonT(60) DEF AllSane, KeyOptions

LEMMA SaneTcpOptions == AllSane(TcpOptions)
  <1>1. /\ Settable({"IPG"})
        /\ Settable({"RxClamp"})
        /\ Settable({"TcpWriteTimes"})
        /\ Settable({"NoBBQuickAck"})
        /\ Settable({"TcpQuickAck"})
        /\ Settable({"TcpTxDelay", "Enhanced"})
        /\ Settable({"UTC"})
        /\ Settable({"LoadCCA"})
        /\ Settable({"CongestionControl"})
        /\ Settable({"WorkingLoadUp", "WorkingLoadDown", "Enhanced"})
        /\ Settable({"WorkingLoadUp", "Enhanced"})
    BY SMT DEF Settable, Loads
  <1>2. /\ Givable([ipg |-> 2])
        /\ Givable([loadcca |-> "cubic"])
        /\ Givable([cca |-> "bbr"])
        /\ Givable([workingthreads |-> 2])
    BY SMT DEF Givable, Controls
  <1>3. /\ Sane(Flags({"RxClamp"}))
        /\ Sane(Flags({"TcpWriteTimes"}))
        /\ Sane(Flags({"NoBBQuickAck"}))
        /\ Sane(Flags({"TcpQuickAck"}))
        /\ Sane(Flags({"TcpTxDelay", "Enhanced"}))
        /\ Sane(Flags({"UTC"}))
        /\ Sane(Flags({"WorkingLoadUp", "WorkingLoadDown", "Enhanced"}))
    BY <1>1, SaneFlags, SMT
  <1>4. /\ Sane(Both({"IPG"}, [ipg |-> 2]))
        /\ Sane(Both({"LoadCCA"}, [loadcca |-> "cubic"]))
        /\ Sane(Both({"CongestionControl"}, [cca |-> "bbr"]))
        /\ Sane(Effect({"WorkingLoadUp", "Enhanced"}, {"WorkingLoadDown"}, [workingthreads |-> 2]))
    BY <1>1, <1>2, SaneGiven, SaneEffect, SMT
  <1> QED
    BY <1>3, <1>4, SaneRow, ZenonT(60) DEF AllSane, TcpOptions

LEMMA SaneBurstOptions == AllSane(BurstOptions)
  <1>1. /\ Settable({"TxHoldback"})
        /\ Settable({"WritePrefetch", "Enhanced"})
        /\ Settable({})
        /\ Settable({"PeriodicBurst"})
        /\ Settable({"BurstSize"})
        /\ Settable({"HideIPs"})
        /\ Settable({"BounceBack", "NoDelay", "Enhanced"})
        /\ Settable({"RandSeed"})
        /\ Settable({"SkipRxCopy", "Enhanced"})
        /\ Settable({"UDP", "UDPL4S"})
    BY SMT DEF Settable, Loads
  <1>2. /\ Givable([prefetch |-> Kilo])
        /\ Givable([fps |-> 2])
        /\ Givable([burst |-> Kilo])
        /\ Givable([bbburst |-> -1])
        /\ Givable([fps |-> -1])
        /\ Givable([fps |-> 4])
        /\ Givable([bbytes |-> 50])
        /\ Givable([bbytes |-> 300])
        /\ Givable([breply |-> 400])
    BY SMT DEF Givable, Controls
  <1>3. /\ Sane(Flags({"TxHoldback"}))
        /\ Sane(Flags({"HideIPs"}))
        /\ Sane(Flags({"RandSeed"}))
        /\ Sane(Flags({"SkipRxCopy", "Enhanced"}))
        /\ Sane(Flags({"UDP", "UDPL4S"}))
    BY <1>1, SaneFlags, SMT
  <1>4. /\ Sane(Both({"WritePrefetch", "Enhanced"}, [prefetch |-> Kilo]))
        /\ Sane(Effect({}, {"PeriodicBurst"}, NoValue))
        /\ Sane(Both({"PeriodicBurst"}, [fps |-> 2]))
        /\ Sane(Both({"BurstSize"}, [burst |-> Kilo]))
        /\ Sane(Both({"BounceBack", "NoDelay", "Enhanced"}, [bbburst |-> -1]))
        /\ Sane(Both({"PeriodicBurst"}, [fps |-> -1]))
        /\ Sane(Both({"PeriodicBurst"}, [fps |-> 4]))
        /\ Sane(Value([bbytes |-> 50]))
        /\ Sane(Value([bbytes |-> 300]))
        /\ Sane(Value([breply |-> 400]))
    BY <1>1, <1>2, GivableNone, SaneValue, SaneGiven, SaneEffect, SMT
  <1> QED
    BY <1>3, <1>4, SaneRow, ZenonT(60) DEF AllSane, BurstOptions

LEMMA SaneRole == AllSane(Role)
  <1>1. /\ Givable([thread |-> "client"])
        /\ Givable([thread |-> "listener"])
    BY SMT DEF Givable, Controls
  <1>2. /\ Sane(Value([thread |-> "client"]))
        /\ Sane(Value([thread |-> "listener"]))
    BY <1>1, SaneValue, SMT
  <1> QED
    BY <1>2, SaneRow, ZenonT(60) DEF AllSane, Role

\* Every option of every group.
LEMMA SaneOptions == \A o \in DOMAIN EffectOf : Sane(EffectOf[o])
  <1> DEFINE table == Role \cup LoadOptions \cup LimitOptions \cup EsotericOptions \cup StartOptions
                      \cup KeyOptions \cup TcpOptions \cup BurstOptions
  <1>1. AllSane(table)
    BY SaneLoadOptions, SaneLimitOptions, SaneEsotericOptions, SaneStartOptions, SaneKeyOptions,
       SaneTcpOptions, SaneBurstOptions, SaneRole, SMT DEF AllSane
  <1>2. EffectOf = Lookup(table)
    BY DEF EffectOf
  <1> HIDE DEF table
  <1> SUFFICES ASSUME NEW o \in Names(table) PROVE Sane(Lookup(table)[o])
    BY <1>2 DEF Lookup
  <1>3. PICK row \in table : row[1] = o
    BY DEF Names
  <1>4. (CHOOSE r \in table : r[1] = o) \in table
    BY <1>3
  <1> QED
    BY <1>1, <1>4 DEF AllSane, Lookup

Fields == {"thread", "mode", "flags", "amount", "len", "rate", "units", "fps", "burst", "bbytes", "breply",
           "bbburst", "key", "tos", "cca", "loadcca", "timeout", "port", "portlast", "listenport", "threads",
           "workingthreads", "imode", "retrytimer", "retrytime", "ipg", "prefetch", "ttl", "infinite", "bail"}

\* The settings at any time: their fields, and the types of those that count.
Typed(s) ==
  /\ Fields \subseteq DOMAIN s
  /\ s.thread \in {"unknown", "client", "listener"}
  /\ s.mode \in {"normal", "dual", "tradeoff"}
  /\ s.len \in Nat \ {0} /\ s.bbytes \in Int /\ s.breply \in Int
  /\ s.cca \in Controls /\ s.loadcca \in Controls
  /\ s.bail \in BOOLEAN

\* And while the options are read.
Given(s) ==
  /\ Typed(s) /\ ~s.bail
  /\ s.flags \cap Loads # {} => Has(s, "Enhanced")
  /\ ~Has(s, "SmallTripTime")

\* Before any option, and after one option more.
LEMMA GivenInitialize == Given(Initialize)
  BY SMT DEF Given, Typed, Fields, Initialize, Has, Loads, Controls

LEMMA GivenApply ==
  ASSUME NEW s, Given(s), NEW e, Sane(e) PROVE Given(Apply(s, e))
  <1> DEFINE t == Apply(s, e)
  <1>1. /\ DOMAIN t = DOMAIN s
        /\ t["flags"] = (s.flags \ e.clear) \cup e.set
        /\ \A f \in Fields \ {"flags"} : t[f] = IF f \in DOMAIN e.values THEN e.values[f] ELSE s[f]
    BY SMT DEF Apply, Given, Typed, Fields
  <1> HIDE DEF t
  <1>2. Typed(t) /\ ~t.bail
    BY <1>1, SMT DEF Given, Typed, Fields, Sane, Givable
  <1>3. t.flags \cap Loads # {} => Has(t, "Enhanced")
    BY <1>1, SMT DEF Given, Sane, Settable, Loads, Has
  <1>4. ~Has(t, "SmallTripTime")
    BY <1>1, SMT DEF Given, Sane, Settable, Has
  <1> QED
    BY <1>2, <1>3, <1>4, Zenon DEF Given, t

LEMMA GivenInterpret ==
  ASSUME NEW s, Given(s), NEW o \in OptionNames PROVE Given(Interpret(s, o))
  <1>1. \A n : Given([s EXCEPT !.timeout = n])
    BY SMT DEF Given, Typed, Fields, Has
  <1>2. o \notin DOMAIN Timeouts => Given(Apply(s, EffectOf[o]))
    BY SaneOptions, GivenApply, Zenon DEF OptionNames
  <1> QED
    BY <1>1, <1>2, Zenon DEF Interpret

-----------------------------------------------------------------------------
(* Settings_ModalOptions                                                   *)

\* The flags that no part of the pass over the settings sets or clears.
Fixed == {"UDP", "Compat", "Reverse", "FullDuplex", "TripTime", "Isochronous", "BounceBack", "WorkingLoadUp",
          "WorkingLoadDown", "ConnectOnly", "PeerVerDetect"}

\* What every part of the pass keeps: a refusal, the role, the mode, the fixed flags
\* and the enhanced reports.
Kept(s, t) ==
  /\ Typed(t)
  /\ t.thread = s.thread /\ t.mode = s.mode
  /\ s.bail => t.bail
  /\ \A f \in Fixed : Has(t, f) = Has(s, f)
  /\ Has(s, "Enhanced") => Has(t, "Enhanced")

\* And what all but the two parts that are about them keep besides.
Same(s, t) ==
  /\ Kept(s, t)
  /\ Has(t, "SmallTripTime") = Has(s, "SmallTripTime")
  /\ t.breply = s.breply

Still(s, t) == Same(s, t) /\ Has(t, "PeriodicBurst") = Has(s, "PeriodicBurst")

\* What one stage keeps, all of them keep.
LEMMA StillItself == ASSUME NEW s, Typed(s) PROVE Still(s, s)
  BY Zenon DEF Still, Same, Kept

LEMMA KeptTrans == ASSUME NEW s, NEW t, NEW u, Kept(s, t), Kept(t, u) PROVE Kept(s, u)
  BY Zenon DEF Kept

LEMMA SameTrans == ASSUME NEW s, NEW t, NEW u, Same(s, t), Same(t, u) PROVE Same(s, u)
  BY KeptTrans, Zenon DEF Same

LEMMA StillTrans == ASSUME NEW s, NEW t, NEW u, Still(s, t), Still(t, u) PROVE Still(s, u)
  BY SameTrans, Zenon DEF Still

\* Flags that the test does not depend on may come and go.
LEMMA KeptSet ==
  ASSUME NEW s, Typed(s), NEW fs, fs \cap Fixed = {} PROVE Kept(s, Set(s, fs))
  BY SMT DEF Kept, Typed, Set, Has, Fields, Fixed

LEMMA KeptUnset ==
  ASSUME NEW s, Typed(s), NEW fs, fs \cap (Fixed \cup {"Enhanced"}) = {} PROVE Kept(s, Unset(s, fs))
  BY SMT DEF Kept, Typed, Unset, Has, Fields, Fixed

LEMMA SameSet ==
  ASSUME NEW s, Typed(s), NEW fs, fs \cap (Fixed \cup {"SmallTripTime"}) = {} PROVE Same(s, Set(s, fs))
  <1>1. Kept(s, Set(s, fs))
    BY KeptSet, Zenon
  <1>2. Has(Set(s, fs), "SmallTripTime") = Has(s, "SmallTripTime") /\ Set(s, fs).breply = s.breply
    BY SMT DEF Typed, Set, Has, Fields
  <1> QED
    BY <1>1, <1>2, Zenon DEF Same

LEMMA StillSet ==
  ASSUME NEW s, Typed(s), NEW fs, fs \cap (Fixed \cup {"SmallTripTime", "PeriodicBurst"}) = {}
  PROVE  Still(s, Set(s, fs))
  <1>1. Same(s, Set(s, fs))
    BY SameSet, Zenon
  <1>2. Has(Set(s, fs), "PeriodicBurst") = Has(s, "PeriodicBurst")
    BY SMT DEF Typed, Set, Has, Fields
  <1> QED
    BY <1>1, <1>2, Zenon DEF Still

LEMMA StillUnset ==
  ASSUME NEW s, Typed(s), NEW fs,
         fs \cap (Fixed \cup {"SmallTripTime", "PeriodicBurst", "Enhanced"}) = {}
  PROVE  Still(s, Unset(s, fs))
  <1>1. Kept(s, Unset(s, fs))
    BY KeptUnset, Zenon
  <1>2. /\ Has(Unset(s, fs), "SmallTripTime") = Has(s, "SmallTripTime")
        /\ Has(Unset(s, fs), "PeriodicBurst") = Has(s, "PeriodicBurst")
        /\ Unset(s, fs).breply = s.breply
    BY SMT DEF Typed, Unset, Has, Fields
  <1> QED
    BY <1>1, <1>2, Zenon DEF Same, Still

\* A refusal is only noted.
LEMMA StillBailIf ==
  ASSUME NEW s, Typed(s), NEW c \in BOOLEAN
  PROVE  Still(s, BailIf(s, c)) /\ (c => BailIf(s, c).bail) /\ BailIf(s, c).flags = s.flags
         /\ BailIf(s, c).breply = s.breply
  BY SMT DEF Still, Same, Kept, Typed, BailIf, Has, Fields, Fixed

\* The larger of two numbers.
LEMMA LargerOf == ASSUME NEW a \in Int, NEW b \in Int PROVE Max({a, b}) = IF a >= b THEN a ELSE b
  <1>1. (IF a >= b THEN a ELSE b) \in {a, b} /\ \A y \in {a, b} : (IF a >= b THEN a ELSE b) >= y
    BY SMT
  <1> QED
    BY <1>1, SMT DEF Max

\* Typed follows from each of the three.
LEMMA StillTyped == ASSUME NEW s, NEW t, Still(s, t) PROVE Typed(t)
  BY Zenon DEF Still, Same, Kept

\* A field is given a value of its type.
LEMMA StillAssigned ==
  ASSUME NEW s, Typed(s), NEW v
  PROVE  /\ Still(s, [s EXCEPT !.rate = v]) /\ Still(s, [s EXCEPT !.burst = v])
         /\ Still(s, [s EXCEPT !.fps = v]) /\ Still(s, [s EXCEPT !.portlast = v])
         /\ Still(s, [s EXCEPT !.units = v]) /\ Still(s, [s EXCEPT !.imode = v])
         /\ Still(s, [s EXCEPT !.bbburst = v]) /\ Still(s, [s EXCEPT !.key = v])
         /\ Still(s, [s EXCEPT !.timeout = v]) /\ Still(s, [s EXCEPT !.threads = v])
         /\ Still(s, [s EXCEPT !.retrytimer = v]) /\ Still(s, [s EXCEPT !.retrytime = v])
  BY SMT DEF Still, Same, Kept, Typed, Has, Fields, Fixed

LEMMA StillLength ==
  ASSUME NEW s, Typed(s), NEW n \in Nat \ {0} PROVE Still(s, [s EXCEPT !.len = n])
  BY SMT DEF Still, Same, Kept, Typed, Has, Fields, Fixed

\* The stages of Settings_ModalOptions, one after the other.
LEMMA StillDefaultLength == ASSUME NEW s, Typed(s) PROVE Still(s, DefaultLength(s))
  BY StillItself, StillLength, SMT DEF DefaultLength

LEMMA StillPortsAndTripTimes == ASSUME NEW s, Typed(s) PROVE Still(s, PortsAndTripTimes(s))
  <1> DEFINE p == [s EXCEPT !.portlast = IF @ = 0 THEN s.port ELSE @]
  <1>1. Still(s, p)
    BY StillAssigned, Zenon
  <1>2. Still(p, Set(p, {"Enhanced"}))
    BY <1>1, StillTyped, StillSet, SMT DEF Fixed
  <1> QED
    BY <1>1, <1>2, StillTrans, Zenon DEF PortsAndTripTimes

LEMMA StillEndless == ASSUME NEW s, Typed(s) PROVE Still(s, Endless(s))
  <1>1. Still(s, Unset(s, {"ModeTime"}))
    BY StillUnset, SMT DEF Fixed
  <1>2. Still(Unset(s, {"ModeTime"}), Set(Unset(s, {"ModeTime"}), {"ModeInfinite"}))
    BY <1>1, StillTyped, StillSet, SMT DEF Fixed
  <1> QED
    BY <1>1, <1>2, StillItself, StillTrans, Zenon DEF Endless

LEMMA SameDefaultLoad == ASSUME NEW s, Typed(s) PROVE Same(s, DefaultLoad(s))
  <1> DEFINE q == [s EXCEPT !.units = "bw"]
             q2 == [s EXCEPT !.units = "bw", !.rate = @ * s.len * 8]
             r == IF s.units = "pps" /\ (s.burst # 0 \/ Has(s, "PeriodicBurst")) THEN q2 ELSE s
  <1>1. Still(s, q) /\ Typed(q) /\ Still(s, s)
    BY StillAssigned, StillTyped, StillItself, Zenon
  <1>2. q2 = [q EXCEPT !.rate = s.rate * s.len * 8]
    BY SMT DEF Typed, Fields
  <1>3. Still(s, q2)
    BY <1>1, <1>2, StillAssigned, StillTrans, Zenon
  <1>4. Still(s, r) /\ Typed(r)
    BY <1>1, <1>3, StillTyped, Zenon
  <1> HIDE DEF q, q2, r
  <1>5. ASSUME NEW u, Typed(u), NEW b
        PROVE  /\ Same(u, Set([u EXCEPT !.burst = b], {"BurstSize"}))
               /\ Same(u, Set([u EXCEPT !.fps = b], {"PeriodicBurst"}))
    <2>0. Still(u, [u EXCEPT !.burst = b]) /\ Still(u, [u EXCEPT !.fps = b])
      BY <1>5, StillAssigned
    <2>1. Same(u, [u EXCEPT !.burst = b]) /\ Same(u, [u EXCEPT !.fps = b])
      BY <2>0, Zenon DEF Still
    <2>2. Typed([u EXCEPT !.burst = b]) /\ Typed([u EXCEPT !.fps = b])
      BY <2>1, Zenon DEF Same, Kept
    <2>3. /\ Same([u EXCEPT !.burst = b], Set([u EXCEPT !.burst = b], {"BurstSize"}))
          /\ Same([u EXCEPT !.fps = b], Set([u EXCEPT !.fps = b], {"PeriodicBurst"}))
      BY <2>2, SameSet, SMT DEF Fixed
    <2> QED
      BY <2>1, <2>3, SameTrans, Zenon
  <1>6. /\ \A b : Same(r, Set([r EXCEPT !.burst = b], {"BurstSize"}))
        /\ \A b : Same(r, Set([r EXCEPT !.fps = b], {"PeriodicBurst"}))
    BY <1>4, <1>5
  <1>7. /\ \A b : Same(s, Set([r EXCEPT !.burst = b], {"BurstSize"}))
        /\ \A b : Same(s, Set([r EXCEPT !.fps = b], {"PeriodicBurst"}))
        /\ \A b : Same(s, Set([s EXCEPT !.burst = b], {"BurstSize"}))
        /\ \A b : Same(s, Set([s EXCEPT !.fps = b], {"PeriodicBurst"}))
        /\ \A b : Same(s, [s EXCEPT !.rate = b])
        /\ Same(s, r) /\ Same(s, s)
    BY <1>1, <1>4, <1>5, <1>6, SameTrans, StillAssigned, Zenon DEF Still
  <1>8. CASE ~(IsClient(s) /\ IsUDP(s))
    BY <1>7, <1>8, Zenon DEF DefaultLoad
  <1>9. CASE IsClient(s) /\ IsUDP(s)
    BY <1>7, <1>9, Zenon DEF DefaultLoad, r, q2
  <1> QED
    BY <1>8, <1>9

LEMMA StillCommonChecks ==
  ASSUME NEW s, Typed(s)
  PROVE  /\ Still(s, CommonChecks(s))
         /\ CommonChecks(s).bail \/ ~Has(s, "Compat")
            \/ (~BothWays(s) /\ {"TripTime", "Isochronous", "Enhanced"} \cap s.flags = {})
  <1> DEFINE compat == /\ Has(s, "Compat")
                       /\ \/ BothWays(s)
                          \/ {"TripTime", "VaryLoad", "Histogram", "Isochronous", "Enhanced"} \cap s.flags # {}
             key == /\ Has(s, "PermitKey")
                    /\ \/ IsUDP(s)
                       \/ s.key # NoText /\ ~(Len(s.key) \in 4 .. 128)
             t == BailIf(s, compat \/ key)
  <1>1. Still(s, t) /\ ((compat \/ key) => t.bail) /\ Typed(t)
    BY StillBailIf, StillTyped
  <1>2. compat \/ ~Has(s, "Compat")
        \/ (~BothWays(s) /\ {"TripTime", "Isochronous", "Enhanced"} \cap s.flags = {})
    BY SMT
  <1>3. CommonChecks(s) = IF {"IPV4", "IPV6"} \subseteq s.flags THEN Unset(t, {"IPV4", "IPV6"}) ELSE t
    BY Zenon DEF CommonChecks
  <1> HIDE DEF compat, key, t
  <1>4. Still(t, Unset(t, {"IPV4", "IPV6"}))
    BY <1>1, StillUnset, SMT DEF Fixed
  <1>5. Still(s, CommonChecks(s)) /\ (t.bail => CommonChecks(s).bail)
    BY <1>1, <1>3, <1>4, StillTrans, Zenon DEF Still, Same, Kept
  <1> QED
    BY <1>1, <1>2, <1>5, Zenon

\* The checks of a client.
LEMMA StillClientChecks == ASSUME NEW s, Typed(s) PROVE Still(s, ClientChecks(s))
  <1> DEFINE t == Unset(s, {"OverrideTOS", "RxClamp", "JitterHistogram"})
             burst == IF Has(s, "PeriodicBurst") THEN Set(t, {"Enhanced", "FrameInterval"}) ELSE t
             pacing == IF Has(s, "FQPacingStep") THEN Set(burst, {"FQPacing"}) ELSE burst
  <1>1. Still(s, t) /\ Typed(t)
    BY StillUnset, StillTyped, SMT DEF Fixed
  <1>2. Still(t, Set(t, {"Enhanced", "FrameInterval"}))
    BY <1>1, StillSet, SMT DEF Fixed
  <1>3. Still(s, burst) /\ Typed(burst)
    BY <1>1, <1>2, StillTrans, StillTyped, Zenon
  <1>4. Still(burst, Set(burst, {"FQPacing"}))
    BY <1>3, StillSet, SMT DEF Fixed
  <1>5. Still(s, pacing) /\ Typed(pacing)
    BY <1>3, <1>4, StillTrans, StillTyped, Zenon
  <1> DEFINE refused == \/ {"IncrSrcIP", "Localhost"} \cap s.flags = {"IncrSrcIP"}
                        \/ s.ttl > 255
                        \/ Has(s, "PermitKey") /\ s.key = NoText
                        \/ ~IsUDP(s) /\ {"TxHoldback", "TxStartTime"} \subseteq s.flags
                        \/ Has(s, "TripTime") /\ s.len < (IF IsUDP(s) THEN UDPDatagram ELSE BurstPayload)
  <1>6. ClientChecks(s) = BailIf(pacing, refused)
    BY Zenon DEF ClientChecks
  <1>7. refused \in BOOLEAN
    OBVIOUS
  <1> HIDE DEF pacing, refused
  <1>8. Still(pacing, BailIf(pacing, refused))
    BY <1>5, <1>7, StillBailIf
  <1> QED
    BY <1>5, <1>6, <1>8, StillTrans, Zenon

\* The sizes of a bounceback fit.
LEMMA FitSizes ==
  ASSUME NEW s, Typed(s), NEW bytes \in Int, NEW default \in Nat \ {0}
  PROVE  /\ Fit(s, bytes, default).bytes \in Nat \ {0}
         /\ Fit(s, bytes, default).len \in Nat \ {0}
  <1>1. s.len \in Nat \ {0}
    BY Zenon DEF Typed
  <1>2. Max({bytes, s.len}) = IF bytes >= s.len THEN bytes ELSE s.len
    BY <1>1, LargerOf, SMT
  <1> QED
    BY <1>1, <1>2, SMT DEF Fit

\* A bounceback ends with a reply that has bytes.
LEMMA KeptBounceBack ==
  ASSUME NEW s, Typed(s)
  PROVE  /\ Kept(s, BounceBack(s))
         /\ Has(BounceBack(s), "SmallTripTime") = Has(s, "SmallTripTime")
         /\ Has(s, "BounceBack") => BounceBack(s).breply > 0
  <1> DEFINE request == Fit(s, s.bbytes, IF Has(s, "BuflenSet") THEN s.len ELSE 100)
             sized == [s EXCEPT !.bbytes = request.bytes, !.len = request.len]
             reply == Fit(sized, s.breply, request.bytes)
             answer == [sized EXCEPT !.breply = reply.bytes, !.len = reply.len, !.burst = reply.len]
             quick == BailIf(answer, {"NoBBQuickAck", "TcpQuickAck"} \subseteq s.flags)
             acked == IF Has(s, "NoBBQuickAck") THEN quick ELSE Set(quick, {"TcpQuickAck"})
             first == [acked EXCEPT !.fps = 1, !.imode = IF @ = "none" THEN "time" ELSE @]
             paced == IF ~Has(s, "PeriodicBurst") THEN Set(first, {"PeriodicBurst"})
                      ELSE IF s.fps =< 0 THEN Unset(acked, {"PeriodicBurst"}) ELSE acked
             last == [paced EXCEPT !.bbburst = 10]
             Good(t) == /\ Kept(s, t) /\ Typed(t) /\ Has(t, "SmallTripTime") = Has(s, "SmallTripTime")
                        /\ t.breply > 0
  <1>1. BounceBack(s) = IF ~Has(s, "BounceBack") THEN s
                        ELSE IF Has(paced, "PeriodicBurst") /\ s.bbburst = -1 THEN last ELSE paced
    BY Zenon DEF BounceBack
  <1>2. request.bytes \in Nat \ {0} /\ request.len \in Nat \ {0}
    <2>1. s.bbytes \in Int /\ (IF Has(s, "BuflenSet") THEN s.len ELSE 100) \in Nat \ {0}
      BY SMT DEF Typed
    <2> QED
      BY <2>1, FitSizes
  <1> HIDE DEF request
  <1>3. Kept(s, sized) /\ Typed(sized) /\ Has(sized, "SmallTripTime") = Has(s, "SmallTripTime")
    BY <1>2, SMT DEF Kept, Typed, Has, Fields, Fixed
  <1>4. reply.bytes \in Nat \ {0} /\ reply.len \in Nat \ {0}
    <2>1. s.breply \in Int
      BY Zenon DEF Typed
    <2> HIDE DEF sized
    <2> QED
      BY <1>2, <1>3, <2>1, FitSizes
  <1> HIDE DEF reply, sized
  <1>5. /\ Kept(sized, answer) /\ Typed(answer)
        /\ Has(answer, "SmallTripTime") = Has(sized, "SmallTripTime") /\ answer.breply > 0
    BY <1>3, <1>4, SMT DEF Kept, Typed, Has, Fields, Fixed
  <1> HIDE DEF answer
  <1>6. Good(answer)
    BY <1>3, <1>5, KeptTrans, Zenon
  <1>7. ASSUME NEW t, NEW u, Good(t), Still(t, u) PROVE Good(u)
    BY <1>7, KeptTrans, Zenon DEF Still, Same, Kept
  <1>8. ASSUME NEW t, Good(t) PROVE Good(Set(t, {"TcpQuickAck"}))
    <2>1. Still(t, Set(t, {"TcpQuickAck"}))
      BY <1>8, StillSet, SMT DEF Fixed
    <2> QED
      BY <1>7, <1>8, <2>1
  <1>9. ASSUME NEW t, Good(t) PROVE Good(Set(t, {"PeriodicBurst"})) /\ Good(Unset(t, {"PeriodicBurst"}))
    <2>1. Same(t, Set(t, {"PeriodicBurst"}))
      BY <1>9, SameSet, SMT DEF Fixed
    <2>2. Kept(t, Unset(t, {"PeriodicBurst"}))
      BY <1>9, KeptUnset, SMT DEF Fixed
    <2>3. /\ Has(Unset(t, {"PeriodicBurst"}), "SmallTripTime") = Has(t, "SmallTripTime")
          /\ Unset(t, {"PeriodicBurst"}).breply = t.breply
      BY <1>9, SMT DEF Unset, Has, Typed, Fields
    <2> QED
      BY <1>9, <2>1, <2>2, <2>3, KeptTrans, Zenon DEF Same, Kept
  <1>10. ASSUME NEW t, Good(t), NEW v, NEW w
         PROVE  Good([t EXCEPT !.fps = v, !.imode = w]) /\ Good([t EXCEPT !.bbburst = v])
    <2>1. [t EXCEPT !.fps = v, !.imode = w] = [[t EXCEPT !.fps = v] EXCEPT !.imode = w]
      OBVIOUS
    <2>2. Still(t, [t EXCEPT !.fps = v]) /\ Still(t, [t EXCEPT !.bbburst = v])
      BY <1>10, StillAssigned
    <2>3. Good([t EXCEPT !.fps = v]) /\ Good([t EXCEPT !.bbburst = v])
      BY <1>7, <1>10, <2>2
    <2>4. Still([t EXCEPT !.fps = v], [[t EXCEPT !.fps = v] EXCEPT !.imode = w])
      BY <2>3, StillAssigned
    <2> QED
      BY <1>7, <2>1, <2>3, <2>4
  <1>11. Good(quick)
    BY <1>6, <1>7, StillBailIf
  <1> HIDE DEF quick
  <1>12. Good(acked)
    BY <1>8, <1>11
  <1> HIDE DEF acked
  <1>13. Good(first)
    BY <1>10, <1>12
  <1> HIDE DEF first
  <1>14. Good(paced)
    BY <1>9, <1>12, <1>13
  <1> HIDE DEF paced
  <1>15. Good(last)
    BY <1>10, <1>14
  <1>16. CASE ~Has(s, "BounceBack")
    BY <1>1, <1>16, StillItself, Zenon DEF Still, Same
  <1>17. CASE Has(s, "BounceBack")
    BY <1>1, <1>14, <1>15, <1>17
  <1> QED
    BY <1>16, <1>17

\* Bursts and frames are refused together.
LEMMA StillPrefetchAndBurst ==
  ASSUME NEW s, Typed(s)
  PROVE  /\ Still(s, PrefetchAndBurst(s))
         /\ {"PeriodicBurst", "Isochronous"} \subseteq s.flags => PrefetchAndBurst(s).bail
  <1> DEFINE t == IF ~IsUDP(s) /\ {"TcpWriteTimes", "TripTime"} \cap s.flags # {}
                  THEN IF ~Has(s, "WritePrefetch") THEN Set(s, {"Enhanced"})
                       ELSE IF s.prefetch =< 0 THEN Unset(s, {"WritePrefetch"}) ELSE s
                  ELSE s
             timer == IF s.retrytime > 0 /\ t.retrytimer = 0 THEN 1 ELSE t.retrytimer
             time == IF s.retrytimer > 0 /\ t.retrytime =< 0 THEN 10 ELSE t.retrytime
             retry == [t EXCEPT !.retrytimer = IF s.retrytime > 0 /\ @ = 0 THEN 1 ELSE @,
                                !.retrytime = IF s.retrytimer > 0 /\ @ =< 0 THEN 10 ELSE @]
             refused == /\ Has(s, "PeriodicBurst")
                        /\ {"Isochronous", "NearCongest"} \cap s.flags # {} \/ s.burst < s.len
  <1>1. Still(s, t) /\ Typed(t)
    <2>1. Still(s, Set(s, {"Enhanced"})) /\ Still(s, Unset(s, {"WritePrefetch"}))
      BY StillSet, StillUnset, SMT DEF Fixed
    <2> QED
      BY <2>1, StillItself, StillTyped, Zenon
  <1>2. PrefetchAndBurst(s) = BailIf(retry, refused)
    BY Zenon DEF PrefetchAndBurst
  <1> HIDE DEF t
  <1>3. retry = [[t EXCEPT !.retrytimer = timer] EXCEPT !.retrytime = time]
    BY <1>1, SMT DEF Typed, Fields
  <1> HIDE DEF timer, time
  <1>4. Still(s, retry) /\ Typed(retry)
    <2> DEFINE timed == [t EXCEPT !.retrytimer = timer]
    <2>1. Still(t, timed) /\ Typed(timed)
      BY <1>1, StillAssigned, StillTyped
    <2>2. Still(timed, [timed EXCEPT !.retrytime = time])
      BY <2>1, StillAssigned
    <2> HIDE DEF timed, retry
    <2>3. retry = [timed EXCEPT !.retrytime = time]
      BY <1>3 DEF timed
    <2> QED
      BY <1>1, <2>1, <2>2, <2>3, StillTrans, StillTyped, Zenon
  <1>5. refused \in BOOLEAN
    OBVIOUS
  <1>6. {"PeriodicBurst", "Isochronous"} \subseteq s.flags => refused
    BY SMT DEF Has
  <1> HIDE DEF retry, refused
  <1>7. Still(retry, BailIf(retry, refused)) /\ (refused => BailIf(retry, refused).bail)
    BY <1>4, <1>5, StillBailIf
  <1> QED
    BY <1>2, <1>4, <1>6, <1>7, StillTrans, Zenon

\* The small payload of UDP is for tests in one direction.
LEMMA KeptUDPChecks ==
  ASSUME NEW s, Typed(s), ~Has(s, "SmallTripTime")
  PROVE  LET u == UDPChecks(s)
         IN  /\ Kept(s, u) /\ u.breply = s.breply /\ Has(u, "PeriodicBurst") = Has(s, "PeriodicBurst")
             /\ Has(u, "SmallTripTime") => Has(s, "TripTime") /\ ~BothWays(s)
             /\ {"PeerVerDetect", "ConnectOnly", "BounceBack"} \cap s.flags # {} => u.bail
  <1> DEFINE small == Has(s, "TripTime") /\ s.len < MinTripTimePayload
             delay == IF Has(s, "IPG") \/ s.rate =< 0 THEN 0
                      ELSE IF s.units = "bw" THEN (s.len * 8) \div s.rate ELSE 1 \div s.rate
             t == Unset(s, {"WritePrefetch", "TcpTxDelay"})
             r == IF small /\ ~BothWays(s) THEN Set(t, {"SmallTripTime"}) ELSE t
             refused == \/ {"PeerVerDetect", "ConnectOnly", "BounceBack", "NearCongest"} \cap s.flags # {}
                        \/ {"IPG", "BWSet"} \subseteq s.flags
                        \/ s.retrytimer > 0
                        \/ delay > 60
                        \/ small /\ BothWays(s)
             Good(u) == /\ Kept(s, u) /\ u.breply = s.breply /\ Has(u, "PeriodicBurst") = Has(s, "PeriodicBurst")
                        /\ Has(u, "SmallTripTime") => Has(s, "TripTime") /\ ~BothWays(s)
  <1>1. UDPChecks(s) = BailIf(r, refused)
    BY Zenon DEF UDPChecks
  <1>2. refused \in BOOLEAN
    OBVIOUS
  <1>3. {"PeerVerDetect", "ConnectOnly", "BounceBack"} \cap s.flags # {} => refused
    <2> HIDE DEF small, delay
    <2> QED
      BY SMT
  <1>4. small => Has(s, "TripTime")
    OBVIOUS
  <1> HIDE DEF refused, small
  <1>5. Still(s, t) /\ Typed(t)
    BY StillUnset, StillTyped, SMT DEF Fixed
  <1>6. Good(t)
    BY <1>5, Zenon DEF Still, Same
  <1>7. small /\ ~BothWays(s) => Good(Set(t, {"SmallTripTime"}))
    <2>1. Kept(t, Set(t, {"SmallTripTime"}))
      BY <1>5, KeptSet, SMT DEF Fixed
    <2>2. /\ Has(Set(t, {"SmallTripTime"}), "PeriodicBurst") = Has(t, "PeriodicBurst")
          /\ Set(t, {"SmallTripTime"}).breply = t.breply
      BY <1>5, SMT DEF Set, Has, Typed, Fields
    <2> HIDE DEF t
    <2> QED
      BY <1>4, <1>6, <2>1, <2>2, KeptTrans, Zenon
  <1>8. Good(r) /\ Typed(r)
    BY <1>6, <1>7, Zenon DEF Kept
  <1> HIDE DEF r
  <1>9. Still(r, BailIf(r, refused)) /\ (refused => BailIf(r, refused).bail)
    BY <1>2, <1>8, StillBailIf
  <1> QED
    BY <1>1, <1>3, <1>8, <1>9, KeptTrans, Zenon DEF Still, Same

LEMMA StillTCPChecks == ASSUME NEW s, Typed(s) PROVE Still(s, TCPChecks(s))
  BY StillBailIf, Zenon DEF TCPChecks

LEMMA StillExclusions == ASSUME NEW s, Typed(s) PROVE Still(s, Exclusions(s))
  <1> DEFINE ways == {w \in {"FullDuplex", "Reverse"} : Has(s, w)}
                     \cup (IF s.mode # "normal" THEN {"Mode"} ELSE {})
             t == IF Has(s, "Histogram") /\ {"Reverse", "FullDuplex"} \cap s.flags = {}
                  THEN Set(s, {"TcpWriteTimes"}) ELSE s
             refused == Cardinality(ways) > 1 \/ {"BWSet", "Isochronous"} \subseteq s.flags
  <1>1. Exclusions(s) = BailIf(t, refused)
    BY Zenon DEF Exclusions
  <1>2. Still(s, t) /\ Typed(t)
    <2>1. Still(s, Set(s, {"TcpWriteTimes"}))
      BY StillSet, SMT DEF Fixed
    <2> QED
      BY <2>1, StillItself, StillTyped, Zenon
  <1>3. refused \in BOOLEAN
    OBVIOUS
  <1> HIDE DEF t, refused
  <1>4. Still(t, BailIf(t, refused))
    BY <1>2, <1>3, StillBailIf
  <1> QED
    BY <1>1, <1>2, <1>4, StillTrans, Zenon

LEMMA StillFinish == ASSUME NEW s, Typed(s) PROVE Still(s, Finish(s))
  <1> DEFINE fin == IF IsUDP(s) /\ Has(s, "FullDuplex") THEN Set(s, {"NoUDPfin"}) ELSE s
             bytes == IF fin.burst # 0 THEN Max({fin.burst, s.len})
                      ELSE IF Has(s, "TripTime") THEN s.len ELSE 0
             sized == IF IsUDP(s) THEN fin ELSE [fin EXCEPT !.burst = bytes]
             streams == Max({sized.threads, 1, IF s.portlast > s.port THEN s.portlast - s.port + 1 ELSE 1})
             ranged == IF ~IsClient(s) THEN sized ELSE [sized EXCEPT !.threads = streams]
  <1>1. Still(s, Set(s, {"NoUDPfin"}))
    BY StillSet, SMT DEF Fixed
  <1>2. Still(s, fin) /\ Typed(fin)
    BY <1>1, StillItself, StillTyped, Zenon
  <1>3. Finish(s) = IF IsClient(s) /\ Has(s, "LocalPort") THEN ranged ELSE Unset(ranged, {"IncrSrcPort"})
    <2>1. [fin EXCEPT !.burst = IF @ # 0 THEN Max({@, s.len}) ELSE IF Has(s, "TripTime") THEN s.len ELSE 0]
          = [fin EXCEPT !.burst = bytes]
      BY <1>2, Zenon
    <2>2. [sized EXCEPT !.threads = Max({@, 1, IF s.portlast > s.port THEN s.portlast - s.port + 1 ELSE 1})]
          = [sized EXCEPT !.threads = streams]
      BY <1>2, Zenon
    <2> QED
      BY <2>1, <2>2, Zenon DEF Finish
  <1> HIDE DEF fin, bytes
  <1>4. Still(s, sized) /\ Typed(sized)
    BY <1>2, StillAssigned, StillTrans, StillTyped, Zenon
  <1> HIDE DEF sized, streams
  <1>5. Still(s, ranged) /\ Typed(ranged)
    BY <1>4, StillAssigned, StillTrans, StillTyped, Zenon
  <1> HIDE DEF ranged
  <1>6. Still(ranged, Unset(ranged, {"IncrSrcPort"}))
    BY <1>5, StillUnset, SMT DEF Fixed
  <1> QED
    BY <1>3, <1>5, <1>6, StillTrans, Zenon

\* The settings of a client that Settings_ModalOptions has let pass, and of each
\* of its threads.
Completed(s) ==
  /\ Typed(s) /\ s.thread = "client"
  /\ Has(s, "Compat") =>
        /\ ~BothWays(s)
        /\ {"TripTime", "Isochronous", "BounceBack", "WorkingLoadUp", "WorkingLoadDown"} \cap s.flags = {}
  /\ Has(s, "UDP") => {"PeerVerDetect", "ConnectOnly", "BounceBack"} \cap s.flags = {}
  /\ {"UDP", "SmallTripTime"} \subseteq s.flags => Has(s, "TripTime") /\ ~BothWays(s)
  /\ ~({"PeriodicBurst", "Isochronous"} \subseteq s.flags)
  /\ Has(s, "BounceBack") => s.breply > 0

\* The checks of a listener.
LEMMA StillServerChecks == ASSUME NEW s, Typed(s) PROVE Still(s, ServerChecks(s))
  <1> DEFINE newkey == IF Has(s, "PermitKey") /\ s.key = NoText THEN "generated" ELSE s.key
             wait == IF Has(s, "PermitKey") /\ s.timeout < 0 THEN 20 ELSE s.timeout
             keyed == [s EXCEPT !.key = newkey]
             t == [keyed EXCEPT !.timeout = wait]
             off == {"WritePrefetch", "UDPL4S"} \cup IF IsUDP(s) THEN {"RxClamp", "SkipRxCopy"} ELSE {}
             u == Unset(t, off)
             refused == \/ s.portlast # 0 /\ s.portlast < s.port
                        \/ s.workingthreads > 0
                        \/ Cardinality({"WorkingLoadUp", "WorkingLoadDown"} \cap s.flags) = 1
                        \/ Has(s, "BounceBack")
  <1>1. [s EXCEPT !.key = IF Has(s, "PermitKey") /\ @ = NoText THEN "generated" ELSE @,
                  !.timeout = IF Has(s, "PermitKey") /\ @ < 0 THEN 20 ELSE @] = t
    BY SMT DEF Typed, Fields
  <1>2. ServerChecks(s) = BailIf(u, refused)
    BY <1>1, Zenon DEF ServerChecks
  <1>3. refused \in BOOLEAN /\ off \cap (Fixed \cup {"SmallTripTime", "PeriodicBurst", "Enhanced"}) = {}
    BY SMT DEF Fixed
  <1> HIDE DEF newkey, wait, off, refused
  <1>4. Still(s, keyed) /\ Typed(keyed)
    BY StillAssigned, StillTyped
  <1> HIDE DEF keyed
  <1>5. Still(keyed, t) /\ Typed(t)
    BY <1>4, StillAssigned, StillTyped
  <1> HIDE DEF t
  <1>6. Still(t, u) /\ Typed(u)
    BY <1>3, <1>5, StillUnset, StillTyped
  <1> HIDE DEF u
  <1>7. Still(u, BailIf(u, refused))
    BY <1>3, <1>6, StillBailIf
  <1> QED
    BY <1>2, <1>4, <1>5, <1>6, <1>7, StillTrans, Zenon

\* The checks of a client, all but the last of them.
LEMMA ClientPasses ==
  ASSUME NEW s, Typed(s), IsClient(s), ~Has(s, "SmallTripTime")
  PROVE  LET r == RoleChecks(s)
         IN  /\ Kept(s, r)
             /\ Has(r, "SmallTripTime") => Has(s, "TripTime") /\ ~BothWays(s)
             /\ {"PeriodicBurst", "Isochronous"} \subseteq r.flags => r.bail
             /\ IsUDP(s) /\ {"PeerVerDetect", "ConnectOnly", "BounceBack"} \cap s.flags # {} => r.bail
             /\ Has(s, "BounceBack") => r.breply > 0
  <1> DEFINE a == ClientChecks(s)
             b == BounceBack(a)
             t == PrefetchAndBurst(b)
             u == IF IsUDP(s) THEN UDPChecks(t) ELSE TCPChecks(t)
             r == Exclusions(u)
  <1>1. RoleChecks(s) = r
    BY Zenon DEF RoleChecks
  <1>2. Still(s, a) /\ Typed(a)
    BY StillClientChecks, StillTyped
  <1> HIDE DEF a
  <1>3. /\ Kept(s, b) /\ Typed(b) /\ ~Has(b, "SmallTripTime")
        /\ Has(s, "BounceBack") => b.breply > 0
    <2>1. Has(a, "BounceBack") = Has(s, "BounceBack")
      BY <1>2, Zenon DEF Still, Same, Kept, Fixed
    <2> QED
      BY <1>2, <2>1, KeptBounceBack, KeptTrans, Zenon DEF Still, Same, Kept
  <1> HIDE DEF b
  <1>4. /\ Still(b, t) /\ Typed(t)
        /\ {"PeriodicBurst", "Isochronous"} \subseteq b.flags => t.bail
    BY <1>3, StillPrefetchAndBurst, StillTyped
  <1> HIDE DEF t
  <1>5. /\ Kept(s, t) /\ ~Has(t, "SmallTripTime")
        /\ Has(s, "BounceBack") => t.breply > 0
    BY <1>3, <1>4, KeptTrans, Zenon DEF Still, Same
  <1>6. {"PeriodicBurst", "Isochronous"} \subseteq t.flags => t.bail
    <2>1. Has(t, "PeriodicBurst") = Has(b, "PeriodicBurst") /\ Has(t, "Isochronous") = Has(b, "Isochronous")
      BY <1>4, SMT DEF Still, Same, Kept, Fixed
    <2> QED
      BY <1>4, <2>1, SMT DEF Has
  <1>7. /\ Has(t, "TripTime") = Has(s, "TripTime") /\ BothWays(t) = BothWays(s)
        /\ {"PeerVerDetect", "ConnectOnly", "BounceBack"} \cap s.flags # {}
           => {"PeerVerDetect", "ConnectOnly", "BounceBack"} \cap t.flags # {}
    BY <1>5, SMT DEF Kept, BothWays, Has, Fixed
  <1>8. /\ Kept(t, u) /\ Typed(u) /\ Has(u, "PeriodicBurst") = Has(t, "PeriodicBurst") /\ u.breply = t.breply
        /\ Has(u, "SmallTripTime") => Has(s, "TripTime") /\ ~BothWays(s)
        /\ IsUDP(s) /\ {"PeerVerDetect", "ConnectOnly", "BounceBack"} \cap s.flags # {} => u.bail
    <2>1. CASE IsUDP(s)
      BY <1>4, <1>5, <1>7, <2>1, KeptUDPChecks, Zenon DEF Kept
    <2>2. CASE ~IsUDP(s)
      <3>1. Still(t, TCPChecks(t)) /\ u = TCPChecks(t)
        BY <1>4, <2>2, StillTCPChecks
      <3> HIDE DEF u
      <3> QED
        BY <1>5, <2>2, <3>1, Zenon DEF Still, Same, Kept
    <2> QED
      BY <2>1, <2>2
  <1> HIDE DEF u
  <1>9. Still(u, r)
    BY <1>8, StillExclusions
  <1> HIDE DEF r
  <1>10. Kept(s, r) /\ Kept(t, r) /\ (t.bail => r.bail) /\ (u.bail => r.bail) /\ r.breply = t.breply
         /\ Has(r, "PeriodicBurst") = Has(t, "PeriodicBurst")
         /\ Has(r, "SmallTripTime") = Has(u, "SmallTripTime")
    BY <1>5, <1>8, <1>9, KeptTrans, Zenon DEF Still, Same, Kept
  <1>11. {"PeriodicBurst", "Isochronous"} \subseteq r.flags => r.bail
    <2>1. Has(r, "Isochronous") = Has(t, "Isochronous")
      BY <1>10, SMT DEF Kept, Fixed
    <2> QED
      BY <1>6, <1>10, <2>1, SMT DEF Has
  <1> QED
    BY <1>1, <1>5, <1>8, <1>10, <1>11, Zenon

\* All stages: a client whose settings have not been refused is completed.
LEMMA KeptModal == ASSUME NEW s, Given(s) PROVE Kept(s, Modal(s))
                                               /\ (~Modal(s).bail /\ Modal(s).thread = "client" => Completed(Modal(s)))
  <1> DEFINE d == DefaultLoad(Endless(PortsAndTripTimes(DefaultLength(s))))
             c == CommonChecks(d)
             r == RoleChecks(c)
             omitted == IsUDP(s) /\ Has(s, "Omit")
             b == BailIf(r, omitted)
             m == Finish(b)
  <1>1. Modal(s) = m
    BY DEF Modal
  <1>2. Same(s, d) /\ Typed(d)
    <2> DEFINE l == DefaultLength(s)
               p == PortsAndTripTimes(l)
               e == Endless(p)
    <2>1. Still(s, l) /\ Typed(l)
      BY StillDefaultLength, StillTyped, Zenon DEF Given
    <2> HIDE DEF l
    <2>2. Still(l, p) /\ Typed(p)
      BY <2>1, StillPortsAndTripTimes, StillTyped
    <2> HIDE DEF p
    <2>3. Still(p, e) /\ Typed(e)
      BY <2>2, StillEndless, StillTyped
    <2> HIDE DEF e
    <2>4. Same(e, DefaultLoad(e))
      BY <2>3, SameDefaultLoad
    <2>5. Same(s, DefaultLoad(e))
      BY <2>1, <2>2, <2>3, <2>4, SameTrans, Zenon DEF Still
    <2>6. d = DefaultLoad(e)
      BY DEF e, p, l
    <2> QED
      BY <2>5, <2>6, Zenon DEF Same, Kept
  <1> HIDE DEF d
  <1>3. /\ Still(d, c) /\ Typed(c)
        /\ c.bail \/ ~Has(d, "Compat")
           \/ (~BothWays(d) /\ {"TripTime", "Isochronous", "Enhanced"} \cap d.flags = {})
    BY <1>2, StillCommonChecks, StillTyped
  <1> HIDE DEF c
  <1>4. Same(s, c) /\ ~Has(c, "SmallTripTime")
    <2>1. Same(s, c)
      BY <1>2, <1>3, SameTrans, Zenon DEF Still
    <2> QED
      BY <2>1, Zenon DEF Given, Same
  <1>5. Kept(c, r) /\ Typed(r)
    <2>1. CASE IsClient(c)
      BY <1>3, <1>4, <2>1, ClientPasses, Zenon DEF Kept
    <2>2. CASE ~IsClient(c)
      <3>1. r = ServerChecks(c)
        BY <2>2, Zenon DEF RoleChecks
      <3> QED
        BY <1>3, <3>1, StillServerChecks, Zenon DEF Still, Same, Kept
    <2> QED
      BY <2>1, <2>2
  <1>6. ASSUME IsClient(c)
        PROVE  /\ Has(r, "SmallTripTime") => Has(c, "TripTime") /\ ~BothWays(c)
               /\ {"PeriodicBurst", "Isochronous"} \subseteq r.flags => r.bail
               /\ IsUDP(c) /\ {"PeerVerDetect", "ConnectOnly", "BounceBack"} \cap c.flags # {} => r.bail
               /\ Has(c, "BounceBack") => r.breply > 0
    BY <1>3, <1>4, <1>6, ClientPasses, Zenon
  <1> HIDE DEF r
  <1>7. Still(r, b) /\ Typed(b)
    <2>1. omitted \in BOOLEAN
      OBVIOUS
    <2> HIDE DEF omitted
    <2> QED
      BY <1>5, <2>1, StillBailIf, StillTyped
  <1> HIDE DEF b
  <1>8. Still(b, m)
    BY <1>7, StillFinish
  <1> HIDE DEF m
  <1>9. Still(r, m)
    BY <1>7, <1>8, StillTrans
  <1>10. Kept(c, m) /\ Kept(s, m)
    BY <1>4, <1>5, <1>9, KeptTrans, Zenon DEF Still, Same
  <1>11. ASSUME ~m.bail, m.thread = "client" PROVE Completed(m)
    <2>1. IsClient(c) /\ ~c.bail /\ ~r.bail
      BY <1>5, <1>9, <1>10, <1>11, Zenon DEF Kept, Still, Same, IsClient
    <2>2. /\ \A f \in Fixed : Has(m, f) = Has(c, f) /\ Has(m, f) = Has(s, f)
          /\ m.mode = c.mode /\ m.mode = s.mode /\ Typed(m)
          /\ Has(m, "PeriodicBurst") = Has(r, "PeriodicBurst")
          /\ Has(m, "SmallTripTime") = Has(r, "SmallTripTime") /\ m.breply = r.breply
          /\ \A f \in Fixed : Has(m, f) = Has(r, f) /\ Has(m, f) = Has(d, f)
          /\ m.mode = d.mode
          /\ Has(s, "Enhanced") => Has(d, "Enhanced")
      <3>1. Kept(d, c) /\ Kept(s, d) /\ Kept(r, m)
        BY <1>2, <1>3, <1>9, Zenon DEF Still, Same
      <3>2. Kept(d, m)
        BY <1>10, <3>1, KeptTrans
      <3> QED
        BY <1>9, <1>10, <3>1, <3>2, Zenon DEF Still, Same, Kept
    <2>3. Has(m, "Compat") => ~BothWays(m) /\ {"TripTime", "Isochronous"} \cap m.flags = {} /\ ~Has(s, "Enhanced")
      BY <1>3, <2>1, <2>2, SMT DEF Fixed, BothWays, Has
    <2>4. Has(m, "Compat") => {"BounceBack", "WorkingLoadUp", "WorkingLoadDown"} \cap m.flags = {}
      BY <2>2, <2>3, SMT DEF Given, Loads, Fixed, Has
    <2>5. Has(m, "UDP") => {"PeerVerDetect", "ConnectOnly", "BounceBack"} \cap m.flags = {}
      BY <1>6, <2>1, <2>2, SMT DEF IsUDP, Fixed, Has
    <2>6. Has(m, "SmallTripTime") => Has(m, "TripTime") /\ ~BothWays(m)
      BY <1>6, <2>1, <2>2, SMT DEF Fixed, Has, BothWays
    <2>7. ~({"PeriodicBurst", "Isochronous"} \subseteq m.flags)
      BY <1>6, <2>1, <2>2, SMT DEF Fixed, Has
    <2>8. Has(m, "BounceBack") => m.breply > 0
      BY <1>6, <2>1, <2>2, SMT DEF Fixed
    <2> QED
      BY <1>11, <2>2, <2>3, <2>4, <2>5, <2>6, <2>7, <2>8, SMT DEF Completed, Has
  <1> QED
    BY <1>1, <1>10, <1>11, Zenon

-----------------------------------------------------------------------------
(* Settings_GenerateClientHdr                                              *)

\* What the part that all headers have in common says.
LEMMA HdrV1Says ==
  ASSUME NEW c
  PROVE  LET h == HdrV1(c)
         IN  /\ DOMAIN h = DOMAIN NoHeader
             /\ h.words = IF Has(c, "SyncTransferID") THEN {"HASTRANSFERID"} ELSE {}
             /\ h.upper = {} /\ h.lower = {} /\ h.fps = 0 /\ h.amount = c.amount /\ h.timed = Has(c, "ModeTime")
             /\ h.port = OwnListenerPort(c) /\ h.cca = NoText /\ h.key = NoText
             /\ h.bbytes = 0 /\ h.breply = 0 /\ h.tos = c.tos /\ h.len = 0 /\ h.sent = 0
  BY SMT DEF HdrV1, NoHeader, OwnListenerPort

\* What a header of TCP says.
LEMMA TCPHeaderSays ==
  ASSUME NEW c
  PROVE  LET h == TCPHeader(c)
         IN  /\ "EXTEND" \in h.words /\ {"BOUNCEBACK", "SMALL_TRIPTIMES", "UDPTESTS"} \cap h.words = {}
             /\ "VERSION1" \in h.words <=> WantsMode(c) \/ Has(c, "SyncTransferID")
             /\ "RUN_NOW" \in h.words <=> (WantsMode(c) \/ Has(c, "SyncTransferID")) /\ c.mode = "dual"
             /\ "HASTRANSFERID" \in h.words <=> Has(c, "SyncTransferID")
             /\ "VERSION2" \in h.words <=> Has(c, "PeerVerDetect") \/ TwoWays(c)
             /\ "V2PEERDETECT" \in h.words <=> Has(c, "PeerVerDetect")
             /\ h.amount = c.amount /\ h.timed = Has(c, "ModeTime") /\ h.port = OwnListenerPort(c)
             /\ h.cca = AskedCCA(c)
             /\ "CCA" \in h.lower <=> AskedCCA(c) # NoText
  <1> DEFINE h == TCPHeader(c)
             key == IF Has(c, "PermitKey") THEN c.key ELSE NoText
             words == {"EXTEND", "LEN_BIT"}
                      \cup (IF WantsMode(c) \/ Has(c, "SyncTransferID") THEN V1Words(c) ELSE {})
                      \cup (IF Has(c, "PeerVerDetect") THEN {"V2PEERDETECT", "VERSION2"} ELSE {})
                      \cup (IF TwoWays(c) THEN {"VERSION2"} ELSE {}) \cup (IF key # NoText THEN {"KEYCHECK"} ELSE {})
  <1>1. h.words = HdrV1(c).words \cup words
    BY HdrV1Says, SMT DEF TCPHeader, NoHeader
  <1>2. /\ h.amount = HdrV1(c).amount /\ h.timed = HdrV1(c).timed /\ h.port = HdrV1(c).port
        /\ h.cca = AskedCCA(c) /\ h.lower = IF AskedCCA(c) # NoText THEN {"CCA"} ELSE {}
    BY HdrV1Says, SMT DEF TCPHeader, NoHeader
  <1> QED
    BY <1>1, <1>2, HdrV1Says, SMT DEF V1Words

\* The frames of a client: its bursts count first.
LEMMA TCPHeaderFlags ==
  ASSUME NEW c
  PROVE  LET h == TCPHeader(c)
         IN  /\ "REVERSE" \in h.upper <=> Has(c, "Reverse") /\ ~Has(c, "Compat")
             /\ "FULLDUPLEX" \in h.upper <=> Has(c, "FullDuplex") /\ ~Has(c, "Compat")
             /\ "EPOCH_START" \in h.upper <=>
                  /\ Has(c, "TxStartTime")
                  /\ (TwoWays(c) /\ ~Has(c, "Compat")) \/ Has(c, "TripTime")
             /\ "TRIPTIME" \in h.upper <=> Has(c, "TripTime")
             /\ "FQRATESET" \in h.upper <=> Has(c, "FQPacing")
             /\ "PERIODICBURST" \in h.upper <=> Has(c, "PeriodicBurst")
             /\ "ISOCH" \in h.upper <=> Has(c, "Isochronous") /\ ~Has(c, "PeriodicBurst")
             /\ h.fps = When({"Isochronous", "PeriodicBurst"} \cap c.flags # {} /\ Settled(c), c.fps)
  <1> DEFINE frames == {"Isochronous", "PeriodicBurst"} \cap c.flags # {}
             upper == (IF Has(c, "WritePrefetch") /\ TwoWays(c) THEN {"WRITEPREFETCH"} ELSE {})
                      \cup (IF Has(c, "TcpQuickAck") /\ (Has(c, "FullDuplex") \/ ~Has(c, "Reverse"))
                            THEN {"TCPQUICKACK"} ELSE {})
                      \cup (IF Has(c, "PeriodicBurst") THEN {"PERIODICBURST"}
                            ELSE IF frames THEN {"ISOCH"} ELSE {})
  <1>1. /\ TCPHeader(c).upper = CommonUpper(c) \cup upper
        /\ TCPHeader(c).fps = When(frames /\ Settled(c), c.fps)
    BY HdrV1Says, SMT DEF TCPHeader, NoHeader
  <1>2. frames <=> Has(c, "Isochronous") \/ Has(c, "PeriodicBurst")
    BY SMT DEF Has
  <1> HIDE DEF frames
  <1> QED
    BY <1>1, <1>2, SMT DEF CommonUpper, frames

\* The bytes that a TCP header announces.
LEMMA TCPHeaderLength ==
  ASSUME NEW c, Typed(c)
  PROVE  LET size == 64 + When(\/ {"LoadCCA", "CongestionControl"} \cap c.flags # {}
                               \/ {"TripTime", "FQPacing", "Isochronous", "TxStartTime"} \cap c.flags # {}, 16)
                     + When(Settled(c), 32) + When(AskedCCA(c) # NoText, 2 + Len(AskedCCA(c)))
         IN  TCPHeader(c).len \in Nat /\ TCPHeader(c).len >= size
  <1> DEFINE start == \/ {"LoadCCA", "CongestionControl"} \cap c.flags # {}
                      \/ {"TripTime", "FQPacing", "Isochronous", "TxStartTime"} \cap c.flags # {}
             key == IF Has(c, "PermitKey") THEN c.key ELSE NoText
             n == Len(AskedCCA(c))
             named == AskedCCA(c) # NoText
             a == When(start, 16)
             b == When(Settled(c), 32)
             d == When(named, 2 + n)
             e == When(key # NoText, 2)
             announced == 24 + 40 + a + b + d + e
  <1>1. AskedCCA(c) \in Controls
    BY SMT DEF AskedCCA, Typed, Controls
  <1>2. n \in 0 .. 128
    BY <1>1, NamesAssumption
  <1>3. a \in 0 .. 16 /\ b \in 0 .. 32 /\ e \in 0 .. 2
    <2> HIDE DEF start, key
    <2> QED
      BY SMT DEF When
  <1>4. d \in 0 .. 130
    <2> HIDE DEF n, named
    <2> QED
      BY <1>2, SMT DEF When
  <1>5. TCPHeader(c).len = announced % 256
    <2> DEFINE control == {"LoadCCA", "CongestionControl"} \cap c.flags # {}
               frames == {"Isochronous", "PeriodicBurst"} \cap c.flags # {}
               w == HdrV1(c).words \cup
                    ({"EXTEND", "LEN_BIT"}
                     \cup (IF WantsMode(c) \/ Has(c, "SyncTransferID") THEN V1Words(c) ELSE {})
                     \cup (IF Has(c, "PeerVerDetect") THEN {"V2PEERDETECT", "VERSION2"} ELSE {})
                     \cup (IF TwoWays(c) THEN {"VERSION2"} ELSE {}) \cup (IF key # NoText THEN {"KEYCHECK"} ELSE {}))
               u == CommonUpper(c) \cup
                    ((IF Has(c, "WritePrefetch") /\ TwoWays(c) THEN {"WRITEPREFETCH"} ELSE {})
                     \cup (IF Has(c, "TcpQuickAck") /\ (Has(c, "FullDuplex") \/ ~Has(c, "Reverse"))
                           THEN {"TCPQUICKACK"} ELSE {})
                     \cup (IF Has(c, "PeriodicBurst") THEN {"PERIODICBURST"}
                           ELSE IF frames THEN {"ISOCH"} ELSE {}))
               r == When(Has(c, "BWSet"), c.rate)
               lo == IF AskedCCA(c) # NoText THEN {"CCA"} ELSE {}
               f == When(frames /\ Settled(c), c.fps)
               k == announced % 256
               y == announced + Len(key)
    <2>1. TCPHeader(c) = [HdrV1(c) EXCEPT !.words = w, !.upper = u, !.rate = r, !.lower = lo, !.cca = AskedCCA(c),
                                          !.key = key, !.fps = f, !.len = k, !.sent = y]
      BY DEF TCPHeader
    <2> HIDE DEF w, u, r, lo, f, k, y, key
    <2>2. TCPHeader(c).len = k
      BY <2>1, HdrV1Says, SMT DEF NoHeader
    <2> QED
      BY <2>2 DEF k
  <1> HIDE DEF a, b, d, e
  <1>6. announced \in 0 .. 255 /\ announced % 256 = announced
    BY <1>3, <1>4, SMT
  <1>7. TCPHeader(c).len \in Nat /\ TCPHeader(c).len >= 64 + a + b + d
    <2> HIDE DEF announced
    <2>1. TCPHeader(c).len = announced
      BY <1>5, <1>6
    <2> QED
      BY <1>3, <1>4, <1>6, <2>1, SMT DEF announced
  <1> QED
    BY <1>7 DEF a, b, d

\* What a header of UDP says.
LEMMA UDPHeaderSays ==
  ASSUME NEW c
  PROVE  LET h == UDPHeader(c)
         IN  /\ "EXTEND" \in h.words /\ {"BOUNCEBACK", "SMALL_TRIPTIMES", "V2PEERDETECT"} \cap h.words = {}
             /\ "VERSION1" \in h.words <=> WantsMode(c)
             /\ "RUN_NOW" \in h.words <=> WantsMode(c) /\ c.mode = "dual"
             /\ "HASTRANSFERID" \in h.words <=> Has(c, "SyncTransferID")
             /\ "VERSION2" \in h.words <=> TwoWays(c)
             /\ "UDPTESTS" \in h.words <=>
                  {"Isochronous", "UDPL4S", "Reverse", "FullDuplex", "NoUDPfin", "TripTime", "FQPacing",
                   "TxStartTime"} \cap c.flags # {}
             /\ h.amount = c.amount /\ h.timed = Has(c, "ModeTime") /\ h.port = OwnListenerPort(c)
             /\ h.cca = NoText /\ h.lower = {}
             /\ "REVERSE" \in h.upper <=> Has(c, "Reverse") /\ ~Has(c, "Compat")
             /\ "FULLDUPLEX" \in h.upper <=> Has(c, "FullDuplex") /\ ~Has(c, "Compat")
             /\ "EPOCH_START" \in h.upper <=>
                  /\ Has(c, "TxStartTime")
                  /\ (TwoWays(c) /\ ~Has(c, "Compat")) \/ Has(c, "TripTime")
             /\ "TRIPTIME" \in h.upper <=> Has(c, "TripTime")
             /\ "FQRATESET" \in h.upper <=> Has(c, "FQPacing")
             /\ "PERIODICBURST" \notin h.upper
             /\ "ISOCH" \in h.upper <=> Has(c, "Isochronous")
             /\ h.fps = When(Has(c, "Isochronous") /\ TwoWays(c), c.fps)
             /\ h.sent = Max({112 + When(Has(c, "Isochronous") /\ TwoWays(c), 32) - 32
                              + When({"TripTime", "FQPacing", "Isochronous"} \cap c.flags # {}, 32), c.len})
  <1> DEFINE back == Has(c, "Isochronous") /\ TwoWays(c)
             payload == {"TripTime", "FQPacing", "Isochronous"} \cap c.flags # {}
             size == 40 + 24 + When(back, 32) + When(payload, 32) + 16
             tests == {"Isochronous", "UDPL4S", "Reverse", "FullDuplex", "NoUDPfin", "TripTime", "FQPacing",
                       "TxStartTime"} \cap c.flags # {}
             words == {"EXTEND", "LEN_BIT"} \cup (IF WantsMode(c) THEN V1Words(c) ELSE {})
                      \cup (IF tests THEN {"UDPTESTS"} ELSE {}) \cup (IF TwoWays(c) THEN {"VERSION2"} ELSE {})
             upper == (IF Has(c, "Isochronous") THEN {"ISOCH"} ELSE {}) \cup (IF back THEN {"ISOCH_SETTINGS"} ELSE {})
                      \cup (IF Has(c, "UDPL4S") THEN {"UDPL4S"} ELSE {})
                      \cup (IF Has(c, "NoUDPfin") THEN {"NOUDPFIN"} ELSE {})
             h == UDPHeader(c)
  <1>1. /\ h.words = HdrV1(c).words \cup words /\ h.upper = CommonUpper(c) \cup upper
        /\ h.fps = When(back, c.fps) /\ h.sent = Max({size, c.len})
    BY HdrV1Says, SMT DEF UDPHeader, NoHeader
  <1>2. /\ h.amount = HdrV1(c).amount /\ h.timed = HdrV1(c).timed /\ h.port = HdrV1(c).port
        /\ h.cca = HdrV1(c).cca /\ h.lower = HdrV1(c).lower
    BY HdrV1Says, SMT DEF UDPHeader, NoHeader
  <1>3. size = 112 + When(back, 32) - 32 + When(payload, 32)
    BY SMT DEF When
  <1>4. /\ "EXTEND" \in words /\ {"BOUNCEBACK", "SMALL_TRIPTIMES", "V2PEERDETECT", "HASTRANSFERID"} \cap words = {}
        /\ "VERSION1" \in words <=> WantsMode(c)
        /\ "RUN_NOW" \in words <=> WantsMode(c) /\ c.mode = "dual"
        /\ "VERSION2" \in words <=> TwoWays(c)
        /\ "UDPTESTS" \in words <=> tests
    <2> HIDE DEF tests
    <2> QED
      BY SMT DEF V1Words
  <1>5. /\ "ISOCH" \in upper <=> Has(c, "Isochronous")
        /\ {"PERIODICBURST", "REVERSE", "FULLDUPLEX", "EPOCH_START", "TRIPTIME", "FQRATESET"} \cap upper = {}
    BY SMT
  <1>6. /\ "REVERSE" \in CommonUpper(c) <=> Has(c, "Reverse") /\ ~Has(c, "Compat")
        /\ "FULLDUPLEX" \in CommonUpper(c) <=> Has(c, "FullDuplex") /\ ~Has(c, "Compat")
        /\ "EPOCH_START" \in CommonUpper(c) <=>
             /\ Has(c, "TxStartTime")
             /\ (TwoWays(c) /\ ~Has(c, "Compat")) \/ Has(c, "TripTime")
        /\ "TRIPTIME" \in CommonUpper(c) <=> Has(c, "TripTime")
        /\ "FQRATESET" \in CommonUpper(c) <=> Has(c, "FQPacing")
        /\ {"ISOCH", "PERIODICBURST"} \cap CommonUpper(c) = {}
    BY SMT DEF CommonUpper
  <1> HIDE DEF words, upper, size
  <1> QED
    BY <1>1, <1>2, <1>3, <1>4, <1>5, <1>6, HdrV1Says, SMT

\* The three kinds of a first payload that have no header.
LEMMA SmallUDPHeaderSays ==
  ASSUME NEW c
  PROVE  LET h == SmallUDPHeader(c)
         IN  /\ h.words = IF c.len >= 20 THEN {"SMALL_TRIPTIMES"} ELSE {}
             /\ h.upper = IF Has(c, "TxStartTime") THEN {"EPOCH_START"} ELSE {}
             /\ h.lower = {} /\ h.cca = NoText /\ h.sent = c.len /\ h.len = 0
  BY SMT DEF SmallUDPHeader, NoHeader

LEMMA PatternSays ==
  ASSUME NEW c
  PROVE  LET h == Pattern(c)
         IN  /\ h.words = IF ~IsUDP(c) THEN {"KEYCHECK", "UDPTESTS", "LEN_BIT"}
                          ELSE IF c.len >= 20 THEN {"SMALL_TRIPTIMES"} ELSE {}
             /\ h.upper = IF IsUDP(c) THEN {"EPOCH_START"} ELSE {}
             /\ h.lower = {} /\ h.cca = NoText /\ h.sent = c.len /\ h.len = 25
  BY SMT DEF Pattern, NoHeader

LEMMA BounceBackHeaderSays ==
  ASSUME NEW c
  PROVE  LET h == BounceBackHeader(c)
         IN  /\ h.words = {"BOUNCEBACK"} /\ h.lower = {} /\ h.cca = NoText /\ h.sent = c.bbytes
             /\ h.bbytes = c.bbytes /\ h.breply = c.breply
             /\ "BBCLOCKSYNCED" \in h.upper <=> Has(c, "TripTime")
             /\ "BBREPLYSIZE" \in h.upper <=> c.breply > 0 /\ c.breply # c.bbytes
  <1> DEFINE upper == (IF Has(c, "TripTime") THEN {"BBCLOCKSYNCED"} ELSE {})
                      \cup (IF Has(c, "TcpQuickAck") THEN {"BBQUICKACK"} ELSE {})
                      \cup (IF c.breply > 0 /\ c.breply # c.bbytes THEN {"BBREPLYSIZE"} ELSE {})
             h == BounceBackHeader(c)
  <1>1. /\ h.words = {"BOUNCEBACK"} /\ h.lower = {} /\ h.cca = NoText /\ h.sent = c.bbytes
        /\ h.bbytes = c.bbytes /\ h.breply = c.breply /\ h.upper = upper
    BY SMT DEF BounceBackHeader, NoHeader
  <1> QED
    BY <1>1, SMT

-----------------------------------------------------------------------------
(* The listener: apply_client_settings                                     *)

Full(s) == Fields \subseteq DOMAIN s

\* t is s but for the flags and the fields in some.
Others(s, t, some) == Full(t) /\ \A k \in Fields \ (some \cup {"flags"}) : t[k] = s[k]

LEMMA SetSays ==
  ASSUME NEW s, Full(s), NEW fs
  PROVE  /\ \A f : Has(Set(s, fs), f) <=> Has(s, f) \/ f \in fs
         /\ \A f : Has(Unset(s, fs), f) <=> Has(s, f) /\ f \notin fs
         /\ Others(s, Set(s, fs), {}) /\ Others(s, Unset(s, fs), {})
  BY SMT DEF Set, Unset, Has, Full, Fields, Others

\* The version 1 part, the start times and the direction.
LEMMA Apply1Says ==
  ASSUME NEW s, Full(s), NEW h
  PROVE  LET t == Apply1(s, h)
             v1 == "VERSION1" \in h.words
             moded == v1 /\ {"HASTRANSFERID", "VERSION2"} \cap h.words = {}
         IN  /\ \A f : Has(t, f) <=> \/ Has(s, f)
                                     \/ f = "SyncTransferID" /\ v1 /\ "HASTRANSFERID" \in h.words
             /\ Others(s, t, {"mode"})
             /\ t.mode = IF moded THEN IF "RUN_NOW" \in h.words THEN "dual" ELSE "tradeoff" ELSE s.mode
  <1>1. CASE "HASTRANSFERID" \in h.words
    BY <1>1, SetSays, SMT DEF Apply1, Others, Full, Fields
  <1>2. CASE "HASTRANSFERID" \notin h.words
    BY <1>2, SMT DEF Apply1, Has, Others, Full, Fields
  <1> QED
    BY <1>1, <1>2

LEMMA ApplyTimesSays ==
  ASSUME NEW s, Full(s), NEW h
  PROVE  LET t == ApplyTimes(s, h)
         IN  /\ \A f : Has(t, f) <=> \/ Has(s, f)
                                     \/ f = "TxStartTime" /\ "EPOCH_START" \in h.upper
                                     \/ f \in {"TripTime", "Enhanced"} /\ "TRIPTIME" \in h.upper
             /\ Others(s, t, {})
  <1> DEFINE fs == (IF "EPOCH_START" \in h.upper THEN {"TxStartTime"} ELSE {})
                   \cup (IF "TRIPTIME" \in h.upper THEN {"TripTime", "Enhanced"} ELSE {})
  <1>1. ApplyTimes(s, h) = Set(s, fs)
    BY DEF ApplyTimes
  <1>2. \A f : f \in fs <=> \/ f = "TxStartTime" /\ "EPOCH_START" \in h.upper
                            \/ f \in {"TripTime", "Enhanced"} /\ "TRIPTIME" \in h.upper
    BY SMT
  <1> HIDE DEF fs
  <1>3. (\A f : Has(Set(s, fs), f) <=> Has(s, f) \/ f \in fs) /\ Others(s, Set(s, fs), {})
    BY SetSays
  <1> QED
    BY <1>1, <1>2, <1>3, SMT

LEMMA ApplyDirectionSays ==
  ASSUME NEW s, Full(s), NEW h
  PROVE  LET t == ApplyDirection(s, h)
             full == {"VERSION2"} \subseteq h.words /\ {"FULLDUPLEX"} \subseteq h.upper
             back == {"VERSION2"} \subseteq h.words /\ {"REVERSE"} \subseteq h.upper
         IN  /\ \A f : Has(t, f) <=> \/ Has(s, f)
                                     \/ f = "FullDuplex" /\ full
                                     \/ f = "ServerReverse" /\ (full \/ back)
             /\ Others(s, t, {"thread"})
             /\ t.thread = IF back THEN "client" ELSE s.thread
  <1> DEFINE fully == "FULLDUPLEX" \in h.upper
             u == IF fully THEN Set(s, {"FullDuplex", "ServerReverse"}) ELSE s
             c == [u EXCEPT !.thread = "client"]
             v == Set(c, {"ServerReverse"})
  <1>1. ApplyDirection(s, h) = IF "VERSION2" \notin h.words THEN s ELSE IF "REVERSE" \in h.upper THEN v ELSE u
    BY Zenon DEF ApplyDirection
  <1>2. /\ \A f : Has(u, f) <=> Has(s, f) \/ (fully /\ f \in {"FullDuplex", "ServerReverse"})
        /\ Others(s, u, {}) /\ Full(u)
    <2>1. Others(s, s, {})
      BY DEF Others, Full
    <2>2. /\ \A f : Has(Set(s, {"FullDuplex", "ServerReverse"}), f)
                   <=> Has(s, f) \/ f \in {"FullDuplex", "ServerReverse"}
          /\ Others(s, Set(s, {"FullDuplex", "ServerReverse"}), {})
      BY SetSays
    <2> HIDE DEF fully
    <2> QED
      BY <2>1, <2>2, Zenon DEF Others
  <1> HIDE DEF u
  <1>3. /\ \A f : Has(c, f) <=> Has(u, f)
        /\ Others(u, c, {"thread"}) /\ c.thread = "client" /\ Full(c)
    BY <1>2, SMT DEF Others, Full, Fields, Has
  <1>4. u.thread = s.thread /\ Others(s, u, {"thread"}) /\ Others(s, s, {"thread"})
    BY <1>2, SMT DEF Others, Fields, Full
  <1> HIDE DEF c
  <1>5. /\ \A f : Has(v, f) <=> Has(c, f) \/ f = "ServerReverse"
        /\ Others(c, v, {}) /\ v.thread = "client"
    <2>1. Others(c, v, {})
      BY <1>3, SetSays
    <2>2. v.thread = c.thread
      BY <2>1, SMT DEF Others, Fields
    <2>3. \A f : f \in {"ServerReverse"} <=> f = "ServerReverse"
      OBVIOUS
    <2> QED
      BY <1>3, <2>1, <2>2, <2>3, SetSays, Zenon
  <1>6. Others(s, v, {"thread"})
    BY <1>2, <1>3, <1>5, SMT DEF Others
  <1> HIDE DEF v
  <1>7. "VERSION2" \in h.words <=> {"VERSION2"} \subseteq h.words
    OBVIOUS
  <1>8. /\ "FULLDUPLEX" \in h.upper <=> {"FULLDUPLEX"} \subseteq h.upper
        /\ "REVERSE" \in h.upper <=> {"REVERSE"} \subseteq h.upper
    OBVIOUS
  <1>9. \A f : f \in {"FullDuplex", "ServerReverse"} <=> f = "FullDuplex" \/ f = "ServerReverse"
    OBVIOUS
  <1> QED
    BY <1>1, <1>2, <1>3, <1>4, <1>5, <1>6, <1>7, <1>8, <1>9, Zenon

\* The flags that a listener takes from a header and that do not matter here.
Aside == {"Enhanced", "FrameInterval", "CongestionControl", "SyncTransferID", "TxStartTime", "WritePrefetch",
          "TcpQuickAck", "IPV6", "NoUDPfin", "UDPL4S"}

Full2(h) == {"VERSION2"} \subseteq h.words /\ {"FULLDUPLEX"} \subseteq h.upper
Back2(h) == {"VERSION2"} \subseteq h.words /\ {"REVERSE"} \subseteq h.upper
Mode1(h) == IF "VERSION1" \in h.words /\ {"HASTRANSFERID", "VERSION2"} \cap h.words = {}
            THEN IF "RUN_NOW" \in h.words THEN "dual" ELSE "tradeoff" ELSE "normal"

\* The flags of t beside those of s.
More(s, t, fs) == \A f : f \notin Aside => (Has(t, f) <=> Has(s, f) \/ f \in fs)

\* The flags that both protocols take over.
Told(h) == (IF "TRIPTIME" \in h.upper THEN {"TripTime"} ELSE {})
           \cup (IF Full2(h) THEN {"FullDuplex"} ELSE {})
           \cup (IF Full2(h) \/ Back2(h) THEN {"ServerReverse"} ELSE {})

LEMMA MoreSet ==
  ASSUME NEW s, Full(s), NEW fs, NEW ts, \A f : f \notin Aside => (f \in fs <=> f \in ts)
  PROVE  More(s, Set(s, fs), ts) /\ Others(s, Set(s, fs), {})
  BY SetSays, Zenon DEF More

\* The mode and the direction that a header asks for.
LEMMA Mode1Says ==
  ASSUME NEW s, Full(s), NEW h
  PROVE  LET t == Apply1(s, h)
         IN  /\ More(s, t, {}) /\ Others(s, t, {"mode"})
             /\ s.mode = "normal" => t.mode = Mode1(h)
  <1>1. \A f : Has(Apply1(s, h), f) <=> \/ Has(s, f)
                                        \/ /\ f = "SyncTransferID" /\ "VERSION1" \in h.words
                                           /\ "HASTRANSFERID" \in h.words
    BY Apply1Says, Zenon
  <1>2. "SyncTransferID" \in Aside
    BY DEF Aside
  <1> QED
    BY <1>1, <1>2, Apply1Says, Zenon DEF More, Mode1

LEMMA DirectionSays ==
  ASSUME NEW s, Full(s), NEW h
  PROVE  LET t == ApplyDirection(ApplyTimes(Apply1(s, h), h), h)
         IN  /\ More(s, t, Told(h)) /\ Others(s, t, {"mode", "thread"})
             /\ s.mode = "normal" => t.mode = Mode1(h)
             /\ t.thread = IF Back2(h) THEN "client" ELSE s.thread
  <1> DEFINE a == Apply1(s, h)
             b == ApplyTimes(a, h)
             t == ApplyDirection(b, h)
             timed == IF "TRIPTIME" \in h.upper THEN {"TripTime"} ELSE {}
             ways == (IF Full2(h) THEN {"FullDuplex"} ELSE {})
                     \cup (IF Full2(h) \/ Back2(h) THEN {"ServerReverse"} ELSE {})
  <1>1. More(s, a, {}) /\ Others(s, a, {"mode"}) /\ (s.mode = "normal" => a.mode = Mode1(h)) /\ Full(a)
    BY Mode1Says, Zenon DEF Others
  <1> HIDE DEF a
  <1>2. More(a, b, timed) /\ Others(a, b, {}) /\ Full(b)
    <2>1. /\ \A f : Has(b, f) <=> \/ Has(a, f)
                                  \/ f = "TxStartTime" /\ "EPOCH_START" \in h.upper
                                  \/ f \in {"TripTime", "Enhanced"} /\ "TRIPTIME" \in h.upper
          /\ Others(a, b, {})
      BY <1>1, ApplyTimesSays
    <2>2. {"TxStartTime", "Enhanced"} \subseteq Aside
      BY DEF Aside
    <2> HIDE DEF b
    <2> QED
      BY <2>1, <2>2, SMT DEF More, Others
  <1> HIDE DEF b
  <1>3. More(b, t, ways) /\ Others(b, t, {"thread"}) /\ t.thread = IF Back2(h) THEN "client" ELSE b.thread
    <2>1. /\ \A f : Has(t, f) <=> \/ Has(b, f)
                                  \/ f = "FullDuplex" /\ Full2(h)
                                  \/ f = "ServerReverse" /\ (Full2(h) \/ Back2(h))
          /\ Others(b, t, {"thread"}) /\ t.thread = IF Back2(h) THEN "client" ELSE b.thread
      BY <1>2, ApplyDirectionSays, Zenon DEF Full2, Back2
    <2> HIDE DEF t
    <2>2. \A f : f \in ways <=> (f = "FullDuplex" /\ Full2(h)) \/ (f = "ServerReverse" /\ (Full2(h) \/ Back2(h)))
      BY SMT
    <2> HIDE DEF ways
    <2> QED
      BY <2>1, <2>2, Zenon DEF More
  <1>4. Told(h) = timed \cup ways
    BY Zenon DEF Told
  <1> HIDE DEF t, timed, ways
  <1>5. More(s, t, Told(h))
    BY <1>1, <1>2, <1>3, <1>4, SMT DEF More
  <1>6. Others(s, t, {"mode", "thread"}) /\ t.mode = a.mode /\ b.thread = s.thread
    BY <1>1, <1>2, <1>3, SMT DEF Others, Fields
  <1>7. t = ApplyDirection(ApplyTimes(Apply1(s, h), h), h)
    BY DEF t, b, a
  <1> QED
    BY <1>1, <1>3, <1>5, <1>6, <1>7, Zenon

\* Nothing changed.
LEMMA OthersItself == ASSUME NEW s, Full(s) PROVE Others(s, s, {}) /\ More(s, s, {})
  BY Zenon DEF Others, Full, More

\* What a TCP listener takes over.
LEMMA ApplyTCPSays ==
  ASSUME NEW s, Full(s), s.mode = "normal", NEW h, "EXTEND" \in h.words
  PROVE  LET t == ApplyTCP(s, h)
         IN  /\ More(s, t, Told(h) \cup (IF "PERIODICBURST" \in h.upper THEN {"PeriodicBurst"} ELSE {})
                               \cup (IF "ISOCH" \in h.upper THEN {"Isochronous"} ELSE {}))
             /\ Others(s, t, {"fps", "cca", "tos", "mode", "thread"})
             /\ t.mode = Mode1(h) /\ t.thread = IF Back2(h) THEN "client" ELSE s.thread
             /\ t.fps = IF "PERIODICBURST" \in h.upper THEN IF h.fps = 0 THEN 1 ELSE h.fps ELSE s.fps
             /\ t.cca = IF "CCA" \in h.lower /\ ~Has(s, "CongestionControl") THEN h.cca ELSE s.cca
  <1> DEFINE rate == IF h.fps = 0 THEN 1 ELSE h.fps
             bursts == {"Enhanced", "FrameInterval", "PeriodicBurst"}
             controls == {"CongestionControl", "Enhanced"}
             p == [s EXCEPT !.fps = rate]
             burst == IF "PERIODICBURST" \in h.upper THEN Set(p, bursts) ELSE s
             k == [burst EXCEPT !.cca = h.cca]
             cca == IF "CCA" \in h.lower /\ ~Has(s, "CongestionControl") THEN Set(k, controls) ELSE burst
             frames == IF "ISOCH" \in h.upper THEN Set(cca, {"Isochronous"}) ELSE cca
             o == [frames EXCEPT !.tos = h.tos]
             back == ApplyDirection(ApplyTimes(Apply1(o, h), h), h)
             prefetch == "WRITEPREFETCH" \in h.upper /\ {"ServerReverse", "FullDuplex"} \cap back.flags # {}
             fs == (IF prefetch THEN {"WritePrefetch"} ELSE {})
                   \cup (IF "TCPQUICKACK" \in h.upper THEN {"TcpQuickAck"} ELSE {})
             pb == IF "PERIODICBURST" \in h.upper THEN {"PeriodicBurst"} ELSE {}
             iso == IF "ISOCH" \in h.upper THEN {"Isochronous"} ELSE {}
  <1>1. ApplyTCP(s, h) = Set(back, fs)
    BY Zenon DEF ApplyTCP
  <1>2. More(s, burst, pb) /\ Others(s, burst, {"fps"}) /\ Full(burst)
        /\ burst.fps = IF "PERIODICBURST" \in h.upper THEN rate ELSE s.fps
    <2>1. CASE "PERIODICBURST" \in h.upper
      <3>1. More(s, p, {}) /\ Others(s, p, {"fps"}) /\ p.fps = rate /\ Full(p)
        BY SMT DEF More, Others, Full, Fields, Has
      <3>2. \A f : f \notin Aside => (f \in bursts <=> f \in {"PeriodicBurst"})
        BY SMT DEF Aside
      <3> HIDE DEF p, bursts
      <3>3. More(p, Set(p, bursts), {"PeriodicBurst"}) /\ Others(p, Set(p, bursts), {})
        BY <3>1, <3>2, MoreSet
      <3>4. More(s, Set(p, bursts), {"PeriodicBurst"}) /\ Others(s, Set(p, bursts), {"fps"})
        BY <3>1, <3>3, SMT DEF More, Others
      <3>5. Set(p, bursts).fps = p.fps
        BY <3>3, SMT DEF Others, Fields
      <3> QED
        BY <2>1, <3>1, <3>4, <3>5, Zenon DEF Others
    <2>2. CASE "PERIODICBURST" \notin h.upper
      BY <2>2, OthersItself, SMT DEF Others
    <2> QED
      BY <2>1, <2>2
  <1> HIDE DEF burst
  <1>3. More(burst, cca, {}) /\ Others(burst, cca, {"cca"}) /\ Full(cca)
        /\ cca.cca = IF "CCA" \in h.lower /\ ~Has(s, "CongestionControl") THEN h.cca ELSE s.cca
    <2>1. CASE "CCA" \in h.lower /\ ~Has(s, "CongestionControl")
      <3>1. More(burst, k, {}) /\ Others(burst, k, {"cca"}) /\ k.cca = h.cca /\ Full(k)
        BY <1>2, SMT DEF More, Others, Full, Fields, Has
      <3>2. \A f : f \notin Aside => (f \in controls <=> f \in {})
        BY SMT DEF Aside
      <3> HIDE DEF k, controls
      <3>3. More(k, Set(k, controls), {}) /\ Others(k, Set(k, controls), {})
        BY <3>1, <3>2, MoreSet
      <3>4. More(burst, Set(k, controls), {}) /\ Others(burst, Set(k, controls), {"cca"})
        BY <3>1, <3>3, SMT DEF More, Others
      <3>5. Set(k, controls).cca = k.cca
        BY <3>3, SMT DEF Others, Fields
      <3> QED
        BY <2>1, <3>1, <3>4, <3>5, Zenon DEF Others
    <2>2. CASE ~("CCA" \in h.lower /\ ~Has(s, "CongestionControl"))
      BY <1>2, <2>2, OthersItself, SMT DEF Others, Fields
    <2> QED
      BY <2>1, <2>2
  <1> HIDE DEF cca
  <1>4. More(cca, frames, iso) /\ Others(cca, frames, {}) /\ Full(frames)
    <2>1. More(cca, Set(cca, {"Isochronous"}), {"Isochronous"}) /\ Others(cca, Set(cca, {"Isochronous"}), {})
      BY <1>3, MoreSet
    <2> QED
      BY <1>3, <2>1, OthersItself, Zenon DEF Others
  <1> HIDE DEF frames
  <1>5. More(frames, o, {}) /\ Others(frames, o, {"tos"}) /\ Full(o)
    BY <1>4, SMT DEF More, Others, Full, Fields, Has
  <1>6. o.mode = "normal"
    BY <1>2, <1>3, <1>4, <1>5, SMT DEF Others, Fields
  <1> HIDE DEF o
  <1>7. /\ More(o, back, Told(h)) /\ Others(o, back, {"mode", "thread"}) /\ back.mode = Mode1(h)
        /\ back.thread = (IF Back2(h) THEN "client" ELSE o.thread) /\ Full(back)
    <2>1. /\ More(o, back, Told(h)) /\ Others(o, back, {"mode", "thread"})
          /\ back.mode = Mode1(h) /\ back.thread = IF Back2(h) THEN "client" ELSE o.thread
      BY <1>5, <1>6, DirectionSays
    <2> QED
      BY <2>1, Zenon DEF Others
  <1> HIDE DEF back
  <1>8. More(back, Set(back, fs), {}) /\ Others(back, Set(back, fs), {})
    <2>1. \A f : f \notin Aside => (f \in fs <=> f \in {})
      BY SMT DEF Aside
    <2> HIDE DEF fs
    <2> QED
      BY <1>7, <2>1, MoreSet
  <1> DEFINE t == Set(back, fs)
  <1> HIDE DEF t, fs
  <1>9. More(s, t, Told(h) \cup pb \cup iso)
    BY <1>2, <1>3, <1>4, <1>5, <1>7, <1>8, SMT DEF More, t
  <1>10. Others(s, t, {"fps", "cca", "tos", "mode", "thread"})
    BY <1>2, <1>3, <1>4, <1>5, <1>7, <1>8, SMT DEF Others, t
  <1>11. t.mode = back.mode /\ t.thread = back.thread /\ t.fps = burst.fps /\ t.cca = cca.cca /\ o.thread = s.thread
    BY <1>2, <1>3, <1>4, <1>5, <1>7, <1>8, SMT DEF Others, Fields, t
  <1>12. ApplyTCP(s, h) = t
    BY <1>1 DEF t
  <1> QED
    BY <1>2, <1>3, <1>7, <1>9, <1>10, <1>11, <1>12, Zenon

\* What a listener takes over from a datagram with only a send time, and from one
\* with a header.
LEMMA ApplyUDPSmallSays ==
  ASSUME NEW s, Full(s), NEW h, "SMALL_TRIPTIMES" \in h.words
  PROVE  More(s, ApplyUDP(s, h), {"TripTime"}) /\ Others(s, ApplyUDP(s, h), {})
  <1> DEFINE t == ApplyTimes(s, h)
             u == Set(t, {"TripTime", "Enhanced"})
  <1>1. ApplyUDP(s, h) = u
    BY Zenon DEF ApplyUDP
  <1>2. /\ \A f : Has(t, f) <=> \/ Has(s, f)
                                \/ f = "TxStartTime" /\ "EPOCH_START" \in h.upper
                                \/ f \in {"TripTime", "Enhanced"} /\ "TRIPTIME" \in h.upper
        /\ Others(s, t, {})
    BY ApplyTimesSays
  <1>3. Full(t)
    BY <1>2, Zenon DEF Others
  <1> HIDE DEF t
  <1>4. (\A f : Has(u, f) <=> Has(t, f) \/ f \in {"TripTime", "Enhanced"}) /\ Others(t, u, {})
    BY <1>3, SetSays
  <1>5. {"Enhanced", "TxStartTime"} \subseteq Aside
    BY DEF Aside
  <1> HIDE DEF u
  <1> QED
    BY <1>1, <1>2, <1>4, <1>5, SMT DEF More, Others

\* What a UDP listener takes over, and what a bounceback makes of a TCP listener.
LEMMA ApplyUDPSays ==
  ASSUME NEW s, Full(s), s.mode = "normal", NEW h, "SMALL_TRIPTIMES" \notin h.words, "EXTEND" \in h.words
  PROVE  LET t == ApplyUDP(s, h)
         IN  /\ More(s, t, Told(h) \cup (IF "UDPTESTS" \in h.words /\ "ISOCH" \in h.upper
                                         THEN {"Isochronous"} ELSE {}))
             /\ Others(s, t, {"tos", "mode", "thread"})
             /\ t.mode = Mode1(h) /\ t.thread = IF Back2(h) THEN "client" ELSE s.thread
  <1> DEFINE fs == (IF "ISOCH" \in h.upper THEN {"Isochronous"} ELSE {})
                   \cup (IF "NOUDPFIN" \in h.upper THEN {"NoUDPfin"} ELSE {})
                   \cup (IF "UDPL4S" \in h.upper THEN {"UDPL4S"} ELSE {})
             ts == IF "ISOCH" \in h.upper THEN {"Isochronous"} ELSE {}
             iso == IF "UDPTESTS" \in h.words /\ "ISOCH" \in h.upper THEN {"Isochronous"} ELSE {}
             v4 == Unset(s, {"IPV6"})
             tests == IF "UDPTESTS" \notin h.words THEN s ELSE Set(v4, fs)
             back == IF "VERSION2" \in h.words /\ "REVERSE" \in h.upper THEN Set(tests, {"NoUDPfin"}) ELSE tests
             o == [back EXCEPT !.tos = h.tos]
             t == ApplyDirection(ApplyTimes(Apply1(o, h), h), h)
  <1>1. ApplyUDP(s, h) = t
    BY Zenon DEF ApplyUDP
  <1>2. More(s, v4, {}) /\ Others(s, v4, {}) /\ Full(v4)
    <2>1. (\A f : Has(v4, f) <=> Has(s, f) /\ f \notin {"IPV6"}) /\ Others(s, v4, {})
      BY SetSays
    <2>2. "IPV6" \in Aside
      BY DEF Aside
    <2> HIDE DEF v4
    <2> QED
      BY <2>1, <2>2, SMT DEF More, Others
  <1> HIDE DEF v4
  <1>3. \A f : f \notin Aside => (f \in fs <=> f \in ts)
    BY SMT DEF Aside
  <1> HIDE DEF fs
  <1>4. More(s, tests, iso) /\ Others(s, tests, {}) /\ Full(tests)
    <2>1. More(v4, Set(v4, fs), ts) /\ Others(v4, Set(v4, fs), {})
      <3> HIDE DEF ts
      <3> QED
        BY <1>2, <1>3, MoreSet
    <2>2. CASE "UDPTESTS" \in h.words
      <3>1. tests = Set(v4, fs) /\ iso = ts
        BY <2>2, Zenon
      <3> HIDE DEF tests, ts, iso
      <3> QED
        BY <1>2, <2>1, <3>1, SMT DEF More, Others
    <2>3. CASE "UDPTESTS" \notin h.words
      BY <2>3, OthersItself, SMT DEF Others
    <2> QED
      BY <2>2, <2>3
  <1> HIDE DEF tests
  <1>5. More(tests, back, {}) /\ Others(tests, back, {}) /\ Full(back)
    <2>1. \A f : f \notin Aside => (f \in {"NoUDPfin"} <=> f \in {})
      BY SMT DEF Aside
    <2>2. More(tests, Set(tests, {"NoUDPfin"}), {}) /\ Others(tests, Set(tests, {"NoUDPfin"}), {})
      BY <1>4, <2>1, MoreSet
    <2> QED
      BY <1>4, <2>2, OthersItself, Zenon DEF Others
  <1> HIDE DEF back
  <1>6. More(back, o, {}) /\ Others(back, o, {"tos"}) /\ Full(o)
    BY <1>5, SMT DEF More, Others, Full, Fields, Has
  <1>7. o.mode = "normal" /\ o.thread = s.thread
    BY <1>4, <1>5, <1>6, SMT DEF Others, Fields
  <1> HIDE DEF o
  <1>8. /\ More(o, t, Told(h)) /\ Others(o, t, {"mode", "thread"})
        /\ t.mode = Mode1(h) /\ t.thread = IF Back2(h) THEN "client" ELSE o.thread
    BY <1>6, <1>7, DirectionSays
  <1> HIDE DEF t, iso
  <1>9. More(s, t, Told(h) \cup iso)
    BY <1>4, <1>5, <1>6, <1>8, SMT DEF More
  <1>10. Others(s, t, {"tos", "mode", "thread"})
    BY <1>4, <1>5, <1>6, <1>8, SMT DEF Others
  <1> QED
    BY <1>1, <1>7, <1>8, <1>9, <1>10, Zenon DEF iso

LEMMA ApplyBounceBackSays ==
  ASSUME NEW s, Full(s), NEW h
  PROVE  LET t == ApplyBounceBack(s, h)
         IN  /\ \A f : f \notin Aside \cup {"ModeTime"} =>
                  (Has(t, f) <=> \/ Has(s, f) \/ f = "BounceBack"
                                 \/ f = "TripTime" /\ "BBCLOCKSYNCED" \in h.upper)
             /\ Others(s, t, {"bbytes", "breply", "len", "tos"})
             /\ t.bbytes = h.bbytes /\ t.breply = IF "BBREPLYSIZE" \in h.upper THEN h.breply ELSE h.bbytes
  <1> DEFINE reply == IF "BBREPLYSIZE" \in h.upper THEN h.breply ELSE h.bbytes
             longer == Max({s.len, h.bbytes, reply})
             tos == IF h.tos # 0 THEN h.tos ELSE s.tos
             flags == IF Has(s, "ServerModeTime") THEN s.flags ELSE s.flags \ {"ModeTime"}
             u == [s EXCEPT !.bbytes = h.bbytes, !.breply = reply, !.len = longer, !.tos = tos, !.flags = flags]
             fs == {"BounceBack"} \cup (IF "BBCLOCKSYNCED" \in h.upper THEN {"TripTime"} ELSE {})
                                  \cup (IF "BBQUICKACK" \in h.upper THEN {"TcpQuickAck"} ELSE {})
  <1>1. ApplyBounceBack(s, h) = Set(u, fs)
    BY SMT DEF ApplyBounceBack, Full, Fields
  <1> HIDE DEF reply, longer, tos
  <1>2. /\ \A f : f # "ModeTime" => (Has(u, f) <=> Has(s, f))
        /\ Others(s, u, {"bbytes", "breply", "len", "tos"}) /\ u.bbytes = h.bbytes /\ u.breply = reply
        /\ Full(u)
    <2>1. \A f : f # "ModeTime" => (f \in flags <=> Has(s, f))
      BY SMT DEF Has
    <2> HIDE DEF flags
    <2>2. u.flags = flags
      BY SMT DEF Full, Fields
    <2>3. \A f : Has(u, f) <=> f \in flags
      BY <2>2, Zenon DEF Has
    <2>4. u.bbytes = h.bbytes /\ u.breply = reply
      BY SMT DEF Full, Fields
    <2>5. /\ DOMAIN u = DOMAIN s
          /\ \A k \in DOMAIN s : k \notin {"bbytes", "breply", "len", "tos", "flags"} => u[k] = s[k]
      <3> DEFINE a == [s EXCEPT !.bbytes = h.bbytes]
                 b == [a EXCEPT !.breply = reply]
                 c == [b EXCEPT !.len = longer]
                 d == [c EXCEPT !.tos = tos]
      <3>1. u = [d EXCEPT !.flags = flags]
        OBVIOUS
      <3>2. /\ DOMAIN a = DOMAIN s /\ DOMAIN b = DOMAIN a /\ DOMAIN c = DOMAIN b /\ DOMAIN d = DOMAIN c
            /\ \A k \in DOMAIN s : k # "bbytes" => a[k] = s[k]
        BY SMT
      <3> HIDE DEF a
      <3>3. \A k \in DOMAIN a : k # "breply" => b[k] = a[k]
        BY SMT
      <3> HIDE DEF b
      <3>4. \A k \in DOMAIN b : k # "len" => c[k] = b[k]
        BY SMT
      <3> HIDE DEF c
      <3>5. \A k \in DOMAIN c : k # "tos" => d[k] = c[k]
        BY SMT
      <3> HIDE DEF d, u
      <3>6. DOMAIN u = DOMAIN d /\ \A k \in DOMAIN d : k # "flags" => u[k] = d[k]
        BY <3>1, SMT
      <3> QED
        BY <3>2, <3>3, <3>4, <3>5, <3>6, SMT
    <2>6. Others(s, u, {"bbytes", "breply", "len", "tos"}) /\ Full(u)
      <3> HIDE DEF u
      <3> QED
        BY <2>5, SMT DEF Others, Full
    <2> QED
      BY <2>1, <2>3, <2>4, <2>6, Zenon
  <1>3. \A f : f \notin Aside => (f \in fs <=> f = "BounceBack" \/ (f = "TripTime" /\ "BBCLOCKSYNCED" \in h.upper))
    BY SMT DEF Aside
  <1> HIDE DEF u, fs
  <1>4. (\A f : Has(Set(u, fs), f) <=> Has(u, f) \/ f \in fs) /\ Others(u, Set(u, fs), {})
    BY <1>2, SetSays
  <1> DEFINE t == Set(u, fs)
  <1> HIDE DEF t
  <1>5. \A f : f \notin Aside \cup {"ModeTime"} =>
               (Has(t, f) <=> \/ Has(s, f) \/ f = "BounceBack"
                              \/ f = "TripTime" /\ "BBCLOCKSYNCED" \in h.upper)
    BY <1>2, <1>3, <1>4, SMT DEF t
  <1>6. Others(s, t, {"bbytes", "breply", "len", "tos"}) /\ t.bbytes = u.bbytes /\ t.breply = u.breply
    BY <1>2, <1>4, SMT DEF Others, Fields, t
  <1> QED
    BY <1>1, <1>2, <1>5, <1>6, Zenon DEF t, reply

-----------------------------------------------------------------------------
(* The listener: Settings_GenerateClientSettings                           *)

\* The flags of the sender that a listener starts which are not those of its settings.
Anew == {"FullDuplex", "ModeTime", "BuflenSet", "FQPacing", "NoUDPfin", "ServerReverse", "TxHoldback",
         "NoSettReport", "NoConnectSync"}

\* t is s with other flags of the set fs.
Within(s, t, fs) == \A f : f \notin fs => (Has(t, f) <=> Has(s, f))

\* The two parts of a header that the sender of a listener reads.
LEMMA ReadV1Says ==
  ASSUME NEW s, Full(s), NEW h
  PROVE  LET t == ReadV1(s, h)
         IN  /\ Within(s, t, {"ModeTime", "BuflenSet"}) /\ (Has(t, "ModeTime") <=> h.timed)
             /\ Others(s, t, {"port", "threads", "amount", "thread", "len"})
             /\ t.port = h.port /\ t.amount = h.amount /\ t.thread = "client"
  <1> DEFINE len == IF h.buflen # 0 THEN h.buflen ELSE s.len
             a == [s EXCEPT !.port = h.port]
             b == [a EXCEPT !.threads = 1]
             c == [b EXCEPT !.amount = h.amount]
             d == [c EXCEPT !.thread = "client"]
             e == [d EXCEPT !.len = len]
             u == Unset(e, {"ModeTime"})
             fs == (IF h.buflen # 0 THEN {"BuflenSet"} ELSE {}) \cup (IF h.timed THEN {"ModeTime"} ELSE {})
             t == Set(u, fs)
  <1>1. ReadV1(s, h) = t
    <2>1. e = [s EXCEPT !.port = h.port, !.threads = 1, !.amount = h.amount, !.thread = "client",
                        !.len = IF h.buflen # 0 THEN h.buflen ELSE @]
      BY SMT DEF Full, Fields
    <2> HIDE DEF e
    <2> QED
      BY <2>1, Zenon DEF ReadV1
  <1> HIDE DEF len
  <1>2. /\ \A f : Has(e, f) <=> Has(s, f)
        /\ Others(s, e, {"port", "threads", "amount", "thread", "len"}) /\ Full(e)
        /\ e.port = h.port /\ e.amount = h.amount /\ e.thread = "client"
    <2>1. (\A f : Has(a, f) <=> Has(s, f)) /\ Others(s, a, {"port"}) /\ Full(a) /\ a.port = h.port
      BY SMT DEF Full, Fields, Others, Has
    <2> HIDE DEF a
    <2>2. (\A f : Has(b, f) <=> Has(a, f)) /\ Others(a, b, {"threads"}) /\ Full(b)
      BY <2>1, SMT DEF Full, Fields, Others, Has
    <2> HIDE DEF b
    <2>3. (\A f : Has(c, f) <=> Has(b, f)) /\ Others(b, c, {"amount"}) /\ Full(c) /\ c.amount = h.amount
      BY <2>2, SMT DEF Full, Fields, Others, Has
    <2> HIDE DEF c
    <2>4. (\A f : Has(d, f) <=> Has(c, f)) /\ Others(c, d, {"thread"}) /\ Full(d) /\ d.thread = "client"
      BY <2>3, SMT DEF Full, Fields, Others, Has
    <2> HIDE DEF d
    <2>5. (\A f : Has(e, f) <=> Has(d, f)) /\ Others(d, e, {"len"}) /\ Full(e)
      BY <2>4, SMT DEF Full, Fields, Others, Has
    <2> HIDE DEF e
    <2>6. \A f : Has(e, f) <=> Has(s, f)
      BY <2>1, <2>2, <2>3, <2>4, <2>5, Zenon
    <2>7. Others(s, e, {"port", "threads", "amount", "thread", "len"})
      BY <2>1, <2>2, <2>3, <2>4, <2>5, SMT DEF Others
    <2>8. e.port = a.port /\ e.amount = c.amount /\ e.thread = d.thread
      BY <2>1, <2>2, <2>3, <2>4, <2>5, SMT DEF Others, Fields
    <2> QED
      BY <2>1, <2>3, <2>4, <2>5, <2>6, <2>7, <2>8, Zenon
  <1> HIDE DEF e
  <1>3. (\A f : Has(u, f) <=> Has(e, f) /\ f \notin {"ModeTime"}) /\ Others(e, u, {}) /\ Full(u)
    <2>1. (\A f : Has(u, f) <=> Has(e, f) /\ f \notin {"ModeTime"}) /\ Others(e, u, {})
      BY <1>2, SetSays
    <2> QED
      BY <2>1, Zenon DEF Others
  <1> HIDE DEF u
  <1>4. \A f : f \in fs <=> (f = "BuflenSet" /\ h.buflen # 0) \/ (f = "ModeTime" /\ h.timed)
    BY SMT
  <1> HIDE DEF fs
  <1>5. (\A f : Has(t, f) <=> Has(u, f) \/ f \in fs) /\ Others(u, t, {})
    BY <1>3, SetSays
  <1> HIDE DEF t
  <1>6. Within(s, t, {"ModeTime", "BuflenSet"}) /\ (Has(t, "ModeTime") <=> h.timed)
    BY <1>2, <1>3, <1>4, <1>5, SMT DEF Within
  <1>7. Others(s, t, {"port", "threads", "amount", "thread", "len"})
    BY <1>2, <1>3, <1>5, SMT DEF Others
  <1>8. t.port = e.port /\ t.amount = e.amount /\ t.thread = e.thread
    BY <1>3, <1>5, SMT DEF Others, Fields
  <1> QED
    BY <1>1, <1>2, <1>6, <1>7, <1>8, Zenon

LEMMA ReadExtendSays ==
  ASSUME NEW s, Full(s), NEW h
  PROVE  LET t == ReadExtend(s, h)
             frames == Has(s, "Isochronous") \/ (Has(s, "PeriodicBurst") /\ ~IsUDP(s))
         IN  /\ Within(s, t, {"FQPacing", "NoUDPfin"}) /\ Others(s, t, {"rate", "tos", "fps"})
             /\ t.fps = IF "EXTEND" \in h.words /\ frames THEN h.fps ELSE s.fps
  <1> DEFINE frames == Has(s, "Isochronous") \/ (Has(s, "PeriodicBurst") /\ ~IsUDP(s))
             fps == IF frames THEN h.fps ELSE s.fps
             a == [s EXCEPT !.rate = h.rate]
             b == [a EXCEPT !.tos = h.tos]
             e == [b EXCEPT !.fps = fps]
             fs == (IF "FQRATESET" \in h.upper THEN {"FQPacing"} ELSE {})
                   \cup (IF "NOUDPFIN" \in h.upper THEN {"NoUDPfin"} ELSE {})
             t == Set(e, fs)
  <1>1. ReadExtend(s, h) = IF "EXTEND" \notin h.words THEN s ELSE t
    <2>1. e = [s EXCEPT !.rate = h.rate, !.tos = h.tos, !.fps = IF frames THEN h.fps ELSE @]
      BY SMT DEF Full, Fields
    <2> HIDE DEF e
    <2> QED
      BY <2>1, Zenon DEF ReadExtend
  <1>2. CASE "EXTEND" \notin h.words
    BY <1>1, <1>2, OthersItself, SMT DEF Within, Others
  <1> HIDE DEF frames, fps
  <1>3. (\A f : Has(e, f) <=> Has(s, f)) /\ Others(s, e, {"rate", "tos", "fps"}) /\ Full(e) /\ e.fps = fps
    <2>1. (\A f : Has(a, f) <=> Has(s, f)) /\ Others(s, a, {"rate"}) /\ Full(a)
      BY SMT DEF Full, Fields, Others, Has
    <2> HIDE DEF a
    <2>2. (\A f : Has(b, f) <=> Has(a, f)) /\ Others(a, b, {"tos"}) /\ Full(b)
      BY <2>1, SMT DEF Full, Fields, Others, Has
    <2> HIDE DEF b
    <2>3. (\A f : Has(e, f) <=> Has(b, f)) /\ Others(b, e, {"fps"}) /\ Full(e) /\ e.fps = fps
      BY <2>2, SMT DEF Full, Fields, Others, Has
    <2> HIDE DEF e
    <2> QED
      BY <2>1, <2>2, <2>3, SMT DEF Others
  <1> HIDE DEF e
  <1>4. \A f : f \in fs => f \in {"FQPacing", "NoUDPfin"}
    BY SMT
  <1> HIDE DEF fs
  <1>5. (\A f : Has(t, f) <=> Has(e, f) \/ f \in fs) /\ Others(e, t, {})
    BY <1>3, SetSays
  <1> HIDE DEF t
  <1>6. Within(s, t, {"FQPacing", "NoUDPfin"}) /\ Others(s, t, {"rate", "tos", "fps"}) /\ t.fps = fps
    <2>1. Within(s, t, {"FQPacing", "NoUDPfin"})
      BY <1>3, <1>4, <1>5, Zenon DEF Within
    <2>2. Others(s, t, {"rate", "tos", "fps"}) /\ t.fps = e.fps
      BY <1>3, <1>5, SMT DEF Others, Fields
    <2> QED
      BY <1>3, <2>1, <2>2
  <1>7. CASE "EXTEND" \in h.words
    BY <1>1, <1>6, <1>7, Zenon DEF fps, frames
  <1> QED
    BY <1>2, <1>7

\* The sender that a listener starts.
LEMMA ClientSettingsSays ==
  ASSUME NEW s, Full(s), NEW h
  PROVE  LET t == ClientSettings(s, h)
             frames == Has(s, "Isochronous") \/ (Has(s, "PeriodicBurst") /\ ~IsUDP(s))
         IN  /\ Within(s, t, Anew) /\ (Has(t, "ModeTime") <=> h.timed)
             /\ Has(t, "FullDuplex") <=> Has(s, "FullDuplex") /\ "VERSION1" \notin h.words
             /\ Others(s, t, {"port", "threads", "amount", "thread", "len", "rate", "tos", "fps", "mode"})
             /\ t.port = h.port /\ t.amount = h.amount /\ t.thread = "client"
             /\ t.fps = IF "EXTEND" \in h.words /\ frames THEN h.fps ELSE s.fps
             /\ t.mode = IF V1Test(h) THEN IF "RUN_NOW" \in h.words THEN "dual" ELSE "tradeoff" ELSE "normal"
  <1> DEFINE full == Has(s, "FullDuplex") /\ "VERSION1" \notin h.words
             start == IF ~Has(s, "FullDuplex") /\ ~V1Test(h) THEN s
                      ELSE IF full THEN s ELSE Unset(s, {"FullDuplex"})
             v1 == ReadV1(start, h)
             read == ReadExtend(v1, h)
             way == IF "RUN_NOW" \in h.words THEN "dual" ELSE "tradeoff"
             moded == [read EXCEPT !.mode = way]
             plain == [read EXCEPT !.mode = "normal"]
             legacy == Set(moded, {"ServerReverse"})
             done == IF V1Test(h) THEN legacy ELSE plain
             off == Unset(done, {"TxHoldback"})
             t == Set(off, {"NoSettReport", "NoConnectSync"})
             frames(x) == Has(x, "Isochronous") \/ (Has(x, "PeriodicBurst") /\ ~IsUDP(x))
  <1>1. ClientSettings(s, h) = t
    BY Zenon DEF ClientSettings
  <1>2. /\ Within(s, start, {"FullDuplex"}) /\ (Has(start, "FullDuplex") <=> full)
        /\ Others(s, start, {}) /\ Full(start)
    <2>1. (\A f : Has(Unset(s, {"FullDuplex"}), f) <=> Has(s, f) /\ f \notin {"FullDuplex"})
          /\ Others(s, Unset(s, {"FullDuplex"}), {})
      BY SetSays
    <2>2. Others(s, s, {})
      BY OthersItself
    <2> DEFINE u == Unset(s, {"FullDuplex"})
    <2> HIDE DEF u
    <2>3. start = IF ~Has(s, "FullDuplex") /\ ~V1Test(h) THEN s ELSE IF full THEN s ELSE u
      BY DEF u
    <2>4. (\A f : Has(u, f) <=> Has(s, f) /\ f # "FullDuplex") /\ Others(s, u, {})
      BY <2>1, SMT DEF u
    <2> HIDE DEF start
    <2> QED
      BY <2>2, <2>3, <2>4, Zenon DEF Within, Others
  <1> HIDE DEF start, full
  <1>3. /\ Within(start, v1, {"ModeTime", "BuflenSet"}) /\ (Has(v1, "ModeTime") <=> h.timed)
        /\ Others(start, v1, {"port", "threads", "amount", "thread", "len"})
        /\ v1.port = h.port /\ v1.amount = h.amount /\ v1.thread = "client" /\ Full(v1)
    <2>1. /\ Within(start, v1, {"ModeTime", "BuflenSet"})
          /\ Has(v1, "ModeTime") <=> h.timed
          /\ Others(start, v1, {"port", "threads", "amount", "thread", "len"})
          /\ v1.port = h.port /\ v1.amount = h.amount /\ v1.thread = "client"
      BY <1>2, ReadV1Says, Zenon
    <2> QED
      BY <2>1, Zenon DEF Others
  <1> HIDE DEF v1
  <1>4. /\ Within(v1, read, {"FQPacing", "NoUDPfin"}) /\ Others(v1, read, {"rate", "tos", "fps"}) /\ Full(read)
        /\ read.fps = IF "EXTEND" \in h.words /\ frames(v1) THEN h.fps ELSE v1.fps
    BY <1>3, ReadExtendSays, Zenon DEF Others
  <1> HIDE DEF read
  <1>5. /\ Within(read, done, {"ServerReverse"}) /\ Others(read, done, {"mode"}) /\ Full(done)
        /\ done.mode = IF V1Test(h) THEN way ELSE "normal"
    <2>1. ASSUME NEW m
          PROVE  LET x == [read EXCEPT !.mode = m]
                 IN  /\ \A f : Has(x, f) <=> Has(read, f)
                     /\ Others(read, x, {"mode"}) /\ Full(x) /\ x.mode = m
      BY <1>4, SMT DEF Full, Fields, Others, Has
    <2>2. (\A f : Has(moded, f) <=> Has(read, f)) /\ Others(read, moded, {"mode"}) /\ Full(moded) /\ moded.mode = way
      BY <2>1, Zenon
    <2>3. (\A f : Has(plain, f) <=> Has(read, f)) /\ Others(read, plain, {"mode"}) /\ Full(plain) /\ plain.mode = "normal"
      BY <2>1, Zenon
    <2> HIDE DEF moded, plain
    <2>4. (\A f : Has(legacy, f) <=> Has(moded, f) \/ f \in {"ServerReverse"}) /\ Others(moded, legacy, {})
      BY <2>2, SetSays
    <2> HIDE DEF legacy
    <2>5. legacy.mode = moded.mode /\ Others(read, legacy, {"mode"}) /\ Full(legacy)
      BY <2>2, <2>4, SMT DEF Others, Fields
    <2>6. Within(read, legacy, {"ServerReverse"}) /\ Within(read, plain, {"ServerReverse"})
      BY <2>2, <2>3, <2>4, Zenon DEF Within
    <2> HIDE DEF way
    <2> QED
      BY <2>2, <2>3, <2>5, <2>6, Zenon
  <1> HIDE DEF done, way
  <1>6. (\A f : Has(off, f) <=> Has(done, f) /\ f \notin {"TxHoldback"}) /\ Others(done, off, {})
    BY <1>5, SetSays
  <1>7. Full(off)
    BY <1>6, Zenon DEF Others
  <1> HIDE DEF off
  <1>8. (\A f : Has(t, f) <=> Has(off, f) \/ f \in {"NoSettReport", "NoConnectSync"}) /\ Others(off, t, {})
    BY <1>7, SetSays
  <1> HIDE DEF t
  <1>9. Within(s, t, Anew)
    <2>1. {"FullDuplex", "ModeTime", "BuflenSet", "FQPacing", "NoUDPfin", "ServerReverse", "TxHoldback",
           "NoSettReport", "NoConnectSync"} = Anew
      BY DEF Anew
    <2> QED
      BY <1>2, <1>3, <1>4, <1>5, <1>6, <1>8, <2>1, SMT DEF Within
  <1>10. (Has(t, "ModeTime") <=> h.timed) /\ (Has(t, "FullDuplex") <=> full)
    <2>1. (Has(t, "ModeTime") <=> Has(v1, "ModeTime")) /\ (Has(t, "FullDuplex") <=> Has(start, "FullDuplex"))
      BY <1>3, <1>4, <1>5, <1>6, <1>8, SMT DEF Within
    <2> QED
      BY <1>2, <1>3, <2>1
  <1>11. Others(s, t, {"port", "threads", "amount", "thread", "len", "rate", "tos", "fps", "mode"})
    BY <1>2, <1>3, <1>4, <1>5, <1>6, <1>8, SMT DEF Others
  <1>12. /\ t.port = v1.port /\ t.amount = v1.amount /\ t.thread = v1.thread /\ t.fps = read.fps
         /\ t.mode = done.mode /\ v1.fps = s.fps
    BY <1>2, <1>3, <1>4, <1>5, <1>6, <1>8, SMT DEF Others, Fields
  <1>13. frames(v1) <=> frames(s)
    BY <1>2, <1>3, SMT DEF Within, IsUDP
  <1> QED
    BY <1>1, <1>3, <1>4, <1>5, <1>9, <1>10, <1>11, <1>12, <1>13, Zenon DEF full, way

-----------------------------------------------------------------------------
(* A test and its thread                                                   *)

\* A stream that has sent its first payload.
Speaks(c) ==
  /\ Completed(c)
  /\ Has(c, "Compat") => ~Has(c, "PeerVerDetect")
  /\ ~({"FullDuplex", "BounceBack"} \subseteq c.flags)

\* What it has sent.
LEMMA HeaderKinds ==
  ASSUME NEW c, Speaks(c)
  PROVE  \/ ~IsUDP(c) /\ ClientHdr(c) = NoHeader
         \/ IsUDP(c) /\ Has(c, "SmallTripTime") /\ SendsHeader(c) /\ ClientHdr(c) = SmallUDPHeader(c)
         \/ IsUDP(c) /\ ~Has(c, "SmallTripTime") /\ SendsHeader(c) /\ ClientHdr(c) = UDPHeader(c)
         \/ ~IsUDP(c) /\ SendsHeader(c) /\ ClientHdr(c) = TCPHeader(c)
         \/ /\ ~IsUDP(c) /\ ~SendsHeader(c) /\ Has(c, "BounceBack") /\ ~Has(c, "Compat") /\ ~TwoWays(c)
            /\ ClientHdr(c) = BounceBackHeader(c)
         \/ ~SendsHeader(c) /\ Has(c, "Compat") /\ ClientHdr(c) = Pattern(c)
  <1>1. IsUDP(c) => ~Has(c, "ConnectOnly") /\ ~Has(c, "BounceBack")
    BY SMT DEF Speaks, Completed, IsUDP, Has
  <1>2. Has(c, "Compat") => ~Has(c, "Reverse") /\ ~Has(c, "BounceBack")
    BY SMT DEF Speaks, Completed, BothWays, Has
  <1>3. ~SendsHeader(c) => Has(c, "Compat") \/ Has(c, "BounceBack")
    BY Zenon DEF SendsHeader
  <1>4. Has(c, "BounceBack") /\ ~Has(c, "Reverse") => ~TwoWays(c)
    BY SMT DEF Speaks, TwoWays, Has
  <1>5. CASE Has(c, "ConnectOnly")
    BY <1>1, <1>5, Zenon DEF ClientHdr
  <1>6. CASE ~Has(c, "ConnectOnly")
    <2>1. CASE SendsHeader(c) /\ IsUDP(c)
      <3>1. ClientHdr(c) = IF Has(c, "SmallTripTime") THEN SmallUDPHeader(c) ELSE UDPHeader(c)
        BY <1>6, <2>1, Zenon DEF ClientHdr
      <3> QED
        BY <2>1, <3>1, Zenon
    <2>2. CASE SendsHeader(c) /\ ~IsUDP(c)
      <3>1. ClientHdr(c) = TCPHeader(c)
        BY <1>6, <2>2, Zenon DEF ClientHdr
      <3> QED
        BY <2>2, <3>1, Zenon
    <2>3. CASE ~SendsHeader(c) /\ Has(c, "Reverse")
      <3>1. ClientHdr(c) = NoHeader
        BY <1>6, <2>3, Zenon DEF ClientHdr
      <3> QED
        BY <1>1, <1>2, <1>3, <2>3, <3>1, Zenon
    <2>4. CASE ~SendsHeader(c) /\ ~Has(c, "Reverse")
      <3>1. ClientHdr(c) = IF Has(c, "BounceBack") THEN BounceBackHeader(c) ELSE Pattern(c)
        BY <1>6, <2>4, Zenon DEF ClientHdr
      <3> QED
        BY <1>1, <1>2, <1>3, <1>4, <2>4, <3>1, Zenon
    <2> QED
      BY <2>1, <2>2, <2>3, <2>4, Zenon
  <1> QED
    BY <1>5, <1>6

\* The settings of the thread that a listener makes for a test.
Taker(l) == [l EXCEPT !.thread = "server"]
Fresh(l) == [Taker(l) EXCEPT !.mode = "normal"]

\* The thread that takes a test starts from the settings of its listener.
LEMMA FreshSays ==
  ASSUME NEW l \in Listeners
  PROVE  /\ Full(l) /\ Full(Fresh(l)) /\ Fresh(l).mode = "normal" /\ Fresh(l).thread = "server"
         /\ \A f : Has(Fresh(l), f) <=> Has(l, f)
         /\ Others(l, Fresh(l), {"mode", "thread"})
         /\ (IsUDP(Fresh(l)) <=> IsUDP(l))
         /\ ~Has(l, "BounceBack") /\ ~Has(l, "ServerReverse")
         /\ \A h : ApplyClientSettings(Taker(l), h) =
                     IF IsUDP(l) THEN ApplyUDP(Fresh(l), h)
                     ELSE IF "BOUNCEBACK" \in h.words THEN ApplyBounceBack(Fresh(l), h) ELSE ApplyTCP(Fresh(l), h)
  <1>1. Full(l)
    BY ListenersAssumption, SMT DEF Full, Fields, Settings
  <1>2. /\ Full(Taker(l)) /\ Taker(l).thread = "server" /\ Others(l, Taker(l), {"thread"})
        /\ \A f : Has(Taker(l), f) <=> Has(l, f)
    BY <1>1, SMT DEF Full, Fields, Taker, Others, Has
  <1>3. /\ Full(Fresh(l)) /\ Others(Taker(l), Fresh(l), {"mode"}) /\ Fresh(l).mode = "normal"
        /\ \A f : Has(Fresh(l), f) <=> Has(Taker(l), f)
    BY <1>2, SMT DEF Full, Fields, Fresh, Others, Has
  <1>4. Others(l, Fresh(l), {"mode", "thread"}) /\ Fresh(l).thread = "server"
    BY <1>2, <1>3, SMT DEF Others, Fields
  <1>5. (IsUDP(Fresh(l)) <=> IsUDP(l))
    BY <1>2, <1>3, SMT DEF IsUDP
  <1>6. ~Has(l, "BounceBack") /\ ~Has(l, "ServerReverse")
    BY ListenersAssumption, SMT DEF Has
  <1>7. ASSUME NEW h
        PROVE  ApplyClientSettings(Taker(l), h) =
                     IF IsUDP(l) THEN ApplyUDP(Fresh(l), h)
                     ELSE IF "BOUNCEBACK" \in h.words THEN ApplyBounceBack(Fresh(l), h) ELSE ApplyTCP(Fresh(l), h)
    BY <1>5, Zenon DEF ApplyClientSettings, Fresh
  <1> QED
    BY <1>1, <1>2, <1>3, <1>4, <1>5, <1>6, <1>7, Zenon

\* The settings of the thread once the header has been applied.
Served(l, h) == ApplyClientSettings(Taker(l), h)

\* What it makes of each kind of header.
LEMMA ServedTCP ==
  ASSUME NEW l \in Listeners, ~IsUDP(l), NEW h, "EXTEND" \in h.words, "BOUNCEBACK" \notin h.words
  PROVE  LET s == Served(l, h)
         IN  /\ \A f : f \notin Aside =>
                  (Has(s, f) <=> \/ Has(l, f) \/ f \in Told(h)
                                 \/ f = "PeriodicBurst" /\ "PERIODICBURST" \in h.upper
                                 \/ f = "Isochronous" /\ "ISOCH" \in h.upper)
             /\ Others(l, s, {"fps", "cca", "tos", "mode", "thread"})
             /\ s.mode = Mode1(h) /\ s.thread = IF Back2(h) THEN "client" ELSE "server"
             /\ s.fps = IF "PERIODICBURST" \in h.upper THEN IF h.fps = 0 THEN 1 ELSE h.fps ELSE l.fps
             /\ s.cca = IF "CCA" \in h.lower /\ ~Has(l, "CongestionControl") THEN h.cca ELSE l.cca
  <1> DEFINE f0 == Fresh(l)
             s == Served(l, h)
             pb == IF "PERIODICBURST" \in h.upper THEN {"PeriodicBurst"} ELSE {}
             iso == IF "ISOCH" \in h.upper THEN {"Isochronous"} ELSE {}
  <1>1. s = ApplyTCP(f0, h)
    BY FreshSays, Zenon DEF Served
  <1>2. /\ Full(f0) /\ f0.mode = "normal" /\ f0.thread = "server" /\ Others(l, f0, {"mode", "thread"})
        /\ \A f : Has(f0, f) <=> Has(l, f)
    BY FreshSays
  <1> HIDE DEF f0
  <1>3. /\ More(f0, s, Told(h) \cup pb \cup iso)
        /\ Others(f0, s, {"fps", "cca", "tos", "mode", "thread"})
        /\ s.mode = Mode1(h) /\ s.thread = IF Back2(h) THEN "client" ELSE f0.thread
        /\ s.fps = IF "PERIODICBURST" \in h.upper THEN IF h.fps = 0 THEN 1 ELSE h.fps ELSE f0.fps
        /\ s.cca = IF "CCA" \in h.lower /\ ~Has(f0, "CongestionControl") THEN h.cca ELSE f0.cca
    <2> HIDE DEF s
    <2> QED
      BY <1>1, <1>2, ApplyTCPSays
  <1>4. \A f : f \in Told(h) \cup pb \cup iso <=> \/ f \in Told(h)
                                                  \/ f = "PeriodicBurst" /\ "PERIODICBURST" \in h.upper
                                                  \/ f = "Isochronous" /\ "ISOCH" \in h.upper
    BY SMT
  <1> HIDE DEF pb, iso, s
  <1>5. f0.fps = l.fps /\ f0.cca = l.cca
    BY <1>2, SMT DEF Others, Fields
  <1>6. Others(l, s, {"fps", "cca", "tos", "mode", "thread"})
    BY <1>2, <1>3, SMT DEF Others
  <1>7. \A f : f \notin Aside =>
                  (Has(s, f) <=> \/ Has(l, f) \/ f \in Told(h)
                                 \/ f = "PeriodicBurst" /\ "PERIODICBURST" \in h.upper
                                 \/ f = "Isochronous" /\ "ISOCH" \in h.upper)
    BY <1>2, <1>3, <1>4, Zenon DEF More
  <1> QED
    BY <1>2, <1>3, <1>5, <1>6, <1>7, Zenon DEF s

LEMMA ServedUDP ==
  ASSUME NEW l \in Listeners, IsUDP(l), NEW h, "EXTEND" \in h.words, "SMALL_TRIPTIMES" \notin h.words
  PROVE  LET s == Served(l, h)
         IN  /\ \A f : f \notin Aside =>
                  (Has(s, f) <=> \/ Has(l, f) \/ f \in Told(h)
                                 \/ f = "Isochronous" /\ "UDPTESTS" \in h.words /\ "ISOCH" \in h.upper)
             /\ Others(l, s, {"tos", "mode", "thread"})
             /\ s.mode = Mode1(h) /\ s.thread = IF Back2(h) THEN "client" ELSE "server"
  <1> DEFINE f0 == Fresh(l)
             s == Served(l, h)
             iso == IF "UDPTESTS" \in h.words /\ "ISOCH" \in h.upper THEN {"Isochronous"} ELSE {}
  <1>1. s = ApplyUDP(f0, h)
    BY FreshSays, Zenon DEF Served
  <1>2. /\ Full(f0) /\ f0.mode = "normal" /\ f0.thread = "server" /\ Others(l, f0, {"mode", "thread"})
        /\ \A f : Has(f0, f) <=> Has(l, f)
    BY FreshSays
  <1> HIDE DEF f0
  <1>3. /\ More(f0, s, Told(h) \cup iso) /\ Others(f0, s, {"tos", "mode", "thread"})
        /\ s.mode = Mode1(h) /\ s.thread = IF Back2(h) THEN "client" ELSE f0.thread
    BY <1>1, <1>2, ApplyUDPSays, Zenon
  <1>4. \A f : f \in Told(h) \cup iso <=> \/ f \in Told(h)
                                          \/ f = "Isochronous" /\ "UDPTESTS" \in h.words /\ "ISOCH" \in h.upper
    BY SMT
  <1> HIDE DEF iso, s
  <1>5. Others(l, s, {"tos", "mode", "thread"})
    BY <1>2, <1>3, SMT DEF Others
  <1>6. \A f : f \notin Aside =>
                  (Has(s, f) <=> \/ Has(l, f) \/ f \in Told(h)
                                 \/ f = "Isochronous" /\ "UDPTESTS" \in h.words /\ "ISOCH" \in h.upper)
    BY <1>2, <1>3, <1>4, Zenon DEF More
  <1> QED
    BY <1>2, <1>3, <1>5, <1>6, Zenon DEF s

LEMMA ServedUDPSmall ==
  ASSUME NEW l \in Listeners, IsUDP(l), NEW h, "SMALL_TRIPTIMES" \in h.words
  PROVE  LET s == Served(l, h)
         IN  /\ \A f : f \notin Aside => (Has(s, f) <=> Has(l, f) \/ f = "TripTime")
             /\ Others(l, s, {"mode", "thread"}) /\ s.mode = "normal" /\ s.thread = "server"
  <1> DEFINE f0 == Fresh(l)
             s == Served(l, h)
  <1>1. s = ApplyUDP(f0, h)
    BY FreshSays, Zenon DEF Served
  <1>2. /\ Full(f0) /\ f0.mode = "normal" /\ f0.thread = "server" /\ Others(l, f0, {"mode", "thread"})
        /\ \A f : Has(f0, f) <=> Has(l, f)
    BY FreshSays
  <1> HIDE DEF f0
  <1>3. More(f0, s, {"TripTime"}) /\ Others(f0, s, {})
    BY <1>1, <1>2, ApplyUDPSmallSays
  <1> HIDE DEF s
  <1>4. Others(l, s, {"mode", "thread"}) /\ s.mode = f0.mode /\ s.thread = f0.thread
    BY <1>2, <1>3, SMT DEF Others, Fields
  <1>5. \A f : f \notin Aside => (Has(s, f) <=> Has(l, f) \/ f = "TripTime")
    BY <1>2, <1>3, SMT DEF More
  <1> QED
    BY <1>2, <1>4, <1>5, Zenon DEF s

\* A datagram that says nothing changes nothing.
LEMMA ServedUDPSilent ==
  ASSUME NEW l \in Listeners, IsUDP(l), NEW h, {"EXTEND", "SMALL_TRIPTIMES"} \cap h.words = {}
  PROVE  Served(l, h) = Fresh(l)
  <1>1. Served(l, h) = ApplyUDP(Fresh(l), h)
    BY FreshSays, Zenon DEF Served
  <1>2. "EXTEND" \notin h.words /\ "SMALL_TRIPTIMES" \notin h.words
    BY SMT
  <1> QED
    BY <1>1, <1>2, Zenon DEF ApplyUDP

LEMMA ServedTCPSilent ==
  ASSUME NEW l \in Listeners, ~IsUDP(l), NEW h, {"EXTEND", "BOUNCEBACK"} \cap h.words = {}
  PROVE  Served(l, h) = Fresh(l)
  <1>1. "EXTEND" \notin h.words /\ "BOUNCEBACK" \notin h.words
    BY SMT
  <1>2. Served(l, h) = ApplyTCP(Fresh(l), h)
    BY <1>1, FreshSays, Zenon DEF Served
  <1> QED
    BY <1>1, <1>2, Zenon DEF ApplyTCP

LEMMA ServedBounceBack ==
  ASSUME NEW l \in Listeners, ~IsUDP(l), NEW h, "BOUNCEBACK" \in h.words
  PROVE  LET s == Served(l, h)
         IN  /\ \A f : f \notin Aside \cup {"ModeTime"} =>
                  (Has(s, f) <=> \/ Has(l, f) \/ f = "BounceBack"
                                 \/ f = "TripTime" /\ "BBCLOCKSYNCED" \in h.upper)
             /\ Others(l, s, {"bbytes", "breply", "len", "tos", "mode", "thread"})
             /\ s.mode = "normal" /\ s.thread = "server"
             /\ s.bbytes = h.bbytes /\ s.breply = IF "BBREPLYSIZE" \in h.upper THEN h.breply ELSE h.bbytes
  <1> DEFINE f0 == Fresh(l)
             s == Served(l, h)
  <1>1. s = ApplyBounceBack(f0, h)
    BY FreshSays, Zenon DEF Served
  <1>2. /\ Full(f0) /\ f0.mode = "normal" /\ f0.thread = "server" /\ Others(l, f0, {"mode", "thread"})
        /\ \A f : Has(f0, f) <=> Has(l, f)
    BY FreshSays
  <1> HIDE DEF f0
  <1>3. /\ \A f : f \notin Aside \cup {"ModeTime"} =>
             (Has(s, f) <=> \/ Has(f0, f) \/ f = "BounceBack"
                            \/ f = "TripTime" /\ "BBCLOCKSYNCED" \in h.upper)
        /\ Others(f0, s, {"bbytes", "breply", "len", "tos"})
        /\ s.bbytes = h.bbytes /\ s.breply = IF "BBREPLYSIZE" \in h.upper THEN h.breply ELSE h.bbytes
    <2> HIDE DEF s
    <2> QED
      BY <1>1, <1>2, ApplyBounceBackSays
  <1> HIDE DEF s
  <1>4. /\ Others(l, s, {"bbytes", "breply", "len", "tos", "mode", "thread"})
        /\ s.mode = f0.mode /\ s.thread = f0.thread
    BY <1>2, <1>3, SMT DEF Others, Fields
  <1>5. \A f : f \notin Aside \cup {"ModeTime"} =>
             (Has(s, f) <=> \/ Has(l, f) \/ f = "BounceBack"
                            \/ f = "TripTime" /\ "BBCLOCKSYNCED" \in h.upper)
    BY <1>2, <1>3, Zenon
  <1> QED
    BY <1>2, <1>3, <1>4, <1>5, Zenon DEF s

\* The flags that a header adds, one by one.
LEMMA ToldIs ==
  ASSUME NEW h, NEW f
  PROVE  f \in Told(h) <=> \/ f = "TripTime" /\ "TRIPTIME" \in h.upper
                           \/ f = "FullDuplex" /\ Full2(h)
                           \/ f = "ServerReverse" /\ (Full2(h) \/ Back2(h))
  BY SMT DEF Told

\* Those that the properties are about are told apart.
LEMMA Mattering ==
  {"TripTime", "Isochronous", "PeriodicBurst", "FullDuplex", "ServerReverse", "BounceBack", "UDP",
   "SumOnly", "CSV", "Histogram", "JitterHistogram", "Compat"} \cap (Aside \cup {"ModeTime"}) = {}
  BY SMT DEF Aside

\* A client that waits for an answer gets what it waits for, and one whose server
\* may send at once gets none.
LEMMA AnswerFits ==
  ASSUME NEW c, Speaks(c), NEW l \in Listeners, IsUDP(l) <=> IsUDP(c), Plain(l),
         ~IsUDP(l) => ~RefusesTCP(l, ClientHdr(c)),
         NEW s, s = Served(l, ClientHdr(c))
  PROVE  /\ Awaits(c) => AckOf(s, ClientHdr(c)) = AwaitedSize(c)
         /\ TwoWays(c) /\ ~Awaits(c) => AckOf(s, ClientHdr(c)) = 0
  <1> DEFINE h == ClientHdr(c)
  <1>1. CASE ~IsUDP(c) /\ h = NoHeader
    BY <1>1, SMT DEF RefusesTCP, NoHeader
  <1>2. CASE IsUDP(c) /\ IsUDP(s)
    <2>1. AckOf(s, h) = 0
      BY <1>2, SMT DEF AckOf, When
    <2>2. ~Awaits(c)
      BY <1>2, Zenon DEF Awaits
    <2> QED
      BY <2>1, <2>2
  <1>3. CASE IsUDP(c) /\ ~IsUDP(s)
    <2>1. CASE "SMALL_TRIPTIMES" \in h.words
      BY <1>3, <2>1, ServedUDPSmall, Mattering, SMT DEF IsUDP
    <2>2. CASE "SMALL_TRIPTIMES" \notin h.words /\ "EXTEND" \in h.words
      BY <1>3, <2>2, ServedUDP, Mattering, SMT DEF IsUDP
    <2>3. CASE "SMALL_TRIPTIMES" \notin h.words /\ "EXTEND" \notin h.words
      BY <1>3, <2>3, ServedUDPSilent, FreshSays, SMT
    <2> QED
      BY <2>1, <2>2, <2>3
  <1>4. CASE ~IsUDP(c) /\ SendsHeader(c) /\ h = TCPHeader(c)
    <2>1. /\ "EXTEND" \in h.words /\ {"BOUNCEBACK", "SMALL_TRIPTIMES", "UDPTESTS"} \cap h.words = {}
          /\ "VERSION2" \in h.words <=> Has(c, "PeerVerDetect") \/ TwoWays(c)
          /\ "V2PEERDETECT" \in h.words <=> Has(c, "PeerVerDetect")
          /\ "TRIPTIME" \in h.upper <=> Has(c, "TripTime")
      BY <1>4, TCPHeaderSays, TCPHeaderFlags, Zenon
    <2>2. ~Has(l, "TripTime") /\ ~Has(l, "UDP")
      BY <1>4, SMT DEF Plain, FlagsOf, Has, IsUDP
    <2>3. (Has(s, "TripTime") <=> Has(c, "TripTime")) /\ ~IsUDP(s)
      <3>1. \A f : f \notin Aside =>
                  (Has(s, f) <=> \/ Has(l, f) \/ f \in Told(h)
                                 \/ f = "PeriodicBurst" /\ "PERIODICBURST" \in h.upper
                                 \/ f = "Isochronous" /\ "ISOCH" \in h.upper)
        <4>1. "BOUNCEBACK" \notin h.words
          BY <2>1, SMT
        <4> HIDE DEF h
        <4> QED
          BY <1>4, <2>1, <4>1, ServedTCP, Zenon DEF h
      <3> HIDE DEF h
      <3> QED
        BY <2>1, <2>2, <3>1, ToldIs, Mattering, SMT DEF IsUDP
    <2> HIDE DEF h
    <2>4. CASE Has(c, "PeerVerDetect")
      BY <1>4, <2>1, <2>3, <2>4, SMT DEF Awaits, AckOf, When, AwaitedSize, AckSize, h
    <2>5. CASE ~Has(c, "PeerVerDetect")
      BY <1>4, <2>1, <2>3, <2>5, SMT DEF Awaits, AckOf, When, h
    <2> QED
      BY <2>4, <2>5
  <1>5. CASE ~SendsHeader(c) /\ ~TwoWays(c)
    BY <1>5, Zenon DEF Awaits
  <1>6. CASE ~SendsHeader(c) /\ Has(c, "Compat")
    <2>1. ~TwoWays(c)
      BY <1>6, SMT DEF Speaks, Completed, BothWays, TwoWays, Has
    <2> QED
      BY <1>6, <2>1, Zenon DEF Awaits
  <1> QED
    BY <1>1, <1>2, <1>3, <1>4, <1>5, <1>6, HeaderKinds, Zenon

-----------------------------------------------------------------------------
(* The length of the header                                                *)

\* A test that goes one way and is of no mode makes a listener of its own options no sender.
LEMMA OneWayOnly ==
  ASSUME NEW c, ~TwoWays(c), c.mode = "normal", NEW l \in Listeners, ~IsUDP(l), ~Has(l, "FullDuplex")
  PROVE  ~Generates(Served(l, TCPHeader(c)))
  <1> DEFINE h == TCPHeader(c)
             s == Served(l, h)
  <1>1. "EXTEND" \in h.words /\ "BOUNCEBACK" \notin h.words
    BY TCPHeaderSays, SMT
  <1>2. /\ "VERSION1" \in h.words => "HASTRANSFERID" \in h.words
        /\ ~("REVERSE" \in h.upper) /\ ~("FULLDUPLEX" \in h.upper)
    <2>1. ~WantsMode(c)
      BY Zenon DEF WantsMode
    <2>2. ~Has(c, "Reverse") /\ ~Has(c, "FullDuplex")
      BY SMT DEF TwoWays, Has
    <2>3. /\ "VERSION1" \in h.words <=> WantsMode(c) \/ Has(c, "SyncTransferID")
          /\ "HASTRANSFERID" \in h.words <=> Has(c, "SyncTransferID")
      BY TCPHeaderSays, Zenon
    <2>4. /\ "REVERSE" \in h.upper <=> Has(c, "Reverse") /\ ~Has(c, "Compat")
          /\ "FULLDUPLEX" \in h.upper <=> Has(c, "FullDuplex") /\ ~Has(c, "Compat")
      BY TCPHeaderFlags, Zenon
    <2> QED
      BY <2>1, <2>2, <2>3, <2>4, Zenon
  <1> HIDE DEF h
  <1>3. /\ \A f : f \notin Aside =>
             (Has(s, f) <=> \/ Has(l, f) \/ f \in Told(h)
                            \/ f = "PeriodicBurst" /\ "PERIODICBURST" \in h.upper
                            \/ f = "Isochronous" /\ "ISOCH" \in h.upper)
        /\ s.mode = Mode1(h)
    BY <1>1, ServedTCP, Zenon
  <1>4. Mode1(h) = "normal" /\ ~Full2(h) /\ ~Back2(h)
    BY <1>2, SMT DEF Mode1, Full2, Back2
  <1> HIDE DEF s
  <1>5. ~Has(s, "FullDuplex") /\ ~Has(s, "ServerReverse")
    BY <1>3, <1>4, ToldIs, Mattering, FreshSays, SMT
  <1> QED
    BY <1>3, <1>4, <1>5, Zenon DEF Generates, s, h

\* The header is as long as what the listener reads of it.
LEMMA TCPFieldsCovered ==
  ASSUME NEW c, Speaks(c), NEW l \in Listeners, ~IsUDP(l),
         NEW back \in BOOLEAN, back => Generates(Served(l, TCPHeader(c))),
         Has(c, "Isochronous") =>
            /\ c.mode = "normal"
            /\ \/ TwoWays(c)
               \/ AskedCCA(c) = NoText /\ (IsUDP(l) \/ ~Has(l, "FullDuplex"))
  PROVE  LET h == TCPHeader(c)
         IN  /\ h.len >= 64
             /\ {"EPOCH_START", "TRIPTIME"} \cap h.upper # {} => h.len >= 72
             /\ "FQRATESET" \in h.upper => h.len >= 80
             /\ "PERIODICBURST" \in h.upper => h.len >= 88
             /\ "ISOCH" \in h.upper /\ back => h.len >= 112
             /\ "CCA" \in h.lower => h.len >= 114 + Len(h.cca)
             /\ h.len \in Nat /\ Len(h.cca) \in Nat
  <1> DEFINE h == TCPHeader(c)
             start == \/ {"LoadCCA", "CongestionControl"} \cap c.flags # {}
                      \/ {"TripTime", "FQPacing", "Isochronous", "TxStartTime"} \cap c.flags # {}
             n == Len(AskedCCA(c))
             named == AskedCCA(c) # NoText
             a == When(start, 16)
             b == When(Settled(c), 32)
             d == When(named, 2 + n)
  <1>1. n \in 0 .. 128
    <2>1. AskedCCA(c) \in Controls
      BY SMT DEF AskedCCA, Speaks, Completed, Typed, Controls
    <2> QED
      BY <2>1, NamesAssumption
  <1>2. h.len \in Nat /\ h.len >= 64 + a + b + d
    BY TCPHeaderLength, Zenon DEF Speaks, Completed
  <1>3. /\ a = IF start THEN 16 ELSE 0
        /\ b = IF Settled(c) THEN 32 ELSE 0
        /\ d = IF named THEN 2 + n ELSE 0
    BY Zenon DEF When
  <1>4. /\ "EPOCH_START" \in h.upper => start
        /\ "TRIPTIME" \in h.upper => start
        /\ "FQRATESET" \in h.upper => start
        /\ "ISOCH" \in h.upper => start /\ Has(c, "Isochronous") /\ ~Has(c, "PeriodicBurst")
        /\ "PERIODICBURST" \in h.upper => Has(c, "PeriodicBurst")
    <2>1. /\ "EPOCH_START" \in h.upper => Has(c, "TxStartTime")
          /\ "TRIPTIME" \in h.upper => Has(c, "TripTime")
          /\ "FQRATESET" \in h.upper => Has(c, "FQPacing")
          /\ "ISOCH" \in h.upper => Has(c, "Isochronous") /\ ~Has(c, "PeriodicBurst")
          /\ "PERIODICBURST" \in h.upper => Has(c, "PeriodicBurst")
      BY TCPHeaderFlags, Zenon
    <2> HIDE DEF h
    <2> QED
      BY <2>1, SMT DEF Has
  <1>5. Has(c, "PeriodicBurst") => Settled(c)
    BY SMT DEF Settled, Has
  <1>6. "ISOCH" \in h.upper /\ back => Settled(c)
    <2>1. ASSUME "ISOCH" \in h.upper, back PROVE TwoWays(c)
      BY <1>4, <2>1, OneWayOnly
    <2>2. Has(c, "Isochronous") /\ TwoWays(c) => Settled(c)
      BY SMT DEF Settled, Has
    <2> QED
      BY <1>4, <2>1, <2>2
  <1>7. named => start /\ Settled(c)
    <2>1. named => {"LoadCCA", "CongestionControl"} \cap c.flags # {}
      BY SMT DEF AskedCCA, Has
    <2>2. named => (Has(c, "Isochronous") => TwoWays(c))
      OBVIOUS
    <2> HIDE DEF named
    <2> QED
      BY <2>1, <2>2, SMT DEF Settled, Has
  <1>8. ("CCA" \in h.lower <=> named) /\ h.cca = AskedCCA(c)
    BY TCPHeaderSays, Zenon
  <1> HIDE DEF a, b, d, n, named, start
  <1>9. ("CCA" \in h.lower <=> named) /\ Len(h.cca) = n
    BY <1>8 DEF n
  <1> HIDE DEF h
  <1>10. {"EPOCH_START", "TRIPTIME"} \cap h.upper # {} => "EPOCH_START" \in h.upper \/ "TRIPTIME" \in h.upper
    BY SMT
  <1>11. /\ h.len >= 64 /\ (start => h.len >= 80) /\ (Settled(c) => h.len >= 96)
         /\ (start /\ Settled(c) => h.len >= 112) /\ (named => h.len >= 114 + n)
    BY <1>1, <1>2, <1>3, <1>7, SMT
  <1>12. h.len \in Nat /\ n \in Nat /\ (start => h.len >= 72) /\ (Settled(c) => h.len >= 88)
    BY <1>1, <1>2, <1>11, SMT
  <1> QED
    BY <1>4, <1>5, <1>6, <1>9, <1>10, <1>11, <1>12, Zenon DEF h

-----------------------------------------------------------------------------
(* The inductive invariant                                                 *)

\* What a listener that has taken a test has made of the header.
Refuses(l, h) == ~Has(l, "Compat") /\ (Has(l, "ConnectOnly") \/ (~IsUDP(l) /\ RefusesTCP(l, h)))
Sends(l, h) == ~Has(l, "Compat") /\ Generates(Served(l, h))
Serving(l, h) ==
  IF Has(l, "Compat") THEN Taker(l)
  ELSE IF Sends(l, h) THEN ReceiverSettings(Served(l, h), h) ELSE Served(l, h)
Taken ==
  /\ listener \in Listeners /\ (IsUDP(listener) <=> IsUDP(client)) /\ ~Refuses(listener, header)
  /\ server = Serving(listener, header)
  /\ reversed = IF Sends(listener, header) THEN ClientSettings(Served(listener, header), header) ELSE Initialize

\* The stream that speaks is one of the settings.
Offered ==
  /\ Speaks(client) /\ header = ClientHdr(client)
  /\ ~Has(client, "IncrDstPort") => OwnListenerPort(client) = OwnListenerPort(settings)

ExchangeInv ==
  /\ phase \in {"options", "exit", "client", "listener", "sent", "refused", "accepted"}
  /\ phase = "options" => Given(settings) /\ pending \subseteq OptionNames
  /\ phase = "client" => Completed(settings)
  /\ phase \in {"sent", "accepted"} => Offered
  /\ phase # "accepted" => reader = "none" /\ reversed = Initialize
  /\ phase = "accepted" => Taken
  /\ AckMatched

\* Every stream of a completed client can speak.
LEMMA StreamsSpeak ==
  ASSUME NEW s, Completed(s), NEW t \in Streams(s),
         NEW c, c = IF Has(t, "Compat") THEN Unset(t, {"PeerVerDetect"}) ELSE t,
         ~({"FullDuplex", "BounceBack"} \subseteq c.flags)
  PROVE  Speaks(c) /\ (~Has(c, "IncrDstPort") => OwnListenerPort(c) = OwnListenerPort(s))
  <1>1. Completed(t) /\ (~Has(t, "IncrDstPort") => OwnListenerPort(t) = OwnListenerPort(s))
    <2>1. ASSUME NEW i \in 0 .. s.threads - 1, t = Stream(s, i)
          PROVE  Completed(t) /\ (~Has(t, "IncrDstPort") => OwnListenerPort(t) = OwnListenerPort(s))
      <3>1. CASE ~Has(s, "IncrDstPort")
        <4>1. t = s
          BY <2>1, <3>1, Zenon DEF Stream
        <4> QED
          BY <4>1
      <3>2. CASE Has(s, "IncrDstPort")
        <4>1. t = [s EXCEPT !.port = @ + i]
          BY <2>1, <3>2, Zenon DEF Stream
        <4>2. Typed(t)
          BY <4>1, SMT DEF Completed, Typed, Fields
        <4>3. t.flags = s.flags /\ t.mode = s.mode /\ t.thread = s.thread /\ t.breply = s.breply
          BY <4>1, SMT DEF Completed, Typed, Fields
        <4>4. Completed(t)
          BY <4>2, <4>3, Zenon DEF Completed, Has, BothWays
        <4> QED
          BY <3>2, <4>3, <4>4, Zenon DEF Has
      <3> QED
        BY <3>1, <3>2
    <2>2. ASSUME FlagsOf(s, {"WorkingLoadUp", "WorkingLoadDown"}) # {}, t = LoadThread(s)
          PROVE  Completed(t) /\ OwnListenerPort(t) = OwnListenerPort(s)
      <3> DEFINE up == Has(s, "WorkingLoadUp")
                 direction == IF ~Has(s, "WorkingLoadDown") THEN {} ELSE IF up THEN {"FullDuplex"} ELSE {"Reverse"}
                 control == IF Has(s, "LoadCCA") THEN {"CongestionControl"} ELSE {}
                 off == {"UDP", "BWSet", "Isochronous", "BounceBack", "ConnectOnly", "PeriodicBurst", "TxHoldback"}
                 flags == (s.flags \ off) \cup direction \cup control \cup {"WritePrefetch"}
                 cca == IF Has(s, "LoadCCA") THEN s.loadcca ELSE s.cca
                 rate == IF IsUDP(s) THEN 0 ELSE s.rate
      <3>1. t = [s EXCEPT !.flags = flags, !.tos = 0, !.cca = cca, !.rate = rate]
        BY <2>2, SMT DEF LoadThread, Completed, Typed, Fields
      <3>2. ~Has(s, "Compat")
        BY <2>2, SMT DEF Completed, Has, FlagsOf
      <3>3. \A f \in {"Compat", "UDP", "PeriodicBurst", "BounceBack"} : f \in flags => f \in s.flags /\ f \notin off
        BY SMT
      <3>4. {"UDP", "PeriodicBurst", "BounceBack"} \subseteq off
        OBVIOUS
      <3>5. cca \in Controls
        BY SMT DEF Completed, Typed
      <3> HIDE DEF flags, cca, rate, off
      <3>6. Typed(t) /\ t.thread = s.thread /\ t.flags = flags
        BY <3>1, <3>5, SMT DEF Completed, Typed, Fields
      <3>7. ~Has(t, "Compat") /\ ~Has(t, "UDP") /\ ~Has(t, "PeriodicBurst") /\ ~Has(t, "BounceBack")
        BY <3>2, <3>3, <3>4, <3>6, SMT DEF Has
      <3>8. t.listenport = s.listenport /\ t.port = s.port
        BY <3>1, SMT DEF Completed, Typed, Fields
      <3>9. OwnListenerPort(t) = OwnListenerPort(s)
        BY <3>8, Zenon DEF OwnListenerPort
      <3>10. t.thread = "client" /\ "UDP" \notin t.flags /\ "PeriodicBurst" \notin t.flags
        BY <3>6, <3>7, Zenon DEF Completed, Has
      <3> QED
        BY <3>6, <3>7, <3>9, <3>10, SMT DEF Completed
    <2>3. \/ \E i \in 0 .. s.threads - 1 : t = Stream(s, i)
          \/ FlagsOf(s, {"WorkingLoadUp", "WorkingLoadDown"}) # {} /\ t = LoadThread(s)
      BY Zenon DEF Streams
    <2> QED
      BY <2>1, <2>2, <2>3
  <1>2. CASE ~Has(t, "Compat")
    <2>1. c = t
      BY <1>2, Zenon
    <2> QED
      BY <1>1, <1>2, <2>1, Zenon DEF Speaks
  <1>3. CASE Has(t, "Compat")
    <2>1. c = Unset(t, {"PeerVerDetect"})
      BY <1>3
    <2>2. Typed(c) /\ c.flags = t.flags \ {"PeerVerDetect"} /\ c.mode = t.mode /\ c.thread = t.thread
          /\ c.breply = t.breply /\ c.listenport = t.listenport /\ c.port = t.port
      BY <1>1, <2>1, SMT DEF Completed, Typed, Fields, Unset
    <2>3. /\ \A f : f # "PeerVerDetect" => (Has(c, f) <=> Has(t, f))
          /\ ~Has(c, "PeerVerDetect")
      BY <2>2, SMT DEF Has
    <2>4. BothWays(c) <=> BothWays(t)
      BY <2>2, <2>3, SMT DEF BothWays
    <2>5. Completed(c)
      <3>1. c.flags \subseteq t.flags /\ (Has(c, "TripTime") <=> Has(t, "TripTime"))
            /\ (Has(c, "UDP") <=> Has(t, "UDP")) /\ (Has(c, "Compat") <=> Has(t, "Compat"))
            /\ (Has(c, "BounceBack") <=> Has(t, "BounceBack"))
        BY <2>2, <2>3, SMT
      <3> QED
        BY <1>1, <2>2, <2>4, <3>1, SMT DEF Completed
    <2>6. (Has(c, "IncrDstPort") <=> Has(t, "IncrDstPort")) /\ OwnListenerPort(c) = OwnListenerPort(t)
      <3>1. OwnListenerPort(c) = OwnListenerPort(t)
        BY <2>2, Zenon DEF OwnListenerPort
      <3> QED
        BY <2>3, <3>1, SMT
    <2> QED
      BY <1>1, <2>3, <2>5, <2>6, Zenon DEF Speaks
  <1> QED
    BY <1>2, <1>3

\* The invariant holds initially, and every step keeps it.
LEMMA InitExchangeInv == ExchangeInit => ExchangeInv
  <1> SUFFICES ASSUME ExchangeInit PROVE ExchangeInv
    OBVIOUS
  <1>1. /\ phase = "options" /\ reader = "none" /\ reversed = Initialize /\ settings = Initialize
        /\ pending \in OptionSets
    BY SMT DEF ExchangeInit
  <1>2. pending \subseteq OptionNames
    BY <1>1, OptionsAssumption
  <1>3. AckMatched
    BY <1>1, SMT DEF AckMatched
  <1> QED
    BY <1>1, <1>2, <1>3, GivenInitialize, SMT DEF ExchangeInv

LEMMA StepRead ==
  ASSUME ExchangeInv, NEW o \in pending, Read(o) PROVE ExchangeInv'
  <1>1. /\ phase = "options" /\ phase' = "options" /\ reader' = reader /\ reversed' = reversed
        /\ settings' = Interpret(settings, o) /\ pending' \subseteq pending
    BY SMT DEF Read
  <1>2. o \in OptionNames /\ Given(settings) /\ pending \subseteq OptionNames /\ reader = "none" /\ reversed = Initialize
    BY <1>1, SMT DEF ExchangeInv
  <1>3. Given(settings')
    BY <1>1, <1>2, GivenInterpret, Zenon
  <1>4. AckMatched'
    BY <1>1, SMT DEF AckMatched
  <1> QED
    BY <1>1, <1>2, <1>3, <1>4, SMT DEF ExchangeInv

LEMMA StepComplete ==
  ASSUME ExchangeInv, Complete PROVE ExchangeInv'
  <1>1. /\ phase = "options" /\ reader' = reader /\ reversed' = reversed /\ settings' = Modal(settings)
        /\ phase' = IF settings'.bail \/ settings'.thread = "unknown" \/ (IsClient(settings') /\ Has(settings', "Daemon"))
                    THEN "exit" ELSE settings'.thread
    BY Zenon DEF Complete
  <1>2. Given(settings) /\ reader = "none" /\ reversed = Initialize
    BY <1>1, SMT DEF ExchangeInv
  <1>3. settings'.thread \in {"unknown", "client", "listener"}
    BY <1>1, <1>2, KeptModal, Zenon DEF Kept, Typed
  <1>4. phase' = "exit" \/ (phase' = settings'.thread /\ ~settings'.bail /\ settings'.thread \in {"client", "listener"})
    BY <1>1, <1>3, SMT
  <1>5. phase' = "client" => Completed(settings')
    BY <1>1, <1>2, <1>4, KeptModal, SMT
  <1>6. phase' \in {"exit", "client", "listener"}
    BY <1>4, SMT
  <1>7. AckMatched'
    BY <1>6, SMT DEF AckMatched
  <1> QED
    BY <1>1, <1>2, <1>5, <1>6, <1>7, SMT DEF ExchangeInv

LEMMA StepSend ==
  ASSUME ExchangeInv, Send PROVE ExchangeInv'
  <1>1. PICK t \in Streams(settings) :
          LET c == IF Has(t, "Compat") THEN Unset(t, {"PeerVerDetect"}) ELSE t
          IN  /\ client' = c /\ header' = ClientHdr(c)
              /\ phase' = IF {"FullDuplex", "BounceBack"} \subseteq c.flags THEN "exit" ELSE "sent"
    BY Zenon DEF Send
  <1>2. phase = "client" /\ settings' = settings /\ reader' = reader /\ reversed' = reversed
    BY Zenon DEF Send
  <1>3. Completed(settings) /\ reader = "none" /\ reversed = Initialize
    BY <1>2, SMT DEF ExchangeInv
  <1>4. phase' = "exit" \/ (phase' = "sent" /\ ~({"FullDuplex", "BounceBack"} \subseteq client'.flags))
    BY <1>1, Zenon
  <1>5. phase' = "sent" => Offered'
    <2> SUFFICES ASSUME phase' = "sent" PROVE Offered'
      OBVIOUS
    <2>1. client' = (IF Has(t, "Compat") THEN Unset(t, {"PeerVerDetect"}) ELSE t) /\ header' = ClientHdr(client')
      BY <1>1, Zenon
    <2>2. ~({"FullDuplex", "BounceBack"} \subseteq client'.flags)
      BY <1>4, SMT
    <2>3. Speaks(client') /\ (~Has(client', "IncrDstPort") => OwnListenerPort(client') = OwnListenerPort(settings))
      BY <1>3, <2>1, <2>2, StreamsSpeak
    <2> QED
      BY <1>2, <2>1, <2>3, Zenon DEF Offered
  <1>6. AckMatched'
    BY <1>4, SMT DEF AckMatched
  <1> QED
    BY <1>2, <1>3, <1>4, <1>5, <1>6, SMT DEF ExchangeInv

LEMMA StepAccept ==
  ASSUME ExchangeInv, NEW l \in Listeners, Accept(l) PROVE ExchangeInv'
  <1> DEFINE s == Served(l, header)
             refused == ~Has(l, "Compat") /\ (Has(l, "ConnectOnly") \/ (~IsUDP(l) /\ RefusesTCP(l, header)))
             generates == ~Has(l, "Compat") /\ Generates(s)
  <1>1. /\ phase = "sent" /\ (IsUDP(l) <=> IsUDP(client)) /\ listener' = l
        /\ settings' = settings /\ client' = client /\ header' = header /\ reader' = reader
    BY SMT DEF Accept
  <1>2. IF refused THEN phase' = "refused" /\ UNCHANGED <<server, reversed, ack>>
        ELSE /\ phase' = "accepted"
             /\ server' = IF Has(l, "Compat") THEN Taker(l)
                          ELSE IF generates THEN ReceiverSettings(s, header) ELSE s
             /\ reversed' = IF generates THEN ClientSettings(s, header) ELSE reversed
             /\ ack' = IF Has(l, "Compat") THEN 0 ELSE AckOf(s, header)
    BY Zenon DEF Accept, Served, Taker
  <1>3. reader = "none" /\ reversed = Initialize /\ Offered
    BY <1>1, SMT DEF ExchangeInv
  <1>4. Offered'
    BY <1>1, <1>3, Zenon DEF Offered
  <1>5. CASE refused
    <2>1. phase' = "refused" /\ reversed' = reversed
      BY <1>2, <1>5, Zenon
    <2>2. AckMatched'
      BY <2>1, SMT DEF AckMatched
    <2> QED
      BY <1>1, <1>3, <2>1, <2>2, SMT DEF ExchangeInv
  <1>6. CASE ~refused
    <2>1. /\ phase' = "accepted"
          /\ server' = IF Has(l, "Compat") THEN Taker(l)
                       ELSE IF generates THEN ReceiverSettings(s, header) ELSE s
          /\ reversed' = IF generates THEN ClientSettings(s, header) ELSE Initialize
          /\ ack' = IF Has(l, "Compat") THEN 0 ELSE AckOf(s, header)
      BY <1>2, <1>3, <1>6, Zenon
    <2>2. Taken'
      BY <1>1, <1>6, <2>1, Zenon DEF Taken, Refuses, Serving, Sends
    <2>3. ASSUME Plain(l) PROVE /\ Awaits(client) => ack' = AwaitedSize(client)
                                /\ TwoWays(client) /\ ~Awaits(client) => ack' = 0
      <3>1. ~Has(l, "Compat")
        BY <2>3, SMT DEF Plain, FlagsOf, Has
      <3>2. ack' = AckOf(s, header) /\ (~IsUDP(l) => ~RefusesTCP(l, header))
        BY <1>6, <2>1, <3>1, Zenon
      <3>3. Speaks(client) /\ header = ClientHdr(client)
        BY <1>3, Zenon DEF Offered
      <3> HIDE DEF s
      <3>4. s = Served(l, ClientHdr(client)) /\ (~IsUDP(l) => ~RefusesTCP(l, ClientHdr(client)))
        BY <3>2, <3>3 DEF s
      <3> QED
        BY <1>1, <2>3, <3>2, <3>3, <3>4, AnswerFits
    <2>4. AckMatched'
      BY <1>1, <1>3, <2>3, Zenon DEF AckMatched
    <2> HIDE DEF s
    <2> QED
      BY <1>1, <1>3, <1>4, <2>1, <2>2, <2>4, SMT DEF ExchangeInv
  <1> QED
    BY <1>5, <1>6

LEMMA StepRest ==
  ASSUME ExchangeInv, PeerXchange \/ ReadTraffic \/ UNCHANGED exchangeVars PROVE ExchangeInv'
  <1>1. UNCHANGED <<pending, settings, phase, client, header, listener, server, reversed>>
    BY SMT DEF PeerXchange, ReadTraffic, exchangeVars
  <1>2. Offered' <=> Offered
    BY <1>1, Zenon DEF Offered
  <1>3. Taken' <=> Taken
    BY <1>1, Zenon DEF Taken
  <1>4. phase # "accepted" => reader' = reader
    BY SMT DEF PeerXchange, ReadTraffic, exchangeVars
  <1>5. AckMatched'
    <2> SUFFICES ASSUME phase = "accepted", Plain(listener), ~(Has(client, "FullDuplex") /\ Awaits(client))
                 PROVE  /\ reader' # "traffic"
                        /\ Awaits(client) /\ reader' = "none" => ack' = AwaitedSize(client)
                        /\ TwoWays(client) /\ (~Awaits(client) \/ reader' = "peer") => ack' = 0
      BY <1>1, Zenon DEF AckMatched
    <2>1. /\ reader # "traffic"
          /\ Awaits(client) /\ reader = "none" => ack = AwaitedSize(client)
          /\ TwoWays(client) /\ (~Awaits(client) \/ reader = "peer") => ack = 0
      BY Zenon DEF ExchangeInv, AckMatched
    <2>2. CASE UNCHANGED exchangeVars
      BY <2>1, <2>2, SMT DEF exchangeVars
    <2>3. CASE PeerXchange
      <3>1. Awaits(client) /\ reader = "none" /\ ack' = ack - AwaitedSize(client) /\ reader' = "peer"
        BY <2>3, Zenon DEF PeerXchange
      <3>2. AwaitedSize(client) \in Int
        BY SMT DEF AwaitedSize, AckSize
      <3>3. ack' = 0
        BY <2>1, <3>1, <3>2, SMT
      <3> QED
        BY <3>1, <3>3, SMT
    <2>4. CASE ReadTraffic
      <3>1. ack > 0 /\ TwoWays(client) /\ (Has(client, "FullDuplex") \/ ~Awaits(client) \/ reader = "peer")
        BY <2>4, Zenon DEF ReadTraffic
      <3>2. ack = 0
        BY <2>1, <3>1, Zenon
      <3> QED
        BY <3>1, <3>2, SMT
    <2> QED
      BY <2>2, <2>3, <2>4
  <1> QED
    BY <1>1, <1>2, <1>3, <1>4, <1>5, SMT DEF ExchangeInv

\* What holds of the settings while they are read and once they are complete, what the
\* stream has sent and what the listener has made of it.
THEOREM Exchange == ExchangeSpec => []ExchangeInv
  <1>1. ExchangeInv /\ [ExchangeNext]_exchangeVars => ExchangeInv'
    BY StepRead, StepComplete, StepSend, StepAccept, StepRest DEF ExchangeNext
  <1> QED
    BY <1>1, InitExchangeInv, PTL DEF ExchangeSpec

\* AckMatched for every set of options and every listener: the 28 or 52 bytes that
\* client_test_ack writes are taken by PeerXchange of a client that waits for them, and
\* a reading thread of the client never finds them.
THEOREM Answers == ExchangeSpec => []AckMatched
  <1>1. ExchangeInv => AckMatched
    BY Zenon DEF ExchangeInv
  <1> QED
    BY <1>1, Exchange, PTL

-----------------------------------------------------------------------------
(* The theorems: HeaderCovers                                              *)

\* A datagram is as long as its header at least.
LEMMA UDPHeaderLong ==
  ASSUME NEW c, Speaks(c) PROVE UDPHeader(c).sent >= c.len /\ UDPHeader(c).sent \in Int
  <1> DEFINE size == 112 + When(Has(c, "Isochronous") /\ TwoWays(c), 32) - 32
                     + When({"TripTime", "FQPacing", "Isochronous"} \cap c.flags # {}, 32)
  <1>1. UDPHeader(c).sent = Max({size, c.len})
    BY UDPHeaderSays, Zenon
  <1>2. size \in Int
    BY SMT DEF When
  <1>3. c.len \in Int
    BY SMT DEF Speaks, Completed, Typed
  <1> HIDE DEF size
  <1> QED
    BY <1>1, <1>2, <1>3, LargerOf, SMT

\* What the listener reads lies within the header.
LEMMA FieldsCovered ==
  ASSUME Offered, Taken PROVE phase = "accepted" => HeaderCovers
  <1> SUFFICES ASSUME ~Has(listener, "Compat"), "BOUNCEBACK" \notin header.words,
                      IsUDP(client) => client.len >= 160,
                      Has(client, "Isochronous") =>
                        /\ client.mode = "normal"
                        /\ \/ TwoWays(client)
                           \/ AskedCCA(client) = NoText /\ (IsUDP(listener) \/ ~Has(listener, "FullDuplex")),
                      NEW end \in FieldsRead
               PROVE  end =< (IF IsUDP(listener) THEN header.sent ELSE header.len)
    BY Zenon DEF HeaderCovers
  <1> DEFINE back == reversed.thread = "client"
  <1>1. /\ Speaks(client) /\ header = ClientHdr(client) /\ listener \in Listeners
        /\ (IsUDP(listener) <=> IsUDP(client)) /\ ~Refuses(listener, header)
    BY Zenon DEF Offered, Taken
  <1>2. back => Generates(Served(listener, header))
    <2>1. Initialize.thread # "client"
      BY SMT DEF Initialize
    <2> QED
      BY <2>1, Zenon DEF Taken, Sends
  <1>3. CASE IsUDP(listener)
    <2>1. end \in {16, 28, 80, 120, 128, 160}
      BY <1>3, SMT DEF FieldsRead
    <2>2. \/ header = SmallUDPHeader(client) \/ header = UDPHeader(client) \/ header = Pattern(client)
      BY <1>1, <1>3, HeaderKinds, Zenon
    <2>3. header.sent >= 160 /\ header.sent \in Int
      <3>1. client.len >= 160 /\ client.len \in Int
        BY <1>1, <1>3, SMT DEF Speaks, Completed, Typed
      <3>2. CASE header = UDPHeader(client)
        BY <1>1, <3>1, <3>2, UDPHeaderLong, SMT
      <3>3. CASE header = SmallUDPHeader(client) \/ header = Pattern(client)
        <4>1. header.sent = client.len
          <5>1. SmallUDPHeader(client).sent = client.len /\ Pattern(client).sent = client.len
            BY SmallUDPHeaderSays, PatternSays, Zenon
          <5> QED
            BY <3>3, <5>1, Zenon
        <4> QED
          BY <3>1, <4>1, SMT
      <3> QED
        BY <2>2, <3>2, <3>3
    <2> QED
      BY <1>3, <2>1, <2>3, SMT
  <1>4. CASE ~IsUDP(listener)
    <2>1. \/ header = TCPHeader(client)
          \/ header = Pattern(client)
      <3>1. header # NoHeader
        <4>1. NoHeader.sent < 4
          BY SMT DEF NoHeader
        <4> QED
          BY <1>1, <1>4, <4>1, Zenon DEF Refuses, RefusesTCP
      <3>2. header # BounceBackHeader(client)
        BY BounceBackHeaderSays, SMT
      <3> QED
        BY <1>1, <1>4, <3>1, <3>2, HeaderKinds, Zenon
    <2>2. \/ end = 64 /\ "EXTEND" \in header.words
          \/ end = 72 /\ {"EPOCH_START", "TRIPTIME"} \cap header.upper # {}
          \/ end = 80 /\ "FQRATESET" \in header.upper /\ back
          \/ end = 88 /\ "PERIODICBURST" \in header.upper
          \/ end = 112 /\ "ISOCH" \in header.upper /\ back
          \/ end = 114 + Len(header.cca) /\ "CCA" \in header.lower
      BY <1>4, SMT DEF FieldsRead
    <2>3. CASE header = TCPHeader(client)
      <3> DEFINE h == header
      <3>1. back \in BOOLEAN /\ (back => Generates(Served(listener, TCPHeader(client))))
        BY <1>2, <2>3
      <3> HIDE DEF back
      <3>2. /\ h.len >= 64
            /\ {"EPOCH_START", "TRIPTIME"} \cap h.upper # {} => h.len >= 72
            /\ "FQRATESET" \in h.upper => h.len >= 80
            /\ "PERIODICBURST" \in h.upper => h.len >= 88
            /\ "ISOCH" \in h.upper /\ back => h.len >= 112
            /\ "CCA" \in h.lower => h.len >= 114 + Len(h.cca)
            /\ h.len \in Nat /\ Len(h.cca) \in Nat
        BY <1>1, <1>4, <2>3, <3>1, TCPFieldsCovered
      <3> DEFINE n == Len(h.cca)
      <3>3. n \in Nat /\ end \in Int
        BY <2>2, <3>2, SMT
      <3>4. end =< h.len
        BY <2>2, <3>2, SMT
      <3> QED
        BY <1>4, <3>4
    <2>4. CASE header = Pattern(client)
      <3>1. header.words = {"KEYCHECK", "UDPTESTS", "LEN_BIT"} /\ header.upper = {} /\ header.lower = {}
        BY <1>1, <1>4, <2>4, PatternSays, Zenon
      <3> QED
        BY <2>2, <3>1, SMT
    <2> QED
      BY <2>1, <2>3, <2>4
  <1> QED
    BY <1>3, <1>4

\* HeaderCovers for every set of options and every listener: the lengths that
\* Settings_GenerateClientHdr adds up reach as far as the fields that
\* apply_client_settings and Settings_GenerateClientSettings read.
THEOREM Covers == ExchangeSpec => []HeaderCovers
  <1>1. ExchangeInv => HeaderCovers
    <2>1. CASE phase = "accepted"
      <3>1. ASSUME ExchangeInv PROVE Offered /\ Taken
        BY <2>1, <3>1, SMT DEF ExchangeInv
      <3> QED
        BY <2>1, <3>1, FieldsCovered
    <2>2. CASE phase # "accepted"
      BY <2>2, Zenon DEF HeaderCovers
    <2> QED
      BY <2>1, <2>2
  <1> QED
    BY <1>1, Exchange, PTL

-----------------------------------------------------------------------------
(* The theorems: SameTest                                                  *)

\* The tests of which both ends make the same: those of WholeTest.
Whole(c) ==
  /\ ~(IsUDP(c) /\ Has(c, "Compat")) /\ (Has(c, "SmallTripTime") => c.len >= 28 /\ ~Has(c, "Isochronous"))
  /\ ~(BothWays(c) /\ FlagsOf(c, {"BounceBack", "ModeInfinite"}) # {})
  /\ c.mode # "normal" => FlagsOf(c, {"SyncTransferID", "PeerVerDetect", "FullDuplex", "Reverse"}) = {}
  /\ Has(c, "FullDuplex") => ~Has(c, "SyncTransferID")

\* The flags that the reports of a server depend on.
Reported == {"SumOnly", "CSV", "Histogram", "JitterHistogram", "UDP"}

\* How the thread of the server and the header agree with the stream that speaks.
Agrees(c, l, s, h) ==
  /\ Has(s, "TripTime") <=> Has(c, "TripTime")
  /\ Has(s, "Isochronous") <=> Has(c, "Isochronous") /\ ~Has(c, "BounceBack")
  /\ Has(s, "PeriodicBurst") <=> Has(c, "PeriodicBurst") /\ ~Has(c, "BounceBack") /\ ~IsUDP(c)
  /\ Has(s, "FullDuplex") <=> Has(c, "FullDuplex")
  /\ Has(s, "ServerReverse") <=> TwoWays(c)
  /\ Has(s, "BounceBack") <=> Has(c, "BounceBack")
  /\ \A f \in Reported : Has(s, f) <=> Has(l, f)
  /\ s.mode = c.mode /\ s.imode = l.imode /\ s.thread = IF Has(c, "Reverse") THEN "client" ELSE "server"
  /\ Full(s)
  /\ SendsBack(c) => /\ "EXTEND" \in h.words /\ h.amount = c.amount /\ h.timed = Has(c, "ModeTime")
                     /\ h.port = OwnListenerPort(c)
                     /\ V1Test(h) <=> c.mode # "normal"
                     /\ V1Test(h) => ("RUN_NOW" \in h.words <=> c.mode = "dual")
                     /\ Has(c, "FullDuplex") => "VERSION1" \notin h.words
  /\ TwoWays(c) /\ Frames(c) # {} /\ TellsFrames(c) => h.fps = c.fps
  /\ h.cca # NoText /\ ~Has(l, "CongestionControl") => s.cca = AskedCCA(c)
  /\ Has(c, "BounceBack") => s.bbytes = c.bbytes /\ s.breply = c.breply

\* The flags that such a listener does not have.
LEMMA PlainSays ==
  ASSUME NEW l \in Listeners, Plain(l)
  PROVE  /\ ~Has(l, "Compat") /\ ~Has(l, "TripTime") /\ ~Has(l, "FullDuplex") /\ ~Has(l, "ServerReverse")
         /\ ~Has(l, "PeriodicBurst") /\ ~Has(l, "Isochronous") /\ ~Has(l, "BounceBack")
  <1>1. ~Has(l, "BounceBack")
    BY FreshSays
  <1> QED
    BY <1>1, SMT DEF Plain, FlagsOf, Has

\* Nothing that a header changes chooses the reports.
LEMMA Reports == \A f \in Reported : f \notin Aside \cup {"ModeTime", "TripTime", "Isochronous", "PeriodicBurst",
                                                           "FullDuplex", "ServerReverse", "BounceBack"}
  BY SMT DEF Reported, Aside

\* A header of TCP, and of UDP.
LEMMA AgreesTCP ==
  ASSUME NEW c, Speaks(c), Whole(c), ~IsUDP(c), SendsHeader(c), NEW l \in Listeners, ~IsUDP(l), Plain(l)
  PROVE  Agrees(c, l, Served(l, TCPHeader(c)), TCPHeader(c))
  <1> DEFINE h == TCPHeader(c)
             s == Served(l, h)
  <1>1. /\ "EXTEND" \in h.words /\ {"BOUNCEBACK", "SMALL_TRIPTIMES", "UDPTESTS"} \cap h.words = {}
        /\ "VERSION1" \in h.words <=> WantsMode(c) \/ Has(c, "SyncTransferID")
        /\ "RUN_NOW" \in h.words <=> (WantsMode(c) \/ Has(c, "SyncTransferID")) /\ c.mode = "dual"
        /\ "HASTRANSFERID" \in h.words <=> Has(c, "SyncTransferID")
        /\ "VERSION2" \in h.words <=> Has(c, "PeerVerDetect") \/ TwoWays(c)
        /\ h.amount = c.amount /\ h.timed = Has(c, "ModeTime") /\ h.port = OwnListenerPort(c)
        /\ h.cca = AskedCCA(c)
        /\ "CCA" \in h.lower <=> AskedCCA(c) # NoText
    BY TCPHeaderSays, Zenon
  <1>2. /\ "REVERSE" \in h.upper <=> Has(c, "Reverse") /\ ~Has(c, "Compat")
        /\ "FULLDUPLEX" \in h.upper <=> Has(c, "FullDuplex") /\ ~Has(c, "Compat")
        /\ "TRIPTIME" \in h.upper <=> Has(c, "TripTime")
        /\ "PERIODICBURST" \in h.upper <=> Has(c, "PeriodicBurst")
        /\ "ISOCH" \in h.upper <=> Has(c, "Isochronous") /\ ~Has(c, "PeriodicBurst")
        /\ h.fps = When({"Isochronous", "PeriodicBurst"} \cap c.flags # {} /\ Settled(c), c.fps)
    BY TCPHeaderFlags, Zenon
  <1> HIDE DEF h
  <1>3. LET t == s
        IN  /\ \A f : f \notin Aside =>
                 (Has(t, f) <=> \/ Has(l, f) \/ f \in Told(h)
                                \/ f = "PeriodicBurst" /\ "PERIODICBURST" \in h.upper
                                \/ f = "Isochronous" /\ "ISOCH" \in h.upper)
            /\ Others(l, t, {"fps", "cca", "tos", "mode", "thread"})
            /\ t.mode = Mode1(h) /\ t.thread = IF Back2(h) THEN "client" ELSE "server"
            /\ t.cca = IF "CCA" \in h.lower /\ ~Has(l, "CongestionControl") THEN h.cca ELSE l.cca
    <2>1. "BOUNCEBACK" \notin h.words
      BY <1>1, SMT
    <2> QED
      BY <1>1, <2>1, ServedTCP, Zenon
  <1> HIDE DEF s
  <1>4. /\ Has(c, "Reverse") => TwoWays(c)
        /\ Has(c, "FullDuplex") => TwoWays(c)
        /\ TwoWays(c) => Has(c, "Reverse") \/ Has(c, "FullDuplex")
        /\ Has(c, "Compat") => ~Has(c, "Reverse") /\ ~Has(c, "FullDuplex") /\ c.mode = "normal"
        /\ ~(Has(c, "PeriodicBurst") /\ Has(c, "Isochronous"))
        /\ ~Has(c, "BounceBack") /\ c.mode \in {"normal", "dual", "tradeoff"}
        /\ c.mode # "normal" => /\ ~Has(c, "SyncTransferID") /\ ~Has(c, "PeerVerDetect")
                                /\ ~TwoWays(c)
        /\ Has(c, "FullDuplex") => ~Has(c, "SyncTransferID")
    BY SMT DEF Speaks, Completed, Typed, Whole, TwoWays, BothWays, FlagsOf, Has, SendsHeader
  <1>5. /\ "REVERSE" \in h.upper <=> Has(c, "Reverse")
        /\ "FULLDUPLEX" \in h.upper <=> Has(c, "FullDuplex")
        /\ WantsMode(c) <=> c.mode # "normal"
    BY <1>2, <1>4, Zenon DEF WantsMode
  <1>6. (Back2(h) <=> Has(c, "Reverse")) /\ (Full2(h) <=> Has(c, "FullDuplex"))
    BY <1>1, <1>4, <1>5, SMT DEF Back2, Full2
  <1>7. Mode1(h) = c.mode
    <2>1. CASE c.mode = "normal"
      BY <1>1, <1>5, <2>1, SMT DEF Mode1
    <2>2. CASE c.mode # "normal"
      BY <1>1, <1>4, <1>5, <2>2, SMT DEF Mode1
    <2> QED
      BY <2>1, <2>2
  <1>8. SendsBack(c) => /\ V1Test(h) <=> c.mode # "normal"
                        /\ V1Test(h) => ("RUN_NOW" \in h.words <=> c.mode = "dual")
                        /\ Has(c, "FullDuplex") => "VERSION1" \notin h.words
    BY <1>1, <1>4, <1>5, SMT DEF SendsBack, V1Test
  <1>9. /\ Has(s, "TripTime") <=> Has(c, "TripTime")
        /\ Has(s, "Isochronous") <=> Has(c, "Isochronous")
        /\ Has(s, "PeriodicBurst") <=> Has(c, "PeriodicBurst")
        /\ Has(s, "FullDuplex") <=> Has(c, "FullDuplex")
        /\ Has(s, "ServerReverse") <=> TwoWays(c)
        /\ ~Has(s, "BounceBack")
    BY <1>2, <1>3, <1>4, <1>6, ToldIs, Mattering, PlainSays, SMT
  <1>10. \A f \in Reported : Has(s, f) <=> Has(l, f)
    BY <1>3, ToldIs, Reports, SMT
  <1>11. s.imode = l.imode /\ Full(s)
    BY <1>3, SMT DEF Others, Fields
  <1>12. TwoWays(c) /\ Frames(c) # {} => h.fps = c.fps
    BY <1>2, SMT DEF Frames, FlagsOf, When, Settled
  <1>13. h.cca # NoText /\ ~Has(l, "CongestionControl") => s.cca = AskedCCA(c)
    BY <1>1, <1>3, Zenon
  <1> QED
    BY <1>1, <1>3, <1>4, <1>6, <1>7, <1>8, <1>9, <1>10, <1>11, <1>12, <1>13, Zenon DEF Agrees, s, h

\* A header of UDP.
LEMMA AgreesUDP ==
  ASSUME NEW c, Speaks(c), Whole(c), IsUDP(c), NEW l \in Listeners, IsUDP(l), Plain(l)
  PROVE  Agrees(c, l, Served(l, UDPHeader(c)), UDPHeader(c))
  <1> DEFINE h == UDPHeader(c)
             s == Served(l, h)
  <1>1. /\ "EXTEND" \in h.words /\ {"BOUNCEBACK", "SMALL_TRIPTIMES", "V2PEERDETECT"} \cap h.words = {}
        /\ "VERSION1" \in h.words <=> WantsMode(c)
        /\ "RUN_NOW" \in h.words <=> WantsMode(c) /\ c.mode = "dual"
        /\ "HASTRANSFERID" \in h.words <=> Has(c, "SyncTransferID")
        /\ "VERSION2" \in h.words <=> TwoWays(c)
        /\ "UDPTESTS" \in h.words <=>
             {"Isochronous", "UDPL4S", "Reverse", "FullDuplex", "NoUDPfin", "TripTime", "FQPacing",
              "TxStartTime"} \cap c.flags # {}
        /\ h.amount = c.amount /\ h.timed = Has(c, "ModeTime") /\ h.port = OwnListenerPort(c)
        /\ h.cca = NoText
        /\ "REVERSE" \in h.upper <=> Has(c, "Reverse") /\ ~Has(c, "Compat")
        /\ "FULLDUPLEX" \in h.upper <=> Has(c, "FullDuplex") /\ ~Has(c, "Compat")
        /\ "TRIPTIME" \in h.upper <=> Has(c, "TripTime")
        /\ "ISOCH" \in h.upper <=> Has(c, "Isochronous")
        /\ h.fps = When(Has(c, "Isochronous") /\ TwoWays(c), c.fps)
    BY UDPHeaderSays, Zenon
  <1> HIDE DEF h
  <1>2. "SMALL_TRIPTIMES" \notin h.words /\ (Has(c, "Isochronous") => "UDPTESTS" \in h.words)
    BY <1>1, SMT DEF Has
  <1>3. LET t == s
        IN  /\ \A f : f \notin Aside =>
                 (Has(t, f) <=> \/ Has(l, f) \/ f \in Told(h)
                                \/ f = "Isochronous" /\ "UDPTESTS" \in h.words /\ "ISOCH" \in h.upper)
            /\ Others(l, t, {"tos", "mode", "thread"})
            /\ t.mode = Mode1(h) /\ t.thread = IF Back2(h) THEN "client" ELSE "server"
    BY <1>1, <1>2, ServedUDP, Zenon
  <1> HIDE DEF s
  <1>4. /\ Has(c, "Reverse") => TwoWays(c)
        /\ Has(c, "FullDuplex") => TwoWays(c)
        /\ TwoWays(c) => Has(c, "Reverse") \/ Has(c, "FullDuplex")
        /\ ~Has(c, "Compat")
        /\ ~(Has(c, "PeriodicBurst") /\ Has(c, "Isochronous"))
        /\ ~Has(c, "BounceBack") /\ c.mode \in {"normal", "dual", "tradeoff"}
        /\ c.mode # "normal" => ~Has(c, "SyncTransferID") /\ ~TwoWays(c)
    BY SMT DEF Speaks, Completed, Typed, Whole, TwoWays, BothWays, FlagsOf, Has, IsUDP
  <1>5. WantsMode(c) <=> c.mode # "normal"
    BY <1>4, Zenon DEF WantsMode
  <1>6. (Back2(h) <=> Has(c, "Reverse")) /\ (Full2(h) <=> Has(c, "FullDuplex"))
    BY <1>1, <1>4, SMT DEF Back2, Full2
  <1>7. Mode1(h) = c.mode
    <2>1. CASE c.mode = "normal"
      BY <1>1, <1>5, <2>1, SMT DEF Mode1
    <2>2. CASE c.mode # "normal"
      BY <1>1, <1>4, <1>5, <2>2, SMT DEF Mode1
    <2> QED
      BY <2>1, <2>2
  <1>8. SendsBack(c) => /\ V1Test(h) <=> c.mode # "normal"
                        /\ V1Test(h) => ("RUN_NOW" \in h.words <=> c.mode = "dual")
                        /\ Has(c, "FullDuplex") => "VERSION1" \notin h.words
    BY <1>1, <1>4, <1>5, SMT DEF SendsBack, V1Test
  <1>9. /\ Has(s, "TripTime") <=> Has(c, "TripTime")
        /\ Has(s, "Isochronous") <=> Has(c, "Isochronous")
        /\ ~Has(s, "PeriodicBurst")
        /\ Has(s, "FullDuplex") <=> Has(c, "FullDuplex")
        /\ Has(s, "ServerReverse") <=> TwoWays(c)
        /\ ~Has(s, "BounceBack")
    BY <1>1, <1>2, <1>3, <1>4, <1>6, ToldIs, Mattering, PlainSays, SMT
  <1>10. \A f \in Reported : Has(s, f) <=> Has(l, f)
    BY <1>3, ToldIs, Reports, SMT
  <1>11. s.imode = l.imode /\ Full(s)
    BY <1>3, SMT DEF Others, Fields
  <1>12. TwoWays(c) /\ Frames(c) # {} /\ TellsFrames(c) => h.fps = c.fps
    <2>1. Frames(c) # {} /\ TellsFrames(c) => Has(c, "Isochronous")
      BY <1>4, SMT DEF Frames, FlagsOf, TellsFrames, Has
    <2> QED
      BY <1>1, <2>1, SMT DEF When
  <1> QED
    BY <1>1, <1>3, <1>4, <1>6, <1>7, <1>8, <1>9, <1>10, <1>11, <1>12, Zenon DEF Agrees, s, h

\* Datagrams that are too short for a header.
LEMMA AgreesSmall ==
  ASSUME NEW c, Speaks(c), Whole(c), IsUDP(c), Has(c, "SmallTripTime"), NEW l \in Listeners, IsUDP(l), Plain(l)
  PROVE  Agrees(c, l, Served(l, SmallUDPHeader(c)), SmallUDPHeader(c))
  <1> DEFINE h == SmallUDPHeader(c)
             s == Served(l, h)
  <1>1. /\ Has(c, "TripTime") /\ ~Has(c, "Reverse") /\ ~Has(c, "FullDuplex") /\ c.mode = "normal"
        /\ ~Has(c, "BounceBack") /\ ~Has(c, "Isochronous") /\ c.len >= 28 /\ c.len \in Nat
    BY SMT DEF Speaks, Completed, Typed, Whole, BothWays, Has, IsUDP
  <1>2. c.len >= 20
    BY <1>1, SMT
  <1>3. h.words = {"SMALL_TRIPTIMES"} /\ h.cca = NoText
    BY <1>2, SmallUDPHeaderSays, Zenon
  <1> HIDE DEF h
  <1>4. LET t == s
        IN  /\ \A f : f \notin Aside => (Has(t, f) <=> Has(l, f) \/ f = "TripTime")
            /\ Others(l, t, {"mode", "thread"}) /\ t.mode = "normal" /\ t.thread = "server"
    <2>1. "SMALL_TRIPTIMES" \in h.words
      BY <1>3, SMT
    <2> QED
      BY <2>1, ServedUDPSmall, Zenon
  <1> HIDE DEF s
  <1>5. /\ Has(s, "TripTime") /\ ~Has(s, "Isochronous") /\ ~Has(s, "PeriodicBurst") /\ ~Has(s, "FullDuplex")
        /\ ~Has(s, "ServerReverse") /\ ~Has(s, "BounceBack")
    BY <1>4, Mattering, PlainSays, SMT
  <1>6. \A f \in Reported : Has(s, f) <=> Has(l, f)
    BY <1>4, Reports, SMT
  <1>7. s.imode = l.imode /\ Full(s)
    BY <1>4, SMT DEF Others, Fields
  <1>8. ~TwoWays(c) /\ ~SendsBack(c)
    BY <1>1, SMT DEF SendsBack, TwoWays, Has
  <1> QED
    BY <1>1, <1>3, <1>4, <1>5, <1>6, <1>7, <1>8, Zenon DEF Agrees, s, h

\* The first request of a bounceback.
LEMMA AgreesBounceBack ==
  ASSUME NEW c, Speaks(c), Whole(c), ~IsUDP(c), Has(c, "BounceBack"), ~Has(c, "Compat"), ~TwoWays(c),
         NEW l \in Listeners, ~IsUDP(l), Plain(l)
  PROVE  Agrees(c, l, Served(l, BounceBackHeader(c)), BounceBackHeader(c))
  <1> DEFINE h == BounceBackHeader(c)
             s == Served(l, h)
  <1>1. /\ ~Has(c, "Reverse") /\ ~Has(c, "FullDuplex") /\ c.mode = "normal" /\ c.breply > 0
    BY SMT DEF Speaks, Completed, Typed, Whole, BothWays, FlagsOf, Has, TwoWays
  <1>2. /\ h.words = {"BOUNCEBACK"} /\ h.cca = NoText /\ h.bbytes = c.bbytes /\ h.breply = c.breply
        /\ "BBCLOCKSYNCED" \in h.upper <=> Has(c, "TripTime")
        /\ "BBREPLYSIZE" \in h.upper <=> c.breply > 0 /\ c.breply # c.bbytes
    BY BounceBackHeaderSays, Zenon
  <1> HIDE DEF h
  <1>3. LET t == s
        IN  /\ \A f : f \notin Aside \cup {"ModeTime"} =>
                  (Has(t, f) <=> \/ Has(l, f) \/ f = "BounceBack"
                                 \/ f = "TripTime" /\ "BBCLOCKSYNCED" \in h.upper)
            /\ Others(l, t, {"bbytes", "breply", "len", "tos", "mode", "thread"})
            /\ t.mode = "normal" /\ t.thread = "server"
            /\ t.bbytes = h.bbytes /\ t.breply = IF "BBREPLYSIZE" \in h.upper THEN h.breply ELSE h.bbytes
    <2>1. "BOUNCEBACK" \in h.words
      BY <1>2, SMT
    <2> QED
      BY <2>1, ServedBounceBack, Zenon
  <1> HIDE DEF s
  <1>4. /\ Has(s, "TripTime") <=> Has(c, "TripTime")
        /\ ~Has(s, "Isochronous") /\ ~Has(s, "PeriodicBurst") /\ ~Has(s, "FullDuplex")
        /\ ~Has(s, "ServerReverse") /\ Has(s, "BounceBack")
    BY <1>2, <1>3, Mattering, PlainSays, SMT
  <1>5. \A f \in Reported : Has(s, f) <=> Has(l, f)
    BY <1>3, Reports, SMT
  <1>6. s.imode = l.imode /\ Full(s)
    BY <1>3, SMT DEF Others, Fields
  <1>7. ~SendsBack(c) /\ Frames(c) = {}
    BY <1>1, SMT DEF SendsBack, Frames
  <1>8. s.bbytes = c.bbytes /\ s.breply = c.breply
    BY <1>1, <1>2, <1>3, Zenon
  <1> QED
    BY <1>1, <1>2, <1>3, <1>4, <1>5, <1>6, <1>7, <1>8, Zenon DEF Agrees, s, h

\* A client of version 1.7 that sends no header.
LEMMA AgreesPattern ==
  ASSUME NEW c, Speaks(c), Whole(c), ~IsUDP(c), Has(c, "Compat"), ~SendsHeader(c),
         NEW l \in Listeners, ~IsUDP(l), Plain(l)
  PROVE  Agrees(c, l, Served(l, Pattern(c)), Pattern(c))
  <1> DEFINE h == Pattern(c)
             s == Served(l, h)
  <1>1. /\ ~Has(c, "Reverse") /\ ~Has(c, "FullDuplex") /\ c.mode = "normal" /\ ~Has(c, "BounceBack")
        /\ ~Has(c, "TripTime") /\ ~Has(c, "Isochronous") /\ ~Has(c, "PeriodicBurst")
    BY SMT DEF Speaks, Completed, BothWays, Has, SendsHeader
  <1>2. h.words = {"KEYCHECK", "UDPTESTS", "LEN_BIT"} /\ h.cca = NoText
    BY PatternSays, Zenon
  <1> HIDE DEF h
  <1>3. s = Fresh(l)
    <2>1. {"EXTEND", "BOUNCEBACK"} \cap h.words = {}
      BY <1>2, SMT
    <2> QED
      BY <2>1, ServedTCPSilent, Zenon
  <1>4. Full(s) /\ s.mode = "normal" /\ s.thread = "server" /\ (\A f : Has(s, f) <=> Has(l, f))
        /\ Others(l, s, {"mode", "thread"})
    <2>1. LET t == Fresh(l)
          IN  /\ Full(t) /\ t.mode = "normal" /\ t.thread = "server" /\ Others(l, t, {"mode", "thread"})
              /\ \A f : Has(t, f) <=> Has(l, f)
      BY FreshSays
    <2> QED
      BY <1>3, <2>1, Zenon
  <1> HIDE DEF s
  <1>5. /\ ~Has(s, "TripTime") /\ ~Has(s, "Isochronous") /\ ~Has(s, "PeriodicBurst") /\ ~Has(s, "FullDuplex")
        /\ ~Has(s, "ServerReverse") /\ ~Has(s, "BounceBack")
    BY <1>4, PlainSays, Zenon
  <1>6. s.imode = l.imode
    BY <1>4, SMT DEF Others, Fields
  <1>7. ~TwoWays(c) /\ ~SendsBack(c)
    BY <1>1, SMT DEF SendsBack, TwoWays, Has
  <1> QED
    BY <1>1, <1>2, <1>4, <1>5, <1>6, <1>7, Zenon DEF Agrees, s, h

\* Whatever kind of header the stream has sent.
LEMMA HeaderAgrees ==
  ASSUME NEW c, Speaks(c), Whole(c), NEW l \in Listeners, Plain(l), IsUDP(l) <=> IsUDP(c),
         ~Refuses(l, ClientHdr(c))
  PROVE  Agrees(c, l, Served(l, ClientHdr(c)), ClientHdr(c))
  <1>1. ~Has(l, "Compat")
    BY PlainSays
  <1>2. CASE ~IsUDP(c) /\ ClientHdr(c) = NoHeader
    <2>1. RefusesTCP(l, NoHeader)
      <3>1. NoHeader.sent < 4
        BY DEF NoHeader
      <3> QED
        BY <3>1, Zenon DEF RefusesTCP
    <2> QED
      BY <1>1, <1>2, <2>1, Zenon DEF Refuses
  <1>3. CASE IsUDP(c) /\ Has(c, "SmallTripTime") /\ ClientHdr(c) = SmallUDPHeader(c)
    BY <1>3, AgreesSmall
  <1>4. CASE IsUDP(c) /\ ClientHdr(c) = UDPHeader(c)
    BY <1>4, AgreesUDP
  <1>5. CASE ~IsUDP(c) /\ SendsHeader(c) /\ ClientHdr(c) = TCPHeader(c)
    BY <1>5, AgreesTCP
  <1>6. CASE /\ ~IsUDP(c) /\ Has(c, "BounceBack") /\ ~Has(c, "Compat") /\ ~TwoWays(c)
             /\ ClientHdr(c) = BounceBackHeader(c)
    BY <1>6, AgreesBounceBack
  <1>7. CASE ~SendsHeader(c) /\ Has(c, "Compat") /\ ClientHdr(c) = Pattern(c)
    <2>1. ~IsUDP(c)
      BY <1>7, Zenon DEF Whole
    <2> QED
      BY <1>7, <2>1, AgreesPattern
  <1> QED
    BY <1>2, <1>3, <1>4, <1>5, <1>6, <1>7, HeaderKinds, Zenon

\* The flags of the server's settings that its own thread has too.
Lasting == Reported \cup {"TripTime", "Isochronous", "PeriodicBurst", "BounceBack"}

\* The thread of the listener that has to read, or to send in a reverse test.
ServerThread(s, h) == IF Generates(s) THEN ReceiverSettings(s, h) ELSE s

\* The listener sends when the client has asked for it.
LEMMA GeneratesSays ==
  ASSUME NEW c, NEW l, NEW s, NEW h, Agrees(c, l, s, h)
  PROVE  Generates(s) <=> SendsBack(c)
  <1>1. Has(c, "FullDuplex") => TwoWays(c)
    BY SMT DEF TwoWays, Has
  <1> QED
    BY <1>1, Zenon DEF Agrees, Generates, SendsBack

\* Its reading thread, or in a reverse test the one that sends.
LEMMA ServerThreadSays ==
  ASSUME NEW c, NEW l, NEW s, NEW h, Agrees(c, l, s, h)
  PROVE  LET r == ServerThread(s, h)
         IN  /\ \A f \in Lasting : Has(r, f) <=> Has(s, f)
             /\ r.thread = IF Has(c, "Reverse") THEN "client" ELSE "server"
             /\ r.imode = l.imode /\ r.cca = s.cca /\ r.bbytes = s.bbytes /\ r.breply = s.breply
  <1>1. Full(s) /\ s.imode = l.imode /\ s.thread = IF Has(c, "Reverse") THEN "client" ELSE "server"
    BY Zenon DEF Agrees
  <1>2. CASE ~Generates(s)
    <2>1. ServerThread(s, h) = s
      BY <1>2, Zenon DEF ServerThread
    <2> QED
      BY <1>1, <2>1, Zenon
  <1>3. CASE Generates(s) /\ (Has(s, "FullDuplex") \/ V1Test(h))
    <2> DEFINE longer == h.amount + Slop
               r == [s EXCEPT !.amount = longer]
    <2>1. ServerThread(s, h) = r
      BY <1>3, Zenon DEF ServerThread, ReceiverSettings
    <2> HIDE DEF longer
    <2>2. /\ \A f : Has(r, f) <=> Has(s, f)
          /\ r.thread = s.thread /\ r.imode = s.imode /\ r.cca = s.cca /\ r.bbytes = s.bbytes /\ r.breply = s.breply
      BY <1>1, SMT DEF Full, Fields, Has
    <2> HIDE DEF r
    <2> QED
      BY <1>1, <2>1, <2>2, Zenon
  <1>4. CASE Generates(s) /\ ~Has(s, "FullDuplex") /\ ~V1Test(h)
    <2> DEFINE r == ClientSettings(s, h)
    <2>1. ServerThread(s, h) = r
      BY <1>4, Zenon DEF ServerThread, ReceiverSettings
    <2>2. Has(c, "Reverse")
      <3>1. SendsBack(c) /\ ~Has(c, "FullDuplex") /\ c.mode = "normal"
        BY <1>4, GeneratesSays, Zenon DEF Agrees
      <3> QED
        BY <3>1, SMT DEF SendsBack, TwoWays, Has
    <2>3. /\ Within(s, r, Anew) /\ r.thread = "client"
          /\ Others(s, r, {"port", "threads", "amount", "thread", "len", "rate", "tos", "fps", "mode"})
      BY <1>1, ClientSettingsSays, Zenon
    <2> HIDE DEF r
    <2>4. \A f \in Lasting : f \notin Anew
      BY SMT DEF Lasting, Reported, Anew
    <2>5. r.imode = s.imode /\ r.cca = s.cca /\ r.bbytes = s.bbytes /\ r.breply = s.breply
      BY <2>3, SMT DEF Others, Fields
    <2>6. \A f \in Lasting : Has(r, f) <=> Has(s, f)
      BY <2>3, <2>4, Zenon DEF Within
    <2> QED
      BY <1>1, <2>1, <2>2, <2>3, <2>5, <2>6, Zenon
  <1> QED
    BY <1>2, <1>3, <1>4

\* Its sending thread.
LEMMA ReversedSays ==
  ASSUME NEW c, NEW l, NEW s, NEW h, Agrees(c, l, s, h), SendsBack(c), Speaks(c), Plain(l),
         IsUDP(l) <=> IsUDP(c)
  PROVE  LET t == ClientSettings(s, h)
         IN  /\ t.thread = "client" /\ t.amount = c.amount /\ (Has(t, "ModeTime") <=> Has(c, "ModeTime"))
             /\ t.mode = c.mode /\ (Has(t, "FullDuplex") <=> Has(c, "FullDuplex")) /\ t.port = OwnListenerPort(c)
             /\ TwoWays(c) /\ Frames(c) # {} /\ TellsFrames(c) => t.fps = c.fps
  <1> DEFINE t == ClientSettings(s, h)
             frames == Has(s, "Isochronous") \/ (Has(s, "PeriodicBurst") /\ ~IsUDP(s))
  <1>1. /\ "EXTEND" \in h.words /\ h.amount = c.amount /\ h.timed = Has(c, "ModeTime")
        /\ h.port = OwnListenerPort(c)
        /\ V1Test(h) <=> c.mode # "normal"
        /\ V1Test(h) => ("RUN_NOW" \in h.words <=> c.mode = "dual")
        /\ Has(c, "FullDuplex") => "VERSION1" \notin h.words
    BY Zenon DEF Agrees
  <1>2. Full(s) /\ (Has(s, "FullDuplex") <=> Has(c, "FullDuplex"))
    BY Zenon DEF Agrees
  <1>3. /\ Has(t, "ModeTime") <=> h.timed
        /\ Has(t, "FullDuplex") <=> Has(s, "FullDuplex") /\ "VERSION1" \notin h.words
        /\ t.port = h.port /\ t.amount = h.amount /\ t.thread = "client"
        /\ t.fps = IF "EXTEND" \in h.words /\ frames THEN h.fps ELSE s.fps
        /\ t.mode = IF V1Test(h) THEN IF "RUN_NOW" \in h.words THEN "dual" ELSE "tradeoff" ELSE "normal"
    BY <1>2, ClientSettingsSays, Zenon
  <1> HIDE DEF t
  <1>4. c.mode \in {"normal", "dual", "tradeoff"}
    BY Zenon DEF Speaks, Completed, Typed
  <1>5. t.mode = c.mode
    BY <1>1, <1>3, <1>4, SMT
  <1>6. TwoWays(c) /\ Frames(c) # {} /\ TellsFrames(c) => t.fps = c.fps
    <2>1. SUFFICES ASSUME TwoWays(c), Frames(c) # {}, TellsFrames(c) PROVE t.fps = c.fps
      OBVIOUS
    <2>2. h.fps = c.fps
      BY <2>1, Zenon DEF Agrees
    <2>3. /\ Has(s, "Isochronous") <=> Has(c, "Isochronous") /\ ~Has(c, "BounceBack")
          /\ Has(s, "PeriodicBurst") <=> Has(c, "PeriodicBurst") /\ ~Has(c, "BounceBack") /\ ~IsUDP(c)
          /\ Has(s, "UDP") <=> Has(l, "UDP")
      BY SMT DEF Agrees, Reported
    <2>4. ~Has(c, "BounceBack") /\ (Has(c, "Isochronous") \/ Has(c, "PeriodicBurst"))
      BY <2>1, SMT DEF Frames, FlagsOf, Has
    <2>5. frames
      BY <2>1, <2>3, <2>4, Zenon DEF TellsFrames, IsUDP
    <2> QED
      BY <1>1, <1>3, <2>2, <2>5, Zenon
  <1> QED
    BY <1>1, <1>2, <1>3, <1>5, <1>6, Zenon DEF t

\* Which lines a thread that reads may have.
LEMMA UDPLines ==
  ASSUME NEW s
  PROVE  /\ UDPReadLine(s) = NoLine <=> Has(s, "SumOnly") \/ ByFrames(s)
         /\ UDPReadLine(s) \in TripTimeLines => Has(s, "TripTime")
  <1>1. ReadLine(s) \notin TripTimeLines \cup {NoLine}
    BY SMT DEF ReadLine, Line, TripTimeLines, NoLine
  <1>2. /\ Line(s, "read_triptime_isoch", "read_isochronous_csv") # NoLine
        /\ Line(s, "read_triptime", "read_triptime_csv") # NoLine
    BY SMT DEF Line, NoLine
  <1>3. NoLine \notin TripTimeLines
    BY SMT DEF NoLine, TripTimeLines
  <1>4. CASE ByFrames(s) \/ Has(s, "SumOnly")
    <2>1. UDPReadLine(s) = NoLine
      BY <1>4, Zenon DEF UDPReadLine
    <2> QED
      BY <1>3, <1>4, <2>1
  <1>5. CASE ~(ByFrames(s) \/ Has(s, "SumOnly")) /\ Has(s, "TripTime") /\ Has(s, "Isochronous")
    <2>1. UDPReadLine(s) = Line(s, "read_triptime_isoch", "read_isochronous_csv")
      BY <1>5, Zenon DEF UDPReadLine
    <2> QED
      BY <1>2, <1>5, <2>1
  <1>6. CASE ~(ByFrames(s) \/ Has(s, "SumOnly")) /\ Has(s, "TripTime") /\ ~Has(s, "Isochronous")
    <2>1. UDPReadLine(s) = Line(s, "read_triptime", "read_triptime_csv")
      BY <1>6, Zenon DEF UDPReadLine
    <2> QED
      BY <1>2, <1>6, <2>1
  <1>7. CASE ~(ByFrames(s) \/ Has(s, "SumOnly")) /\ ~Has(s, "TripTime")
    <2>1. UDPReadLine(s) = ReadLine(s)
      BY <1>7, Zenon DEF UDPReadLine
    <2> QED
      BY <1>1, <1>7, <2>1
  <1> QED
    BY <1>4, <1>5, <1>6, <1>7

LEMMA TCPLines ==
  ASSUME NEW s
  PROVE  /\ TCPReadLine(s) = NoLine <=> Has(s, "SumOnly") /\ ~Has(s, "PeriodicBurst") /\ ~ByFrames(s)
         /\ TCPReadLine(s) \in TripTimeLines => Has(s, "TripTime")
  <1>1. ReadLine(s) \notin TripTimeLines \cup {NoLine}
    BY SMT DEF ReadLine, Line, TripTimeLines, NoLine
  <1>2. /\ Line(s, "read_enhanced_isoch", "read_isochronous_csv") # NoLine
        /\ Line(s, "read_triptime", "read_triptime_csv") # NoLine
    BY SMT DEF Line, NoLine
  <1>3. {NoLine, "burst_read", "frame_read_triptime"} \cap TripTimeLines = {}
        /\ NoLine # "burst_read" /\ NoLine # "frame_read_triptime"
    BY SMT DEF NoLine, TripTimeLines
  <1>4. CASE Has(s, "PeriodicBurst")
    <2>1. TCPReadLine(s) = "burst_read"
      BY <1>4, Zenon DEF TCPReadLine
    <2> QED
      BY <1>3, <1>4, <2>1, SMT
  <1>5. CASE ByFrames(s) /\ ~Has(s, "PeriodicBurst")
    <2>1. TCPReadLine(s) = "frame_read_triptime"
      BY <1>5, Zenon DEF TCPReadLine
    <2> QED
      BY <1>3, <1>5, <2>1, SMT
  <1>6. CASE ~ByFrames(s) /\ ~Has(s, "PeriodicBurst")
    <2>1. TCPReadLine(s) =
             IF Has(s, "SumOnly") THEN NoLine
             ELSE IF Has(s, "TripTime")
                  THEN IF Has(s, "Isochronous") THEN Line(s, "read_enhanced_isoch", "read_isochronous_csv")
                       ELSE Line(s, "read_triptime", "read_triptime_csv")
                  ELSE ReadLine(s)
      BY <1>6, Zenon DEF TCPReadLine
    <2> QED
      BY <1>1, <1>2, <1>3, <1>6, <2>1, SMT
  <1> QED
    BY <1>4, <1>5, <1>6

\* What a server reports of the stream, in the terms of its own flags.
LEMMA ServerReports ==
  ASSUME NEW s, s.thread = "server"
  PROVE  LET read == Handlers(s)
         IN  /\ (read.line = NoLine) = IF IsUDP(s) THEN Has(s, "SumOnly") \/ ByFrames(s)
                                       ELSE Has(s, "SumOnly") /\ read.interval \notin {"frame", "burst"}
             /\ (read.line \in TripTimeLines \/ "T8" \in KeptHistograms(s)) => Has(s, "TripTime")
             /\ Has(s, "TripTime") => SumLine(s) \in {"sumcnt_read_triptime", "read_triptime_sum_csv",
                                                      "read_isochronous_sum_csv"}
             /\ "F8" \in KeptHistograms(s) => Has(s, "TripTime") \/ Has(s, "Isochronous")
             /\ read.interval = "frame" => Has(s, "Isochronous")
             /\ read.interval = "burst" => Has(s, "PeriodicBurst")
  <1> DEFINE line == Handlers(s).line
             interval == Handlers(s).interval
  <1>1. IsServer(s)
    BY Zenon DEF IsServer
  <1>2. /\ line = IF IsUDP(s) THEN UDPReadLine(s) ELSE TCPReadLine(s)
        /\ interval = IF Has(s, "PeriodicBurst") /\ ~IsUDP(s) THEN "burst"
                      ELSE IF ByFrames(s) THEN "frame" ELSE IF s.imode = "time" THEN "time" ELSE "none"
    BY <1>1, Zenon DEF Handlers
  <1> HIDE DEF line, interval
  <1>3. /\ interval = "frame" => Has(s, "Isochronous")
        /\ interval = "burst" => Has(s, "PeriodicBurst")
        /\ ~IsUDP(s) => (interval \in {"frame", "burst"} <=> Has(s, "PeriodicBurst") \/ ByFrames(s))
    <2>1. ByFrames(s) => Has(s, "Isochronous")
      BY Zenon DEF ByFrames
    <2> QED
      BY <1>2, <2>1, SMT
  <1>4. (line = NoLine) = IF IsUDP(s) THEN Has(s, "SumOnly") \/ ByFrames(s)
                          ELSE Has(s, "SumOnly") /\ interval \notin {"frame", "burst"}
    <2>1. CASE IsUDP(s)
      BY <1>2, <2>1, UDPLines, Zenon
    <2>2. CASE ~IsUDP(s)
      BY <1>2, <1>3, <2>2, TCPLines, Zenon
    <2> QED
      BY <2>1, <2>2
  <1>5. line \in TripTimeLines => Has(s, "TripTime")
    BY <1>2, UDPLines, TCPLines, Zenon
  <1>6. KeptHistograms(s) = ReadHistograms(s) /\ SumLine(s) = ReadSumLine(s)
    BY <1>1, Zenon DEF KeptHistograms, SumLine
  <1>7. /\ "T8" \in ReadHistograms(s) => Has(s, "TripTime")
        /\ "F8" \in ReadHistograms(s) => Has(s, "TripTime") \/ Has(s, "Isochronous")
    BY SMT DEF ReadHistograms, Has
  <1>8. Has(s, "TripTime") => ReadSumLine(s) \in {"sumcnt_read_triptime", "read_triptime_sum_csv",
                                                  "read_isochronous_sum_csv"}
    <2>1. Has(s, "TripTime") =>
             ReadSumLine(s) = Line(s, "sumcnt_read_triptime",
                  IF Has(s, "Isochronous") THEN "read_isochronous_sum_csv" ELSE "read_triptime_sum_csv")
      BY Zenon DEF ReadSumLine
    <2> QED
      BY <2>1, SMT DEF Line
  <1> QED
    BY <1>3, <1>4, <1>5, <1>6, <1>7, <1>8, Zenon DEF line, interval

\* And what the client reports of its own.
LEMMA ClientReports ==
  ASSUME NEW c, c.thread = "client"
  PROVE  /\ ~IsUDP(c) => ((Handlers(c).post = "packet_bb_client") = (Has(c, "BounceBack") /\ ~Has(c, "SumOnly")))
         /\ IsUDP(c) /\ Has(c, "SumOnly") => SumLine(c) \in {"sumcnt", "sumcnt_write_enhanced", "write_enhanced_csv"}
  <1>1. ~IsServer(c)
    BY SMT DEF IsServer
  <1>2. Handlers(c).post = IF {"BounceBack", "SumOnly"} \cap c.flags = {"BounceBack"} /\ ~IsUDP(c)
                           THEN "packet_bb_client" ELSE "packet_client"
    BY <1>1, Zenon DEF Handlers
  <1>3. {"BounceBack", "SumOnly"} \cap c.flags = {"BounceBack"} <=> Has(c, "BounceBack") /\ ~Has(c, "SumOnly")
    BY SMT DEF Has
  <1>4. ~IsUDP(c) => ((Handlers(c).post = "packet_bb_client") = (Has(c, "BounceBack") /\ ~Has(c, "SumOnly")))
    <2> DEFINE post == Handlers(c).post
    <2> HIDE DEF post
    <2>1. ~IsUDP(c) => post = IF Has(c, "BounceBack") /\ ~Has(c, "SumOnly") THEN "packet_bb_client" ELSE "packet_client"
      BY <1>2, <1>3, Zenon DEF post
    <2>2. "packet_bb_client" # "packet_client"
      OBVIOUS
    <2>3. ~IsUDP(c) => ((post = "packet_bb_client") <=> (Has(c, "BounceBack") /\ ~Has(c, "SumOnly")))
      BY <2>1, <2>2, Zenon
    <2> QED
      BY <2>3, Zenon DEF post
  <1>5. IsUDP(c) /\ Has(c, "SumOnly") => SumLine(c) \in {"sumcnt", "sumcnt_write_enhanced", "write_enhanced_csv"}
    <2>1. SumLine(c) = WriteSumLine(c)
      BY <1>1, Zenon DEF SumLine
    <2>2. IsUDP(c) /\ Has(c, "SumOnly") =>
            WriteSumLine(c) = Line(c, IF Has(c, "Enhanced") /\ ~Has(c, "FullDuplex")
                                      THEN "sumcnt_write_enhanced" ELSE "sumcnt", "write_enhanced_csv")
      BY Zenon DEF WriteSumLine
    <2> QED
      BY <2>1, <2>2, SMT DEF Line
  <1> QED
    BY <1>4, <1>5

\* WholeTest is about the listener and the client.
LEMMA WholeTestSays == WholeTest => phase = "accepted" /\ Plain(listener) /\ Whole(client)
  BY Zenon DEF WholeTest, Whole

\* Both ends run the same test.
LEMMA BothEnds ==
  ASSUME Offered, Taken, WholeTest
  PROVE  SameTest
  <1> DEFINE s == Served(listener, header)
             t == ClientSettings(s, header)
             r == ServerThread(s, header)
  <1>1. /\ Plain(listener) /\ Whole(client) /\ Speaks(client) /\ header = ClientHdr(client)
        /\ listener \in Listeners /\ (IsUDP(listener) <=> IsUDP(client)) /\ ~Refuses(listener, header)
    BY WholeTestSays, Zenon DEF Offered, Taken
  <1>2. Agrees(client, listener, s, header)
    BY <1>1, HeaderAgrees, Zenon
  <1>3. ~Has(listener, "Compat")
    BY <1>1, PlainSays
  <1>4. (Generates(s) <=> SendsBack(client)) /\ (Sends(listener, header) <=> SendsBack(client))
    BY <1>2, <1>3, GeneratesSays, Zenon DEF Sends
  <1>5. server = r
    BY <1>3, Zenon DEF Taken, Serving, Sends, ServerThread
  <1>6. reversed = IF SendsBack(client) THEN t ELSE Initialize
    BY <1>4, Zenon DEF Taken
  <1>7. /\ \A f \in Lasting : Has(server, f) <=> Has(s, f)
        /\ server.thread = IF Has(client, "Reverse") THEN "client" ELSE "server"
        /\ server.cca = s.cca /\ server.bbytes = s.bbytes /\ server.breply = s.breply
    <2>1. /\ \A f \in Lasting : Has(r, f) <=> Has(s, f)
          /\ r.thread = IF Has(client, "Reverse") THEN "client" ELSE "server"
          /\ r.cca = s.cca /\ r.bbytes = s.bbytes /\ r.breply = s.breply
      <3> HIDE DEF s
      <3> QED
        BY <1>2, ServerThreadSays
    <2> HIDE DEF r
    <2> QED
      BY <1>5, <2>1, Zenon
  <1>8. SendsBack(client) =>
          /\ t.thread = "client" /\ t.amount = client.amount /\ (Has(t, "ModeTime") <=> Has(client, "ModeTime"))
          /\ t.mode = client.mode /\ (Has(t, "FullDuplex") <=> Has(client, "FullDuplex"))
          /\ t.port = OwnListenerPort(client)
          /\ TwoWays(client) /\ Frames(client) # {} /\ TellsFrames(client) => t.fps = client.fps
    <2> HIDE DEF s
    <2> QED
      BY <1>1, <1>2, ReversedSays
  <1> HIDE DEF t, r
  <1>9. /\ Has(s, "TripTime") <=> Has(client, "TripTime")
        /\ Has(s, "Isochronous") <=> Has(client, "Isochronous") /\ ~Has(client, "BounceBack")
        /\ Has(s, "PeriodicBurst") <=> Has(client, "PeriodicBurst") /\ ~Has(client, "BounceBack") /\ ~IsUDP(client)
        /\ Has(s, "BounceBack") <=> Has(client, "BounceBack")
        /\ \A f \in Reported : Has(s, f) <=> Has(listener, f)
        /\ header.cca # NoText /\ ~Has(listener, "CongestionControl") => s.cca = AskedCCA(client)
        /\ Has(client, "BounceBack") => s.bbytes = client.bbytes /\ s.breply = client.breply
    BY <1>2, Zenon DEF Agrees
  <1> HIDE DEF s
  <1>10. /\ Has(server, "TripTime") <=> Has(client, "TripTime")
         /\ Has(server, "Isochronous") <=> Has(client, "Isochronous") /\ ~Has(client, "BounceBack")
         /\ Has(server, "PeriodicBurst") <=>
               Has(client, "PeriodicBurst") /\ ~Has(client, "BounceBack") /\ ~IsUDP(client)
         /\ Has(server, "BounceBack") <=> Has(client, "BounceBack")
         /\ IsUDP(server) <=> IsUDP(client)
    <2>1. {"TripTime", "Isochronous", "PeriodicBurst", "BounceBack", "UDP"} \subseteq Lasting /\ "UDP" \in Reported
      BY SMT DEF Lasting, Reported
    <2> QED
      BY <1>1, <1>7, <1>9, <2>1, SMT DEF IsUDP
  <1>11. (server.thread # "client") = (~Has(client, "Reverse"))
    BY <1>7, SMT
  <1>12. (reversed.thread = "client") = SendsBack(client)
    <2>1. Initialize.thread # "client"
      BY DEF Initialize
    <2>2. (reversed.thread = "client") <=> SendsBack(client)
      BY <1>6, <1>8, <2>1, Zenon
    <2>3. SendsBack(client) \in BOOLEAN
      BY Zenon DEF SendsBack
    <2> QED
      BY <2>2, <2>3, SMT
  <1>13. SendsBack(client) =>
              /\ reversed.amount = client.amount /\ Has(reversed, "ModeTime") = Has(client, "ModeTime")
              /\ reversed.mode = client.mode
              /\ Has(reversed, "FullDuplex") = Has(client, "FullDuplex")
    <2>1. \A a, f : Has(a, f) \in BOOLEAN
      BY SMT DEF Has
    <2> QED
      BY <1>6, <1>8, <2>1, SMT
  <1>14. client.mode # "normal" /\ ~Has(client, "IncrDstPort") => reversed.port = OwnListenerPort(settings)
    <2>1. client.mode # "normal" => SendsBack(client)
      BY Zenon DEF SendsBack
    <2> QED
      BY <1>6, <1>8, <2>1, Zenon DEF Offered
  <1>15. Has(server, "TripTime") = Has(client, "TripTime")
    BY <1>10, SMT DEF Has
  <1>16. TellsFrames(client) => /\ FlagsOf(server, {"Isochronous", "PeriodicBurst"}) = Frames(client)
                                /\ TwoWays(client) /\ Frames(client) # {} => reversed.fps = client.fps
    <2>1. SUFFICES ASSUME TellsFrames(client)
                   PROVE  /\ FlagsOf(server, {"Isochronous", "PeriodicBurst"}) = Frames(client)
                          /\ TwoWays(client) /\ Frames(client) # {} => reversed.fps = client.fps
      OBVIOUS
    <2>2. FlagsOf(server, {"Isochronous", "PeriodicBurst"}) = Frames(client)
      <3>1. Has(client, "PeriodicBurst") => ~IsUDP(client)
        BY <2>1, Zenon DEF TellsFrames
      <3>2. CASE Has(client, "BounceBack")
        BY <1>10, <3>2, SMT DEF Frames, FlagsOf, Has
      <3>3. CASE ~Has(client, "BounceBack")
        <4>1. /\ Has(server, "Isochronous") <=> Has(client, "Isochronous")
              /\ Has(server, "PeriodicBurst") <=> Has(client, "PeriodicBurst")
          BY <1>10, <3>1, <3>3
        <4> QED
          BY <3>3, <4>1, SMT DEF Frames, FlagsOf, Has
      <3> QED
        BY <3>2, <3>3
    <2>3. TwoWays(client) => SendsBack(client)
      BY Zenon DEF SendsBack
    <2> QED
      BY <1>6, <1>8, <2>1, <2>2, <2>3, Zenon
  <1>17. header.cca # NoText /\ ~Has(listener, "CongestionControl") => server.cca = AskedCCA(client)
    BY <1>7, <1>9, Zenon
  <1>18. Has(client, "BounceBack") => server.bbytes = client.bbytes /\ server.breply = client.breply
    BY <1>7, <1>9, Zenon
  <1>19. ReportsFit
    <2> DEFINE read == Handlers(server)
               totals == {"sumcnt_read_triptime", "read_triptime_sum_csv", "read_isochronous_sum_csv"}
    <2>1. client.thread = "client"
      BY <1>1, Zenon DEF Speaks, Completed
    <2>2. server.thread = "server" =>
            /\ (read.line = NoLine) = IF IsUDP(server) THEN Has(server, "SumOnly") \/ ByFrames(server)
                                      ELSE Has(server, "SumOnly") /\ read.interval \notin {"frame", "burst"}
            /\ (read.line \in TripTimeLines \/ "T8" \in KeptHistograms(server)) => Has(client, "TripTime")
            /\ Has(client, "TripTime") => SumLine(server) \in totals
            /\ "F8" \in KeptHistograms(server) => Has(client, "TripTime") \/ Has(client, "Isochronous")
            /\ read.interval = "frame" => Has(client, "Isochronous")
            /\ read.interval = "burst" => Has(client, "PeriodicBurst")
      <3>1. SUFFICES ASSUME server.thread = "server"
                     PROVE  /\ (read.line = NoLine) = IF IsUDP(server) THEN Has(server, "SumOnly") \/ ByFrames(server)
                                                      ELSE Has(server, "SumOnly") /\ read.interval \notin {"frame", "burst"}
                            /\ (read.line \in TripTimeLines \/ "T8" \in KeptHistograms(server)) => Has(client, "TripTime")
                            /\ Has(client, "TripTime") => SumLine(server) \in totals
                            /\ "F8" \in KeptHistograms(server) => Has(client, "TripTime") \/ Has(client, "Isochronous")
                            /\ read.interval = "frame" => Has(client, "Isochronous")
                            /\ read.interval = "burst" => Has(client, "PeriodicBurst")
        OBVIOUS
      <3>2. /\ (read.line = NoLine) = IF IsUDP(server) THEN Has(server, "SumOnly") \/ ByFrames(server)
                                      ELSE Has(server, "SumOnly") /\ read.interval \notin {"frame", "burst"}
            /\ (read.line \in TripTimeLines \/ "T8" \in KeptHistograms(server)) => Has(server, "TripTime")
            /\ Has(server, "TripTime") => SumLine(server) \in totals
            /\ "F8" \in KeptHistograms(server) => Has(server, "TripTime") \/ Has(server, "Isochronous")
            /\ read.interval = "frame" => Has(server, "Isochronous")
            /\ read.interval = "burst" => Has(server, "PeriodicBurst")
        BY <3>1, ServerReports, Zenon
      <3> HIDE DEF read, totals
      <3> QED
        BY <1>10, <3>2, Zenon
    <2>3. /\ ~IsUDP(client) => ((Handlers(client).post = "packet_bb_client")
                                  = (Has(client, "BounceBack") /\ ~Has(client, "SumOnly")))
          /\ IsUDP(client) /\ Has(client, "SumOnly") =>
               SumLine(client) \in {"sumcnt", "sumcnt_write_enhanced", "write_enhanced_csv"}
      BY <2>1, ClientReports, Zenon
    <2>4. server.thread = "server" /\ ~IsUDP(server) =>
            ((Handlers(client).post = "packet_bb_client") = (Has(server, "BounceBack") /\ ~Has(client, "SumOnly")))
      <3>1. Has(server, "BounceBack") = Has(client, "BounceBack")
        BY <1>10, SMT DEF Has
      <3> QED
        BY <1>10, <2>3, <3>1, Zenon
    <2>5. "F8" \in KeptHistograms(server) /\ server.thread = "server" => FlagsOf(client, {"TripTime", "Isochronous"}) # {}
      <3>1. Has(client, "TripTime") \/ Has(client, "Isochronous") => FlagsOf(client, {"TripTime", "Isochronous"}) # {}
        BY SMT DEF FlagsOf, Has
      <3> QED
        BY <2>2, <3>1, Zenon
    <2> QED
      BY <2>2, <2>3, <2>4, <2>5, Zenon DEF ReportsFit
  <1> QED
    BY <1>11, <1>12, <1>13, <1>14, <1>15, <1>16, <1>17, <1>18, <1>19, Zenon DEF SameTest

\* SameTest for every set of options and every listener: the server has the direction, the
\* amount, the mode, the sizes, the frames and the trip times that the client was told, and the
\* reports that InitIndividualReport and SetSumHandlers choose at both ends fit the traffic.
THEOREM SameTests == ExchangeSpec => []SameTest
  <1>1. ExchangeInv => SameTest
    <2>1. CASE WholeTest
      <3>1. ASSUME ExchangeInv PROVE Offered /\ Taken
        <4>1. phase = "accepted"
          BY <2>1, WholeTestSays
        <4> QED
          BY <3>1, <4>1, SMT DEF ExchangeInv
      <3> QED
        BY <2>1, <3>1, BothEnds
    <2>2. CASE ~WholeTest
      BY <2>2, Zenon DEF SameTest
    <2> QED
      BY <2>1, <2>2
  <1> QED
    BY <1>1, Exchange, PTL

-----------------------------------------------------------------------------
(* The options: which of them are about the same thing                     *)

\* The options that give the same field a value.
OfThread == {"-c", "-s"}
OfMode == {"-d", "-r", "-C"}
OfAmount == {"-n 1M", "-t 5"}
OfInfinite == {"-t 0"}
OfLen == {"-l 16", "-l 64", "-l 200"}
Bits == {"-b 1M", "-b 1M,1K"}
Packets == {"-b 2p"}
OfFps == {"--isochronous", "--burst-period 0.5", "--bounceback-period 0", "--bounceback-period 0.25"}
OfIpg == {"--isochronous", "--ipg 2"}
OfBurst == {"--burst-size 1K"}
OfRequest == {"--bounceback-request 50", "--bounceback-request 300"}
OfReply == {"--bounceback-reply 400"}
OfKey == {"--permit-key", "--permit-key=abc", "--permit-key=abcd"}
OfTos == {"-S 8", "--dscp 1"}
OfCCA == {"-Z reno", "--tcp-cca bbr"}
OfLoadCCA == {"--working-load-cca cubic"}
OfPort == {"-p 6", "-p 5-6"}
OfPortLast == {"-p 5-6"}
OfListenPort == {"-L 7"}
OfThreads == {"-P 2"}
OfWorking == {"--working-load=up,2"}
OfInterval == {"-i 1", "-i f"}
OfRetryTimer == {"--connect-retry-timer 2"}
OfRetryTime == {"--connect-retry-time 3"}
OfPrefetch == {"--tcp-write-prefetch 1K"}
OfTTL == {"-T 300"}

\* The fields that options give values, and which option gives which.
Values == {"thread", "mode", "amount", "infinite", "len", "units", "rate", "fps", "burst", "bbytes", "breply",
           "bbburst", "key", "tos", "cca", "loadcca", "port", "portlast", "listenport", "threads",
           "workingthreads", "imode", "retrytimer", "retrytime", "ipg", "prefetch", "ttl"}

Gives(o, v) ==
  /\ DOMAIN v \subseteq Values
  /\ "thread" \in DOMAIN v => o \in OfThread
  /\ "mode" \in DOMAIN v => o \in OfMode
  /\ o \in {"-d", "-r"} => "mode" \in DOMAIN v /\ v["mode"] # "normal"
  /\ "amount" \in DOMAIN v => o \in OfAmount
  /\ "infinite" \in DOMAIN v => o \in OfInfinite
  /\ "len" \in DOMAIN v => o \in OfLen
  /\ "units" \in DOMAIN v => o \in Packets \/ (o \in Bits /\ v["units"] = "bw")
  /\ "rate" \in DOMAIN v => o \in Packets \/ (o \in Bits /\ v["rate"] = Mega)
  /\ "fps" \in DOMAIN v => o \in OfFps
  /\ "ipg" \in DOMAIN v => o \in OfIpg
  /\ "burst" \in DOMAIN v => o \in OfBurst
  /\ "bbytes" \in DOMAIN v => o \in OfRequest
  /\ "breply" \in DOMAIN v => o \in OfReply
  /\ "bbburst" \in DOMAIN v => o = "--bounceback"
  /\ "key" \in DOMAIN v => o \in OfKey
  /\ "tos" \in DOMAIN v => o \in OfTos
  /\ "cca" \in DOMAIN v => o \in OfCCA
  /\ "loadcca" \in DOMAIN v => o \in OfLoadCCA
  /\ "port" \in DOMAIN v => o \in OfPort
  /\ "portlast" \in DOMAIN v => o \in OfPortLast
  /\ "listenport" \in DOMAIN v => o \in OfListenPort
  /\ "threads" \in DOMAIN v => o \in OfThreads
  /\ "workingthreads" \in DOMAIN v => o \in OfWorking
  /\ "imode" \in DOMAIN v => o \in OfInterval
  /\ "retrytimer" \in DOMAIN v => o \in OfRetryTimer
  /\ "retrytime" \in DOMAIN v => o \in OfRetryTime
  /\ "prefetch" \in DOMAIN v => o \in OfPrefetch
  /\ "ttl" \in DOMAIN v => o \in OfTTL

\* The options that clear a flag, and those that set one of these flags.
ClearTime == {"-n 1M"}
SetTime == {"-t 0", "-t 5"}
ClearReport == {"--connect-only"}
SetReport == {"-x c", "-y c"}
ClearLoad == {"--working-load=up,2"}
SetLoad == {"--working-load"}
ClearBurst == {"--burst-period 0"}
SetBurst == {"--burst-period 0.5", "--bounceback-period 0", "--bounceback-period 0.25"}

Clears(o, clear) ==
  /\ clear \subseteq {"ModeTime", "STDOUT", "NoConnReport", "WorkingLoadDown", "PeriodicBurst"}
  /\ "ModeTime" \in clear => o \in ClearTime
  /\ "NoConnReport" \in clear => o \in ClearReport
  /\ "WorkingLoadDown" \in clear => o \in ClearLoad
  /\ "PeriodicBurst" \in clear => o \in ClearBurst

Sets(o, set) ==
  /\ "STDOUT" \notin set
  /\ "ModeTime" \in set => o \in SetTime
  /\ "NoConnReport" \in set => o \in SetReport
  /\ "WorkingLoadDown" \in set => o \in SetLoad
  /\ "PeriodicBurst" \in set => o \in SetBurst
  /\ o = "-C" => "Compat" \in set
  /\ o \in OfCCA => "CongestionControl" \in set

\* What an option says: its row of the tables.
Timed == {"--permit-key-timeout 20", "--test-exchange-timeout 5"}
Says(o, e) == o \notin Timed /\ Clears(o, e.clear) /\ Sets(o, e.set) /\ Gives(o, e.values)
AllSay(table) == \A row \in table : Says(row[1], row[2])

LEMMA SaysRow ==
  ASSUME NEW o, NEW e, Says(o, e) PROVE Says(<<o, e>>[1], <<o, e>>[2])
  OBVIOUS

LEMMA GivesNone ==
  ASSUME NEW o, o \notin {"-d", "-r"} PROVE Gives(o, NoValue)
  <1>1. DOMAIN NoValue = {}
    BY DEF NoValue
  <1> QED
    BY <1>1, SMT DEF Gives

LEMMA SaysEffect ==
  ASSUME NEW o, NEW set, NEW clear, NEW values,
         o \notin Timed, Sets(o, set), Clears(o, clear), Gives(o, values)
  PROVE  Says(o, Effect(set, clear, values))
  BY SMT DEF Says, Effect

LEMMA ClearsNone == ASSUME NEW o PROVE Clears(o, {})
  BY DEF Clears

LEMMA SaysFlags ==
  ASSUME NEW o, NEW set, o \notin Timed, o \notin {"-d", "-r"}, Sets(o, set)
  PROVE  Says(o, Flags(set))
  BY GivesNone, ClearsNone, SaysEffect, Zenon DEF Flags

LEMMA SaysValue ==
  ASSUME NEW o, NEW values, o \notin Timed, Sets(o, {}), Gives(o, values)
  PROVE  Says(o, Value(values))
  BY ClearsNone, SaysEffect, Zenon DEF Value

LEMMA SaysBoth ==
  ASSUME NEW o, NEW set, NEW values, o \notin Timed, Sets(o, set), Gives(o, values)
  PROVE  Says(o, Both(set, values))
  BY ClearsNone, SaysEffect, Zenon DEF Both

\* Group by group: the flags first, then the values, then the rows with both.
LEMMA SayRole == AllSay(Role)
  <1>1. /\ Gives("-c", [thread |-> "client"])
        /\ Gives("-s", [thread |-> "listener"])
    BY SMT DEF Gives, Values, OfThread, OfMode, OfAmount, OfInfinite, OfLen, Bits, Packets, OfFps, OfIpg, OfBurst, OfRequest, OfReply, OfKey,
       OfTos, OfCCA, OfLoadCCA, OfPort, OfPortLast, OfListenPort, OfThreads, OfWorking, OfInterval, OfRetryTimer,
       OfRetryTime, OfPrefetch, OfTTL
  <1>2. /\ Says("-c", Value([thread |-> "client"]))
        /\ Says("-s", Value([thread |-> "listener"]))
    BY <1>1, SaysEffect, SaysValue, SaysBoth, GivesNone, ZenonT(30) DEF Timed, Clears, Sets,
       ClearTime, SetTime, ClearReport, SetReport, ClearLoad, SetLoad, ClearBurst, SetBurst, OfCCA
  <1> QED
    BY <1>2, SaysRow, ZenonT(60) DEF AllSay, Role

LEMMA SayLoadOptions == AllSay(LoadOptions)
  <1>1. /\ Says("-1", Flags({"SingleClient"}))
        /\ Says("-4", Flags({"IPV4"}))
        /\ Says("-6", Flags({"IPV6"}))
        /\ Says("-e", Flags({"Enhanced"}))
    BY SaysFlags, ZenonT(30) DEF Timed, Sets,
       SetTime, SetReport, SetLoad, SetBurst, OfCCA
  <1>2. /\ Gives("-b 1M", [units |-> "bw", rate |-> Mega])
        /\ Gives("-b 2p", [units |-> "pps", rate |-> 2])
        /\ Gives("-b 1M,1K", [units |-> "bw", rate |-> Mega])
        /\ Gives("-d", [mode |-> "dual"])
        /\ Gives("-i 1", [imode |-> "time"])
        /\ Gives("-i f", [imode |-> "frames"])
        /\ Gives("-l 16", [len |-> 16])
        /\ Gives("-l 64", [len |-> 64])
        /\ Gives("-l 200", [len |-> 200])
    BY SMT DEF Gives, Values, OfThread, OfMode, OfAmount, OfInfinite, OfLen, Bits, Packets, OfFps, OfIpg, OfBurst, OfRequest, OfReply, OfKey,
       OfTos, OfCCA, OfLoadCCA, OfPort, OfPortLast, OfListenPort, OfThreads, OfWorking, OfInterval, OfRetryTimer,
       OfRetryTime, OfPrefetch, OfTTL
  <1>3. /\ Says("-b 1M", Both({"BWSet"}, [units |-> "bw", rate |-> Mega]))
        /\ Says("-b 2p", Both({"BWSet"}, [units |-> "pps", rate |-> 2]))
        /\ Says("-b 1M,1K", Both({"BWSet", "VaryLoad"}, [units |-> "bw", rate |-> Mega]))
        /\ Says("-d", Value([mode |-> "dual"]))
        /\ Says("-i 1", Value([imode |-> "time"]))
        /\ Says("-i f", Both({"Enhanced", "FrameInterval"}, [imode |-> "frames"]))
        /\ Says("-l 16", Both({"BuflenSet"}, [len |-> 16]))
        /\ Says("-l 64", Both({"BuflenSet"}, [len |-> 64]))
        /\ Says("-l 200", Both({"BuflenSet"}, [len |-> 200]))
    BY <1>2, SaysEffect, SaysValue, SaysBoth, GivesNone, ZenonT(30) DEF Timed, Clears, Sets,
       ClearTime, SetTime, ClearReport, SetReport, ClearLoad, SetLoad, ClearBurst, SetBurst, OfCCA
  <1> QED
    BY <1>1, <1>3, SaysRow, ZenonT(60) DEF AllSay, LoadOptions

LEMMA SayLimitOptions == AllSay(LimitOptions)
  <1>1. /\ Says("-m", Flags({"PrintMSS"}))
        /\ Says("-u", Flags({"UDP"}))
        /\ Says("-x c", Flags({"NoConnReport"}))
        /\ Says("-x s", Flags({"NoSettReport"}))
        /\ Says("-y c", Flags({"CSV", "NoSettReport", "NoConnReport"}))
        /\ Says("-z", Flags({"Realtime"}))
    BY SaysFlags, ZenonT(30) DEF Timed, Sets,
       SetTime, SetReport, SetLoad, SetBurst, OfCCA
  <1>2. /\ Gives("-n 1M", [amount |-> Mega])
        /\ Gives("-p 6", [port |-> 6])
        /\ Gives("-p 5-6", [port |-> 5, portlast |-> 6])
        /\ Gives("-r", [mode |-> "tradeoff"])
        /\ Gives("-t 0", [infinite |-> TRUE])
        /\ Gives("-t 5", [amount |-> 500])
    BY SMT DEF Gives, Values, OfThread, OfMode, OfAmount, OfInfinite, OfLen, Bits, Packets, OfFps, OfIpg, OfBurst, OfRequest, OfReply, OfKey,
       OfTos, OfCCA, OfLoadCCA, OfPort, OfPortLast, OfListenPort, OfThreads, OfWorking, OfInterval, OfRetryTimer,
       OfRetryTime, OfPrefetch, OfTTL
  <1>3. /\ Says("-n 1M", Effect({}, {"ModeTime"}, [amount |-> Mega]))
        /\ Says("-o", Effect({}, {"STDOUT"}, NoValue))
        /\ Says("-p 6", Value([port |-> 6]))
        /\ Says("-p 5-6", Both({"IncrDstPort"}, [port |-> 5, portlast |-> 6]))
        /\ Says("-r", Value([mode |-> "tradeoff"]))
        /\ Says("-t 0", Both({"ModeTime", "ServerModeTime"}, [infinite |-> TRUE]))
        /\ Says("-t 5", Both({"ModeTime", "ServerModeTime"}, [amount |-> 500]))
    BY <1>2, SaysEffect, SaysValue, SaysBoth, GivesNone, ZenonT(30) DEF Timed, Clears, Sets,
       ClearTime, SetTime, ClearReport, SetReport, ClearLoad, SetLoad, ClearBurst, SetBurst, OfCCA
  <1> QED
    BY <1>1, <1>3, SaysRow, ZenonT(60) DEF AllSay, LimitOptions

LEMMA SayEsotericOptions == AllSay(EsotericOptions)
  <1>1. /\ Says("-B", Flags({"Localhost"}))
        /\ Says("-B :7", Flags({"Localhost", "LocalPort"}))
        /\ Says("-D", Flags({"Daemon"}))
        /\ Says("-F", Flags({"FileInput"}))
        /\ Says("-H", Flags({"SSMMulticast"}))
        /\ Says("-I", Flags({"FileInput", "STDIN"}))
        /\ Says("-M", Flags({"TCPMSS", "PrintMSS"}))
        /\ Says("-N", Flags({"NoDelay"}))
        /\ Says("-R", Flags({"Reverse"}))
        /\ Says("-U", Flags({"UDP", "SingleUDP", "SingleClient"}))
        /\ Says("-V", Flags({"IPV6"}))
        /\ Says("-W", Flags({"SuggestWin"}))
        /\ Says("-X", Flags({"PeerVerDetect"}))
    BY SaysFlags, ZenonT(30) DEF Timed, Sets,
       SetTime, SetReport, SetLoad, SetBurst, OfCCA
  <1>2. /\ Gives("-C", [mode |-> "normal"])
        /\ Gives("-L 7", [listenport |-> 7])
        /\ Gives("-P 2", [threads |-> 2])
        /\ Gives("-S 8", [tos |-> 8])
        /\ Gives("-T 300", [ttl |-> 300])
        /\ Gives("-Z reno", [cca |-> "reno"])
    BY SMT DEF Gives, Values, OfThread, OfMode, OfAmount, OfInfinite, OfLen, Bits, Packets, OfFps, OfIpg, OfBurst, OfRequest, OfReply, OfKey,
       OfTos, OfCCA, OfLoadCCA, OfPort, OfPortLast, OfListenPort, OfThreads, OfWorking, OfInterval, OfRetryTimer,
       OfRetryTime, OfPrefetch, OfTTL
  <1>3. /\ Says("-C", Both({"Compat"}, [mode |-> "normal"]))
        /\ Says("-L 7", Value([listenport |-> 7]))
        /\ Says("-P 2", Value([threads |-> 2]))
        /\ Says("-S 8", Both({"SetTOS"}, [tos |-> 8]))
        /\ Says("-T 300", Value([ttl |-> 300]))
        /\ Says("-Z reno", Both({"CongestionControl"}, [cca |-> "reno"]))
    BY <1>2, SaysEffect, SaysValue, SaysBoth, GivesNone, ZenonT(30) DEF Timed, Clears, Sets,
       ClearTime, SetTime, ClearReport, SetReport, ClearLoad, SetLoad, ClearBurst, SetBurst, OfCCA
  <1> QED
    BY <1>1, <1>3, SaysRow, ZenonT(60) DEF AllSay, EsotericOptions

LEMMA SayStartOptions == AllSay(StartOptions)
  <1>1. /\ Says("--incr-dstip", Flags({"IncrDstIP"}))
        /\ Says("--incr-dstport", Flags({"IncrDstPort"}))
        /\ Says("--incr-srcip", Flags({"IncrSrcIP"}))
        /\ Says("--incr-srcport", Flags({"IncrSrcPort"}))
        /\ Says("--ignore-shutdown", Flags({"IgnoreShutdown"}))
        /\ Says("--sum-dstip", Flags({"SumServerDstIP"}))
        /\ Says("--sync-transfer-id", Flags({"SyncTransferID"}))
        /\ Says("--txstart-time", Flags({"TxStartTime", "Enhanced"}))
        /\ Says("--no-connect-sync", Flags({"NoConnectSync"}))
        /\ Says("--txdelay-time", Flags({"TxHoldback"}))
        /\ Says("--trip-times", Flags({"TripTime"}))
        /\ Says("--no-udp-fin", Flags({"NoUDPfin"}))
        /\ Says("--sum-only", Flags({"SumOnly"}))
        /\ Says("--local-only", Flags({"DontRoute"}))
    BY SaysFlags, ZenonT(30) DEF Timed, Sets,
       SetTime, SetReport, SetLoad, SetBurst, OfCCA
  <1>2. /\ Gives("--connect-retry-timer 2", [retrytimer |-> 2])
        /\ Gives("--connect-retry-time 3", [retrytime |-> 3])
    BY SMT DEF Gives, Values, OfThread, OfMode, OfAmount, OfInfinite, OfLen, Bits, Packets, OfFps, OfIpg, OfBurst, OfRequest, OfReply, OfKey,
       OfTos, OfCCA, OfLoadCCA, OfPort, OfPortLast, OfListenPort, OfThreads, OfWorking, OfInterval, OfRetryTimer,
       OfRetryTime, OfPrefetch, OfTTL
  <1>3. /\ Says("--connect-only", Effect({"ConnectOnly"}, {"NoConnReport"}, NoValue))
        /\ Says("--connect-retry-timer 2", Value([retrytimer |-> 2]))
        /\ Says("--connect-retry-time 3", Value([retrytime |-> 3]))
    BY <1>2, SaysEffect, SaysValue, SaysBoth, GivesNone, ZenonT(30) DEF Timed, Clears, Sets,
       ClearTime, SetTime, ClearReport, SetReport, ClearLoad, SetLoad, ClearBurst, SetBurst, OfCCA
  <1> QED
    BY <1>1, <1>3, SaysRow, ZenonT(60) DEF AllSay, StartOptions

LEMMA SayKeyOptions == AllSay(KeyOptions)
  <1>1. /\ Says("--near-congestion", Flags({"NearCongest"}))
        /\ Says("--omit", Flags({"Omit"}))
        /\ Says("--histograms", Flags({"Histogram", "Enhanced"}))
        /\ Says("--jitter-histograms", Flags({"JitterHistogram", "Enhanced"}))
        /\ Says("--full-duplex", Flags({"FullDuplex"}))
        /\ Says("--tos-override", Flags({"OverrideTOS"}))
        /\ Says("--fq-rate", Flags({"FQPacing"}))
        /\ Says("--fq-rate-step", Flags({"FQPacingStep", "Enhanced"}))
    BY SaysFlags, ZenonT(30) DEF Timed, Sets,
       SetTime, SetReport, SetLoad, SetBurst, OfCCA
  <1>2. /\ Gives("--permit-key", [key |-> NoText])
        /\ Gives("--permit-key=abc", [key |-> "abc"])
        /\ Gives("--permit-key=abcd", [key |-> "abcd"])
        /\ Gives("--dscp 1", [tos |-> 4])
        /\ Gives("--isochronous", [fps |-> 60, ipg |-> 5])
    BY SMT DEF Gives, Values, OfThread, OfMode, OfAmount, OfInfinite, OfLen, Bits, Packets, OfFps, OfIpg, OfBurst, OfRequest, OfReply, OfKey,
       OfTos, OfCCA, OfLoadCCA, OfPort, OfPortLast, OfListenPort, OfThreads, OfWorking, OfInterval, OfRetryTimer,
       OfRetryTime, OfPrefetch, OfTTL
  <1>3. /\ Says("--permit-key", Both({"PermitKey"}, [key |-> NoText]))
        /\ Says("--permit-key=abc", Both({"PermitKey"}, [key |-> "abc"]))
        /\ Says("--permit-key=abcd", Both({"PermitKey"}, [key |-> "abcd"]))
        /\ Says("--dscp 1", Value([tos |-> 4]))
        /\ Says("--isochronous", Both({"Isochronous", "Enhanced"}, [fps |-> 60, ipg |-> 5]))
    BY <1>2, SaysEffect, SaysValue, SaysBoth, GivesNone, ZenonT(30) DEF Timed, Clears, Sets,
       ClearTime, SetTime, ClearReport, SetReport, ClearLoad, SetLoad, ClearBurst, SetBurst, OfCCA
  <1> QED
    BY <1>1, <1>3, SaysRow, ZenonT(60) DEF AllSay, KeyOptions

LEMMA SayTcpOptions == AllSay(TcpOptions)
  <1>1. /\ Says("--tcp-rx-window-clamp", Flags({"RxClamp"}))
        /\ Says("--tcp-write-times", Flags({"TcpWriteTimes"}))
        /\ Says("--bounceback-no-quickack", Flags({"NoBBQuickAck"}))
        /\ Says("--tcp-quickack", Flags({"TcpQuickAck"}))
        /\ Says("--tcp-tx-delay", Flags({"TcpTxDelay", "Enhanced"}))
        /\ Says("--utc", Flags({"UTC"}))
        /\ Says("--working-load", Flags({"WorkingLoadUp", "WorkingLoadDown", "Enhanced"}))
    BY SaysFlags, ZenonT(30) DEF Timed, Sets,
       SetTime, SetReport, SetLoad, SetBurst, OfCCA
  <1>2. /\ Gives("--ipg 2", [ipg |-> 2])
        /\ Gives("--working-load-cca cubic", [loadcca |-> "cubic"])
        /\ Gives("--tcp-cca bbr", [cca |-> "bbr"])
        /\ Gives("--working-load=up,2", [workingthreads |-> 2])
    BY SMT DEF Gives, Values, OfThread, OfMode, OfAmount, OfInfinite, OfLen, Bits, Packets, OfFps, OfIpg, OfBurst, OfRequest, OfReply, OfKey,
       OfTos, OfCCA, OfLoadCCA, OfPort, OfPortLast, OfListenPort, OfThreads, OfWorking, OfInterval, OfRetryTimer,
       OfRetryTime, OfPrefetch, OfTTL
  <1>3. /\ Says("--ipg 2", Both({"IPG"}, [ipg |-> 2]))
        /\ Says("--working-load-cca cubic", Both({"LoadCCA"}, [loadcca |-> "cubic"]))
        /\ Says("--tcp-cca bbr", Both({"CongestionControl"}, [cca |-> "bbr"]))
        /\ Says("--working-load=up,2", Effect({"WorkingLoadUp", "Enhanced"}, {"WorkingLoadDown"}, [workingthreads |-> 2]))
    BY <1>2, SaysEffect, SaysValue, SaysBoth, GivesNone, ZenonT(30) DEF Timed, Clears, Sets,
       ClearTime, SetTime, ClearReport, SetReport, ClearLoad, SetLoad, ClearBurst, SetBurst, OfCCA
  <1> QED
    BY <1>1, <1>3, SaysRow, ZenonT(60) DEF AllSay, TcpOptions

LEMMA SayBurstOptions == AllSay(BurstOptions)
  <1>1. /\ Says("--bounceback-txdelay", Flags({"TxHoldback"}))
        /\ Says("--hide-ips", Flags({"HideIPs"}))
        /\ Says("--set-rand-seed", Flags({"RandSeed"}))
        /\ Says("--skip-rx-copy", Flags({"SkipRxCopy", "Enhanced"}))
        /\ Says("--udp-l4s", Flags({"UDP", "UDPL4S"}))
    BY SaysFlags, ZenonT(30) DEF Timed, Sets,
       SetTime, SetReport, SetLoad, SetBurst, OfCCA
  <1>2. /\ Gives("--tcp-write-prefetch 1K", [prefetch |-> Kilo])
        /\ Gives("--burst-period 0.5", [fps |-> 2])
        /\ Gives("--burst-size 1K", [burst |-> Kilo])
        /\ Gives("--bounceback", [bbburst |-> -1])
        /\ Gives("--bounceback-period 0", [fps |-> -1])
        /\ Gives("--bounceback-period 0.25", [fps |-> 4])
        /\ Gives("--bounceback-request 50", [bbytes |-> 50])
        /\ Gives("--bounceback-request 300", [bbytes |-> 300])
        /\ Gives("--bounceback-reply 400", [breply |-> 400])
    BY SMT DEF Gives, Values, OfThread, OfMode, OfAmount, OfInfinite, OfLen, Bits, Packets, OfFps, OfIpg, OfBurst, OfRequest, OfReply, OfKey,
       OfTos, OfCCA, OfLoadCCA, OfPort, OfPortLast, OfListenPort, OfThreads, OfWorking, OfInterval, OfRetryTimer,
       OfRetryTime, OfPrefetch, OfTTL
  <1>3. /\ Says("--tcp-write-prefetch 1K", Both({"WritePrefetch", "Enhanced"}, [prefetch |-> Kilo]))
        /\ Says("--burst-period 0", Effect({}, {"PeriodicBurst"}, NoValue))
        /\ Says("--burst-period 0.5", Both({"PeriodicBurst"}, [fps |-> 2]))
        /\ Says("--burst-size 1K", Both({"BurstSize"}, [burst |-> Kilo]))
        /\ Says("--bounceback", Both({"BounceBack", "NoDelay", "Enhanced"}, [bbburst |-> -1]))
        /\ Says("--bounceback-period 0", Both({"PeriodicBurst"}, [fps |-> -1]))
        /\ Says("--bounceback-period 0.25", Both({"PeriodicBurst"}, [fps |-> 4]))
        /\ Says("--bounceback-request 50", Value([bbytes |-> 50]))
        /\ Says("--bounceback-request 300", Value([bbytes |-> 300]))
        /\ Says("--bounceback-reply 400", Value([breply |-> 400]))
    BY <1>2, SaysEffect, SaysValue, SaysBoth, GivesNone, ZenonT(30) DEF Timed, Clears, Sets,
       ClearTime, SetTime, ClearReport, SetReport, ClearLoad, SetLoad, ClearBurst, SetBurst, OfCCA
  <1> QED
    BY <1>1, <1>3, SaysRow, ZenonT(60) DEF AllSay, BurstOptions


\* Every option says what its row does.
LEMMA OptionsSay == \A o \in DOMAIN EffectOf : Says(o, EffectOf[o])
  <1> DEFINE table == Role \cup LoadOptions \cup LimitOptions \cup EsotericOptions \cup StartOptions
                      \cup KeyOptions \cup TcpOptions \cup BurstOptions
  <1>1. AllSay(table)
    BY SayLoadOptions, SayLimitOptions, SayEsotericOptions, SayStartOptions, SayKeyOptions,
       SayTcpOptions, SayBurstOptions, SayRole, SMT DEF AllSay
  <1>2. EffectOf = Lookup(table)
    BY DEF EffectOf
  <1> HIDE DEF table
  <1> SUFFICES ASSUME NEW o \in Names(table) PROVE Says(o, Lookup(table)[o])
    BY <1>2 DEF Lookup
  <1>3. PICK row \in table : row[1] = o
    BY DEF Names
  <1> DEFINE chosen == CHOOSE r \in table : r[1] = o
  <1>4. chosen \in table /\ chosen[1] = o
    BY <1>3
  <1>5. Lookup(table)[o] = chosen[2]
    BY DEF Lookup
  <1> QED
    BY <1>1, <1>4, <1>5, Zenon DEF AllSay

\* Two options that can be read in either order.
Agree(d, e) ==
  /\ d.clear \cap e.set = {} /\ e.clear \cap d.set = {}
  /\ \A f \in DOMAIN d.values \cap DOMAIN e.values : d.values[f] = e.values[f]

\* Options that have been read and of which none undoes another.
Calm(os) == \A o, p \in os \cap DOMAIN EffectOf : Agree(EffectOf[o], EffectOf[p])

\* The pairs that the property leaves out.
Rival(o, p) == \E os \in Rivals : o \in os /\ p \in os

\* The pairs of which the one that is read last is warned about.
Noticed(o, p) == (o = "-C" /\ p \in {"-d", "-r"}) \/ (o \in OfCCA /\ p \in OfCCA)

\* Options that clear what another one sets.
LEMMA AgreeFlags ==
  ASSUME NEW o, NEW p, NEW clear, NEW set, Clears(o, clear), Sets(p, set), clear \cap set # {}
  PROVE  o # p /\ Rival(o, p)
  <1>1. \/ o \in ClearTime /\ p \in SetTime
        \/ o \in ClearReport /\ p \in SetReport
        \/ o \in ClearLoad /\ p \in SetLoad
        \/ o \in ClearBurst /\ p \in SetBurst
    <2>1. PICK flag \in clear : flag \in set
      OBVIOUS
    <2> QED
      BY <2>1, Zenon DEF Clears, Sets
  <1>2. \A a \in ClearTime, b \in SetTime : a # b /\ Rival(a, b)
    <2>1. {"-n 1M", "-t 0"} \in Rivals /\ {"-n 1M", "-t 5"} \in Rivals
      BY Zenon DEF Rivals
    <2>2. Rival("-n 1M", "-t 0") /\ Rival("-n 1M", "-t 5")
      BY <2>1, Zenon DEF Rival
    <2> QED
      BY <2>2, Zenon DEF ClearTime, SetTime
  <1>3. \A a \in ClearReport, b \in SetReport : a # b /\ Rival(a, b)
    BY Zenon DEF Rival, Rivals, ClearReport, SetReport
  <1>4. \A a \in ClearLoad, b \in SetLoad : a # b /\ Rival(a, b)
    BY Zenon DEF Rival, Rivals, ClearLoad, SetLoad
  <1>5. \A a \in ClearBurst, b \in SetBurst : a # b /\ Rival(a, b)
    BY Zenon DEF Rival, Rivals, ClearBurst, SetBurst
  <1> QED
    BY <1>1, <1>2, <1>3, <1>4, <1>5

\* Options that give a field a value stand in the way of each other.
LEMMA RivalSets ==
  /\ \A o, p \in OfThread : Rival(o, p)
  /\ \A o, p \in OfMode : o = p \/ Rival(o, p) \/ Noticed(o, p) \/ Noticed(p, o)
  /\ \A o, p \in OfLen : Rival(o, p)
  /\ \A o, p \in OfFps : Rival(o, p)
  /\ \A o, p \in OfIpg : Rival(o, p)
  /\ \A o, p \in OfRequest : Rival(o, p)
  /\ \A o, p \in OfKey : Rival(o, p)
  /\ \A o, p \in OfTos : Rival(o, p)
  /\ \A o, p \in OfPort : Rival(o, p)
  /\ \A o, p \in OfInterval : Rival(o, p)
  /\ \A o, p \in OfAmount : Rival(o, p)
  /\ \A o \in Bits, p \in Packets : Rival(o, p) /\ Rival(p, o)
  BY Zenon DEF Rival, Rivals, Noticed, OfThread, OfMode, OfLen, OfFps, OfIpg, OfRequest, OfKey, OfTos, OfPort, OfInterval,
    OfAmount, Bits, Packets

\* And these fields have one option each.
LEMMA OnlyOne ==
  \A one \in {OfInfinite, Packets, OfBurst, OfReply, OfLoadCCA, OfPortLast, OfListenPort, OfThreads, OfWorking,
              OfRetryTimer, OfRetryTime, OfPrefetch, OfTTL} : \A o, p \in one : o = p
  BY Zenon DEF OfInfinite, Packets, OfBurst, OfReply, OfLoadCCA, OfPortLast, OfListenPort, OfThreads, OfWorking,
    OfRetryTimer, OfRetryTime, OfPrefetch, OfTTL

\* Options that give a field different values.
LEMMA AgreeValues ==
  ASSUME NEW o, NEW p, NEW v, NEW w, Gives(o, v), Gives(p, w),
         NEW f \in DOMAIN v \cap DOMAIN w, o = p => v = w
  PROVE  v[f] = w[f] \/ Rival(o, p) \/ Noticed(o, p) \/ Noticed(p, o)
  <1>1. f \in Values
    BY DEF Gives
  <1> QED
    BY <1>1, RivalSets, OnlyOne, SMTT(60) DEF Gives, Values, Noticed


\* Two options agree, unless one of them counts because it is read last.
LEMMA OptionsAgree ==
  ASSUME NEW o \in DOMAIN EffectOf, NEW p \in DOMAIN EffectOf,
         o # p => ~Rival(o, p) /\ ~Rival(p, o) /\ ~Noticed(o, p) /\ ~Noticed(p, o)
  PROVE  Agree(EffectOf[o], EffectOf[p])
  <1> DEFINE d == EffectOf[o]
             e == EffectOf[p]
  <1>1. Says(o, d) /\ Says(p, e)
    BY OptionsSay
  <1>2. o = p => d = e
    OBVIOUS
  <1> HIDE DEF d, e
  <1>3. d.clear \cap e.set = {}
    <2> SUFFICES ASSUME d.clear \cap e.set # {} PROVE FALSE
      OBVIOUS
    <2>1. Clears(o, d.clear) /\ Sets(p, e.set)
      BY <1>1 DEF Says
    <2> QED
      BY <2>1, AgreeFlags
  <1>5. e.clear \cap d.set = {}
    <2> SUFFICES ASSUME e.clear \cap d.set # {} PROVE FALSE
      OBVIOUS
    <2>1. Clears(p, e.clear) /\ Sets(o, d.set)
      BY <1>1 DEF Says
    <2> QED
      BY <2>1, AgreeFlags
  <1>4. ASSUME NEW f \in DOMAIN d.values \cap DOMAIN e.values PROVE d.values[f] = e.values[f]
    <2>1. Gives(o, d.values) /\ Gives(p, e.values) /\ (o = p => d.values = e.values)
      BY <1>1, <1>2 DEF Says
    <2>2. d.values[f] = e.values[f] \/ Rival(o, p) \/ Noticed(o, p) \/ Noticed(p, o)
      BY <2>1, AgreeValues
    <2> QED
      BY <2>1, <2>2
  <1> QED
    BY <1>3, <1>4, <1>5 DEF Agree, d, e

-----------------------------------------------------------------------------
(* The options: what several of them say                                   *)

OtherFields == Fields \ {"flags", "timeout"}

\* The options that do not give a timeout.
Effective(os) == os \cap DOMAIN EffectOf

\* The outcome, field by field.
LEMMA OutcomeFields ==
  ASSUME NEW os
  PROVE  /\ DOMAIN Outcome(os) = Fields
         /\ Outcome(os).flags = (Initialize.flags \ UNION {EffectOf[o].clear : o \in Effective(os)})
                                \cup UNION {EffectOf[o].set : o \in Effective(os)}
         /\ Outcome(os).timeout = Max({-1} \cup {Timeouts[o] : o \in os \cap DOMAIN Timeouts})
         /\ \A f \in OtherFields : Outcome(os)[f] =
               LET said == {EffectOf[o].values[f] : o \in {p \in Effective(os) : f \in DOMAIN EffectOf[p].values}}
               IN  IF said = {} THEN Initialize[f] ELSE CHOOSE v \in said : TRUE
  <1> DEFINE effects == {EffectOf[o] : o \in os \cap DOMAIN EffectOf}
             values(f) == {e.values[f] : e \in {g \in effects : f \in DOMAIN g.values}}
             field(f) == CASE f = "flags" -> (Initialize.flags \ UNION {e.clear : e \in effects}) \cup UNION {e.set : e \in effects}
              [] f = "timeout" -> Max({Initialize.timeout} \cup {Timeouts[o] : o \in os \cap DOMAIN Timeouts})
              [] OTHER -> IF values(f) = {} THEN Initialize[f] ELSE CHOOSE v \in values(f) : TRUE
  <1>1. Outcome(os) = [f \in DOMAIN Initialize |-> field(f)]
    BY DEF Outcome
  <1>2. DOMAIN Initialize = Fields /\ Initialize.timeout = -1
    BY SMT DEF Initialize, Fields
  <1>3. {e.clear : e \in effects} = {EffectOf[o].clear : o \in Effective(os)}
    BY Zenon DEF Effective
  <1>4. {e.set : e \in effects} = {EffectOf[o].set : o \in Effective(os)}
    BY Zenon DEF Effective
  <1>5. \A f : values(f) = {EffectOf[o].values[f] : o \in {p \in Effective(os) : f \in DOMAIN EffectOf[p].values}}
    BY SMT DEF Effective
  <1>6. Outcome(os)["flags"] = field("flags") /\ Outcome(os)["timeout"] = field("timeout")
    BY <1>1, <1>2, SMT DEF Fields
  <1>7. \A f \in OtherFields : f \in Fields /\ f # "flags" /\ f # "timeout"
    BY SMT DEF OtherFields, Fields
  <1>8. field("flags") = (Initialize.flags \ UNION {e.clear : e \in effects}) \cup UNION {e.set : e \in effects}
    OBVIOUS
  <1>9. field("timeout") = Max({Initialize.timeout} \cup {Timeouts[o] : o \in os \cap DOMAIN Timeouts})
    OBVIOUS
  <1>10. \A f \in OtherFields : field(f) = IF values(f) = {} THEN Initialize[f] ELSE CHOOSE v \in values(f) : TRUE
    BY <1>7, Zenon
  <1>11. DOMAIN Outcome(os) = Fields /\ \A f \in OtherFields : Outcome(os)[f] = field(f)
    BY <1>1, <1>2, <1>7, Zenon
  <1> HIDE DEF field, effects, values
  <1> QED
    BY <1>2, <1>3, <1>4, <1>5, <1>6, <1>8, <1>9, <1>10, <1>11, Zenon


\* What calm options say counts: every flag that is set, every value that is given.
LEMMA OutcomeHas ==
  ASSUME NEW os, Calm(os), NEW o \in os \cap DOMAIN EffectOf
  PROVE  /\ EffectOf[o].set \subseteq Outcome(os).flags
         /\ \A f \in OtherFields : f \in DOMAIN EffectOf[o].values => Outcome(os)[f] = EffectOf[o].values[f]
  <1> DEFINE said(f) == {EffectOf[p].values[f] : p \in {q \in Effective(os) : f \in DOMAIN EffectOf[q].values}}
  <1>1. EffectOf[o].set \subseteq UNION {EffectOf[p].set : p \in Effective(os)}
    BY Zenon DEF Effective
  <1>2. ASSUME NEW f \in OtherFields, f \in DOMAIN EffectOf[o].values
        PROVE  Outcome(os)[f] = EffectOf[o].values[f]
    <2>1. Outcome(os)[f] = IF said(f) = {} THEN Initialize[f] ELSE CHOOSE v \in said(f) : TRUE
      BY OutcomeFields, Zenon
    <2>2. EffectOf[o].values[f] \in said(f)
      BY <1>2 DEF Effective
    <2>3. ASSUME NEW v \in said(f) PROVE v = EffectOf[o].values[f]
      <3>1. PICK p \in Effective(os) : f \in DOMAIN EffectOf[p].values /\ v = EffectOf[p].values[f]
        OBVIOUS
      <3>2. Agree(EffectOf[o], EffectOf[p])
        BY <3>1 DEF Calm, Effective
      <3> QED
        BY <3>1, <3>2, <1>2 DEF Agree
    <2> HIDE DEF said
    <2> QED
      BY <2>1, <2>2, <2>3
  <1> QED
    BY <1>1, <1>2, OutcomeFields, Zenon

\* A field that no option gives a value is as it was.
LEMMA OutcomeLacks ==
  ASSUME NEW os, NEW f \in OtherFields, \A o \in os \cap DOMAIN EffectOf : f \notin DOMAIN EffectOf[o].values
  PROVE  Outcome(os)[f] = Initialize[f]
  <1>1. {EffectOf[o].values[f] : o \in {p \in Effective(os) : f \in DOMAIN EffectOf[p].values}} = {}
    BY DEF Effective
  <1> QED
    BY <1>1, OutcomeFields, Zenon

\* The settings before any option, as a function.
LEMMA InitializeIs == Initialize = [f \in Fields |-> Initialize[f]]
  <1> DEFINE flags == {"ModeTime", "STDOUT"}
             r ==
    [thread |-> "unknown", mode |-> "normal", flags |-> flags,
     amount |-> 1000, len |-> 131072, rate |-> 0, units |-> "bw", fps |-> 1, burst |-> 0,
     bbytes |-> 0, breply |-> 0, bbburst |-> 0, key |-> NoText, tos |-> 0, cca |-> NoText, loadcca |-> NoText,
     timeout |-> -1, port |-> 5001, portlast |-> 0, listenport |-> 0,
     threads |-> 0, workingthreads |-> 0, imode |-> "none", retrytimer |-> 0, retrytime |-> 0,
     ipg |-> 0, prefetch |-> 0, ttl |-> -1, infinite |-> FALSE, bail |-> FALSE]
  <1>1. Initialize = r
    BY DEF Initialize
  <1>2. DOMAIN Initialize = Fields
    BY SMT DEF Initialize, Fields
  <1> HIDE DEF flags
  <1>3. r = [f \in DOMAIN r |-> r[f]]
    <2>1. ASSUME NEW s, s = r PROVE s = [f \in DOMAIN s |-> s[f]]
      BY <2>1, SMT
    <2> HIDE DEF r
    <2> QED
      BY <2>1
  <1> HIDE DEF r
  <1> QED
    BY <1>1, <1>2, <1>3

\* No options, no change.
LEMMA EmptySays == Outcome({}) = Initialize
  <1>1. UNION {EffectOf[o].clear : o \in Effective({})} = {} /\ UNION {EffectOf[o].set : o \in Effective({})} = {}
    BY DEF Effective
  <1>2. Outcome({}).flags = Initialize.flags
    <2>1. Outcome({}).flags = (Initialize.flags \ {}) \cup {}
      BY <1>1, OutcomeFields, Zenon
    <2> QED
      BY <2>1
  <1>3. \A f \in OtherFields : Outcome({})[f] = Initialize[f]
    BY OutcomeLacks
  <1>4. Outcome({}).timeout = Initialize.timeout
    <2>1. {-1} \cup {Timeouts[o] : o \in {} \cap DOMAIN Timeouts} = {-1}
      OBVIOUS
    <2>2. Max({-1}) = -1
      BY SMT DEF Max
    <2>3. Initialize.timeout = -1
      BY DEF Initialize
    <2> QED
      BY <2>1, <2>2, <2>3, OutcomeFields, Zenon
  <1>5. DOMAIN Initialize = Fields
    BY SMT DEF Initialize, Fields
  <1>6. Fields = OtherFields \cup {"flags", "timeout"}
    BY DEF Fields, OtherFields
  <1>7. Outcome({}) = [f \in Fields |-> Outcome({})[f]]
    BY <1>5 DEF Outcome
  <1>8. \A f \in Fields : Outcome({})[f] = Initialize[f]
    BY <1>2, <1>3, <1>4, <1>6
  <1> QED
    BY <1>7, <1>8, InitializeIs, Zenon

\* One option more.
LEMMA OutcomeApply ==
  ASSUME NEW os, NEW o \in DOMAIN EffectOf, o \notin DOMAIN Timeouts, Calm(os \cup {o})
  PROVE  Apply(Outcome(os), EffectOf[o]) = Outcome(os \cup {o})
  <1> DEFINE e == EffectOf[o]
             s == Outcome(os)
             t == Outcome(os \cup {o})
             clear(d) == UNION {EffectOf[p].clear : p \in Effective(d)}
             set(d) == UNION {EffectOf[p].set : p \in Effective(d)}
  <1>1. Calm(os)
    BY Zenon DEF Calm
  <1>2. Effective(os \cup {o}) = Effective(os) \cup {o}
    BY DEF Effective
  <1>3. clear(os \cup {o}) = clear(os) \cup e.clear /\ set(os \cup {o}) = set(os) \cup e.set
    BY <1>2
  <1>4. e.clear \cap set(os) = {} /\ e.clear \cap e.set = {}
    <2>1. \A p \in Effective(os) \cup {o} : e.clear \cap EffectOf[p].set = {}
      BY DEF Calm, Agree, Effective
    <2> QED
      BY <2>1
  <1>5. s.flags = (Initialize.flags \ clear(os)) \cup set(os)
    BY OutcomeFields, Zenon
  <1>6. t.flags = (Initialize.flags \ clear(os \cup {o})) \cup set(os \cup {o})
    BY OutcomeFields, Zenon
  <1>7. t.flags = (s.flags \ e.clear) \cup e.set
    <2> HIDE DEF s, t, e, clear, set
    <2> QED
      BY <1>3, <1>4, <1>5, <1>6
  <1>8. t.timeout = s.timeout
    <2>1. (os \cup {o}) \cap DOMAIN Timeouts = os \cap DOMAIN Timeouts
      OBVIOUS
    <2> QED
      BY <2>1, OutcomeFields, Zenon
  <1>9. ASSUME NEW f \in OtherFields PROVE t[f] = IF f \in DOMAIN e.values THEN e.values[f] ELSE s[f]
    <2>1. CASE f \in DOMAIN e.values
      <3>1. o \in (os \cup {o}) \cap DOMAIN EffectOf
        OBVIOUS
      <3>2. t[f] = e.values[f]
        BY <2>1, <3>1, OutcomeHas
      <3> QED
        BY <2>1, <3>2
    <2>2. CASE f \notin DOMAIN e.values
      <3> DEFINE said(d) == {EffectOf[p].values[f] : p \in {q \in Effective(d) : f \in DOMAIN EffectOf[q].values}}
      <3>1. said(os \cup {o}) = said(os)
        BY <1>2, <2>2
      <3>2. \A d : Outcome(d)[f] = IF said(d) = {} THEN Initialize[f] ELSE CHOOSE v \in said(d) : TRUE
        BY OutcomeFields, Zenon
      <3> HIDE DEF said
      <3>3. t[f] = s[f]
        BY <3>1, <3>2
      <3> QED
        BY <2>2, <3>3
    <2> QED
      BY <2>1, <2>2
  <1>10. DOMAIN e.values \subseteq Values
    BY OptionsSay DEF Says, Gives
  <1>11. DOMAIN s = Fields /\ DOMAIN t = Fields
    BY OutcomeFields, Zenon
  <1>12. Values \subseteq OtherFields /\ Fields = OtherFields \cup {"flags", "timeout"} /\ OtherFields \cap {"flags", "timeout"} = {}
    BY SMT DEF Fields, Values, OtherFields
  <1>13. Apply(s, e) = [f \in Fields |-> IF f = "flags" THEN (s.flags \ e.clear) \cup e.set
                                         ELSE IF f \in DOMAIN e.values THEN e.values[f] ELSE s[f]]
    BY <1>11, Zenon DEF Apply
  <1>14. t = [f \in Fields |-> t[f]]
    BY <1>11 DEF Outcome
  <1> HIDE DEF s, t, e
  <1>15. \A f \in Fields : t[f] = IF f = "flags" THEN (s.flags \ e.clear) \cup e.set
                                  ELSE IF f \in DOMAIN e.values THEN e.values[f] ELSE s[f]
    BY <1>7, <1>8, <1>9, <1>10, <1>12
  <1> QED
    BY <1>13, <1>14, <1>15, Zenon DEF s, t, e


\* The maximum of a set of numbers.
LEMMA MaxIs ==
  ASSUME NEW S \in SUBSET Int, NEW m \in S, \A n \in S : m >= n PROVE Max(S) = m
  <1> DEFINE c == CHOOSE x \in S : \A y \in S : x >= y
  <1>1. c \in S /\ \A y \in S : c >= y
    OBVIOUS
  <1> HIDE DEF c
  <1>2. c \in Int /\ m \in Int /\ c >= m /\ m >= c
    BY <1>1
  <1>3. c = m
    BY <1>2, SMT
  <1> QED
    BY <1>3 DEF Max, c

\* The two options with a timeout.
LEMMA TimeoutsAre == DOMAIN Timeouts = Timed /\ \A o \in Timed : Timeouts[o] \in {5, 20}
  <1> DEFINE table == {<<"--permit-key-timeout 20", 20>>, <<"--test-exchange-timeout 5", 5>>}
  <1>0. \A o, n : <<o, n>>[1] = o /\ <<o, n>>[2] = n
    OBVIOUS
  <1>1. Names(table) = Timed
    <2>1. \A row \in table : row[1] \in Timed
      BY <1>0, Zenon DEF Timed
    <2>2. \A o \in Timed : \E row \in table : row[1] = o
      BY <1>0, Zenon DEF Timed
    <2> HIDE DEF table
    <2>3. Names(table) = {row[1] : row \in table}
      BY DEF Names
    <2> QED
      BY <2>1, <2>2, <2>3
  <1>2. \A row \in table : row[2] \in {5, 20}
    <2>1. ASSUME NEW row \in table PROVE \E o : row = <<o, 20>> \/ row = <<o, 5>>
      BY Zenon
    <2>2. ASSUME NEW row, \E o : row = <<o, 20>> \/ row = <<o, 5>> PROVE row[2] \in {5, 20}
      BY <2>2
    <2> HIDE DEF table
    <2> QED
      BY <2>1, <2>2, Zenon
  <1>3. Timeouts = Lookup(table)
    BY DEF Timeouts
  <1> HIDE DEF table
  <1>4. ASSUME NEW o \in Timed PROVE Lookup(table)[o] \in {5, 20}
    <2> DEFINE chosen == CHOOSE r \in table : r[1] = o
    <2>1. PICK row \in table : row[1] = o
      BY <1>1 DEF Names
    <2>2. chosen \in table
      BY <2>1
    <2>3. Lookup(table)[o] = chosen[2]
      BY <1>1 DEF Lookup
    <2> QED
      BY <1>2, <2>2, <2>3
  <1>5. DOMAIN Timeouts = Timed
    BY <1>1, <1>3 DEF Lookup
  <1> QED
    BY <1>3, <1>4, <1>5

\* One timeout more.
LEMMA OutcomeTimeout ==
  ASSUME NEW os, NEW o \in DOMAIN Timeouts
  PROVE  [Outcome(os) EXCEPT !.timeout = Max({@, Timeouts[o]})] = Outcome(os \cup {o})
  <1> DEFINE s == Outcome(os)
             t == Outcome(os \cup {o})
             n == Timeouts[o]
             said == {-1} \cup {Timeouts[p] : p \in os \cap DOMAIN Timeouts}
             more == {-1} \cup {Timeouts[p] : p \in (os \cup {o}) \cap DOMAIN Timeouts}
  <1>1. n \in {5, 20} /\ said \subseteq {-1, 5, 20} /\ -1 \in said
    BY TimeoutsAre
  <1>2. more = said \cup {n}
    OBVIOUS
  <1>3. s.timeout = Max(said) /\ t.timeout = Max(more)
    BY OutcomeFields, Zenon
  <1>4. Max(more) = Max({Max(said), n})
    <2> HIDE DEF said, more, n
    <2>1. PICK m \in said : \A k \in said : m >= k
      BY <1>1, SMT
    <2>2. m \in Int /\ n \in Int /\ said \subseteq Int
      BY <1>1, SMT
    <2>3. Max(said) = m
      BY <2>1, <2>2, MaxIs
    <2>4. CASE m >= n
      <3>1. Max({m, n}) = m
        BY <2>2, <2>4, MaxIs, SMT
      <3>2. Max(more) = m
        BY <1>2, <2>1, <2>2, <2>4, MaxIs, SMT
      <3> QED
        BY <2>3, <3>1, <3>2
    <2>5. CASE n > m
      <3>1. Max({m, n}) = n
        BY <2>2, <2>5, MaxIs, SMT
      <3>2. \A k \in more : n >= k
        BY <1>2, <2>1, <2>2, <2>5, SMT
      <3>3. Max(more) = n
        BY <1>2, <2>2, <3>2, MaxIs, SMT
      <3> QED
        BY <2>3, <3>1, <3>3
    <2> QED
      BY <2>2, <2>4, <2>5, SMT
  <1>5. o \notin DOMAIN EffectOf
    BY OptionsSay, TimeoutsAre DEF Says
  <1>6. Effective(os \cup {o}) = Effective(os)
    BY <1>5 DEF Effective
  <1>7. t.flags = s.flags
    BY <1>6, OutcomeFields, Zenon
  <1>8. ASSUME NEW f \in OtherFields PROVE t[f] = s[f]
    <2> DEFINE given(d) == {EffectOf[p].values[f] : p \in {q \in Effective(d) : f \in DOMAIN EffectOf[q].values}}
    <2>1. given(os \cup {o}) = given(os)
      BY <1>6
    <2>2. \A d : Outcome(d)[f] = IF given(d) = {} THEN Initialize[f] ELSE CHOOSE v \in given(d) : TRUE
      BY OutcomeFields, Zenon
    <2> HIDE DEF given
    <2> QED
      BY <2>1, <2>2
  <1>9. DOMAIN s = Fields /\ t = [f \in Fields |-> t[f]]
    BY OutcomeFields, Zenon DEF Outcome
  <1>10. Fields = OtherFields \cup {"flags", "timeout"} /\ OtherFields \cap {"flags", "timeout"} = {}
    BY SMT DEF Fields, OtherFields
  <1>11. [s EXCEPT !.timeout = Max({@, n})]
         = [f \in Fields |-> IF f = "timeout" THEN Max({s.timeout, n}) ELSE s[f]]
    BY <1>9, Zenon
  <1> HIDE DEF s, t, n, said, more
  <1>12. \A f \in Fields : t[f] = IF f = "timeout" THEN Max({s.timeout, n}) ELSE s[f]
    BY <1>3, <1>4, <1>7, <1>8, <1>10
  <1> QED
    BY <1>9, <1>11, <1>12, Zenon DEF s, t, n


-----------------------------------------------------------------------------
(* The options: one more is read                                           *)

\* Only one of several rivals is there.
Apart(os) == \A rivals \in Rivals : \A o, p \in rivals \cap os : o = p

\* What has been read counts, unless something has been warned about or there
\* are rivals.
Ordered ==
  /\ options \subseteq OptionNames /\ pending \subseteq options
  /\ phase = "options" /\ warned = {} /\ Apart(options \ pending)
     => Calm(options \ pending) /\ settings = Outcome(options \ pending)

\* An option that is not warned about agrees with those read before it.
LEMMA CalmStays ==
  ASSUME NEW os, NEW o \in DOMAIN EffectOf, o \notin os, Calm(os), Apart(os \cup {o}), ~Warned(Outcome(os), o)
  PROVE  Calm(os \cup {o})
  <1> DEFINE s == Outcome(os)
  <1>1. "mode" \in OtherFields /\ "cca" \in OtherFields
    BY SMT DEF OtherFields, Fields
  <1>2. ASSUME NEW p \in os \cap DOMAIN EffectOf PROVE ~Noticed(o, p) /\ ~Noticed(p, o)
    <2>1. Says(p, EffectOf[p])
      BY OptionsSay
    <2>2. EffectOf[p].set \subseteq s.flags
      BY OutcomeHas
    <2>3. ASSUME o = "-C", p \in {"-d", "-r"} PROVE FALSE
      <3>1. "mode" \in DOMAIN EffectOf[p].values /\ EffectOf[p].values["mode"] # "normal"
        BY <2>1, <2>3 DEF Says, Gives
      <3>2. s["mode"] = EffectOf[p].values["mode"]
        BY <1>1, <3>1, OutcomeHas
      <3> QED
        BY <2>3, <3>1, <3>2 DEF Warned
    <2>4. ASSUME p = "-C", o \in {"-d", "-r"} PROVE FALSE
      <3>1. "Compat" \in s.flags
        BY <2>1, <2>2, <2>4 DEF Says, Sets
      <3> QED
        BY <2>4, <3>1 DEF Warned, Has
    <2>5. ASSUME p \in OfCCA, o \in OfCCA PROVE FALSE
      <3>1. "CongestionControl" \in s.flags
        BY <2>1, <2>2, <2>5 DEF Says, Sets
      <3> QED
        BY <2>5, <3>1, Zenon DEF Warned, Refused, Has, OfCCA
    <2> QED
      BY <2>3, <2>4, <2>5, Zenon DEF Noticed
  <1>3. ASSUME NEW p \in os PROVE ~Rival(o, p) /\ ~Rival(p, o)
    BY <1>3, Zenon DEF Rival, Apart
  <1>4. ASSUME NEW p \in os \cap DOMAIN EffectOf
        PROVE  Agree(EffectOf[o], EffectOf[p]) /\ Agree(EffectOf[p], EffectOf[o])
    <2>1. ~Rival(o, p) /\ ~Rival(p, o) /\ ~Noticed(o, p) /\ ~Noticed(p, o)
      BY <1>2, <1>3
    <2> QED
      BY <2>1, OptionsAgree
  <1>5. Agree(EffectOf[o], EffectOf[o])
    BY OptionsAgree
  <1> QED
    BY <1>4, <1>5 DEF Calm

\* What Settings_Interpret does with an option that it does not warn about.
LEMMA OneMore ==
  ASSUME NEW os, NEW o \in OptionNames, o \notin os, Calm(os), Apart(os \cup {o}), ~Warned(Outcome(os), o)
  PROVE  Calm(os \cup {o}) /\ Interpret(Outcome(os), o) = Outcome(os \cup {o})
  <1> DEFINE s == Outcome(os)
  <1>1. ~Refused(s, o)
    BY DEF Warned
  <1>2. CASE o \in DOMAIN Timeouts
    <2>1. o \notin DOMAIN EffectOf
      BY <1>2, OptionsSay, TimeoutsAre DEF Says
    <2>2. Calm(os \cup {o})
      BY <2>1 DEF Calm
    <2>3. o # "-c"
      BY <1>2, TimeoutsAre, Zenon DEF Timed
    <2>4. Interpret(s, o) = [s EXCEPT !.timeout = Max({@, Timeouts[o]})]
      BY <1>1, <1>2, <2>3, Zenon DEF Interpret
    <2> QED
      BY <1>2, <2>2, <2>4, OutcomeTimeout, Zenon
  <1>3. CASE o \notin DOMAIN Timeouts
    <2>1. o \in DOMAIN EffectOf
      BY <1>3 DEF OptionNames
    <2>2. Calm(os \cup {o})
      BY <2>1, CalmStays
    <2>3. o = "-c" => s.thread = "unknown"
      <3> SUFFICES ASSUME o = "-c" PROVE s["thread"] = "unknown"
        OBVIOUS
      <3>1. "thread" \in OtherFields /\ Initialize["thread"] = "unknown"
        BY SMT DEF OtherFields, Fields, Initialize
      <3>2. ASSUME NEW p \in os \cap DOMAIN EffectOf, "thread" \in DOMAIN EffectOf[p].values PROVE FALSE
        <4>1. p \in OfThread /\ o \in OfThread
          BY <3>2, OptionsSay, Zenon DEF Says, Gives, OfThread
        <4>2. Rival(o, p)
          BY <4>1, RivalSets
        <4> QED
          BY <4>2, Zenon DEF Rival, Apart
      <3> QED
        BY <3>1, <3>2, OutcomeLacks
    <2>4. Interpret(s, o) = Apply(s, EffectOf[o])
      BY <1>1, <1>3, <2>3, Zenon DEF Interpret
    <2> QED
      BY <1>3, <2>1, <2>2, <2>4, OutcomeApply, Zenon
  <1> QED
    BY <1>2, <1>3

\* Settings_ParseCommandLine goes on to the next option.
LEMMA OrderedRead ==
  ASSUME Ordered, NEW o \in pending, Read(o) PROVE Ordered'
  <1> DEFINE os == options \ pending
  <1>1. /\ phase = "options" /\ options' = options /\ phase' = phase
        /\ settings' = Interpret(settings, o) /\ pending' = pending \ {o}
        /\ warned' = IF Warned(settings, o) THEN warned \cup {o} ELSE warned
    BY DEF Read
  <1>2. o \in OptionNames /\ o \notin os /\ options' \ pending' = os \cup {o}
    BY <1>1 DEF Ordered
  <1>3. ASSUME warned' = {}, Apart(os \cup {o})
        PROVE  Calm(os \cup {o}) /\ settings' = Outcome(os \cup {o})
    <2>1. warned = {} /\ ~Warned(settings, o)
      BY <1>1, <1>3
    <2>2. Apart(os)
      BY <1>3, Zenon DEF Apart
    <2>3. Calm(os) /\ settings = Outcome(os)
      BY <1>1, <2>1, <2>2 DEF Ordered
    <2> QED
      BY <1>1, <1>2, <1>3, <2>1, <2>3, OneMore
  <1>4. options' \subseteq OptionNames /\ pending' \subseteq options'
    BY <1>1 DEF Ordered
  <1> HIDE DEF os
  <1>5. Calm(options' \ pending') <=> Calm(os \cup {o})
    BY <1>2
  <1> QED
    BY <1>2, <1>3, <1>4 DEF Ordered

\* The order of the options does not matter (TestExchange.tla), for any sets of
\* options: Settings_Interpret makes of them what they say.
THEOREM AnyOrder == ExchangeSpec => []OrderFree
  <1>1. ExchangeInit => Ordered
    <2> SUFFICES ASSUME ExchangeInit PROVE Ordered
      OBVIOUS
    <2>1. options \subseteq OptionNames /\ pending = options /\ settings = Initialize
      BY OptionsAssumption DEF ExchangeInit
    <2>2. options \ pending = {} /\ Calm({})
      BY <2>1 DEF Calm
    <2> QED
      BY <2>1, <2>2, EmptySays DEF Ordered
  <1>2. ExchangeInv /\ Ordered /\ [ExchangeNext]_exchangeVars => Ordered'
    <2> SUFFICES ASSUME ExchangeInv, Ordered, [ExchangeNext]_exchangeVars PROVE Ordered'
      OBVIOUS
    <2>1. CASE \E o \in pending : Read(o)
      BY <2>1, OrderedRead
    <2>2. ASSUME Complete \/ Send \/ PeerXchange \/ ReadTraffic \/ (\E l \in Listeners : Accept(l)) PROVE Ordered'
      <3>1. options' = options /\ pending' = pending
        BY <2>2 DEF Complete, Send, PeerXchange, ReadTraffic, Accept
      <3>2. Complete => phase' # "options"
        <4> SUFFICES ASSUME Complete PROVE phase' # "options"
          OBVIOUS
        <4>1. Given(settings) /\ settings' = Modal(settings)
          BY DEF ExchangeInv, Complete
        <4>2. settings'.thread # "options"
          BY <4>1, KeptModal DEF Kept, Typed
        <4> QED
          BY <4>2 DEF Complete
      <3>3. phase' # "options"
        BY <2>2, <3>2 DEF Send, PeerXchange, ReadTraffic, Accept
      <3> QED
        BY <3>1, <3>3 DEF Ordered
    <2>3. CASE UNCHANGED exchangeVars
      BY <2>3 DEF exchangeVars, Ordered, Calm, Apart
    <2> QED
      BY <2>1, <2>2, <2>3 DEF ExchangeNext
  <1>3. Ordered => OrderFree
    <2> SUFFICES ASSUME Ordered, phase = "options", pending = {}, warned = {}, Apart(options)
                 PROVE  settings = Outcome(options)
      BY Zenon DEF OrderFree, Apart
    <2>1. options \ pending = options
      OBVIOUS
    <2> QED
      BY <2>1 DEF Ordered
  <1> QED
    BY <1>1, <1>2, <1>3, Exchange, PTL DEF ExchangeSpec

-----------------------------------------------------------------------------
(* Full duplex: the phases of a test                                       *)

\* Where a thread is with respect to its two passages of the barrier.
Before(d)  == at[d] = "start" /\ pc[d] \in {"init", "enter"}
AtStart(d) == at[d] = "start" /\ pc[d] \in {"wait", "woken"}
Between(d) == \/ at[d] = "start" /\ pc[d] \in {"traffic", "final"}
              \/ at[d] = "stop" /\ pc[d] = "enter"
AtStop(d)  == at[d] = "stop" /\ pc[d] \in {"wait", "woken"}

\* Nobody has freed or closed anything.
Untouched == freed = 0 /\ closed = 0

\* The last one at the stop frees the report and then closes the socket.
EndedBy(e) ==
  /\ at[e] = "stop" /\ pc[e] \in {"free", "close", "done"}
  /\ freed = IF pc[e] = "free" THEN 0 ELSE 1
  /\ closed = IF pc[e] = "done" THEN 1 ELSE 0

\* The phases of a client's test.  In the third one d has been woken and has
\* not yet run; when e is at the stop before it does, the two miss each other.
Phase(d, e) ==
  \/ Before(d) /\ Before(e) /\ count = 0 /\ Untouched
  \/ AtStart(d) /\ Before(e) /\ count = 1 /\ Untouched
  \/ AtStart(d) /\ Between(e) /\ count = 2 /\ Untouched
  \/ AtStart(d) /\ AtStop(e) /\ count = 3 /\ Untouched
  \/ Between(d) /\ Between(e) /\ count = 0 /\ Untouched
  \/ AtStop(d) /\ Between(e) /\ count = 1 /\ Untouched
  \/ AtStop(d) /\ EndedBy(e) /\ count = 2
  \/ at[d] = "stop" /\ pc[d] = "done" /\ EndedBy(e) /\ count = 0

ClientPhase ==
  side = "client" /\ expired = {} =>
    \E d, e \in Directions : d # e /\ Phase(d, e)

\* At a server nobody waits and the count is of no use.
ServerPhase ==
  side = "server" =>
    /\ count = 0 /\ Untouched
    /\ \A d \in Directions :
         \/ at[d] = "start" /\ pc[d] \in {"init", "traffic", "final"}
         \/ at[d] = "stop" /\ pc[d] \in {"enter", "done"}

\* Before a client's direction has come to the start the other one has not
\* passed it, whether its wait has expired or not.
NotAlone ==
  \A d, e \in Directions :
    side = "client" /\ d # e /\ Before(e) =>
      /\ at[d] = "start"
      /\ pc[d] \in {"init", "enter", "wait", "woken", "gone"}
      /\ count = IF Before(d) THEN 0 ELSE 1
      /\ freed = 0

\* A thread comes to the stop when its last packet has been reported, and no
\* packet is reported before the last.
Places ==
  \A d \in Directions :
    /\ at[d] = "start" =>
         pc[d] \in {"init", "enter", "wait", "woken", "traffic", "final",
                    "gone", "exited"}
    /\ at[d] = "stop" =>
         /\ pc[d] \in {"enter", "wait", "woken", "free", "close", "done",
                       "exited"}
         /\ reported[d]
    /\ reported[d] => at[d] = "stop" \/ pc[d] \in {"final", "exited"}
    /\ pc[d] = "exited" => \A e \in Directions : pc[e] = "exited"

\* Counted as a number.
One(b) == IF b THEN 1 ELSE 0

\* Which passages of the barrier a thread has behind it, or has begun.
PassedStart(d) == at[d] = "stop" \/ pc[d] \in {"traffic", "final"}
EnteredStop(d) == at[d] = "stop" /\ pc[d] # "enter"

\* A client's count is raised by each passage of the barrier at most once, and
\* reset between the start and the stop.
Counts ==
  \A d, e \in Directions :
    side = "client" /\ d # e =>
      count <= One(EnteredStop(d)) + One(EnteredStop(e))
                 + IF PassedStart(d) /\ PassedStart(e) THEN 0
                   ELSE One(~Before(d)) + One(~Before(e))

\* What is counted: the reports begun and not yet over, and the ends.
Sums ==
  \A d, e \in Directions : d # e =>
    /\ pc[d] # "exited" /\ pc[e] # "exited" =>
         refs = One(pc[d] # "init") + One(pc[e] # "init")
                 - IF enhanced THEN One(reported[d]) + One(reported[e]) ELSE 0
    /\ sums <= One(reported[d]) + One(reported[e])
    /\ freed <= One(pc[d] \in {"close", "done", "exited"})
                  + One(pc[e] \in {"close", "done", "exited"})
    /\ closed <= One(pc[d] \in {"done", "exited"})
                   + One(pc[e] \in {"done", "exited"})

\* The types of all variables, with the count and the ends left open.
Types ==
  /\ side \in {"client", "server"} /\ enhanced \in BOOLEAN
  /\ pc \in [Directions -> {"init", "enter", "wait", "woken", "traffic",
                            "final", "free", "close", "done", "gone",
                            "exited"}]
  /\ at \in [Directions -> {"start", "stop"}]
  /\ left \in [Directions -> 0 .. Seconds]
  /\ reported \in [Directions -> BOOLEAN]
  /\ expired \subseteq Directions
  /\ count \in Nat /\ sums \in Nat /\ freed \in Nat /\ closed \in Nat
  /\ refs \in 0 .. 2

\* The inductive invariant.
IInv ==
  /\ Types /\ Places /\ NotAlone /\ Counts /\ Sums
  /\ ServerPhase /\ ClientPhase /\ FinalSumOfBoth
-----------------------------------------------------------------------------
\* A direction begins: its report is bound to the sum report.
LEMMA BeginIInv ==
  ASSUME IInv, NEW d \in Directions, Begin(d) PROVE IInv'
  <1> USE SecondsAssumption DEF IInv, Types
  <1>1. PICK e \in Directions : d # e /\ Directions = {d, e}
    BY DEF Directions
  <1>2. /\ pc[d] = "init" /\ pc'[e] = pc[e]
        /\ pc'[d] = IF side = "client" THEN "enter" ELSE "traffic"
        /\ refs' = refs + 1
        /\ pc' = [pc EXCEPT ![d] = pc'[d]]
        /\ UNCHANGED <<side, enhanced, at, left, count, reported, sums,
                       freed, closed, expired>>
    BY <1>1 DEF Begin, config, ends
  <1>3. Places'
    BY <1>1, <1>2 DEF Places
  <1>4. NotAlone'
    BY <1>1, <1>2 DEF NotAlone, Before
  <1>5. Counts'
    BY <1>1, <1>2
       DEF Counts, EnteredStop, PassedStart, Before, One, Places
  <1>6. Sums'
    BY <1>1, <1>2 DEF Sums, One, Places
  <1>7. ServerPhase'
    BY <1>1, <1>2 DEF ServerPhase, Untouched
  <1>8. ClientPhase'
    BY <1>1, <1>2 DEF ClientPhase, Phase, Before, AtStart, Between, AtStop,
           EndedBy, Untouched, Places
  <1>9. FinalSumOfBoth'
    BY <1>1, <1>2 DEF FinalSumOfBoth
  <1>10. Types'
    BY <1>1, <1>2 DEF Sums, One, Places
  <1>11. QED
    BY <1>3, <1>4, <1>5, <1>6, <1>7, <1>8, <1>9, <1>10

\* The last one at the barrier wakes the other one and goes on.
LEMMA EnterLastIInv ==
  ASSUME IInv, NEW d \in Directions, EnterLast(d) PROVE IInv'
  <1> USE SecondsAssumption DEF IInv, Types
  <1>1. PICK e \in Directions : d # e /\ Directions = {d, e}
    BY DEF Directions
  <1>2. /\ pc[d] = "enter" /\ count = 1 /\ count' = 2
        /\ pc'[e] = IF pc[e] = "wait" THEN "woken" ELSE pc[e]
        /\ pc'[d] = IF at[d] = "start" THEN "traffic" ELSE "free"
        /\ pc' = [f \in Directions |-> IF f = d THEN pc'[d] ELSE pc'[e]]
        /\ UNCHANGED <<side, enhanced, at, left, refs, reported, sums, freed,
                       closed, expired>>
    <2>1. pc' = Passed(Broadcast, d, 1)
      BY DEF EnterLast
    <2>2. CASE at[d] = "start"
      <3>1. pc' = [Broadcast EXCEPT ![d] = "traffic"]
        BY <2>1, <2>2 DEF Passed
      <3>2. QED
        BY <1>1, <2>2, <3>1 DEF EnterLast, Broadcast, config, report, ends
    <2>3. CASE at[d] = "stop"
      <3>1. pc' = [Broadcast EXCEPT ![d] = "free"]
        BY <2>1, <2>3 DEF Passed
      <3>2. QED
        BY <1>1, <2>3, <3>1 DEF EnterLast, Broadcast, config, report, ends
    <2>4. QED
      BY <2>2, <2>3
  <1>3. Places'
    BY <1>1, <1>2 DEF Places
  <1>4. NotAlone'
    BY <1>1, <1>2 DEF NotAlone, Before
  <1>5. Counts'
    BY <1>1, <1>2 DEF Counts, EnteredStop, PassedStart, Before, One, Places,
           NotAlone
  <1>6. Sums'
    BY <1>1, <1>2 DEF Sums, One, Places
  <1>7. ServerPhase'
    BY <1>1, <1>2 DEF ServerPhase, Untouched
  <1>8. ClientPhase'
    BY <1>1, <1>2 DEF ClientPhase, Phase, Before, AtStart, Between, AtStop,
           EndedBy, Untouched, Places
  <1>9. FinalSumOfBoth'
    BY <1>1, <1>2 DEF FinalSumOfBoth
  <1>10. Types'
    BY <1>1, <1>2 DEF Sums, One, Places
  <1>11. QED
    BY <1>3, <1>4, <1>5, <1>6, <1>7, <1>8, <1>9, <1>10

\* The first one at the barrier waits; at a server it goes on.
LEMMA EnterOtherIInv ==
  ASSUME IInv, NEW d \in Directions, EnterOther(d) PROVE IInv'
  <1> USE SecondsAssumption DEF IInv, Types
  <1>1. PICK e \in Directions : d # e /\ Directions = {d, e}
    BY DEF Directions
  <1>2. /\ pc[d] = "enter" /\ count # 1 /\ pc'[e] = pc[e]
        /\ IF side = "client"
           THEN /\ count' = count + 1 /\ pc'[d] = "wait"
                /\ left' = [left EXCEPT ![d] = Seconds]
           ELSE /\ count' = 0 /\ UNCHANGED left
                /\ pc'[d] = IF at[d] = "start" THEN "traffic" ELSE "done"
        /\ pc' = [pc EXCEPT ![d] = pc'[d]]
        /\ UNCHANGED <<side, enhanced, at, refs, reported, sums, freed,
                       closed, expired>>
    BY <1>1 DEF EnterOther, Timeout, Passed, config, report, ends
  <1>3. Places'
    BY <1>1, <1>2 DEF Places
  <1>4. NotAlone'
    BY <1>1, <1>2 DEF NotAlone, Before
  <1>5. Counts'
    BY <1>1, <1>2
       DEF Counts, EnteredStop, PassedStart, Before, One, Places
  <1>6. Sums'
    BY <1>1, <1>2 DEF Sums, One, Places
  <1>7. ServerPhase'
    BY <1>1, <1>2 DEF ServerPhase, Untouched
  <1>8. ClientPhase'
    BY <1>1, <1>2 DEF ClientPhase, Phase, Before, AtStart, Between, AtStop,
           EndedBy, Untouched, Places
  <1>9. FinalSumOfBoth'
    BY <1>1, <1>2 DEF FinalSumOfBoth
  <1>10. Types'
    BY <1>1, <1>2 DEF Sums, One, Places
  <1>11. QED
    BY <1>3, <1>4, <1>5, <1>6, <1>7, <1>8, <1>9, <1>10

\* A second of a wait is over.
LEMMA ElapseIInv ==
  ASSUME IInv, NEW d \in Directions, Elapse(d) PROVE IInv'
  <1> USE SecondsAssumption DEF IInv, Types
  <1>1. PICK e \in Directions : d # e /\ Directions = {d, e}
    BY DEF Directions
  <1>2. /\ pc[d] = "wait" /\ pc'[d] = "woken" /\ pc'[e] = pc[e]
        /\ pc' = [pc EXCEPT ![d] = pc'[d]]
        /\ UNCHANGED <<side, enhanced, at, left, count, refs, reported, sums,
                       freed, closed, expired>>
    BY <1>1 DEF Elapse, config, report, ends
  <1>3. Places'
    BY <1>1, <1>2 DEF Places
  <1>4. NotAlone'
    BY <1>1, <1>2 DEF NotAlone, Before
  <1>5. Counts'
    BY <1>1, <1>2
       DEF Counts, EnteredStop, PassedStart, Before, One, Places
  <1>6. Sums'
    BY <1>1, <1>2 DEF Sums, One, Places
  <1>7. ServerPhase'
    BY <1>1, <1>2 DEF ServerPhase, Untouched
  <1>8. ClientPhase'
    BY <1>1, <1>2 DEF ClientPhase, Phase, Before, AtStart, Between, AtStop,
           EndedBy, Untouched, Places
  <1>9. FinalSumOfBoth'
    BY <1>1, <1>2 DEF FinalSumOfBoth
  <1>10. Types'
    BY <1>1, <1>2 DEF Sums, One, Places
  <1>11. QED
    BY <1>3, <1>4, <1>5, <1>6, <1>7, <1>8, <1>9, <1>10

\* The traffic of a direction is over.
LEMMA EndTrafficIInv ==
  ASSUME IInv, NEW d \in Directions, EndTraffic(d) PROVE IInv'
  <1> USE SecondsAssumption DEF IInv, Types
  <1>1. PICK e \in Directions : d # e /\ Directions = {d, e}
    BY DEF Directions
  <1>2. /\ pc[d] = "traffic" /\ pc'[d] = "final" /\ pc'[e] = pc[e]
        /\ pc' = [pc EXCEPT ![d] = pc'[d]]
        /\ UNCHANGED <<side, enhanced, at, left, count, refs, reported, sums,
                       freed, closed, expired>>
    BY <1>1 DEF EndTraffic, config, report, ends
  <1>3. Places'
    BY <1>1, <1>2 DEF Places
  <1>4. NotAlone'
    BY <1>1, <1>2 DEF NotAlone, Before
  <1>5. Counts'
    BY <1>1, <1>2
       DEF Counts, EnteredStop, PassedStart, Before, One, Places
  <1>6. Sums'
    BY <1>1, <1>2 DEF Sums, One, Places
  <1>7. ServerPhase'
    BY <1>1, <1>2 DEF ServerPhase, Untouched
  <1>8. ClientPhase'
    BY <1>1, <1>2 DEF ClientPhase, Phase, Before, AtStart, Between, AtStop,
           EndedBy, Untouched, Places
  <1>9. FinalSumOfBoth'
    BY <1>1, <1>2 DEF FinalSumOfBoth
  <1>10. Types'
    BY <1>1, <1>2 DEF Sums, One, Places
  <1>11. QED
    BY <1>3, <1>4, <1>5, <1>6, <1>7, <1>8, <1>9, <1>10

\* The reporter takes the last packet of a direction.
LEMMA ReportIInv ==
  ASSUME IInv, NEW d \in Directions, Report(d) PROVE IInv'
  <1> USE SecondsAssumption DEF IInv, Types
  <1>1. PICK e \in Directions : d # e /\ Directions = {d, e}
    BY DEF Directions
  <1>2. /\ pc[d] = "final" /\ ~reported[d]
        /\ reported' = [reported EXCEPT ![d] = TRUE]
        /\ IF enhanced
           THEN /\ refs' = refs - 1
                /\ sums' = IF refs' = 0 THEN sums + 1 ELSE sums
           ELSE UNCHANGED <<refs, sums>>
        /\ UNCHANGED <<side, enhanced, pc, at, left, count, freed, closed,
                       expired>>
    BY <1>1 DEF Report, config, ends
  <1>3. Places'
    BY <1>1, <1>2 DEF Places
  <1>4. NotAlone'
    BY <1>1, <1>2 DEF NotAlone, Before
  <1>5. Counts'
    BY <1>1, <1>2
       DEF Counts, EnteredStop, PassedStart, Before, One, Places
  <1>6. Sums'
    BY <1>1, <1>2 DEF Sums, One, Places
  <1>7. ServerPhase'
    BY <1>1, <1>2 DEF ServerPhase, Untouched
  <1>8. ClientPhase'
    BY <1>1, <1>2 DEF ClientPhase, Phase, Before, AtStart, Between, AtStop,
           EndedBy, Untouched, Places
  <1>9. FinalSumOfBoth'
    BY <1>1, <1>2 DEF FinalSumOfBoth, Sums, One, ClientPhase, Phase, Before,
           AtStart, AtStop, Between, EndedBy
  <1>10. Types'
    BY <1>1, <1>2 DEF Sums, One, Places
  <1>11. QED
    BY <1>3, <1>4, <1>5, <1>6, <1>7, <1>8, <1>9, <1>10

\* A thread comes to the stop.
LEMMA EndJobIInv ==
  ASSUME IInv, NEW d \in Directions, EndJob(d) PROVE IInv'
  <1> USE SecondsAssumption DEF IInv, Types
  <1>1. PICK e \in Directions : d # e /\ Directions = {d, e}
    BY DEF Directions
  <1>2. /\ pc[d] = "final" /\ reported[d]
        /\ pc'[d] = "enter" /\ pc'[e] = pc[e]
        /\ pc' = [pc EXCEPT ![d] = pc'[d]]
        /\ at' = [at EXCEPT ![d] = "stop"]
        /\ UNCHANGED <<side, enhanced, left, count, refs, reported, sums,
                       freed, closed, expired>>
    BY <1>1 DEF EndJob, config, report, ends
  <1>3. Places'
    BY <1>1, <1>2 DEF Places
  <1>4. NotAlone'
    BY <1>1, <1>2 DEF NotAlone, Before
  <1>5. Counts'
    BY <1>1, <1>2
       DEF Counts, EnteredStop, PassedStart, Before, One, Places
  <1>6. Sums'
    BY <1>1, <1>2 DEF Sums, One, Places
  <1>7. ServerPhase'
    BY <1>1, <1>2 DEF ServerPhase, Untouched
  <1>8. ClientPhase'
    BY <1>1, <1>2 DEF ClientPhase, Phase, Before, AtStart, Between, AtStop,
           EndedBy, Untouched, Places
  <1>9. FinalSumOfBoth'
    BY <1>1, <1>2 DEF FinalSumOfBoth
  <1>10. Types'
    BY <1>1, <1>2 DEF Sums, One, Places
  <1>11. QED
    BY <1>3, <1>4, <1>5, <1>6, <1>7, <1>8, <1>9, <1>10

\* The last one at the stop frees the report.
LEMMA FreeIInv ==
  ASSUME IInv, NEW d \in Directions, Free(d) PROVE IInv'
  <1> USE SecondsAssumption DEF IInv, Types
  <1>1. PICK e \in Directions : d # e /\ Directions = {d, e}
    BY DEF Directions
  <1>2. /\ pc[d] = "free" /\ pc'[d] = "close" /\ pc'[e] = pc[e]
        /\ pc' = [pc EXCEPT ![d] = pc'[d]]
        /\ freed' = freed + 1
        /\ UNCHANGED <<side, enhanced, at, left, count, refs, reported, sums,
                       closed, expired>>
    BY <1>1 DEF Free, config, report
  <1>3. Places'
    BY <1>1, <1>2 DEF Places
  <1>4. NotAlone'
    BY <1>1, <1>2 DEF NotAlone, Before
  <1>5. Counts'
    BY <1>1, <1>2
       DEF Counts, EnteredStop, PassedStart, Before, One, Places
  <1>6. Sums'
    BY <1>1, <1>2 DEF Sums, One, Places
  <1>7. ServerPhase'
    BY <1>1, <1>2 DEF ServerPhase, Untouched
  <1>8. ClientPhase'
    BY <1>1, <1>2 DEF ClientPhase, Phase, Before, AtStart, Between, AtStop,
           EndedBy, Untouched, Places
  <1>9. FinalSumOfBoth'
    BY <1>1, <1>2 DEF FinalSumOfBoth
  <1>10. Types'
    BY <1>1, <1>2 DEF Sums, One, Places
  <1>11. QED
    BY <1>3, <1>4, <1>5, <1>6, <1>7, <1>8, <1>9, <1>10

\* The last one at the stop closes the socket.
LEMMA CloseIInv ==
  ASSUME IInv, NEW d \in Directions, Close(d) PROVE IInv'
  <1> USE SecondsAssumption DEF IInv, Types
  <1>1. PICK e \in Directions : d # e /\ Directions = {d, e}
    BY DEF Directions
  <1>2. /\ pc[d] = "close" /\ pc'[d] = "done" /\ pc'[e] = pc[e]
        /\ pc' = [pc EXCEPT ![d] = pc'[d]]
        /\ closed' = closed + 1
        /\ UNCHANGED <<side, enhanced, at, left, count, refs, reported, sums,
                       freed, expired>>
    BY <1>1 DEF Close, config, report
  <1>3. Places'
    BY <1>1, <1>2 DEF Places
  <1>4. NotAlone'
    BY <1>1, <1>2 DEF NotAlone, Before
  <1>5. Counts'
    BY <1>1, <1>2
       DEF Counts, EnteredStop, PassedStart, Before, One, Places
  <1>6. Sums'
    BY <1>1, <1>2 DEF Sums, One, Places
  <1>7. ServerPhase'
    BY <1>1, <1>2 DEF ServerPhase, Untouched
  <1>8. ClientPhase'
    BY <1>1, <1>2 DEF ClientPhase, Phase, Before, AtStart, Between, AtStop,
           EndedBy, Untouched, Places
  <1>9. FinalSumOfBoth'
    BY <1>1, <1>2 DEF FinalSumOfBoth
  <1>10. Types'
    BY <1>1, <1>2 DEF Sums, One, Places
  <1>11. QED
    BY <1>3, <1>4, <1>5, <1>6, <1>7, <1>8, <1>9, <1>10

\* A thread that has been woken goes on, waits again, or gives up.
LEMMA WokenIInv ==
  ASSUME IInv, NEW d \in Directions, Woken(d) PROVE IInv'
  <1> USE SecondsAssumption DEF IInv, Types
  <1>1. PICK e \in Directions : d # e /\ Directions = {d, e}
    BY DEF Directions
  <1>2. /\ pc[d] = "woken" /\ side = "client"
        /\ UNCHANGED <<side, enhanced, at, refs, reported, sums, freed,
                       closed>>
    BY DEF Woken, ServerPhase, config, report, ends
  <1>3. CASE /\ count = 2 /\ count' = 0
             /\ pc' = Passed(pc, d, 0)
             /\ UNCHANGED <<left, expired>>
    <2>1. /\ pc' = [pc EXCEPT ![d] = pc'[d]] /\ pc'[e] = pc[e]
          /\ pc'[d] = IF at[d] = "start" THEN "traffic" ELSE "done"
      <3>1. \/ /\ at[d] = "start"
               /\ pc' = [pc EXCEPT ![d] = "traffic"]
            \/ /\ at[d] = "stop"
               /\ pc' = [pc EXCEPT ![d] = "done"]
        BY <1>3 DEF Passed
      <3>2. QED
        BY <1>1, <3>1
    <2>2. Places' /\ ServerPhase' /\ FinalSumOfBoth'
      BY <1>1, <1>2, <1>3, <2>1 DEF Places, ServerPhase, FinalSumOfBoth
    <2>3. NotAlone'
      BY <1>1, <1>2, <1>3, <2>1 DEF NotAlone, Before
    <2>4. Counts'
      BY <1>1, <1>2, <1>3, <2>1
         DEF Counts, EnteredStop, PassedStart, Before, One
    <2>5. Sums'
      BY <1>1, <1>2, <1>3, <2>1 DEF Sums, One
    <2>6. ClientPhase'
      BY <1>1, <1>2, <1>3, <2>1
         DEF ClientPhase, Phase, Before, AtStart, Between, AtStop, EndedBy,
             Untouched
    <2>7. Types'
      BY <1>1, <1>2, <1>3, <2>1
    <2>8. QED
      BY <2>2, <2>3, <2>4, <2>5, <2>6, <2>7
  <1>4. CASE /\ left[d] > 1
             /\ left' = [left EXCEPT ![d] = @ - 1]
             /\ pc' = [pc EXCEPT ![d] = "wait"]
             /\ UNCHANGED <<count, expired>>
    <2>1. pc'[d] = "wait" /\ pc'[e] = pc[e]
      BY <1>1, <1>4
    <2>2. Places' /\ ServerPhase' /\ FinalSumOfBoth'
      BY <1>1, <1>2, <1>4, <2>1 DEF Places, ServerPhase, FinalSumOfBoth
    <2>3. NotAlone'
      BY <1>1, <1>2, <1>4, <2>1 DEF NotAlone, Before
    <2>4. Counts'
      BY <1>1, <1>2, <1>4, <2>1
         DEF Counts, EnteredStop, PassedStart, Before, One
    <2>5. Sums'
      BY <1>1, <1>2, <1>4, <2>1 DEF Sums, One
    <2>6. ClientPhase'
      BY <1>1, <1>2, <1>4, <2>1
         DEF ClientPhase, Phase, Before, AtStart, Between, AtStop, EndedBy,
             Untouched
    <2>7. Types'
      BY <1>1, <1>2, <1>4, <2>1
    <2>8. QED
      BY <2>2, <2>3, <2>4, <2>5, <2>6, <2>7
  <1>5. CASE /\ expired' = expired \cup {d}
             /\ pc' = Passed(pc, d, -1)
             /\ UNCHANGED <<count, left>>
    <2>1. expired' # {}
      BY <1>5
    <2>2. \/ /\ at[d] = "start" /\ pc' = [pc EXCEPT ![d] = "gone"]
          \/ /\ at[d] = "start" /\ pc' = [f \in Directions |-> "exited"]
          \/ /\ at[d] = "stop" /\ pc' = [pc EXCEPT ![d] = "free"]
      BY <1>1, <1>5 DEF Passed, Directions
    <2>3. Places'
      BY <1>1, <1>2, <2>2 DEF Places
    <2>4. NotAlone'
      BY <1>1, <1>2, <1>5, <2>2 DEF NotAlone, Before
    <2>5. Counts'
      BY <1>1, <1>2, <1>5, <2>2
         DEF Counts, EnteredStop, PassedStart, Before, One, Places
    <2>6. Sums'
      BY <1>1, <1>2, <2>2 DEF Sums, One, Places
    <2>7. ServerPhase' /\ ClientPhase' /\ FinalSumOfBoth'
      BY <1>2, <2>1 DEF ServerPhase, ClientPhase, FinalSumOfBoth
    <2>8. Types'
      BY <1>1, <1>2, <1>5, <2>2
    <2>9. QED
      BY <2>3, <2>4, <2>5, <2>6, <2>7, <2>8
  <1>6. PICK c \in ReadCount :
          \/ /\ c = 2 /\ count' = 0
             /\ pc' = Passed(pc, d, 0)
             /\ UNCHANGED <<left, expired>>
          \/ /\ c # 2 /\ left[d] > 1
             /\ left' = [left EXCEPT ![d] = @ - 1]
             /\ pc' = [pc EXCEPT ![d] = "wait"]
             /\ UNCHANGED <<count, expired>>
          \/ /\ c # 2 /\ left[d] = 1
             /\ expired' = expired \cup {d}
             /\ pc' = Passed(pc, d, -1)
             /\ UNCHANGED <<count, left>>
    BY DEF Woken
  <1>7. c = 2 => count = 2
    BY DEF ReadCount
  <1>8. QED
    BY <1>3, <1>4, <1>5, <1>6, <1>7
-----------------------------------------------------------------------------
\* The initial states.
LEMMA InitIInv == Init => IInv
  <1> SUFFICES ASSUME Init PROVE IInv
    OBVIOUS
  <1> USE SecondsAssumption DEF Init
  <1>1. Types
    BY DEF Types
  <1>2. Places /\ NotAlone /\ Counts
    BY DEF Places, NotAlone, Counts, Before, EnteredStop, PassedStart, One
  <1>3. Sums
    BY DEF Sums, One
  <1>4. ServerPhase /\ FinalSumOfBoth
    BY DEF ServerPhase, Untouched, FinalSumOfBoth, Directions
  <1>5. ClientPhase
    BY DEF ClientPhase, Phase, Before, Untouched, Directions
  <1>6. QED
    BY <1>1, <1>2, <1>3, <1>4, <1>5 DEF IInv

\* IInv is an invariant of a full-duplex test.
THEOREM Invariance == Spec => []IInv
  <1>1. IInv /\ [Next]_vars => IInv'
    <2> SUFFICES ASSUME IInv, [Next]_vars PROVE IInv'
      OBVIOUS
    <2>1. ASSUME NEW d \in Directions, Thread(d) PROVE IInv'
      BY <2>1, BeginIInv, EnterLastIInv, EnterOtherIInv, ElapseIInv,
         WokenIInv, EndTrafficIInv, ReportIInv, EndJobIInv, FreeIInv,
         CloseIInv DEF Thread
    <2>2. CASE UNCHANGED vars
      BY <2>2 DEF vars, config, report, ends, IInv, Types, Places, NotAlone,
         Counts, Sums, ServerPhase, ClientPhase, FinalSumOfBoth, Phase,
         Before, AtStart, Between, AtStop, EndedBy, Untouched, EnteredStop,
         PassedStart
    <2>3. QED
      BY <2>1, <2>2 DEF Next
  <1>2. QED
    BY InitIInv, <1>1, PTL DEF Spec

\* The variables keep their types: the count of the barrier comes to 3 when a
\* thread is at the stop before the other has left the start, but never to 4.
THEOREM TypeCorrect == Spec => []TypeOK
  <1>1. IInv => TypeOK
    <2> SUFFICES ASSUME IInv PROVE TypeOK
      OBVIOUS
    <2>1. PICK d, e \in Directions : d # e /\ Directions = {d, e}
      BY DEF Directions
    <2>2. count \in 0 .. 3
      <3>1. CASE side = "client"
        BY <2>1, <3>1 DEF IInv, Types, Counts, Places, EnteredStop,
           PassedStart, Before, One
      <3>2. CASE side = "server"
        BY <3>2 DEF IInv, ServerPhase
      <3>3. QED
        BY <3>1, <3>2 DEF IInv, Types
    <2>3. sums \in 0 .. 2 /\ freed \in 0 .. 2 /\ closed \in 0 .. 2
      BY <2>1 DEF IInv, Types, Sums, One
    <2>4. QED
      BY <2>2, <2>3 DEF IInv, Types, TypeOK
  <1>2. QED
    BY Invariance, <1>1, PTL

\* No direction of a client has traffic before the other thread has counted
\* itself in InitIndividualReport.
THEOREM CommonStart == Spec => []TogetherAtStart
  <1>1. IInv => TogetherAtStart
    BY DEF IInv, Types, NotAlone, Before, Places, TogetherAtStart
  <1>2. QED
    BY Invariance, <1>1, PTL

\* As long as no wait has expired, the shared report outlives the reporter's
\* use of it for both directions.
THEOREM ReportOutlivesBoth == Spec => []FreedAfterBoth
  <1>1. IInv => FreedAfterBoth
    <2> SUFFICES ASSUME IInv, freed > 0, expired = {}, NEW d \in Directions
                 PROVE  reported[d]
      BY DEF FreedAfterBoth
    <2>1. side = "client"
      BY DEF IInv, Types, ServerPhase, Untouched
    <2>2. PICK f, e \in Directions : f # e /\ Phase(f, e)
      BY <2>1 DEF IInv, ClientPhase
    <2>3. at[f] = "stop" /\ at[e] = "stop"
      BY <2>2 DEF Phase, Untouched, AtStop, EndedBy
    <2>4. d \in {e, f}
      BY <2>2 DEF Directions
    <2>5. QED
      BY <2>3, <2>4 DEF IInv, Places
  <1>2. QED
    BY Invariance, <1>1, PTL

\* As long as no wait has expired, one thread at the most frees the report and
\* closes the socket in EndJob.
THEOREM OneEnds == Spec => []EndedByOne
  <1>1. IInv => EndedByOne
    <2> DEFINE owners == {d \in Directions : pc[d] \in {"free", "close"}}
    <2> SUFFICES ASSUME IInv, expired = {}
                 PROVE  Cardinality(owners) + closed =< 1
      BY DEF EndedByOne
    <2>1. \/ owners = {} /\ closed \in {0, 1}
          \/ closed = 0 /\ \E e : owners = {e}
      <3>1. CASE side = "server"
        BY <3>1 DEF IInv, ServerPhase, Untouched
      <3>2. CASE side = "client"
        <4>1. PICK d, e \in Directions : d # e /\ Phase(d, e)
          BY <3>2 DEF IInv, ClientPhase
        <4>2. Directions = {d, e}
          BY <4>1 DEF Directions
        <4>3. /\ pc[d] \notin {"free", "close"}
              /\ pc[e] \in {"free", "close"} => closed = 0
              /\ closed \in {0, 1}
          BY <4>1 DEF Phase, Before, AtStart, Between, AtStop, EndedBy,
             Untouched
        <4>4. owners = {} \/ (owners = {e} /\ closed = 0)
          BY <4>2, <4>3
        <4>5. QED
          BY <4>3, <4>4
      <3>3. QED
        BY <3>1, <3>2 DEF IInv, Types
    <2>2. CASE owners = {} /\ closed \in {0, 1}
      <3>1. Cardinality(owners) = 0
        BY <2>2, FS_EmptySet
      <3>2. QED
        BY <2>2, <3>1
    <2>3. CASE closed = 0 /\ \E e : owners = {e}
      <3>1. Cardinality(owners) = 1
        BY <2>3, FS_Singleton
      <3>2. QED
        BY <2>3, <3>1
    <2>4. QED
      BY <2>1, <2>2, <2>3
  <1>2. QED
    BY Invariance, <1>1, PTL

\* The shared report and the socket are given back once, after both directions.
THEOREM GivenBackOnce == Spec => []FreedOnce
  <1>1. FreedAfterBoth /\ EndedByOne => FreedOnce
    BY DEF FreedOnce
  <1>2. QED
    BY ReportOutlivesBoth, OneEnds, <1>1, PTL

\* As long as no wait has expired, the final sum of a client is printed once
\* and after the last packet of both directions.
THEOREM FinalSum == Spec => []FinalSumOfBoth
  <1>1. IInv => FinalSumOfBoth
    BY DEF IInv
  <1>2. QED
    BY Invariance, <1>1, PTL
=============================================================================
