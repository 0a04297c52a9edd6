------------------------------ MODULE Options ------------------------------
(* The settings of iperf2: Settings_Interpret, which applies the options   *)
(* one at a time in the order in which the environment and the command     *)
(* line have them, and Settings_ModalOptions, which completes and checks   *)
(* the settings once all options have been read. An option is written with *)
(* one value that matters; its row has its effect: the flags it sets and   *)
(* clears and the fields it assigns. Text, wording of the reports, the     *)
(* histograms and the values that nothing here reads are left out, and so  *)
(* are invalid values, which end the program. Lengths are in bytes, rates  *)
(* in bits, fps (frames per second) is a whole number.                     *)
EXTENDS Integers, Sequences, FiniteSetsExt

Kilo == 1024
Mega == 1048576
NoText == ""

\* The congestion controls an option can ask for.
Controls == {NoText, "reno", "bbr", "cubic"}

\* The settings before any option; infinite stands for the global infinitetime.
Initialize ==
    [thread |-> "unknown", mode |-> "normal", flags |-> {"ModeTime", "STDOUT"},
     amount |-> 1000, len |-> 131072, rate |-> 0, units |-> "bw", fps |-> 1, burst |-> 0,
     bbytes |-> 0, breply |-> 0, bbburst |-> 0, key |-> NoText, tos |-> 0, cca |-> NoText, loadcca |-> NoText,
     timeout |-> -1, port |-> 5001, portlast |-> 0, listenport |-> 0,
     threads |-> 0, workingthreads |-> 0, imode |-> "none", retrytimer |-> 0, retrytime |-> 0,
     ipg |-> 0, prefetch |-> 0, ttl |-> -1, infinite |-> FALSE, bail |-> FALSE]

Settings ==
    [thread : STRING, mode : STRING, flags : SUBSET STRING, units : STRING, imode : STRING, key : STRING,
     cca : STRING, loadcca : STRING, amount : Int, len : Int, rate : Int, fps : Int, burst : Int,
     bbytes : Int, breply : Int, bbburst : Int, tos : Int, timeout : Int, port : Int, portlast : Int,
     listenport : Int, threads : Int, workingthreads : Int, retrytimer : Int, retrytime : Int, ipg : Int,
     prefetch : Int, ttl : Int, infinite : BOOLEAN, bail : BOOLEAN]

Has(s, f) == f \in s.flags
Set(s, fs) == [s EXCEPT !.flags = @ \cup fs]
Unset(s, fs) == [s EXCEPT !.flags = @ \ fs]

-----------------------------------------------------------------------------
\* What one option does.
Effect(set, clear, values) == [set |-> set, clear |-> clear, values |-> values]
NoValue == [f \in {} |-> 0]
Flags(set) == Effect(set, {}, NoValue)
Value(values) == Effect({}, {}, values)
Both(set, values) == Effect(set, {}, values)

LoadOptions ==
    {<<"-1", Flags({"SingleClient"})>>, <<"-4", Flags({"IPV4"})>>, <<"-6", Flags({"IPV6"})>>,
     <<"-b 1M", Both({"BWSet"}, [units |-> "bw", rate |-> Mega])>>,
     <<"-b 2p", Both({"BWSet"}, [units |-> "pps", rate |-> 2])>>,
     <<"-b 1M,1K", Both({"BWSet", "VaryLoad"}, [units |-> "bw", rate |-> Mega])>>,
     <<"-d", Value([mode |-> "dual"])>>, <<"-e", Flags({"Enhanced"})>>,
     <<"-i 1", Value([imode |-> "time"])>>,
     <<"-i f", Both({"Enhanced", "FrameInterval"}, [imode |-> "frames"])>>,
     <<"-l 16", Both({"BuflenSet"}, [len |-> 16])>>,
     <<"-l 64", Both({"BuflenSet"}, [len |-> 64])>>,
     <<"-l 200", Both({"BuflenSet"}, [len |-> 200])>>}

LimitOptions ==
    {<<"-m", Flags({"PrintMSS"})>>, <<"-n 1M", Effect({}, {"ModeTime"}, [amount |-> Mega])>>,
     <<"-o", Effect({}, {"STDOUT"}, NoValue)>>, <<"-p 6", Value([port |-> 6])>>,
     <<"-p 5-6", Both({"IncrDstPort"}, [port |-> 5, portlast |-> 6])>>,
     <<"-r", Value([mode |-> "tradeoff"])>>,
     <<"-t 0", Both({"ModeTime", "ServerModeTime"}, [infinite |-> TRUE])>>,
     <<"-t 5", Both({"ModeTime", "ServerModeTime"}, [amount |-> 500])>>, <<"-u", Flags({"UDP"})>>,
     <<"-x c", Flags({"NoConnReport"})>>, <<"-x s", Flags({"NoSettReport"})>>,
     <<"-y c", Flags({"CSV", "NoSettReport", "NoConnReport"})>>, <<"-z", Flags({"Realtime"})>>}

EsotericOptions ==
    {<<"-B", Flags({"Localhost"})>>, <<"-B :7", Flags({"Localhost", "LocalPort"})>>,
     <<"-C", Both({"Compat"}, [mode |-> "normal"])>>, <<"-D", Flags({"Daemon"})>>,
     <<"-F", Flags({"FileInput"})>>, <<"-H", Flags({"SSMMulticast"})>>,
     <<"-I", Flags({"FileInput", "STDIN"})>>, <<"-L 7", Value([listenport |-> 7])>>,
     <<"-M", Flags({"TCPMSS", "PrintMSS"})>>, <<"-N", Flags({"NoDelay"})>>,
     <<"-P 2", Value([threads |-> 2])>>, <<"-R", Flags({"Reverse"})>>,
     <<"-S 8", Both({"SetTOS"}, [tos |-> 8])>>, <<"-T 300", Value([ttl |-> 300])>>,
     <<"-U", Flags({"UDP", "SingleUDP", "SingleClient"})>>, <<"-V", Flags({"IPV6"})>>,
     <<"-W", Flags({"SuggestWin"})>>, <<"-X", Flags({"PeerVerDetect"})>>,
     <<"-Z reno", Both({"CongestionControl"}, [cca |-> "reno"])>>}

StartOptions ==
    {<<"--incr-dstip", Flags({"IncrDstIP"})>>, <<"--incr-dstport", Flags({"IncrDstPort"})>>,
     <<"--incr-srcip", Flags({"IncrSrcIP"})>>, <<"--incr-srcport", Flags({"IncrSrcPort"})>>,
     <<"--ignore-shutdown", Flags({"IgnoreShutdown"})>>,
     <<"--sum-dstip", Flags({"SumServerDstIP"})>>,
     <<"--sync-transfer-id", Flags({"SyncTransferID"})>>,
     <<"--txstart-time", Flags({"TxStartTime", "Enhanced"})>>,
     <<"--no-connect-sync", Flags({"NoConnectSync"})>>, <<"--txdelay-time", Flags({"TxHoldback"})>>,
     <<"--trip-times", Flags({"TripTime"})>>, <<"--no-udp-fin", Flags({"NoUDPfin"})>>,
     <<"--connect-only", Effect({"ConnectOnly"}, {"NoConnReport"}, NoValue)>>,
     <<"--connect-retry-timer 2", Value([retrytimer |-> 2])>>,
     <<"--connect-retry-time 3", Value([retrytime |-> 3])>>, <<"--sum-only", Flags({"SumOnly"})>>,
     <<"--local-only", Flags({"DontRoute"})>>}

KeyOptions ==
    {<<"--near-congestion", Flags({"NearCongest"})>>, <<"--omit", Flags({"Omit"})>>,
     <<"--permit-key", Both({"PermitKey"}, [key |-> NoText])>>,
     <<"--permit-key=abc", Both({"PermitKey"}, [key |-> "abc"])>>,
     <<"--permit-key=abcd", Both({"PermitKey"}, [key |-> "abcd"])>>,
     <<"--histograms", Flags({"Histogram", "Enhanced"})>>,
     <<"--jitter-histograms", Flags({"JitterHistogram", "Enhanced"})>>,
     <<"--full-duplex", Flags({"FullDuplex"})>>, <<"--tos-override", Flags({"OverrideTOS"})>>,
     <<"--dscp 1", Value([tos |-> 4])>>, <<"--fq-rate", Flags({"FQPacing"})>>,
     <<"--fq-rate-step", Flags({"FQPacingStep", "Enhanced"})>>,
     <<"--isochronous", Both({"Isochronous", "Enhanced"}, [fps |-> 60, ipg |-> 5])>>}

TcpOptions ==
    {<<"--ipg 2", Both({"IPG"}, [ipg |-> 2])>>, <<"--tcp-rx-window-clamp", Flags({"RxClamp"})>>,
     <<"--tcp-write-times", Flags({"TcpWriteTimes"})>>,
     <<"--bounceback-no-quickack", Flags({"NoBBQuickAck"})>>,
     <<"--tcp-quickack", Flags({"TcpQuickAck"})>>,
     <<"--tcp-tx-delay", Flags({"TcpTxDelay", "Enhanced"})>>, <<"--utc", Flags({"UTC"})>>,
     <<"--working-load-cca cubic", Both({"LoadCCA"}, [loadcca |-> "cubic"])>>,
     <<"--tcp-cca bbr", Both({"CongestionControl"}, [cca |-> "bbr"])>>,
     <<"--working-load", Flags({"WorkingLoadUp", "WorkingLoadDown", "Enhanced"})>>,
     <<"--working-load=up,2", Effect({"WorkingLoadUp", "Enhanced"}, {"WorkingLoadDown"}, [workingthreads |-> 2])>>}

BurstOptions ==
    {<<"--bounceback-txdelay", Flags({"TxHoldback"})>>,
     <<"--tcp-write-prefetch 1K", Both({"WritePrefetch", "Enhanced"}, [prefetch |-> Kilo])>>,
     <<"--burst-period 0", Effect({}, {"PeriodicBurst"}, NoValue)>>,
     <<"--burst-period 0.5", Both({"PeriodicBurst"}, [fps |-> 2])>>,
     <<"--burst-size 1K", Both({"BurstSize"}, [burst |-> Kilo])>>,
     <<"--hide-ips", Flags({"HideIPs"})>>,
     <<"--bounceback", Both({"BounceBack", "NoDelay", "Enhanced"}, [bbburst |-> -1])>>,
     <<"--bounceback-period 0", Both({"PeriodicBurst"}, [fps |-> -1])>>,
     <<"--bounceback-period 0.25", Both({"PeriodicBurst"}, [fps |-> 4])>>,
     <<"--bounceback-request 50", Value([bbytes |-> 50])>>,
     <<"--bounceback-request 300", Value([bbytes |-> 300])>>,
     <<"--bounceback-reply 400", Value([breply |-> 400])>>,
     <<"--set-rand-seed", Flags({"RandSeed"})>>,
     <<"--skip-rx-copy", Flags({"SkipRxCopy", "Enhanced"})>>,
     <<"--udp-l4s", Flags({"UDP", "UDPL4S"})>>}

Role == {<<"-c", Value([thread |-> "client"])>>, <<"-s", Value([thread |-> "listener"])>>}

\* A table as a function of the options in it.
Names(table) == {row[1] : row \in table}
Lookup(table) == [o \in Names(table) |-> (CHOOSE row \in table : row[1] = o)[2]]

Timeouts == Lookup({<<"--permit-key-timeout 20", 20>>, <<"--test-exchange-timeout 5", 5>>})
EffectOf == Lookup(Role \cup LoadOptions \cup LimitOptions \cup EsotericOptions \cup StartOptions
                   \cup KeyOptions \cup TcpOptions \cup BurstOptions)
OptionNames == DOMAIN EffectOf \cup DOMAIN Timeouts

\* The options that are refused with a warning, by what has been read before them.
ClientOnly == {"-d", "-r", "-F", "-I", "-L 7"}
Refused(s, o) ==
    \/ o \in ClientOnly /\ s.thread # "client"
    \/ o = "-H" /\ s.thread = "client"
    \/ o = "-s" /\ s.thread # "unknown"
    \/ o \in {"-Z reno", "--tcp-cca bbr"} /\ Has(s, "CongestionControl")

\* And those that are warned about and applied all the same.
Warned(s, o) ==
    \/ Refused(s, o)
    \/ o \in {"-d", "-r"} /\ Has(s, "Compat")
    \/ o = "-C" /\ s.mode # "normal"

\* A mutant: -u sets the length of a datagram at once.
ApplyLength(s, e) ==
    [f \in DOMAIN s |-> IF f = "flags" THEN (s.flags \ e.clear) \cup e.set
                       ELSE IF f = "len" /\ "UDP" \in e.set THEN 1470
                       ELSE IF f \in DOMAIN e.values THEN e.values[f] ELSE s[f]]

Apply(s, e) ==
    [f \in DOMAIN s |-> IF f = "flags" THEN (s.flags \ e.clear) \cup e.set
                       ELSE IF f \in DOMAIN e.values THEN e.values[f] ELSE s[f]]

\* Settings_Interpret: one option. -c gives the host also to a listener, and
\* of the two timeouts the longer one counts.
Interpret(s, o) ==
    IF Refused(s, o) \/ (o = "-c" /\ s.thread # "unknown") THEN s
    ELSE IF o \in DOMAIN Timeouts THEN [s EXCEPT !.timeout = Max({@, Timeouts[o]})]
    ELSE Apply(s, EffectOf[o])
=============================================================================
