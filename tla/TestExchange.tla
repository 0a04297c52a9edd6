---------------------------- MODULE TestExchange ----------------------------
(* From the options of an iperf2 client to a test that both ends agree on. *)
(* The options are read one at a time, from the environment and from the   *)
(* command line; the settings are completed; client_init makes a thread of *)
(* each stream; one of them connects to a listener and sends its header;   *)
(* the listener refuses the test, or sets up its side of it and answers.   *)
EXTENDS TestHeader, ReportHandlers

CONSTANTS OptionSets, Listeners

ASSUME OptionsAssumption == \A os \in OptionSets : os \subseteq OptionNames

\* No option sets ServerReverse, and Settings_ModalOptions ends a server that is
\* given --bounceback.
ASSUME ListenersAssumption ==
    \A l \in Listeners : /\ l \in Settings /\ l.thread = "listener"
                         /\ {"BounceBack", "ServerReverse"} \cap l.flags = {}

\* The names of the congestion controls are short enough for a header of 255 bytes.
ASSUME NamesAssumption == \A name \in Controls : Len(name) \in 0 .. 128

\* options: what was given; pending: not read yet; warned: applied with a warning;
\* client: the stream that speaks; ack: bytes of the listener's answer under way;
\* reader: which thread of the client took them. A reversed thread that is not
\* there has the role unknown.
VARIABLES options, pending, warned, settings, phase, client, header, listener, server, reversed, ack, reader
exchangeVars == <<options, pending, warned, settings, phase, client, header, listener, server, reversed, ack, reader>>

ExchangeInit ==
    /\ options \in OptionSets /\ pending = options /\ warned = {} /\ settings = Initialize
    /\ phase = "options" /\ header = NoHeader /\ ack = 0 /\ reader = "none"
    /\ client = Initialize /\ listener = Initialize /\ server = Initialize /\ reversed = Initialize

-----------------------------------------------------------------------------
(* client_init                                                             *)
Stream(s, i) == IF Has(s, "IncrDstPort") THEN [s EXCEPT !.port = @ + i] ELSE s

LoadThread(s) ==
    LET up == Has(s, "WorkingLoadUp")
        direction == IF ~Has(s, "WorkingLoadDown") THEN {} ELSE IF up THEN {"FullDuplex"} ELSE {"Reverse"}
        control == IF Has(s, "LoadCCA") THEN {"CongestionControl"} ELSE {}
        off == {"UDP", "BWSet", "Isochronous", "BounceBack", "ConnectOnly", "PeriodicBurst", "TxHoldback"}
    IN  [s EXCEPT !.flags = (@ \ off) \cup direction \cup control \cup {"WritePrefetch"},
                  !.tos = 0, !.cca = IF Has(s, "LoadCCA") THEN s.loadcca ELSE @,
                  !.rate = IF IsUDP(s) THEN 0 ELSE @]

Streams(s) == {Stream(s, i) : i \in 0 .. s.threads - 1}
              \cup (IF FlagsOf(s, {"WorkingLoadUp", "WorkingLoadDown"}) = {} THEN {} ELSE {LoadThread(s)})

\* Settings_GenerateListenerSettings: where a -d or -r client listens for the way back.
OwnListenerPort(s) == IF s.listenport # 0 THEN s.listenport ELSE s.port

-----------------------------------------------------------------------------
\* Settings_ParseEnvironment, Settings_ParseCommandLine: one option more.
Read(o) ==
    /\ phase = "options" /\ o \in pending
    /\ settings' = Interpret(settings, o) /\ pending' = pending \ {o}
    /\ warned' = IF Warned(settings, o) THEN warned \cup {o} ELSE warned
    /\ UNCHANGED <<options, phase, client, header, listener, server, reversed, ack, reader>>

\* The program ends if the settings do not fit together or have no role, and
\* a client does if it is to be a daemon.
Complete ==
    /\ phase = "options" /\ pending = {}
    /\ settings' = Modal(settings)
    /\ phase' = IF settings'.bail \/ settings'.thread = "unknown" \/ (IsClient(settings') /\ Has(settings', "Daemon"))
                THEN "exit" ELSE settings'.thread
    /\ UNCHANGED <<options, pending, warned, client, header, listener, server, reversed, ack, reader>>

\* client_spawn, StartSynch: a stream connects and sends its first payload. The
\* constructor turns -X off in compatibility mode. A full duplex bounceback has
\* no report to put its socket into, and ends there.
Send ==
    /\ phase = "client"
    /\ \E s \in Streams(settings) :
           LET c == IF Has(s, "Compat") THEN Unset(s, {"PeerVerDetect"}) ELSE s
           IN  /\ client' = c /\ header' = ClientHdr(c)
               /\ phase' = IF {"FullDuplex", "BounceBack"} \subseteq c.flags THEN "exit" ELSE "sent"
    /\ UNCHANGED <<options, pending, warned, settings, listener, server, reversed, ack, reader>>

\* The listener's run loop after accept. A listener in compatibility mode reads
\* no header; a client that only connects sends none.
Accept(l) ==
    /\ phase = "sent" /\ IsUDP(l) = IsUDP(client)
    /\ listener' = l
    /\ LET s == ApplyClientSettings([l EXCEPT !.thread = "server"], header)
           generates == ~Has(l, "Compat") /\ Generates(s)
           refused == ~Has(l, "Compat") /\ (Has(l, "ConnectOnly") \/ (~IsUDP(l) /\ RefusesTCP(l, header)))
       IN  IF refused THEN phase' = "refused" /\ UNCHANGED <<server, reversed, ack>>
           ELSE /\ phase' = "accepted"
                /\ server' = IF Has(l, "Compat") THEN [l EXCEPT !.thread = "server"]
                             ELSE IF generates THEN ReceiverSettings(s, header) ELSE s
                /\ reversed' = IF generates THEN ClientSettings(s, header) ELSE reversed
                /\ ack' = IF Has(l, "Compat") THEN 0 ELSE AckOf(s, header)
    /\ UNCHANGED <<options, pending, warned, settings, client, header, reader>>

\* A client that waits for the answer in SendFirstPayload, and one that has a
\* thread of its own to read what the server sends.
Awaits(c) == ~IsUDP(c) /\ Has(c, "PeerVerDetect") /\ SendsHeader(c)
AwaitedSize(c) == AckSize(Has(c, "TripTime"))

PeerXchange ==
    /\ phase = "accepted" /\ Awaits(client) /\ reader = "none" /\ ack >= AwaitedSize(client)
    /\ ack' = ack - AwaitedSize(client) /\ reader' = "peer"
    /\ UNCHANGED <<options, pending, warned, settings, phase, client, header, listener, server, reversed>>

\* The reading thread of a full duplex test is there before the header is sent,
\* that of a reverse test once the answer has been waited for.
ReadTraffic ==
    /\ phase = "accepted" /\ ack > 0 /\ TwoWays(client)
    /\ Has(client, "FullDuplex") \/ ~Awaits(client) \/ reader = "peer"
    /\ ack' = 0 /\ reader' = "traffic"
    /\ UNCHANGED <<options, pending, warned, settings, phase, client, header, listener, server, reversed>>

ExchangeNext ==
    \/ \E o \in pending : Read(o)
    \/ Complete \/ Send \/ PeerXchange \/ ReadTraffic
    \/ \E l \in Listeners : Accept(l)

ExchangeSpec == ExchangeInit /\ [][ExchangeNext]_exchangeVars

-----------------------------------------------------------------------------
\* Sets of options of which the one that is read last counts.
Rivals == {
    {"-n 1M", "-t 0"}, {"-n 1M", "-t 5"}, {"-b 1M", "-b 2p"}, {"-b 2p", "-b 1M,1K"}, {"-l 16", "-l 64", "-l 200"},
    {"-c", "-s"}, {"-d", "-r"}, {"-i 1", "-i f"}, {"-S 8", "--dscp 1"}, {"--connect-only", "-x c"},
    {"--connect-only", "-y c"}, {"--permit-key", "--permit-key=abc", "--permit-key=abcd"},
    {"--isochronous", "--ipg 2"}, {"--working-load", "--working-load=up,2"},
    {"--bounceback-request 50", "--bounceback-request 300"}, {"-p 5-6", "-p 6"},
    {"--isochronous", "--burst-period 0.5", "--bounceback-period 0", "--bounceback-period 0.25"},
    {"--burst-period 0", "--burst-period 0.5", "--bounceback-period 0", "--bounceback-period 0.25"}}

\* What a set of options says, in whatever order: the flags that one of them sets,
\* or that are set before and none of them clears, the longest of the timeouts, and
\* of every other field the value that an option gives it.
Outcome(os) ==
    LET effects == {EffectOf[o] : o \in os \cap DOMAIN EffectOf}
        values(f) == {e.values[f] : e \in {g \in effects : f \in DOMAIN g.values}}
    IN  [f \in DOMAIN Initialize |->
            CASE f = "flags" -> (Initialize.flags \ UNION {e.clear : e \in effects}) \cup UNION {e.set : e \in effects}
              [] f = "timeout" -> Max({Initialize.timeout} \cup {Timeouts[o] : o \in os \cap DOMAIN Timeouts})
              [] OTHER -> IF values(f) = {} THEN Initialize[f] ELSE CHOOSE v \in values(f) : TRUE]

\* The order of the options does not matter: every option counts, and does what it
\* would do alone, except options that say the same thing twice and those that
\* Settings_Interpret warns about.
OrderFree ==
    /\ phase = "options" /\ pending = {} /\ warned = {}
    /\ \A os \in Rivals : \A o, p \in os \cap options : o = p
    => settings = Outcome(options)

\* A listener that reads headers, and whose own options leave the test to the client.
Plain(l) == l.thread = "listener" /\ l.mode = "normal"
            /\ FlagsOf(l, {"Compat", "TripTime", "FullDuplex", "ServerReverse", "PeriodicBurst",
                            "Isochronous"}) = {}

\* A test that such a listener has taken and that is not of two kinds at once.
WholeTest ==
    /\ phase = "accepted" /\ Plain(listener)
    /\ ~(IsUDP(client) /\ Has(client, "Compat"))
    /\ Has(client, "SmallTripTime") => client.len >= 28 /\ ~Has(client, "Isochronous")
    /\ ~(BothWays(client) /\ FlagsOf(client, {"BounceBack", "ModeInfinite"}) # {})
    /\ client.mode # "normal" => FlagsOf(client, {"SyncTransferID", "PeerVerDetect", "FullDuplex", "Reverse"}) = {}
    /\ Has(client, "FullDuplex") => ~Has(client, "SyncTransferID")

\* The frames or bursts of a client that its header tells.
Frames(c) == IF Has(c, "BounceBack") THEN {} ELSE FlagsOf(c, {"Isochronous", "PeriodicBurst"})
TellsFrames(c) == ~IsUDP(c) \/ ~Has(c, "PeriodicBurst")

SendsBack(c) == TwoWays(c) \/ c.mode # "normal"

\* The reports fit the traffic. What a receiver prints, sums or keeps in a
\* histogram comes with the data: trip times only if the client sends them, frames
\* and bursts only if it sends those, and the sum has the columns of the flows. A
\* flow is printed unless only sums are wanted (its frames and bursts over TCP are in
\* any case), or its intervals are the frames of datagrams (Reports.c:712); a sender of datagrams that
\* is only summed counts its flows in the sum. A client counts round trips if it
\* makes them, unless only sums are wanted (Reports.c:822).
TripTimeLines == {"read_triptime", "read_triptime_isoch", "read_enhanced_isoch", "read_triptime_csv",
                  "read_isochronous_csv"}
ReportsFit ==
    LET read == Handlers(server)
        timed == read.line \in TripTimeLines
        counting == Handlers(client)
    IN  /\ server.thread = "server" =>
              /\ (read.line = NoLine) = IF IsUDP(server) THEN Has(server, "SumOnly") \/ ByFrames(server)
                                        ELSE Has(server, "SumOnly") /\ read.interval \notin {"frame", "burst"}
              /\ (timed \/ "T8" \in KeptHistograms(server)) => Has(client, "TripTime")
              /\ Has(client, "TripTime") => SumLine(server) \in {"sumcnt_read_triptime", "read_triptime_sum_csv",
                                                                "read_isochronous_sum_csv"}
              /\ "F8" \in KeptHistograms(server) => FlagsOf(client, {"TripTime", "Isochronous"}) # {}
              /\ read.interval = "frame" => Has(client, "Isochronous")
              /\ read.interval = "burst" => Has(client, "PeriodicBurst")
        /\ server.thread = "server" /\ ~IsUDP(server) =>
              (counting.post = "packet_bb_client") = (Has(server, "BounceBack") /\ ~Has(client, "SumOnly"))
        /\ IsUDP(client) /\ Has(client, "SumOnly") =>
              SumLine(client) \in {"sumcnt", "sumcnt_write_enhanced", "write_enhanced_csv"}

\* Both ends run the same test: whoever sends has a reader at the other end, for
\* as long as the client was told, in the mode, with the sizes and with the trip
\* times that the client was told; what comes back to a listener of the client
\* comes to the port where that listens; the reports of both ends are about it.
SameTest ==
    WholeTest =>
        /\ (server.thread # "client") = (~Has(client, "Reverse"))
        /\ (reversed.thread = "client") = SendsBack(client)
        /\ SendsBack(client) =>
              /\ reversed.amount = client.amount /\ Has(reversed, "ModeTime") = Has(client, "ModeTime")
              /\ reversed.mode = client.mode
              /\ Has(reversed, "FullDuplex") = Has(client, "FullDuplex")
        /\ client.mode # "normal" /\ ~Has(client, "IncrDstPort") => reversed.port = OwnListenerPort(settings)
        /\ Has(server, "TripTime") = Has(client, "TripTime")
        /\ TellsFrames(client) => /\ FlagsOf(server, {"Isochronous", "PeriodicBurst"}) = Frames(client)
                                  /\ TwoWays(client) /\ Frames(client) # {} => reversed.fps = client.fps
        /\ header.cca # NoText /\ ~Has(listener, "CongestionControl") => server.cca = AskedCCA(client)
        /\ Has(client, "BounceBack") => server.bbytes = client.bbytes /\ server.breply = client.breply
        /\ ReportsFit

\* The ends of the fields that the listener reads for the flags it has seen.
FieldsRead ==
    IF IsUDP(listener)
    THEN {16} \cup (IF "SMALL_TRIPTIMES" \in header.words THEN {28} ELSE {})
         \cup (IF "EXTEND" \in header.words THEN {80} ELSE {})
         \cup (IF {"EPOCH_START", "TRIPTIME"} \cap header.upper # {} /\ "EXTEND" \in header.words THEN {120} ELSE {})
         \cup (IF "FQRATESET" \in header.upper /\ reversed.thread = "client" THEN {128} ELSE {})
         \cup (IF "ISOCH" \in header.upper /\ reversed.thread = "client" THEN {160} ELSE {})
    ELSE (IF "EXTEND" \in header.words THEN {64} ELSE {})
         \cup (IF {"EPOCH_START", "TRIPTIME"} \cap header.upper # {} THEN {72} ELSE {})
         \cup (IF "FQRATESET" \in header.upper /\ reversed.thread = "client" THEN {80} ELSE {})
         \cup (IF "PERIODICBURST" \in header.upper THEN {88} ELSE {})
         \cup (IF "ISOCH" \in header.upper /\ reversed.thread = "client" THEN {112} ELSE {})
         \cup (IF "CCA" \in header.lower THEN {114 + Len(header.cca)} ELSE {})

\* Every field the listener reads lies within the header that the client announced
\* (TCP) or within the datagram (UDP), unless the datagrams are shorter than the
\* header, or an isochronous test is one of -d or -r or, when it goes one way, asks for a
\* congestion control or meets a server over TCP that has --full-duplex of its own.
HeaderCovers ==
    /\ phase = "accepted" /\ ~Has(listener, "Compat") /\ "BOUNCEBACK" \notin header.words
    /\ IsUDP(client) => client.len >= 160
    /\ Has(client, "Isochronous") =>
          /\ client.mode = "normal"
          /\ \/ TwoWays(client)
             \/ AskedCCA(client) = NoText /\ (IsUDP(listener) \/ ~Has(listener, "FullDuplex"))
    => \A end \in FieldsRead : end =< (IF IsUDP(listener) THEN header.sent ELSE header.len)

\* The answer of the listener is never taken for traffic, and a client that waits
\* for it gets as many bytes as it waits for.
AckMatched ==
    /\ phase = "accepted" /\ Plain(listener)
    /\ ~(Has(client, "FullDuplex") /\ Awaits(client))
    => /\ reader # "traffic"
       /\ Awaits(client) /\ reader = "none" => ack = AwaitedSize(client)
       /\ TwoWays(client) /\ (~Awaits(client) \/ reader = "peer") => ack = 0
=============================================================================
