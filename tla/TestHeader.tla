----------------------------- MODULE TestHeader -----------------------------
(* The header by which an iperf2 client tells a server what test to run:   *)
(* what a client writes into its first payload, what a listener makes of   *)
(* it, and the settings of the thread that it starts to send in a reverse, *)
(* a full duplex, a dual or a tradeoff test. A header is a record of the   *)
(* flags and the values put into it, of the length it announces and of the *)
(* bytes sent. The clocks of both ends agree closely enough for the start  *)
(* times to be taken.                                                      *)
EXTENDS ModalOptions

Slop == 200
TwoWays(s) == {"Reverse", "FullDuplex"} \cap s.flags # {}
When(c, n) == IF c THEN n ELSE 0
FlagsOf(s, names) == s.flags \cap names

-----------------------------------------------------------------------------
(* Settings_GenerateClientHdr                                              *)
NoHeader == [words |-> {}, upper |-> {}, lower |-> {}, len |-> 0, sent |-> 0, port |-> 0, amount |-> 0,
             timed |-> FALSE, buflen |-> 0, fps |-> 0, tos |-> 0, rate |-> 0, cca |-> NoText, key |-> NoText,
             bbytes |-> 0, breply |-> 0]

\* Settings_GenerateClientHdrV1
HdrV1(c) ==
    [NoHeader EXCEPT !.port = IF c.listenport # 0 THEN c.listenport ELSE c.port, !.amount = c.amount,
                     !.timed = Has(c, "ModeTime"), !.buflen = When(Has(c, "BuflenSet"), c.len),
                     !.tos = c.tos,
                     !.words = IF Has(c, "SyncTransferID") THEN {"HASTRANSFERID"} ELSE {}]

WantsMode(c) == ~Has(c, "Compat") /\ c.mode # "normal"
V1Words(c) == {"VERSION1"} \cup (IF c.mode = "dual" THEN {"RUN_NOW"} ELSE {})

\* The flags that both protocols have.
CommonUpper(c) ==
    (IF Has(c, "Reverse") /\ ~Has(c, "Compat") THEN {"REVERSE"} ELSE {})
    \cup (IF Has(c, "FullDuplex") /\ ~Has(c, "Compat") THEN {"FULLDUPLEX"} ELSE {})
    \cup (IF /\ Has(c, "TxStartTime")
             /\ (TwoWays(c) /\ ~Has(c, "Compat")) \/ Has(c, "TripTime") THEN {"EPOCH_START"} ELSE {})
    \cup (IF Has(c, "TripTime") THEN {"TRIPTIME"} ELSE {})
    \cup (IF Has(c, "FQPacing") THEN {"FQRATESET"} ELSE {})

SmallUDPHeader(c) ==
    [NoHeader EXCEPT !.sent = c.len, !.words = IF c.len >= 20 THEN {"SMALL_TRIPTIMES"} ELSE {},
                     !.upper = IF Has(c, "TxStartTime") THEN {"EPOCH_START"} ELSE {}]

\* The rate is sent in bits for a server that has to send, else as it was given.
UDPRate(c) == IF ~Has(c, "BWSet") \/ c.rate =< 0 THEN Mega
              ELSE IF c.units = "pps" /\ BothWays(c) THEN c.rate * 8 * c.len ELSE c.rate

UDPHeader(c) ==
    LET h == HdrV1(c)
        back == Has(c, "Isochronous") /\ TwoWays(c)
        payload == {"TripTime", "FQPacing", "Isochronous"} \cap c.flags # {}
        size == 40 + 24 + When(back, 32) + When(payload, 32) + 16
        tests == {"Isochronous", "UDPL4S", "Reverse", "FullDuplex", "NoUDPfin", "TripTime", "FQPacing",
                  "TxStartTime"} \cap c.flags # {}
        words == {"EXTEND", "LEN_BIT"} \cup (IF WantsMode(c) THEN V1Words(c) ELSE {})
                 \cup (IF tests THEN {"UDPTESTS"} ELSE {}) \cup (IF TwoWays(c) THEN {"VERSION2"} ELSE {})
        upper == (IF Has(c, "Isochronous") THEN {"ISOCH"} ELSE {}) \cup (IF back THEN {"ISOCH_SETTINGS"} ELSE {})
                 \cup (IF Has(c, "UDPL4S") THEN {"UDPL4S"} ELSE {})
                 \cup (IF Has(c, "NoUDPfin") THEN {"NOUDPFIN"} ELSE {})
    IN  [h EXCEPT !.words = @ \cup words, !.upper = CommonUpper(c) \cup upper, !.rate = UDPRate(c),
                  !.fps = When(back, c.fps), !.len = size, !.sent = Max({size, c.len})]

\* Which congestion control the server is asked to use.
AskedCCA(c) == IF Has(c, "LoadCCA") /\ {"WorkingLoadUp", "WorkingLoadDown"} \cap c.flags # {} THEN c.loadcca
               ELSE IF Has(c, "CongestionControl") THEN c.cca ELSE NoText

\* A mutant: the value of the congestion control follows where the isochronous settings end.
SettledFrames(c) == Has(c, "PeriodicBurst") \/ (Has(c, "Isochronous") /\ TwoWays(c))

\* The isochronous settings are in the header, or are jumped over.
Settled(c) == IF {"Isochronous", "PeriodicBurst"} \cap c.flags # {}
              THEN TwoWays(c) \/ Has(c, "PeriodicBurst")
              ELSE {"LoadCCA", "CongestionControl"} \cap c.flags # {}

TCPHeader(c) ==
    LET h == HdrV1(c)
        control == {"LoadCCA", "CongestionControl"} \cap c.flags # {}
        start == control \/ {"TripTime", "FQPacing", "Isochronous", "TxStartTime"} \cap c.flags # {}
        frames == {"Isochronous", "PeriodicBurst"} \cap c.flags # {}
        cca == AskedCCA(c)
        key == IF Has(c, "PermitKey") THEN c.key ELSE NoText
        size == 24 + 40 + When(start, 16) + When(Settled(c), 32) + When(cca # NoText, 2 + Len(cca))
        announced == size + When(key # NoText, 2)
        words == {"EXTEND", "LEN_BIT"}
                 \cup (IF WantsMode(c) \/ Has(c, "SyncTransferID") THEN V1Words(c) ELSE {})
                 \cup (IF Has(c, "PeerVerDetect") THEN {"V2PEERDETECT", "VERSION2"} ELSE {})
                 \cup (IF TwoWays(c) THEN {"VERSION2"} ELSE {}) \cup (IF key # NoText THEN {"KEYCHECK"} ELSE {})
        upper == (IF Has(c, "WritePrefetch") /\ TwoWays(c) THEN {"WRITEPREFETCH"} ELSE {})
                 \cup (IF Has(c, "TcpQuickAck") /\ (Has(c, "FullDuplex") \/ ~Has(c, "Reverse"))
                       THEN {"TCPQUICKACK"} ELSE {})
                 \cup (IF Has(c, "PeriodicBurst") THEN {"PERIODICBURST"}
                       ELSE IF frames THEN {"ISOCH"} ELSE {})
    IN  [h EXCEPT !.words = @ \cup words, !.upper = CommonUpper(c) \cup upper, !.rate = When(Has(c, "BWSet"), c.rate),
                  !.lower = IF cca # NoText THEN {"CCA"} ELSE {}, !.cca = cca, !.key = key,
                  !.fps = When(frames /\ Settled(c), c.fps),
                  !.len = announced % 256, !.sent = announced + Len(key)]

\* WriteTcpTxBBHdr: the first request of a bounceback is its header.
BounceBackHeader(c) ==
    [NoHeader EXCEPT !.words = {"BOUNCEBACK"}, !.sent = c.bbytes, !.bbytes = c.bbytes, !.breply = c.breply,
                     !.tos = c.tos,
                     !.upper = (IF Has(c, "TripTime") THEN {"BBCLOCKSYNCED"} ELSE {})
                               \cup (IF Has(c, "TcpQuickAck") THEN {"BBQUICKACK"} ELSE {})
                               \cup (IF c.breply > 0 /\ c.breply # c.bbytes THEN {"BBREPLYSIZE"} ELSE {})]

\* What the payload pattern of a client without a header looks like to a server.
Pattern(c) == [NoHeader EXCEPT !.sent = c.len, !.len = 25, !.upper = IF IsUDP(c) THEN {"EPOCH_START"} ELSE {},
                               !.words = IF ~IsUDP(c) THEN {"KEYCHECK", "UDPTESTS", "LEN_BIT"}
                                         ELSE IF c.len >= 20 THEN {"SMALL_TRIPTIMES"} ELSE {}]

\* StartSynch and SendFirstPayload: a client of version 1.7 has no header,
\* unless it sends bursts; a bounceback that only reads sends nothing at all.
SendsHeader(c) == IF Has(c, "Compat") THEN {"TripTime", "PeriodicBurst"} \cap c.flags # {}
                  ELSE ~Has(c, "BounceBack")

ClientHdr(c) ==
    IF Has(c, "ConnectOnly") THEN NoHeader ELSE
    CASE SendsHeader(c) /\ IsUDP(c) -> IF Has(c, "SmallTripTime") THEN SmallUDPHeader(c) ELSE UDPHeader(c)
      [] SendsHeader(c) /\ ~IsUDP(c) -> TCPHeader(c)
      [] ~SendsHeader(c) /\ Has(c, "Reverse") -> NoHeader
      [] OTHER -> IF Has(c, "BounceBack") THEN BounceBackHeader(c) ELSE Pattern(c)

-----------------------------------------------------------------------------
(* The listener                                                            *)

\* Settings_ClientTestHdrLen, for the headers above.
HdrLen(s, h) == When(Has(s, "PermitKey") \/ h.words \cap {"VERSION1", "VERSION2", "EXTEND"} # {}, h.len)

\* test_permit_key
KeyFits(s, h) == "KEYCHECK" \in h.words /\ Len(h.key) \in 4 .. 128 /\ h.key = s.key

\* The refusals of apply_client_settings_tcp; a peer that sends nothing is one of them.
RefusesTCP(s, h) ==
    \/ h.sent < 4
    \/ /\ "BOUNCEBACK" \in h.words
       /\ \/ Has(s, "BuflenSet") /\ Max({h.bbytes, h.breply}) > s.len
          \/ h.bbytes < 68
    \/ /\ HdrLen(s, h) > 0
       /\ \/ HdrLen(s, h) > s.len - 4
          \/ Has(s, "PermitKey") /\ ~KeyFits(s, h)
          \/ ~Has(s, "PermitKey") /\ "KEYCHECK" \in h.words

\* What both protocols take over: the legacy mode, the start times, the direction.
Apply1(s, h) ==
    IF "VERSION1" \notin h.words THEN s
    ELSE IF "HASTRANSFERID" \in h.words THEN Set(s, {"SyncTransferID"})
    ELSE IF "VERSION2" \in h.words THEN s
    ELSE [s EXCEPT !.mode = IF "RUN_NOW" \in h.words THEN "dual" ELSE "tradeoff"]

ApplyTimes(s, h) ==
    Set(s, (IF "EPOCH_START" \in h.upper THEN {"TxStartTime"} ELSE {})
           \cup (IF "TRIPTIME" \in h.upper THEN {"TripTime", "Enhanced"} ELSE {}))

ApplyDirection(s, h) ==
    IF "VERSION2" \notin h.words THEN s
    ELSE LET full == IF "FULLDUPLEX" \in h.upper THEN Set(s, {"FullDuplex", "ServerReverse"}) ELSE s
         IN  IF "REVERSE" \in h.upper THEN Set([full EXCEPT !.thread = "client"], {"ServerReverse"}) ELSE full

ApplyUDP(s, h) ==
    LET tests == IF "UDPTESTS" \notin h.words THEN s
                 ELSE Set(Unset(s, {"IPV6"}),
                          (IF "ISOCH" \in h.upper THEN {"Isochronous"} ELSE {})
                          \cup (IF "NOUDPFIN" \in h.upper THEN {"NoUDPfin"} ELSE {})
                          \cup (IF "UDPL4S" \in h.upper THEN {"UDPL4S"} ELSE {}))
        back == IF "VERSION2" \in h.words /\ "REVERSE" \in h.upper
                THEN Set(tests, {"NoUDPfin"}) ELSE tests
        told == ApplyTimes(Apply1([back EXCEPT !.tos = h.tos], h), h)
    IN  IF "SMALL_TRIPTIMES" \in h.words
        THEN Set(ApplyTimes(s, h), {"TripTime", "Enhanced"})
        ELSE IF "EXTEND" \in h.words THEN ApplyDirection(told, h) ELSE s

ApplyTCP(s, h) ==
    LET burst == IF "PERIODICBURST" \in h.upper
                 THEN Set([s EXCEPT !.fps = IF h.fps = 0 THEN 1 ELSE h.fps],
                          {"Enhanced", "FrameInterval", "PeriodicBurst"}) ELSE s
        cca == IF "CCA" \in h.lower /\ ~Has(s, "CongestionControl")
               THEN Set([burst EXCEPT !.cca = h.cca], {"CongestionControl", "Enhanced"}) ELSE burst
        frames == IF "ISOCH" \in h.upper THEN Set(cca, {"Isochronous"}) ELSE cca
        back == ApplyDirection(ApplyTimes(Apply1([frames EXCEPT !.tos = h.tos], h), h), h)
        prefetch == "WRITEPREFETCH" \in h.upper /\ {"ServerReverse", "FullDuplex"} \cap back.flags # {}
    IN  IF "EXTEND" \notin h.words THEN s
        ELSE Set(back, (IF prefetch THEN {"WritePrefetch"} ELSE {})
                       \cup (IF "TCPQUICKACK" \in h.upper THEN {"TcpQuickAck"} ELSE {}))

\* The buffer of a server without -l grows to the sizes of a bounceback.
ApplyBounceBack(s, h) ==
    LET reply == IF "BBREPLYSIZE" \in h.upper THEN h.breply ELSE h.bbytes
        t == [s EXCEPT !.bbytes = h.bbytes, !.breply = reply, !.len = Max({@, h.bbytes, reply}),
                       !.tos = IF h.tos # 0 THEN h.tos ELSE @,
                       !.flags = IF Has(s, "ServerModeTime") THEN @ ELSE @ \ {"ModeTime"}]
    IN  Set(t, {"BounceBack"} \cup (IF "BBCLOCKSYNCED" \in h.upper THEN {"TripTime"} ELSE {})
                              \cup (IF "BBQUICKACK" \in h.upper THEN {"TcpQuickAck"} ELSE {}))

ApplyClientSettings(l, h) ==
    LET s == [l EXCEPT !.mode = "normal"]
    IN  IF IsUDP(s) THEN ApplyUDP(s, h)
        ELSE IF "BOUNCEBACK" \in h.words THEN ApplyBounceBack(s, h) ELSE ApplyTCP(s, h)

\* client_test_ack: the bytes of the answer, more of them with --trip-times.
AckSize(tripTime) == IF tripTime THEN 52 ELSE 28
\* A mutant: every client of this version is answered.
AckOfAll(s, h) ==
    When(~IsUDP(s) /\ {"EXTEND", "V2PEERDETECT"} \cap h.words # {}, AckSize(Has(s, "TripTime")))

AckOf(s, h) ==
    When(/\ ~IsUDP(s)
         /\ ("VERSION2" \notin h.words /\ "EXTEND" \in h.words) \/ "V2PEERDETECT" \in h.words,
         AckSize(Has(s, "TripTime")))

-----------------------------------------------------------------------------
(* Settings_GenerateClientSettings                                         *)
\* A mutant: a newer header with a version 1 part counts as a version 1 test.
V1TestAny(h) == "VERSION1" \in h.words

V1Test(h) == "VERSION1" \in h.words /\ "VERSION2" \notin h.words
Generates(s) == Has(s, "FullDuplex") \/ Has(s, "ServerReverse") \/ s.mode # "normal"

\* Settings_ReadClientSettingsV1
ReadV1(s, h) ==
    LET t == [s EXCEPT !.port = h.port, !.threads = 1, !.amount = h.amount, !.thread = "client",
                       !.len = IF h.buflen # 0 THEN h.buflen ELSE @]
    IN  Set(Unset(t, {"ModeTime"}), (IF h.buflen # 0 THEN {"BuflenSet"} ELSE {})
                                    \cup (IF h.timed THEN {"ModeTime"} ELSE {}))

\* The frames and the pacing that a sender of the listener takes from the header.
ReadExtend(s, h) ==
    LET frames == Has(s, "Isochronous") \/ (Has(s, "PeriodicBurst") /\ ~IsUDP(s))
        t == [s EXCEPT !.rate = h.rate, !.tos = h.tos, !.fps = IF frames THEN h.fps ELSE @]
    IN  IF "EXTEND" \notin h.words THEN s
        ELSE Set(t, (IF "FQRATESET" \in h.upper THEN {"FQPacing"} ELSE {})
                    \cup (IF "NOUDPFIN" \in h.upper THEN {"NoUDPfin"} ELSE {}))

ClientSettings(s, h) ==
    LET full == Has(s, "FullDuplex") /\ "VERSION1" \notin h.words
        start == IF ~Has(s, "FullDuplex") /\ ~V1Test(h) THEN s
                 ELSE IF full THEN s ELSE Unset(s, {"FullDuplex"})
        read == ReadExtend(ReadV1(start, h), h)
        legacy == Set([read EXCEPT !.mode = IF "RUN_NOW" \in h.words THEN "dual" ELSE "tradeoff"],
                      {"ServerReverse"})
        done == IF V1Test(h) THEN legacy ELSE [read EXCEPT !.mode = "normal"]
    IN  Set(Unset(done, {"TxHoldback"}), {"NoSettReport", "NoConnectSync"})

\* The receiver of a test in both directions waits a little longer than the test.
ReceiverSettings(s, h) ==
    IF Has(s, "FullDuplex") \/ V1Test(h) THEN [s EXCEPT !.amount = h.amount + Slop]
    ELSE ClientSettings(s, h)
=============================================================================
