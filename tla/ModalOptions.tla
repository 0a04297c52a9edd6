--------------------------- MODULE ModalOptions ----------------------------
(* Settings_ModalOptions of iperf2: the pass over the complete settings    *)
(* that gives the defaults that depend on more than one option, turns off  *)
(* what a role or a protocol cannot do, and refuses what cannot be done    *)
(* together. One operator per part of the function, applied in its order;  *)
(* a refusal is noted in bail and the pass goes on, as in the code.        *)
EXTENDS Options

IsClient(s) == s.thread = "client"
IsUDP(s) == Has(s, "UDP")
BothWays(s) == Has(s, "Reverse") \/ Has(s, "FullDuplex") \/ s.mode # "normal"
BailIf(s, c) == [s EXCEPT !.bail = @ \/ c]

\* Sizes of the headers that an option may be too small for.
UDPDatagram == 16
BurstPayload == 92
MinTripTimePayload == 128

-----------------------------------------------------------------------------
DefaultLength(s) ==
    IF Has(s, "BuflenSet") THEN s
    ELSE [s EXCEPT !.len = IF ~IsUDP(s) THEN 131072
                           ELSE IF Has(s, "IPV6") /\ IsClient(s) THEN 1450 ELSE 1470]

PortsAndTripTimes(s) ==
    LET p == [s EXCEPT !.portlast = IF @ = 0 THEN s.port ELSE @]
    IN  IF Has(s, "TripTime") /\ BothWays(s) THEN Set(p, {"Enhanced"}) ELSE p

Endless(s) ==
    IF IsClient(s) /\ Has(s, "ModeTime") /\ s.infinite
    THEN Set(Unset(s, {"ModeTime"}), {"ModeInfinite"}) ELSE s

\* The offered load of a UDP client: of rate, burst size and burst period the
\* missing one follows from the others.
DefaultLoad(s) ==
    LET periodic == Has(s, "PeriodicBurst")
        r == IF s.units = "pps" /\ (s.burst # 0 \/ periodic)
             THEN [s EXCEPT !.units = "bw", !.rate = @ * s.len * 8] ELSE s
        burst(b) == Set([r EXCEPT !.burst = b], {"BurstSize"})
        period(f) == Set([r EXCEPT !.fps = f], {"PeriodicBurst"})
    IN  IF ~(IsClient(s) /\ IsUDP(s)) THEN s ELSE
        CASE ~Has(s, "BWSet") /\ s.burst = 0 /\ ~periodic -> [s EXCEPT !.rate = Mega]
          [] ~Has(s, "BWSet") /\ s.burst = 0 /\ periodic -> Set([s EXCEPT !.burst = Mega], {"BurstSize"})
          [] ~Has(s, "BWSet") /\ s.burst # 0 /\ ~periodic -> Set([s EXCEPT !.fps = 1], {"PeriodicBurst"})
          [] Has(s, "BWSet") /\ s.burst = 0 /\ periodic -> burst((r.rate \div 8) \div r.fps)
          [] Has(s, "BWSet") /\ s.burst # 0 /\ ~periodic -> period((r.rate \div 8) \div r.burst)
          [] OTHER -> IF Has(s, "BWSet") THEN r ELSE s

\* Compatibility mode, the permit key and the address family.
CommonChecks(s) ==
    LET compat == /\ Has(s, "Compat")
                  /\ \/ BothWays(s)
                     \/ {"TripTime", "VaryLoad", "Histogram", "Isochronous", "Enhanced"} \cap s.flags # {}
        key == /\ Has(s, "PermitKey")
               /\ \/ IsUDP(s)
                  \/ s.key # NoText /\ ~(Len(s.key) \in 4 .. 128)
        t == BailIf(s, compat \/ key)
    IN  IF {"IPV4", "IPV6"} \subseteq s.flags THEN Unset(t, {"IPV4", "IPV6"}) ELSE t

\* What only a server can do is turned off.
ClientChecks(s) ==
    LET t == Unset(s, {"OverrideTOS", "RxClamp", "JitterHistogram"})
        burst == IF Has(s, "PeriodicBurst") THEN Set(t, {"Enhanced", "FrameInterval"}) ELSE t
        pacing == IF Has(s, "FQPacingStep") THEN Set(burst, {"FQPacing"}) ELSE burst
    IN  BailIf(pacing,
            \/ {"IncrSrcIP", "Localhost"} \cap s.flags = {"IncrSrcIP"}
            \/ s.ttl > 255
            \/ Has(s, "PermitKey") /\ s.key = NoText
            \/ ~IsUDP(s) /\ {"TxHoldback", "TxStartTime"} \subseteq s.flags
            \/ Has(s, "TripTime") /\ s.len < (IF IsUDP(s) THEN UDPDatagram ELSE BurstPayload))

\* One of the two sizes of a bounceback: the length grows to it unless -l was
\* given, which limits it.
Fit(s, bytes, default) ==
    IF bytes =< 0 THEN [bytes |-> default, len |-> s.len]
    ELSE IF bytes > s.len /\ Has(s, "BuflenSet") THEN [bytes |-> s.len, len |-> s.len]
    ELSE [bytes |-> bytes, len |-> Max({bytes, s.len})]

BounceBack(s) ==
    LET request == Fit(s, s.bbytes, IF Has(s, "BuflenSet") THEN s.len ELSE 100)
        sized == [s EXCEPT !.bbytes = request.bytes, !.len = request.len]
        reply == Fit(sized, s.breply, request.bytes)
        quick == BailIf([sized EXCEPT !.breply = reply.bytes, !.len = reply.len, !.burst = reply.len],
                        {"NoBBQuickAck", "TcpQuickAck"} \subseteq s.flags)
        acked == IF Has(s, "NoBBQuickAck") THEN quick ELSE Set(quick, {"TcpQuickAck"})
        paced == IF ~Has(s, "PeriodicBurst")
                 THEN Set([acked EXCEPT !.fps = 1, !.imode = IF @ = "none" THEN "time" ELSE @],
                          {"PeriodicBurst"})
                 ELSE IF s.fps =< 0 THEN Unset(acked, {"PeriodicBurst"}) ELSE acked
    IN  IF ~Has(s, "BounceBack") THEN s
        ELSE IF Has(paced, "PeriodicBurst") /\ s.bbburst = -1 THEN [paced EXCEPT !.bbburst = 10]
        ELSE paced

PrefetchAndBurst(s) ==
    LET t == IF ~IsUDP(s) /\ {"TcpWriteTimes", "TripTime"} \cap s.flags # {}
             THEN IF ~Has(s, "WritePrefetch") THEN Set(s, {"Enhanced"})
                  ELSE IF s.prefetch =< 0 THEN Unset(s, {"WritePrefetch"}) ELSE s
             ELSE s
        retry == [t EXCEPT !.retrytimer = IF s.retrytime > 0 /\ @ = 0 THEN 1 ELSE @,
                           !.retrytime = IF s.retrytimer > 0 /\ @ =< 0 THEN 10 ELSE @]
    IN  BailIf(retry, /\ Has(s, "PeriodicBurst")
                      /\ {"Isochronous", "NearCongest"} \cap s.flags # {} \/ s.burst < s.len)

\* With --tcp-quickack UDP loses the write prefetch, as the code has it.
UDPChecks(s) ==
    LET small == Has(s, "TripTime") /\ s.len < MinTripTimePayload
        \* seconds between two datagrams, rounded down
        delay == IF Has(s, "IPG") \/ s.rate =< 0 THEN 0
                 ELSE IF s.units = "bw" THEN (s.len * 8) \div s.rate ELSE 1 \div s.rate
        t == Unset(s, {"WritePrefetch", "TcpTxDelay"})
    IN  BailIf(IF small /\ ~BothWays(s) THEN Set(t, {"SmallTripTime"}) ELSE t,
            \/ {"PeerVerDetect", "ConnectOnly", "BounceBack", "NearCongest"} \cap s.flags # {}
            \/ {"IPG", "BWSet"} \subseteq s.flags
            \/ s.retrytimer > 0
            \/ delay > 60
            \/ small /\ BothWays(s))

TCPChecks(s) ==
    BailIf(s, \/ s.rate > 0 /\ Has(s, "NearCongest")
              \/ Has(s, "BWSet") /\ s.units = "bw" /\ s.rate \div 8 < s.len
              \/ {"IPG", "NoUDPfin", "UDPL4S", "JitterHistogram"} \cap s.flags # {}
              \/ {"TxHoldback", "ConnectOnly"} \subseteq s.flags
              \/ s.units = "pps")

Exclusions(s) ==
    LET ways == {w \in {"FullDuplex", "Reverse"} : Has(s, w)}
                \cup (IF s.mode # "normal" THEN {"Mode"} ELSE {})
        t == IF Has(s, "Histogram") /\ {"Reverse", "FullDuplex"} \cap s.flags = {}
             THEN Set(s, {"TcpWriteTimes"}) ELSE s
    IN  BailIf(t, Cardinality(ways) > 1 \/ {"BWSet", "Isochronous"} \subseteq s.flags)

\* A listener is only warned of most options that it has no use for.
ServerChecks(s) ==
    LET t == [s EXCEPT !.key = IF Has(s, "PermitKey") /\ @ = NoText THEN "generated" ELSE @,
                       !.timeout = IF Has(s, "PermitKey") /\ @ < 0 THEN 20 ELSE @]
        u == Unset(t, {"WritePrefetch", "UDPL4S"} \cup
                      IF IsUDP(s) THEN {"RxClamp", "SkipRxCopy"} ELSE {})
    IN  BailIf(u, \/ s.portlast # 0 /\ s.portlast < s.port
                  \/ s.workingthreads > 0
                  \/ Cardinality({"WorkingLoadUp", "WorkingLoadDown"} \cap s.flags) = 1
                  \/ Has(s, "BounceBack"))

RoleChecks(s) ==
    IF ~IsClient(s) THEN ServerChecks(s)
    ELSE LET t == PrefetchAndBurst(BounceBack(ClientChecks(s)))
         IN  Exclusions(IF IsUDP(s) THEN UDPChecks(t) ELSE TCPChecks(t))

\* After the refusals: no fin with full duplex, and bursts no shorter than a write.
Finish(s) ==
    LET fin == IF IsUDP(s) /\ Has(s, "FullDuplex") THEN Set(s, {"NoUDPfin"}) ELSE s
        sized == IF IsUDP(s) THEN fin
                 ELSE [fin EXCEPT !.burst = IF @ # 0 THEN Max({@, s.len})
                                            ELSE IF Has(s, "TripTime") THEN s.len ELSE 0]
        ranged == IF ~IsClient(s) THEN sized
                  ELSE [sized EXCEPT !.threads = Max({@, 1, IF s.portlast > s.port
                                                            THEN s.portlast - s.port + 1 ELSE 1})]
    IN  IF IsClient(s) /\ Has(s, "LocalPort") THEN ranged ELSE Unset(ranged, {"IncrSrcPort"})

Modal(s) ==
    LET defaults == DefaultLoad(Endless(PortsAndTripTimes(DefaultLength(s))))
        checked == RoleChecks(CommonChecks(defaults))
    IN  Finish(BailIf(checked, IsUDP(s) /\ Has(s, "Omit")))
=============================================================================
