-------------------------- MODULE ReportHandlers ---------------------------
(* Which functions report the traffic of a thread of iperf2. Before the    *)
(* traffic starts InitIndividualReport and SetSumHandlers choose, from the *)
(* settings of the thread, who counts its packets, when an interval is     *)
(* printed and with which line, and which histograms are kept; the         *)
(* reporter only calls what was chosen. A line is named as in the source,  *)
(* without the protocol's prefix and without _output; NoLine stands for a  *)
(* handler that is NULL. What the handlers do is in SumReports, UdpReports *)
(* and Histograms.                                                         *)
EXTENDS ModalOptions

IsServer(s) == s.thread = "server"
NoLine == "none"

\* Every line has a form for tables.
Line(s, text, csv) == IF Has(s, "CSV") THEN csv ELSE text

\* Intervals that end with a frame, which only isochronous traffic has.
ByFrames(s) == s.imode = "frames" /\ Has(s, "Isochronous")

-----------------------------------------------------------------------------
(* InitIndividualReport                                                    *)
ReadLine(s) ==
    IF Has(s, "Enhanced") THEN Line(s, "read_enhanced", "read_enhanced_csv") ELSE Line(s, "read", "basic_csv")

UDPReadLine(s) ==
    IF ByFrames(s) \/ Has(s, "SumOnly") THEN NoLine ELSE
    CASE Has(s, "TripTime") /\ Has(s, "Isochronous") -> Line(s, "read_triptime_isoch", "read_isochronous_csv")
      [] Has(s, "TripTime") /\ ~Has(s, "Isochronous") -> Line(s, "read_triptime", "read_triptime_csv")
      [] OTHER -> ReadLine(s)

\* A burst is timed by its own header.
TCPReadLine(s) ==
    CASE Has(s, "PeriodicBurst") -> "burst_read"
      [] ByFrames(s) /\ ~Has(s, "PeriodicBurst") -> "frame_read_triptime"
      [] OTHER -> IF Has(s, "SumOnly") THEN NoLine
                  ELSE IF Has(s, "TripTime")
                  THEN IF Has(s, "Isochronous") THEN Line(s, "read_enhanced_isoch", "read_isochronous_csv")
                       ELSE Line(s, "read_triptime", "read_triptime_csv")
                  ELSE ReadLine(s)

WriteLine(s) ==
    IF Has(s, "Enhanced") THEN Line(s, "write_enhanced", "write_enhanced_csv") ELSE Line(s, "write", "basic_csv")

UDPWriteLine(s) ==
    IF Has(s, "SumOnly") THEN NoLine
    ELSE IF Has(s, "Isochronous") THEN Line(s, "write_enhanced_isoch", "write_enhanced_csv") ELSE WriteLine(s)

TCPWriteLine(s) ==
    IF Has(s, "SumOnly") THEN NoLine
    ELSE IF Has(s, "BounceBack") THEN Line(s, "write_bb", "write_bb_csv")
    ELSE IF Has(s, "Isochronous") THEN Line(s, "write_enhanced_isoch", "write_enhanced_csv")
    ELSE IF Has(s, "TcpWriteTimes") THEN Line(s, "write_enhanced_write", "write_enhanced_csv")
    ELSE IF {"Enhanced", "FQPacing"} \subseteq s.flags THEN Line(s, "write_enhanced_fq", "write_enhanced_csv")
    ELSE WriteLine(s)

\* An interval that ends with a packet counts it before the report, one that
\* ends with the clock after it.
Handlers(s) ==
    LET bursts == Has(s, "PeriodicBurst") /\ ~IsUDP(s)
        counter == IF IsServer(s) THEN IF IsUDP(s) THEN "packet_server_udp" ELSE "packet_server_tcp"
                   ELSE IF {"BounceBack", "SumOnly"} \cap s.flags = {"BounceBack"} /\ ~IsUDP(s)
                   THEN "packet_bb_client" ELSE "packet_client"
        first == IsServer(s) /\ ~IsUDP(s) /\ (bursts \/ ByFrames(s))
    IN  [pre |-> IF first THEN counter ELSE NoLine, post |-> IF first THEN NoLine ELSE counter,
         interval |-> IF IsServer(s) /\ bursts THEN "burst"
                      ELSE IF IsServer(s) /\ ByFrames(s) THEN "frame"
                      ELSE IF s.imode = "time" THEN "time" ELSE "none",
         line |-> IF IsServer(s) THEN IF IsUDP(s) THEN UDPReadLine(s) ELSE TCPReadLine(s)
                  ELSE IF IsUDP(s) THEN UDPWriteLine(s) ELSE TCPWriteLine(s)]

ReadHistograms(s) ==
    (IF IsUDP(s) /\ Has(s, "JitterHistogram") THEN {"J8"} ELSE {})
    \cup (IF IsUDP(s) /\ {"TripTime", "Histogram"} \subseteq s.flags THEN {"T8"} ELSE {})
    \cup (IF Has(s, "Histogram") /\ (Has(s, "Isochronous") \/ (~IsUDP(s) /\ Has(s, "TripTime")))
          THEN {"F8"} ELSE {})

WriteHistograms(s) ==
    (IF IsUDP(s) \/ ~Has(s, "Histogram") THEN {}
     ELSE IF Has(s, "TcpWriteTimes") THEN {"W8"} ELSE IF Has(s, "WritePrefetch") THEN {"S8"} ELSE {})
    \cup (IF ~Has(s, "BounceBack") THEN {}
          ELSE {"BB8"} \cup (IF Has(s, "TripTime") THEN {"OWD-TX", "OWD-RX"} ELSE {}))

KeptHistograms(s) == IF IsServer(s) THEN ReadHistograms(s) ELSE WriteHistograms(s)

-----------------------------------------------------------------------------
(* SetSumHandlers                                                          *)
EnhancedSum(s, way, other) ==
    IF Has(s, "Enhanced") THEN Line(s, "sumcnt_" \o way \o "_enhanced", way \o "_enhanced_csv")
    ELSE Line(s, other, "basic_csv")

ReadSumLine(s) ==
    LET duplex == IF IsUDP(s) THEN "fullduplex_sum" ELSE "sum_read"
        only == IF IsUDP(s) \/ Has(s, "Enhanced") THEN "sumcnt_read_enhanced" ELSE "sumcnt_read"
    IN  IF Has(s, "TripTime")
        THEN Line(s, "sumcnt_read_triptime",
                  IF Has(s, "Isochronous") THEN "read_isochronous_sum_csv" ELSE "read_triptime_sum_csv")
        ELSE IF Has(s, "SumOnly") THEN Line(s, only, "read_enhanced_csv")
        ELSE IF Has(s, "FullDuplex") THEN Line(s, duplex, "read_enhanced_csv")
        ELSE EnhancedSum(s, "read", "sum_read")

\* Over TCP what SumOnly has chosen is overwritten by the choices that follow.
WriteSumLine(s) ==
    IF IsUDP(s) /\ Has(s, "SumOnly")
    THEN Line(s, IF Has(s, "Enhanced") /\ ~Has(s, "FullDuplex") THEN "sumcnt_write_enhanced" ELSE "sumcnt",
              "write_enhanced_csv")
    ELSE IF ~IsUDP(s) /\ Has(s, "BounceBack") THEN Line(s, "sumcnt_write_enhanced", "write_bb_sum_csv")
    ELSE IF Has(s, "FullDuplex") THEN Line(s, "fullduplex_sum", "write_enhanced_csv")
    ELSE EnhancedSum(s, "write", "sum_write")

SumLine(s) == IF IsServer(s) THEN ReadSumLine(s) ELSE WriteSumLine(s)
=============================================================================
