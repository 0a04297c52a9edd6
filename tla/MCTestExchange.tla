-------------------------- MODULE MCTestExchange --------------------------
EXTENDS TestExchange

\* Options that change the header, what follows it or the direction of a test.
Core == {"-u", "-d", "-r", "-R", "--full-duplex", "-X", "--trip-times", "--isochronous", "--sync-transfer-id",
         "-Z reno", "--working-load", "--permit-key=abcd", "--bounceback", "-l 16", "-C", "--txstart-time",
         "--fq-rate", "--burst-period 0.5", "-n 1M", "-L 7", "-p 5-6", "-t 0", "--connect-only",
         "--working-load=up,2", "--working-load-cca cubic", "-b 2p", "--tcp-write-prefetch 1K", "--no-udp-fin",
         "--udp-l4s", "--bounceback-request 300", "--bounceback-reply 400", "--tcp-quickack", "-l 64", "-l 200"}
Others == OptionNames \ Names(Role)

\* Every single option and every pair of options, for every role and for none,
\* and three options of the core for a client.
MCOptionSets ==
    {{"-c", a, b} : a, b \in Others} \cup {{r, a} : r \in {"-s", "-c"}, a \in OptionNames}
    \cup {{"-c", a, b, c} : a, b, c \in Core}

MCListener(os) == Modal(FoldSet(LAMBDA o, s : Interpret(s, o), Interpret(Initialize, "-s"), os))

MCListeners ==
    {MCListener(os) : os \in {{}, {"-u"}, {"--permit-key=abcd"}, {"-C"}, {"-l 200"}, {"-Z reno"}, {"--trip-times"},
                              {"-u", "--full-duplex"}, {"--full-duplex"}, {"-i f"}, {"-u", "-i f"},
                              {"--sum-only", "-i f", "-y c"}, {"-u", "--sum-only"}, {"--histograms"},
                              {"-u", "--histograms", "-y c"}}}
============================================================================
