---------------------------- MODULE MCTraffic ----------------------------
EXTENDS Traffic

Plain(flags) == [flags |-> flags, len |-> 3, reply |-> 2, sizes |-> {1, 4}, first |-> 1, amount |-> 5, most |-> 4]

\* The loops of the client.
MCStreams ==
    {{}, {"Isochronous"}, {"PeriodicBurst"}, {"TripTime"}, {"Isochronous", "TripTime"}, {"Enhanced"},
     {"AppRate"}, {"AppRate", "TripTime"}, {"NearCongest"}, {"NearCongest", "TripTime"},
     {"WritePrefetch"}, {"WritePrefetch", "TripTime"}, {"WritePrefetch", "AppRate"},
     {"Compat"}, {"IgnoreShutdown"}}

MCTests ==
    {Plain(s \cup e) : s \in MCStreams, e \in {{}, {"ModeTime"}}}
    \cup {Plain({"Reverse"} \cup s \cup e) :
             s \in {{}, {"TripTime"}, {"AppRate"}, {"PeriodicBurst", "TripTime"}}, e \in {{}, {"ModeTime"}}}
    \cup {Plain(s \cup e) : s \in {{}, {"TripTime"}, {"AppRate", "TripTime"}, {"NearCongest"}},
                            e \in {{"ServerInterval"}, {"ServerModeTime"}, {"Interrupted"}}}
    \cup {[Plain({"BounceBack", "ModeTime"} \cup s) EXCEPT !.len = 6 - r, !.reply = r, !.most = 9] :
             s \in {{}, {"Period"}, {"ServerInterval"}, {"ServerModeTime"}, {"Interrupted"}}, r \in {2, 4}}
=============================================================================
