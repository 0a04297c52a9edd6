---------------------------- MODULE MCDatagrams ----------------------------
EXTENDS Datagrams

Plain(loop, flags, faulty) ==
    [loop |-> loop, flags |-> flags, faults |-> faulty,
     budget |-> IF loop \in {"udp", "burst"} THEN 2 ELSE 1, sizes |-> {2, 4}, amount |-> 7, most |-> 4,
     short |-> {FALSE}, shapes |-> {<<2, 1>>}]

Losing == {"Lose", "Duplicate"}
Failing == {"again", "fatal", "Slip"}

\* Tests that end by the clock or with an amount.
Udp == {Plain("udp", s \cup e, f) : s \in {{"Interval"}, {"Reverse"}, {"Reverse", "TripTime"}, {"Compat"}},
                                    e \in {{}, {"ModeTime"}}, f \in {Losing, Failing}}
Reports == {Plain("udp", {"Interval", "Histogram", "TripTime"}, {"Lose"}),
            Plain("udp", {"ClientInterval"}, Failing), Plain("udp", {"ClientInterval", "ModeTime"}, {"again"})}
Ended == {Plain("udp", s, {}) : s \in {{"ModeTime", "Interrupted"}, {"ServerModeTime"}, {"NoUDPfin"}}}
Frames == {Plain("isoch", {"Isochronous"} \cup s[1], s[2]) :
              s \in {<<{}, Failing>>, <<{"ModeTime"}, {"Lose"}>>, <<{"Reverse"}, {"Lose"}>>, <<{"Reverse", "ModeTime"}, {}>>}}
Bursts == {[Plain("burst", x[1], x[2]) EXCEPT !.sizes = {4}] :
              x \in {<<{}, {"Lose"}>>, <<{"ModeTime"}, Losing>>, <<{"ModeTime"}, Failing>>}}

L4s(flags, faulty) == Plain("l4s", {"ModeTime"} \cup flags, faulty)
Wider(t) == [t EXCEPT !.shapes = {<<2, 1>>, <<3, 2>>}]
Windows ==
    {L4s({}, {}), L4s({"NoUDPfin"}, Losing), L4s({"NoUDPfin"}, {"ce", "Lose"}),
     [L4s({"NoUDPfin"}, {"ce"}) EXCEPT !.short = BOOLEAN],
     Wider(L4s({"NoUDPfin"}, {"again", "fatal"})), L4s({"NoUDPfin"}, {"bleached", "Reserved"})}

MCTests == Udp \cup Reports \cup Ended \cup Frames \cup Bursts \cup Windows
MCInitial == <<3, 2>>
MCSmallest == <<2, 1>>
=============================================================================
