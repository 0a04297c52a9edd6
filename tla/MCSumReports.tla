---------------------------- MODULE MCSumReports ----------------------------
(* Model checking of SumReports: two flows of a host, as the clients and   *)
(* servers of TCP and UDP have them, in bounceback and with --sum-only.    *)
EXTENDS SumReports, TLC

MCTests == {<<"client_tcp", FALSE>>, <<"server_udp", FALSE>>,
            <<"client_bb", FALSE>>, <<"server_tcp", TRUE>>}

\* Bound: the last tick is for a flow that is alone, whose pause is the longest.
LateAlone == now < MaxTime \/ \A f, g \in Flows : f # g => "idle" \in {pc[f], pc[g]}

Symmetry == Permutations(Flows)
=============================================================================
