--------------------------- MODULE MCIperfThreads ---------------------------
(* Model checking of IperfThreads: two traffic threads.                    *)
EXTENDS IperfThreads

CONSTANTS t1, t2

MCTraffic == {t1, t2}
OneOrTwo == {<<t1>>, <<t1, t2>>}
=============================================================================
