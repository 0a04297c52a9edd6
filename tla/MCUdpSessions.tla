--------------------------- MODULE MCUdpSessions ---------------------------
(* A client that sends three datagrams, or two that send one each.  The    *)
(* server ends after the first accept (-P 1), or never.                    *)
EXTENDS UdpSessions

CONSTANTS c1, c2

Longer == {[c \in Clients |-> IF c = c1 THEN 3 ELSE 0], [c \in Clients |-> 1]}

NoneOrOne == {-1, 1}
=============================================================================
