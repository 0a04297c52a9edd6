------------------------------ MODULE MCTlink ------------------------------
(***************************************************************************)
(* Small instances of Tlink: two configurations, distinct in every number  *)
(* so that no two commands of theirs look alike.                           *)
(***************************************************************************)
EXTENDS Tlink

\* With jitter, which the QoS branch needs for its last netem to be valid.
Jittery == {[forward |-> 5, return |-> 3, denomination |-> 40, jitter |-> 10],
            [forward |-> 8, return |-> 6, denomination |-> 100, jitter |-> 4]}

\* One of the configurations without jitter.
Steady == {[forward |-> 5, return |-> 3, denomination |-> 40, jitter |-> 0],
           [forward |-> 8, return |-> 6, denomination |-> 100, jitter |-> 4]}

JitteryWithQoS(q) == IF q THEN Jittery ELSE Steady

\* What the theorems about Tlink assume holds of these.
ASSUME Instance == WellFormed
=============================================================================
