--------------------------- MODULE MCAcmScheduler ---------------------------
(***************************************************************************)
(* Two entries, one with a duration that has always passed.                *)
(***************************************************************************)
EXTENDS AcmScheduler

TwoEntries ==
  {[weight |-> 100, duration |-> 2], [weight |-> 50, duration |-> 0]}
=============================================================================
