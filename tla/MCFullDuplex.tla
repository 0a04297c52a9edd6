----------------------------- MODULE MCFullDuplex -----------------------------
(* Model checking of FullDuplex: two seconds.                              *)
EXTENDS FullDuplex
=============================================================================
