---------------------------- MODULE MCPacketRing ----------------------------
(* Model checking of PacketRing on a ring of three slots.                  *)
EXTENDS PacketRing
=============================================================================
