-------------------------- MODULE MCLinkInterfaces --------------------------
(***************************************************************************)
(* Two interfaces and two addresses: an interface with both, an address on *)
(* both interfaces, and an IPv6 address among them all occur.              *)
(***************************************************************************)
EXTENDS LinkInterfaces
=============================================================================
