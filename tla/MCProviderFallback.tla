------------------------- MODULE MCProviderFallback -------------------------
(***************************************************************************)
(* ProviderFallback for TLC: three providers in registry order.            *)
(***************************************************************************)
EXTENDS ProviderFallback

CONSTANTS p1, p2, p3

RegistryOrder == <<p1, p2, p3>>
=============================================================================
