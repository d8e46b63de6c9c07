--------------------------- MODULE MCStripeBilling ---------------------------
(* Instances of StripeBilling for TLC: two actors are enough for two         *)
(* deliveries, or a delivery and an admin request, to overlap.               *)
EXTENDS StripeBilling, TLC

CONSTANTS a1, a2

Sym == Permutations({a1, a2})
=============================================================================
