---------------------------- MODULE MCPaperAccount ----------------------------
(* Instances of PaperAccount for TLC.  Prices and slip are multiples of 1260, *)
(* which every quantity up to 7 divides: the average of the fills of a run is *)
(* whole.  11340 lies between two ticks, as a last price may.                 *)
EXTENDS PaperAccount, TLC

CONSTANTS s1, s2, a1, a2

Sym == Permutations({s1, s2}) \cup Permutations({a1, a2})
=============================================================================
