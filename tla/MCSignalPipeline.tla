-------------------------- MODULE MCSignalPipeline --------------------------
(* Instances of SignalPipeline for TLC.                                    *)
EXTENDS SignalPipeline, TLC

CONSTANTS r1, r2, r3, w1, w2, k1

\* Three deliveries of one payload.
OneKey == [r \in {r1, r2, r3} |-> k1]

TwoReqs == [r \in {r1, r2} |-> k1]

Sym == Permutations({r1, r2, r3}) \cup Permutations({w1, w2})
=============================================================================
