------------------------- MODULE MCPublisherHandoff -------------------------
(* Instances of PublisherHandoff for TLC: nothing fails; statements fail and *)
(* the process dies; the redirect comes without the signed state.           *)
EXTENDS PublisherHandoff

Env(echo, faults, orders, requests) ==
    [echo |-> echo, faults |-> faults, orders |-> orders, requests |-> requests]

MCEnvs == {Env(TRUE, {}, {1, 2}, {1, 2}), Env(TRUE, {"store", "crash"}, {1}, {1, 2}),
           Env(FALSE, {"crash"}, {1, 2}, {1})}
=============================================================================
