--------------------------- MODULE MCWebhookConfig ---------------------------
(* Instances of WebhookConfig for TLC.                                     *)
EXTENDS WebhookConfig, TLC

CONSTANTS s1, s2, o1, o2

Sym == Permutations({s1, s2}) \cup Permutations({o1, o2})
=============================================================================
