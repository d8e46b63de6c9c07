------------------------ MODULE MCBrokerCredentials ------------------------
(* Instances for TLC: the limits of the plan, Kite's login, the platform's  *)
(* switches, and the FYERS connection, which shares nothing with them and  *)
(* is therefore explored beside users who do nothing.                      *)
EXTENDS BrokerCredentials, FyersConnection

World(ops, served, p, creds, apps, adm) ==
    [ops |-> ops, served |-> served, plan |-> p, creds |-> creds, apps |-> apps, admin |-> adm]

CONSTANTS c1, k1, k2

FeedOnly == World({}, 0, "free", {}, {k1}, FALSE)
MCWorlds == {
    World({"create", "resume", "downgrade"}, 5, "pro", {}, {k1}, FALSE),
    World({"create", "resume", "downgrade"}, 5, "pro_plus", {}, {k1}, FALSE),
    World({"hook", "unpause hook", "end hook", "delete", "resume", "downgrade"}, 4,
          "pro_plus", {c1}, {k1}, FALSE),
    World({"hook", "edit hook", "unpause hook", "end hook"}, 5, "pro", {c1}, {k1}, FALSE),
    World({"hook", "edit hook", "unpause hook"}, 3, "pro", {c1}, {k1}, TRUE),
    World({"edit", "connect"}, 3, "pro", {c1}, {k1, k2}, FALSE),
    World({"create", "resume", "pause", "unreadable"}, 3, "pro_plus", {}, {k1}, TRUE),
    World({"edit", "resume", "pause", "unreadable"}, 3, "pro_plus", {c1}, {k1}, TRUE),
    FeedOnly}

Feed == world = FeedOnly /\ UNCHANGED credentialVars

MCInit == CredentialInit /\ FyersInit
MCSpec ==
    /\ MCInit
    /\ [][(CredentialNext /\ UNCHANGED fyersVars) \/ (FyersNext /\ Feed)]_<<credentialVars, fyersVars>>
    /\ WF_fyersVars(JobTick /\ Feed)
=============================================================================
