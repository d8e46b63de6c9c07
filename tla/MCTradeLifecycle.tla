-------------------------- MODULE MCTradeLifecycle --------------------------
(* Instances of TradeLifecycle for TLC: a steady Kite whose rows age, brokers *)
(* that forget, are late or report by themselves, and every client's cancel.  *)
EXTENDS TradeLifecycle

World(client, may, calls) == [client |-> client, may |-> may, calls |-> calls]

MCWorlds == {World("zerodha", {"age"}, 2), World("dhan", {}, 1), World("angel", {"forget"}, 1),
             World("mt5_cloud", {"async", "report"}, 1), World("zerodha", {"forget", "async"}, 1)}
=============================================================================
