----------------------------- MODULE MCAdmission -----------------------------
(* Instances for TLC.  A world explores the gate or the trade feed; the     *)
(* other one stays as it started.                                           *)
EXTENDS SignalAdmission, TradePush, TLC

CONSTANTS ann, bob, c1, c2

vars == <<gateVars, pushVars>>

Body == [large |-> FALSE, json |-> TRUE, type |-> "", action |-> "BUY", symbol |-> "ACME", lot |-> 1,
         quantity |-> 0, orderType |-> "", comment |-> "", price |-> 1]
In == [id |-> "w1", owner |-> "u1", cred |-> "k1", plan |-> "pro", org |-> FALSE, member |-> FALSE,
       status |-> "active", userStatus |-> "active", orgStatus |-> "active", accountStatus |-> "active",
       paper |-> FALSE, publisher |-> FALSE, actions |-> Actions, symbols |-> {"acme"}, legacySymbol |-> "",
       lot |-> 0, orderType |-> "", comment |-> "", hours |-> << >>, market |-> << >>, offset |-> 0,
       perMin |-> 0, perSec |-> 0]
Gate(inputs, bodies) ==
    [hooks |-> {Saved(in) : in \in inputs} \ {Unusable}, bodies |-> bodies, requests |-> 1, inFlight |-> 1, from |-> 0,
     failures |-> 0, failing |-> {}, until |-> 0, outcomes |-> {"accepted"}, settings |-> {"unset"}]

Paper == [In EXCEPT !.paper = TRUE, !.plan = "paper"]
Rated(limits) == {[In EXCEPT !.perMin = limits[1], !.perSec = limits[2]]}

\* Counters: a webhook's own, a free user's day over two webhooks, a user's orders.
Ends == {"queue full"}
G1 == [Gate(Rated(<<2, 0>>), {Body}) EXCEPT
         !.requests = 4, !.until = 5, !.outcomes = Ends]
G2 == [Gate(Rated(<<0, 1>>), {Body}) EXCEPT
         !.requests = 3, !.inFlight = 2, !.until = 3, !.failures = 1, !.failing = {"redis"}, !.outcomes = Ends]
G3 == [Gate({[In EXCEPT !.plan = "free", !.id = w] : w \in {"w1", "w2"}}, {Body}) EXCEPT
         !.requests = 3, !.inFlight = 2, !.from = Day - 1, !.until = Day + 1, !.outcomes = Ends]
G11 == [G3 EXCEPT !.requests = 2, !.failures = 1, !.failing = {"redis"}]
G4 == [Gate({[Paper EXCEPT !.id = w] : w \in {"w1", "w2"}}, {Body}) EXCEPT
         !.requests = 3, !.inFlight = 2, !.until = 1, !.failures = 1, !.failing = {"redis"}]

\* Trading hours.
W(s, e) == [start |-> s, end |-> e]
Schedules == {<< >>, [d \in {1} |-> {W(1, 2)}], [d \in {0, 1} |-> {W(0, 0), W(3, 3)}],
              [d \in 0..(Week - 1) |-> {W(3, 1)}], [d \in {1} |-> {W(3, 0)}],
              [d \in {0} |-> {W(2, Day), W(0, 0)}], [d \in {1} |-> {}]}
G5 == [Gate({[In EXCEPT !.hours = s, !.offset = o] : s \in Schedules, o \in {-1, 0, 2}}, {Body}) EXCEPT
         !.until = Week * Day]
G6 == [Gate({[Paper EXCEPT !.market = [d \in {0, 1} |-> {W(1, 2)}]]}, {Body}) EXCEPT
         !.until = Week * Day, !.failures = 1, !.failing = {"rows"}, !.settings = {"unset", "false"}]

\* Bodies and rules: one request each.
Bodies ==
    {[Body EXCEPT !.type = t, !.action = a, !.orderType = o] :
        t \in {"", "ORDER_SIGNAL", "PRICE_UPDATE", "QUOTE"}, a \in {"BUY", " BUY", "buy", "CLOSE", "HOLD", ""},
        o \in {"", "LIMIT", "market", "ORDER_SIGNAL", "price_update", "STOP"}}
    \cup {[Body EXCEPT !.symbol = s, !.lot = l, !.quantity = q, !.type = t] :
            s \in {"", "ACME", "OTHER"}, l \in {0, 1}, q \in {0, 2}, t \in {"", "ORDER_SIGNAL", "PRICE_UPDATE"}}
    \cup {[Body EXCEPT !.large = TRUE], [Body EXCEPT !.json = FALSE], [Body EXCEPT !.comment = "secret"],
          [Body EXCEPT !.type = "PRICE_UPDATE", !.price = 0]}
Shapes == {[In EXCEPT !.paper = p, !.plan = "pro", !.actions = a, !.symbols = s, !.lot = l, !.orderType = o, !.comment = c] :
             p \in BOOLEAN, a \in {Actions, {"BUY", "SELL"}}, s \in {{"acme"}, {"acme", "OTHER"}},
             l \in {0, 5}, o \in {"", "market", "STOP"}, c \in {"", "secret"}}
          \cup {[In EXCEPT !.publisher = TRUE, !.orderType = "MARKET", !.actions = a] : a \in {Actions, {}, {"BUY", "HOLD"}}}
          \cup {[Paper EXCEPT !.accountStatus = "disabled"], [In EXCEPT !.lot = -1]}
Legacy == [In EXCEPT !.symbols = {}, !.legacySymbol = "acme", !.actions = {}]
G7 == [Gate(Shapes, Bodies) EXCEPT !.outcomes = {"accepted", "duplicate", "queue full"}]
G8 == [Gate({[In EXCEPT !.paper = p, !.org = o, !.member = m, !.status = s, !.userStatus = u, !.orgStatus = g] :
               p \in BOOLEAN, o \in BOOLEAN, m \in BOOLEAN, s \in {"active", "paused"},
               u \in {"active", "suspended"}, g \in {"active", "suspended"}},
            {Body, [Body EXCEPT !.type = "PRICE_UPDATE"], [Body EXCEPT !.json = FALSE], [Body EXCEPT !.action = ""]})
         EXCEPT !.failures = 1, !.failing = {"rows"}, !.hooks = @ \cup {Legacy}]
G9 == [Gate({In}, {Body}) EXCEPT !.requests = 2, !.inFlight = 2, !.until = 1, !.failures = 1, !.failing = {"redis"}]
G10 == [Gate({In}, {Body, [Body EXCEPT !.symbol = "OTHER"]}) EXCEPT
          !.failures = 1, !.failing = {"rows"}, !.outcomes = {"accepted", "duplicate", "queue full"}]
Shut == [Gate({}, {}) EXCEPT !.requests = 0]
Singly(g) == {[g EXCEPT !.hooks = {h}, !.bodies = {b}] : h \in g.hooks, b \in g.bodies}
Gates == {G1, G2, G3, G4, G9, G10, G11} \cup UNION {Singly(g) : g \in {G5, G6, G7, G8}}

Feed(opens, members) == [owner |-> ann, members |-> members, opens |-> opens, steady |-> FALSE,
                         kinds |-> {"trade"}, fails |-> {"gone", "stalled"}]
F1 == Feed(c1 :> ann @@ c2 :> ann, {})
F2 == [Feed(c1 :> ann @@ c2 :> bob, {bob}) EXCEPT !.kinds = {"trade", "mark", "silent"}, !.fails = {}]
F3 == [Feed(c1 :> ann, {}) EXCEPT !.fails = {"gone", "stalled", "mute", "ping"}]
NoFeed == [Feed(c1 :> ann, {}) EXCEPT !.kinds = {}, !.opens = << >>]
Feeds == {F1, F2, F3}

\* The theorems about GateSpec are about these behaviours too.
ASSUME GatesAreWellConfigured == \A world \in Gates \cup {Shut} : WellConfigured(world)

Init == \/ GateInit(Gates) /\ PushInit({NoFeed})
        \/ GateInit({Shut}) /\ PushInit(Feeds)
Next == \/ GateNext /\ UNCHANGED pushVars
        \/ PushNext /\ UNCHANGED gateVars
Spec == Init /\ [][Next]_vars /\ PushFairness
=============================================================================
