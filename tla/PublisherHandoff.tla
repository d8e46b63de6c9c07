-------------------------- MODULE PublisherHandoff --------------------------
(***************************************************************************)
(* Kite Publisher: the gateway does not place the order, it hands a basket *)
(* to the user, who submits it on Kite within 30 minutes and is redirected *)
(* back.                                                                   *)
(*                                                                         *)
(*   worker     internal/integrations/brokers/zerodha/publisher/executor.go, *)
(*              internal/execution/adapter/local/live.go (link)            *)
(*   callbacks  internal/modules/publisher/handler.go                      *)
(*   expiry     internal/store/publisher_expiry.go, modules/publisher/expiry.go *)
(*                                                                         *)
(* There is one publisher order per trade, and both carry the same name    *)
(* here.  Every SQL statement (or transaction) is a step of its own.       *)
(***************************************************************************)
EXTENDS Naturals, FiniteSets

CONSTANTS
    Orders,     \* publisher orders of all users; also their trades
    Requests,   \* HTTP requests that finish a handoff
    Expiry,     \* stateMaxAge
    MaxTime,    \* bound on the clock
    Envs        \* [echo, faults, orders, requests]: whether the redirect carries the
                \* signed state, which faults may happen, what of Orders and
                \* Requests is used

ASSUME HandoffConstantsOK ==
    /\ Orders # {}
    /\ Expiry \in Nat \ {0}
    /\ MaxTime \in Nat
    /\ \A e \in Envs : e.echo \in BOOLEAN /\ e.faults \subseteq {"store", "crash"}
                       /\ e.orders \subseteq Orders /\ e.requests \subseteq Requests

VARIABLES
    env,      \* one of Envs, fixed
    now,      \* the clock
    worker,   \* worker[o]: what the queue worker does next for o
    order,    \* order[o]: publisher_orders.status
    expires,  \* expires[o]: publisher_orders.expires_at
    linked,   \* linked[o]: publisher_orders.trade_id is set
    trade,    \* trade[o]: trades.status
    kite,     \* kite[o]: what the user has done with the basket on Kite
    step,     \* step[c]: what request c does next
    mode,     \* mode[c]: Kite's redirect, or the user's own confirmation
    target,   \* target[c]: the order c is about
    says,     \* says[c]: the outcome c reports
    sawLink,  \* sawLink[c]: the order c has read had a trade_id
    todo      \* todo[j]: overdue orders expiry job j has read

requestVars == <<step, mode, target, says, sawLink>>
vars == <<env, now, worker, order, expires, linked, trade, kite, requestVars, todo>>

Terminal == {"user_returned", "user_cancelled", "expired"}
Jobs == {"sweep", "view"}

Open(o) == order[o] = "created"

Init ==
    /\ env \in Envs
    /\ now = 0
    /\ worker = [o \in Orders |-> "place"]
    /\ order = [o \in Orders |-> "none"]
    /\ expires = [o \in Orders |-> 0]
    /\ linked = [o \in Orders |-> FALSE]
    /\ trade = [o \in Orders |-> "queued"]
    /\ kite = [o \in Orders |-> "unseen"]
    /\ step = [c \in Requests |-> "idle"]
    /\ mode = [c \in Requests |-> "redirect"]
    /\ target = [c \in Requests |-> CHOOSE o \in Orders : TRUE]
    /\ says = [c \in Requests |-> "dropped"]
    /\ sawLink = [c \in Requests |-> FALSE]
    /\ todo = [j \in Jobs |-> {}]

-----------------------------------------------------------------------------
(* The worker, after it has inserted the trade as queued.                  *)

\* Executor.PlaceOrder: the basket is stored, or the order is refused.
Place(o) ==
    /\ worker[o] = "place" /\ o \in env.orders
    /\ now + Expiry <= MaxTime
    /\ \/ /\ order' = [order EXCEPT ![o] = "created"]
          /\ expires' = [expires EXCEPT ![o] = now + Expiry]
          /\ worker' = [worker EXCEPT ![o] = "link"]
       \/ /\ worker' = [worker EXCEPT ![o] = "refuse"]
          /\ UNCHANGED <<order, expires>>
    /\ UNCHANGED <<now, linked, trade, kite, requestVars, todo>>

\* LinkPublisherOrderTrade; a failure is only logged.
Link(o) ==
    /\ worker[o] = "link"
    /\ \/ linked' = [linked EXCEPT ![o] = TRUE]
       \/ "store" \in env.faults /\ linked' = linked
    /\ worker' = [worker EXCEPT ![o] = "confirm"]
    /\ UNCHANGED <<now, order, expires, trade, kite, requestVars, todo>>

\* finalizeTrade with the status PlaceOrder returned.
Finalize(o) ==
    /\ worker[o] \in {"confirm", "refuse"}
    /\ \/ trade' = [trade EXCEPT ![o] = IF worker[o] = "confirm"
                                        THEN "pending_confirmation"
                                        ELSE "rejected"]
       \/ "store" \in env.faults /\ trade' = trade
    /\ worker' = [worker EXCEPT ![o] = "done"]
    /\ UNCHANGED <<now, order, expires, linked, kite, requestVars, todo>>

-----------------------------------------------------------------------------
(* The user.                                                               *)

\* The dashboard learns the order from the finalized trade.
Visible(o) == worker[o] = "done" /\ order[o] # "none" /\ trade[o] # "queued"

\* GetPublisherOrder hands the basket out unless it has expired.
Show(o) ==
    /\ Visible(o)
    /\ order[o] # "expired" /\ (Open(o) => expires[o] > now)
    /\ kite[o] = "unseen"
    /\ kite' = [kite EXCEPT ![o] = "shown"]
    /\ UNCHANGED <<now, worker, order, expires, linked, trade, requestVars, todo>>

\* Kite knows nothing of the deadline: the user may submit the basket late.
ActOnKite(o) ==
    /\ kite[o] = "shown"
    /\ \E a \in {"placed", "dropped"} : kite' = [kite EXCEPT ![o] = a]
    /\ UNCHANGED <<now, worker, order, expires, linked, trade, requestVars, todo>>

\* Kite's redirect (lost, delivered, or repeated by a reload), or the user's own
\* confirmation of a basket that was placed.
Send(c) ==
    /\ step[c] = "idle" /\ c \in env.requests
    /\ \E o \in Orders, m \in {"redirect", "mark"} :
          /\ kite[o] \in IF m = "mark" THEN {"placed"} ELSE {"placed", "dropped"}
          /\ mode' = [mode EXCEPT ![c] = m]
          /\ target' = [target EXCEPT ![c] = o]
          /\ says' = [says EXCEPT ![c] = kite[o]]
    /\ step' = [step EXCEPT ![c] = "resolve"]
    /\ UNCHANGED <<now, worker, order, expires, linked, trade, kite, sawLink, todo>>

-----------------------------------------------------------------------------
(* Callback and MarkPublisherOrderSubmitted.                               *)

\* GetMostRecentPendingPublisherOrder: of every user's open orders.
Pending == {o \in Orders : Open(o) /\ expires[o] > now}
MostRecent == {o \in Pending : \A p \in Pending : expires[p] <= expires[o]}

\* Mutant: the most recent order is taken although the state names another.
ResolvedByRecency(c) == IF mode[c] = "mark" THEN {target[c]} ELSE MostRecent

\* The order a request resolves to: the one its signed state or its path names,
\* else the most recent pending one.
Resolved(c) ==
    IF mode[c] = "mark" THEN {target[c]}
    ELSE IF ~env.echo THEN MostRecent
    ELSE {target[c]} \cap {o \in Orders : now <= expires[o]}

Resolve(c) ==
    /\ step[c] = "resolve"
    /\ \/ /\ \E o \in Resolved(c) :
                /\ Open(o)
                /\ target' = [target EXCEPT ![c] = o]
                /\ sawLink' = [sawLink EXCEPT ![c] = linked[o]]
          /\ step' = [step EXCEPT ![c] = "order"]
       \/ /\ \A o \in Resolved(c) : ~Open(o)
          /\ step' = [step EXCEPT ![c] = "done"]
          /\ UNCHANGED <<target, sawLink>>
    /\ UNCHANGED <<now, worker, order, expires, linked, trade, kite, mode, says, todo>>

\* UpdatePublisherOrderCallback, whatever the status is by now.
UpdateOrder(c) ==
    /\ step[c] = "order"
    /\ \/ /\ order' = [order EXCEPT ![target[c]] = IF says[c] = "placed"
                                                   THEN "user_returned"
                                                   ELSE "user_cancelled"]
          /\ step' = [step EXCEPT ![c] = "trade"]
       \/ /\ "store" \in env.faults
          /\ order' = order
          /\ step' = [step EXCEPT ![c] = IF mode[c] = "mark" THEN "done" ELSE "trade"]
    /\ UNCHANGED <<now, worker, expires, linked, trade, kite, mode, target, says,
                   sawLink, todo>>

\* The status a request gives its trade.
Outcome(c) == IF says[c] = "placed" THEN "submitted" ELSE "cancelled"

\* Mutant: the UPDATE without its status guard.
UpdateTradeUnguarded(c) ==
    /\ step[c] = "trade"
    /\ trade' = [trade EXCEPT ![target[c]] = Outcome(c)]
    /\ step' = [step EXCEPT ![c] = "done"]
    /\ UNCHANGED <<now, worker, order, expires, linked, kite, mode, target, says,
                   sawLink, todo>>

\* UpdatePublisherTradeStatus, which touches pending trades only.
UpdateTrade(c) ==
    /\ step[c] = "trade"
    /\ \/ /\ sawLink[c] /\ trade[target[c]] = "pending_confirmation"
          /\ trade' = [trade EXCEPT ![target[c]] = Outcome(c)]
       \/ /\ \/ ~sawLink[c] \/ trade[target[c]] # "pending_confirmation"
             \/ "store" \in env.faults
          /\ trade' = trade
    /\ step' = [step EXCEPT ![c] = "done"]
    /\ UNCHANGED <<now, worker, order, expires, linked, kite, mode, target, says,
                   sawLink, todo>>

-----------------------------------------------------------------------------
(* Expiry.                                                                 *)

\* ExpireStalePublisherOrders lists every overdue open order.
Sweep ==
    /\ todo["sweep"] = {}
    /\ \E o \in Orders : Open(o) /\ expires[o] <= now
    /\ todo' = [todo EXCEPT !["sweep"] = {o \in Orders : Open(o) /\ expires[o] <= now}]
    /\ UNCHANGED <<now, worker, order, expires, linked, trade, kite, requestVars>>

\* ExpirePublisherOrderIfStale, when an order or its trade is looked at.
View(o) ==
    /\ Visible(o)
    /\ todo["view"] = {}
    /\ \/ /\ Open(o) /\ expires[o] <= now
          /\ todo' = [todo EXCEPT !["view"] = {o}]
          /\ trade' = trade
       \/ /\ order[o] = "expired" /\ linked[o]
          /\ trade[o] = "pending_confirmation"
          /\ trade' = [trade EXCEPT ![o] = "rejected"]
          /\ todo' = todo
    /\ UNCHANGED <<now, worker, order, expires, linked, kite, requestVars>>

\* Mutant: the trade is left to the next look at it.
ExpireOrderOnly(j, o) ==
    /\ o \in todo[j]
    /\ order' = IF Open(o) THEN [order EXCEPT ![o] = "expired"] ELSE order
    /\ todo' = [todo EXCEPT ![j] = @ \ {o}]
    /\ UNCHANGED <<now, worker, expires, linked, trade, kite, requestVars>>

\* expirePublisherOrder: one transaction for the order and its trade; an error
\* ends the sweep.
Expire(j, o) ==
    /\ o \in todo[j]
    /\ \/ /\ Open(o)
          /\ order' = [order EXCEPT ![o] = "expired"]
          /\ trade' = IF linked[o] /\ trade[o] = "pending_confirmation"
                      THEN [trade EXCEPT ![o] = "rejected"] ELSE trade
          /\ todo' = [todo EXCEPT ![j] = @ \ {o}]
       \/ /\ ~Open(o)
          /\ todo' = [todo EXCEPT ![j] = @ \ {o}]
          /\ UNCHANGED <<order, trade>>
       \/ /\ "store" \in env.faults
          /\ todo' = [todo EXCEPT ![j] = {}]
          /\ UNCHANGED <<order, trade>>
    /\ UNCHANGED <<now, worker, expires, linked, kite, requestVars>>

-----------------------------------------------------------------------------
\* The process dies and restarts: requests, jobs and workers are gone.
Crash ==
    /\ "crash" \in env.faults
    /\ worker' = [o \in Orders |-> IF worker[o] = "place" THEN "place" ELSE "done"]
    /\ step' = [c \in Requests |-> IF step[c] = "idle" THEN "idle" ELSE "done"]
    /\ todo' = [j \in Jobs |-> {}]
    /\ UNCHANGED <<now, order, expires, linked, trade, kite, mode, target, says, sawLink>>

\* A job's 10 s are short against the 30 minutes of a handoff.
Tick ==
    /\ now < MaxTime
    /\ \A o \in Orders : worker[o] \in {"place", "done"}
    /\ now' = now + 1
    /\ UNCHANGED <<worker, order, expires, linked, trade, kite, requestVars, todo>>

WorkerNext(o) == Place(o) \/ Link(o) \/ Finalize(o)
UserNext(o) == Show(o) \/ ActOnKite(o)
Serve(c) == Resolve(c) \/ UpdateOrder(c) \/ UpdateTrade(c)
ExpiryNext == \/ Sweep
              \/ \E o \in Orders : View(o)
              \/ \E j \in Jobs, o \in Orders : Expire(j, o)

Step == \/ \E o \in Orders : WorkerNext(o) \/ UserNext(o)
        \/ \E c \in Requests : Send(c) \/ Serve(c)
        \/ ExpiryNext
        \/ Crash
        \/ Tick

Next == Step /\ UNCHANGED env

Spec == Init /\ [][Next]_vars

\* Handlers and workers that have begun go on, the ticker keeps the expiry job
\* running, and time passes; no user has to do anything.
Fairness ==
    /\ \A o \in Orders : WF_vars((Link(o) \/ Finalize(o)) /\ UNCHANGED env)
    /\ \A c \in Requests : WF_vars(Serve(c) /\ UNCHANGED env)
    /\ WF_vars(Sweep /\ UNCHANGED env)
    /\ \A j \in Jobs, o \in Orders : WF_vars(Expire(j, o) /\ UNCHANGED env)
    /\ WF_vars(Tick /\ UNCHANGED env)

FairSpec == Spec /\ Fairness

-----------------------------------------------------------------------------
(* Properties.                                                             *)

TypeOK ==
    /\ now \in Nat
    /\ worker \in [Orders -> {"place", "link", "confirm", "refuse", "done"}]
    /\ order \in [Orders -> {"none", "created"} \cup Terminal]
    /\ expires \in [Orders -> Nat]
    /\ linked \in [Orders -> BOOLEAN]
    /\ trade \in [Orders -> {"queued", "pending_confirmation", "submitted",
                             "cancelled", "rejected"}]
    /\ kite \in [Orders -> {"unseen", "shown", "placed", "dropped"}]
    /\ step \in [Requests -> {"idle", "resolve", "order", "trade", "done"}]
    /\ mode \in [Requests -> {"redirect", "mark"}]
    /\ target \in [Requests -> Orders]
    /\ says \in [Requests -> {"placed", "dropped"}]
    /\ sawLink \in [Requests -> BOOLEAN]
    /\ todo \in [Jobs -> SUBSET Orders]

Lifecycle == INSTANCE TradeStatus WITH Trades <- Orders, status <- trade

\* Whatever fails and whoever races, a trade's status only moves along the
\* documented lifecycle: callback, confirmation and expiry never undo each other.
FollowsLifecycle == Lifecycle!Spec

\* When the redirect carries the state, a trade reads submitted only if its user
\* placed the basket, and cancelled only if its user dropped it, whatever fails
\* ("submitted: User confirmed on Zerodha").
OutcomeIsTheUsers ==
    env.echo => \A o \in Orders :
        /\ trade[o] = "submitted" => kite[o] = "placed"
        /\ trade[o] = "cancelled" => kite[o] = "dropped"

\* What makes the two inductive: the worker writes first, and a request says what
\* its user did.
WorkersFirst == \A o \in Orders : worker[o] # "done" => trade[o] = "queued"
SaysIsKite ==
    env.echo => \A c \in Requests :
        step[c] \in {"resolve", "order", "trade"} => says[c] = kite[target[c]]

HandoffInv == TypeOK /\ WorkersFirst /\ SaysIsKite /\ OutcomeIsTheUsers

\* No handoff stays pending for ever: the user's request or the expiry sweep
\* decides it, when nothing fails.
PendingIsResolved ==
    \A o \in Orders : env.faults = {} /\ trade[o] = "pending_confirmation" ~>
                      trade[o] # "pending_confirmation"

\* "PublisherOrderIsTerminal reports whether the publisher order reached a final
\* state" (publisher_expiry.go:19): a final state is never left.
FinalStaysFinal ==
    [][\A o \in Orders : order[o] \in Terminal => order'[o] = order[o]]_vars
=============================================================================
