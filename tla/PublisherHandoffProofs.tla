----------------------- MODULE PublisherHandoffProofs -----------------------
(* PublisherHandoff for every number of orders and requests, every length of *)
(* a handoff, and every set of faults.                                       *)
EXTENDS PublisherHandoff, TLAPS

-----------------------------------------------------------------------------
(* Types. *)

LEMMA TypesHold ==
    ASSUME TypeOK, Next
    PROVE  TypeOK'
<1> USE HandoffConstantsOK
<1> USE DEF TypeOK, Terminal, Jobs
<1>1. ASSUME NEW o \in Orders, Place(o) PROVE TypeOK'
  BY <1>1 DEF Place, requestVars
<1>2. ASSUME NEW o \in Orders, Link(o) PROVE TypeOK'
  BY <1>2 DEF Link, requestVars
<1>3. ASSUME NEW o \in Orders, Finalize(o) PROVE TypeOK'
  BY <1>3 DEF Finalize, requestVars
<1>4. ASSUME NEW o \in Orders, Show(o) PROVE TypeOK'
  BY <1>4 DEF Show, requestVars
<1>5. ASSUME NEW o \in Orders, ActOnKite(o) PROVE TypeOK'
  BY <1>5 DEF ActOnKite, requestVars
<1>6. ASSUME NEW c \in Requests, Send(c) PROVE TypeOK'
  BY <1>6 DEF Send
<1>7. ASSUME NEW c \in Requests, Resolve(c) PROVE TypeOK'
  <2>1. Resolved(c) \subseteq Orders
    BY DEF Resolved, MostRecent, Pending
  <2> QED
    BY <1>7, <2>1 DEF Resolve
<1>8. ASSUME NEW c \in Requests, UpdateOrder(c) PROVE TypeOK'
  BY <1>8 DEF UpdateOrder
<1>9. ASSUME NEW c \in Requests, UpdateTrade(c) PROVE TypeOK'
  BY <1>9 DEF UpdateTrade, Outcome
<1>10. ASSUME Sweep PROVE TypeOK'
  BY <1>10 DEF Sweep, requestVars
<1>11. ASSUME NEW o \in Orders, View(o) PROVE TypeOK'
  BY <1>11 DEF View, requestVars
<1>12. ASSUME NEW j \in Jobs, NEW o \in Orders, Expire(j, o) PROVE TypeOK'
  BY <1>12 DEF Expire, requestVars
<1>13. ASSUME Crash PROVE TypeOK'
  BY <1>13 DEF Crash
<1>14. ASSUME Tick PROVE TypeOK'
  BY <1>14 DEF Tick, requestVars
<1> QED
  BY <1>1, <1>2, <1>3, <1>4, <1>5, <1>6, <1>7, <1>8, <1>9, <1>10, <1>11, <1>12, <1>13, <1>14
  DEF Next, Step, WorkerNext, UserNext, Serve, ExpiryNext

-----------------------------------------------------------------------------
(* Who changes a trade, and what a user has done. *)

\* A trade is first written by its worker, and after that only while it waits
\* for its user: by a request that carries an outcome, or by an expiry.
LEMMA WritersOfTrades ==
    ASSUME TypeOK, WorkersFirst, Next
    PROVE  \/ trade' = trade
           \/ \E o \in Orders :
                 /\ trade[o] = "queued" /\ worker[o] # "done" /\ worker'[o] = "done"
                 /\ \E s \in {"pending_confirmation", "rejected"} : trade' = [trade EXCEPT ![o] = s]
           \/ \E c \in Requests : /\ target[c] \in Orders /\ step[c] = "trade"
                                 /\ trade[target[c]] = "pending_confirmation"
                                 /\ trade' = [trade EXCEPT ![target[c]] = Outcome(c)]
                                 /\ UNCHANGED worker
           \/ \E o \in Orders : /\ trade[o] = "pending_confirmation"
                               /\ trade' = [trade EXCEPT ![o] = "rejected"]
                               /\ UNCHANGED worker
<1>1. ASSUME NEW o \in Orders, Place(o) \/ Link(o) \/ Show(o) \/ ActOnKite(o) PROVE trade' = trade
  BY <1>1 DEF Place, Link, Show, ActOnKite
<1>2. ASSUME NEW o \in Orders, Finalize(o)
      PROVE  /\ trade[o] = "queued" /\ worker[o] # "done" /\ worker'[o] = "done"
             /\ \/ trade' = trade
                \/ \E s \in {"pending_confirmation", "rejected"} : trade' = [trade EXCEPT ![o] = s]
  BY <1>2 DEF Finalize, TypeOK, WorkersFirst
<1>3. ASSUME NEW c \in Requests, Send(c) \/ Resolve(c) \/ UpdateOrder(c) PROVE trade' = trade
  BY <1>3 DEF Send, Resolve, UpdateOrder
<1>4. ASSUME NEW c \in Requests, UpdateTrade(c)
      PROVE  \/ trade' = trade
             \/ /\ target[c] \in Orders /\ step[c] = "trade"
                /\ trade[target[c]] = "pending_confirmation"
                /\ trade' = [trade EXCEPT ![target[c]] = Outcome(c)] /\ UNCHANGED worker
  BY <1>4 DEF UpdateTrade, TypeOK
<1>5. ASSUME Sweep \/ Crash \/ Tick PROVE trade' = trade
  BY <1>5 DEF Sweep, Crash, Tick
<1>6. ASSUME NEW o \in Orders, View(o) \/ \E j \in Jobs : Expire(j, o)
      PROVE  \/ trade' = trade
             \/ /\ trade[o] = "pending_confirmation"
                /\ trade' = [trade EXCEPT ![o] = "rejected"] /\ UNCHANGED worker
  BY <1>6 DEF View, Expire
<1> QED
  BY <1>1, <1>2, <1>3, <1>4, <1>5, <1>6
  DEF Next, Step, WorkerNext, UserNext, Serve, ExpiryNext

LEMMA WorkersStayFirst ==
    ASSUME TypeOK, WorkersFirst, Next
    PROVE  WorkersFirst'
<1>1. \A o \in Orders : worker'[o] # "done" => worker[o] # "done"
  BY DEF TypeOK, Next, Step, WorkerNext, UserNext, Serve, ExpiryNext, Place, Link, Finalize, Show,
     ActOnKite, Send, Resolve, UpdateOrder, UpdateTrade, Sweep, View, Expire, Crash, Tick
<1>2. \A o \in Orders : worker'[o] # "done" => trade'[o] = trade[o]
  BY <1>1, WritersOfTrades DEF TypeOK, WorkersFirst
<1> QED
  BY <1>1, <1>2 DEF WorkersFirst

\* Once the user has placed or dropped the basket, that is what Kite says.
LEMMA KiteIsFinal ==
    ASSUME TypeOK, Next, NEW o \in Orders, kite[o] \in {"placed", "dropped"}
    PROVE  kite'[o] = kite[o]
  BY DEF TypeOK, Next, Step, WorkerNext, UserNext, Serve, ExpiryNext, Place, Link, Finalize, Show,
     ActOnKite, Send, Resolve, UpdateOrder, UpdateTrade, Sweep, View, Expire, Crash, Tick

\* What a request is about and says is fixed when it is sent, if the state
\* comes back with it.
LEMMA RequestsAreFixed ==
    ASSUME TypeOK, env.echo, Next, NEW c \in Requests, step'[c] \in {"resolve", "order", "trade"}
    PROVE  \/ step[c] = "idle" /\ says'[c] = kite[target'[c]] /\ UNCHANGED kite
           \/ /\ step[c] \in {"resolve", "order", "trade"}
              /\ target'[c] = target[c] /\ says'[c] = says[c]
<1>1. ASSUME NEW d \in Requests, Send(d)
      PROVE  \/ c = d /\ step[c] = "idle" /\ says'[c] = kite[target'[c]] /\ UNCHANGED kite
             \/ c # d /\ UNCHANGED <<step[c], target[c], says[c]>>
  BY <1>1 DEF Send, TypeOK
<1>2. ASSUME NEW d \in Requests, Resolve(d)
      PROVE  UNCHANGED <<target[c], says[c]>> /\ (c = d => step[c] = "resolve") /\ (c # d => step'[c] = step[c])
  <2>1. Resolved(d) \subseteq {target[d]}
    BY DEF Resolved
  <2> QED
    BY <1>2, <2>1 DEF Resolve, TypeOK
<1>3. ASSUME NEW d \in Requests, UpdateOrder(d) \/ UpdateTrade(d)
      PROVE  UNCHANGED <<target[c], says[c]>> /\ (c = d => step[c] \in {"order", "trade"})
             /\ (c # d => step'[c] = step[c])
  BY <1>3 DEF UpdateOrder, UpdateTrade, TypeOK
<1>4. ASSUME \/ \E o \in Orders : WorkerNext(o) \/ UserNext(o)
             \/ ExpiryNext \/ Tick
      PROVE  UNCHANGED <<step, target, says>>
  BY <1>4 DEF WorkerNext, UserNext, ExpiryNext, Place, Link, Finalize, Show, ActOnKite, Sweep, View,
     Expire, Tick, requestVars
<1>5. ASSUME Crash PROVE FALSE
  BY <1>5 DEF Crash, TypeOK
<1> QED
  BY <1>1, <1>2, <1>3, <1>4, <1>5 DEF Next, Step, Serve

LEMMA SaysStayKites ==
    ASSUME TypeOK, TypeOK', SaysIsKite, Next
    PROVE  SaysIsKite'
<1> SUFFICES ASSUME env'.echo, NEW c \in Requests, step'[c] \in {"resolve", "order", "trade"}
             PROVE  says'[c] = kite'[target'[c]]
  BY DEF SaysIsKite
<1>1. env.echo
  BY DEF Next
<1>2. says[c] \in {"placed", "dropped"} /\ target[c] \in Orders
  BY DEF TypeOK
<1> QED
  BY <1>1, <1>2, RequestsAreFixed, KiteIsFinal DEF SaysIsKite

LEMMA OutcomesStayTheUsers ==
    ASSUME TypeOK, WorkersFirst, SaysIsKite, OutcomeIsTheUsers, Next
    PROVE  OutcomeIsTheUsers'
<1> SUFFICES ASSUME env.echo, NEW o \in Orders, trade'[o] \in {"submitted", "cancelled"}
             PROVE  kite'[o] = IF trade'[o] = "submitted" THEN "placed" ELSE "dropped"
  BY DEF OutcomeIsTheUsers, Next
<1>1. CASE trade'[o] = trade[o]
  <2>1. kite[o] = IF trade[o] = "submitted" THEN "placed" ELSE "dropped"
    BY <1>1 DEF OutcomeIsTheUsers
  <2>2. kite'[o] = kite[o]
    BY <2>1, KiteIsFinal
  <2> QED
    BY <1>1, <2>1, <2>2
<1>2. CASE trade'[o] # trade[o]
  <2>1. PICK c \in Requests : target[c] = o /\ step[c] = "trade" /\ trade'[o] = Outcome(c)
    BY <1>2, WritersOfTrades DEF TypeOK
  <2>2. says[c] = kite[o] /\ says[c] \in {"placed", "dropped"}
    BY <2>1 DEF SaysIsKite, TypeOK
  <2> QED
    BY <2>1, <2>2, KiteIsFinal DEF Outcome
<1> QED
  BY <1>1, <1>2

-----------------------------------------------------------------------------
(* The handoff's invariant: a trade's first status is its worker's, and a    *)
(* request says of an order what its user did (publisher/handler.go,         *)
(* publisher_expiry.go).                                                     *)
THEOREM HandoffInvariance == Spec => []HandoffInv
<1>1. Init => HandoffInv
  BY HandoffConstantsOK DEF Init, HandoffInv, TypeOK, WorkersFirst, SaysIsKite, OutcomeIsTheUsers, Jobs, Terminal
<1>2. HandoffInv /\ [Next]_vars => HandoffInv'
  <2> SUFFICES ASSUME HandoffInv, [Next]_vars PROVE HandoffInv'
    OBVIOUS
  <2>1. CASE Next
    BY <2>1, TypesHold, WorkersStayFirst, SaysStayKites, OutcomesStayTheUsers DEF HandoffInv
  <2>2. CASE UNCHANGED vars
    BY <2>2 DEF vars, requestVars, HandoffInv, TypeOK, WorkersFirst, SaysIsKite, OutcomeIsTheUsers
  <2> QED
    BY <2>1, <2>2
<1> QED
  BY <1>1, <1>2, PTL DEF Spec

(* With the signed state echoed a trade is submitted only if its user placed *)
(* the basket, and cancelled only if its user dropped it, under every fault  *)
(* and interleaving.                                                         *)
THEOREM OutcomeFollowsUser == Spec => []OutcomeIsTheUsers
<1>1. HandoffInv => OutcomeIsTheUsers
  BY DEF HandoffInv
<1> QED
  BY <1>1, HandoffInvariance, PTL

(* The trades of the handoff implement the documented life of a trades row,  *)
(* under every fault and interleaving (docs/diagrams/execution-flows.md).    *)
THEOREM HandoffFollowsLifecycle == Spec => FollowsLifecycle
<1>1. Init => Lifecycle!Init
  BY DEF Init, Lifecycle!Init
<1>2. HandoffInv /\ [Next]_vars => [Lifecycle!Next]_trade
  <2> SUFFICES ASSUME HandoffInv, Next, trade' # trade PROVE Lifecycle!Next
    BY DEF vars
  <2>1. TypeOK /\ WorkersFirst
    BY DEF HandoffInv
  <2>2. PICK o \in Orders, s \in Lifecycle!Statuses :
           trade' = [trade EXCEPT ![o] = s] /\ <<trade[o], s>> \in Lifecycle!Follows
    BY <2>1, WritersOfTrades DEF Outcome, Lifecycle!Statuses, Lifecycle!Follows
  <2> QED
    BY <2>2 DEF Lifecycle!Next, Lifecycle!Change
<1> QED
  BY <1>1, <1>2, HandoffInvariance, PTL DEF Spec, FollowsLifecycle, Lifecycle!Spec
=============================================================================
