--------------------------- MODULE TradeLifecycle ---------------------------
(***************************************************************************)
(* A live order after the worker has inserted its trades row as queued.    *)
(* Four writers share trades.status:                                       *)
(*                                                                         *)
(*   worker   internal/execution/adapter/local/live.go, store FinalizeTrade *)
(*   cancel   internal/modules/webhooks/handler.go CancelTrade             *)
(*   poll     internal/integrations/brokers/zerodha/fillpoll/job.go        *)
(*   report   internal/modules/internalapi/handler.go PostExecutionEvent   *)
(*                                                                         *)
(* Trades are the orders of one broker credential, numbered by created_at. *)
(* Each SQL statement and each broker call is a step of its own.           *)
(***************************************************************************)
EXTENDS Naturals, Sequences, SequencesExt, FiniteSets

CONSTANTS
    Trades,       \* a set of numbers, in the order of created_at
    Calls,        \* requests to cancel a trade, numbered
    Limit,        \* rows one poll reads
    MaxFailures,  \* bound on failing calls to the broker and to PostgreSQL
    MaxReports,   \* bound on execution events
    Worlds        \* [client, may, calls]: the broker's client, what the broker may
                  \* do, and how many of Calls are made

ASSUME TradeConstantsOK ==
    /\ Trades \subseteq Nat /\ IsFiniteSet(Trades) /\ Trades # {}
    /\ Limit \in Nat \ {0}
    /\ MaxFailures \in Nat /\ MaxReports \in Nat
    /\ \A w \in Worlds : /\ w.client \in {"zerodha", "angel", "dhan", "mt5_cloud"}
                         /\ w.calls \in Nat
                         /\ w.may \subseteq {"async", "forget", "age", "report"}

VARIABLES
    world,     \* one of Worlds, fixed
    worker,    \* worker[t]: what the queue worker does next for t
    answer,    \* answer[t]: the status and order id the broker call returned
    order,     \* order[t]: the order at the broker
    gone,      \* orders the broker answers 404 for
    old,       \* rows that have left the window of 48 hours
    row,       \* row[t]: trades.status
    linked,    \* rows with a broker_order
    pushed,    \* pushed[t]: the status last pushed to the dashboard
    call,      \* call[c]: what cancel request c does next
    about,     \* about[c]: the trade c cancels
    poll,      \* what the poll does next
    todo,      \* the rows it has listed and not yet treated
    book,      \* the orders and their states as it fetched them
    reports,   \* execution events on their way
    sent,      \* execution events sent so far
    failures   \* failing calls so far

workerVars == <<worker, answer>>
brokerVars == <<order, gone, old>>
rowVars == <<row, linked, pushed>>
cancelVars == <<call, about>>
pollVars == <<poll, todo, book>>
reportVars == <<reports, sent>>
vars == <<world, workerVars, brokerVars, rowVars, cancelVars, pollVars, reportVars, failures>>

Rules == INSTANCE OrderRules

Final == {"filled", "rejected", "cancelled"}
Closed == {"complete", "rejected", "cancelled"}

Init ==
    /\ world \in Worlds
    /\ worker = [t \in Trades |-> "place"]
    /\ answer = [t \in Trades |-> "none"]
    /\ order = [t \in Trades |-> "none"]
    /\ gone = {} /\ old = {}
    /\ row = [t \in Trades |-> "queued"]
    /\ linked = {}
    /\ pushed = [t \in Trades |-> "none"]
    /\ call = [c \in Calls |-> "idle"]
    /\ about = [c \in Calls |-> CHOOSE t \in Trades : TRUE]
    /\ poll = "idle" /\ todo = <<>> /\ book = {}
    /\ reports = {} /\ sent = 0
    /\ failures = 0

\* A call to the broker or to PostgreSQL fails.
Fail == failures < MaxFailures /\ failures' = failures + 1
NoFailure == UNCHANGED failures

-----------------------------------------------------------------------------
(* The worker.                                                             *)

\* PlaceOrder: taken, filled at once, refused, or placed with the answer lost.
Place(t) ==
    /\ worker[t] = "place"
    /\ \/ /\ order' = [order EXCEPT ![t] = "open"]
          /\ answer' = [answer EXCEPT ![t] = "submitted"]
          /\ NoFailure
       \/ /\ order' = [order EXCEPT ![t] = "complete"]
          /\ answer' = [answer EXCEPT ![t] = "filled"]
          /\ NoFailure
       \/ /\ answer' = [answer EXCEPT ![t] = "rejected"]
          /\ UNCHANGED order /\ NoFailure
       \/ /\ order' = [order EXCEPT ![t] = "open"]
          /\ answer' = [answer EXCEPT ![t] = "rejected"]
          /\ Fail
    /\ worker' = [worker EXCEPT ![t] = "finalize"]
    /\ UNCHANGED <<gone, old, rowVars, cancelVars, pollVars, reportVars>>

\* FinalizeTrade, whatever the row says by now, and the push; a failure is logged.
Finalize(t) ==
    /\ worker[t] = "finalize"
    /\ \/ /\ row' = [row EXCEPT ![t] = answer[t]]
          /\ linked' = IF answer[t] = "rejected" THEN linked \ {t} ELSE linked \cup {t}
          /\ pushed' = [pushed EXCEPT ![t] = answer[t]]
          /\ NoFailure
       \/ Fail /\ UNCHANGED rowVars
    /\ worker' = [worker EXCEPT ![t] = "done"]
    /\ UNCHANGED <<answer, brokerVars, cancelVars, pollVars, reportVars>>

-----------------------------------------------------------------------------
(* The broker.                                                             *)

\* The order is filled, refused by the exchange, or cancelled; one whose cancel
\* was accepted can still be filled first.
Resolve(t) ==
    /\ \E s \in CASE order[t] = "open" -> Closed
                  [] order[t] = "cancelling" -> {"complete", "cancelled"}
                  [] OTHER -> {} :
          order' = [order EXCEPT ![t] = s]
    /\ UNCHANGED <<workerVars, gone, old, rowVars, cancelVars, pollVars,
                   reportVars, failures>>

\* The broker's book is of one day: afterwards a closed order is not found.
Forget(t) ==
    /\ "forget" \in world.may
    /\ order[t] \in Closed /\ t \notin gone
    /\ gone' = gone \cup {t}
    /\ UNCHANGED <<workerVars, order, old, rowVars, cancelVars, pollVars,
                   reportVars, failures>>

\* The oldest row becomes older than defaultMaxAge.
Age(t) ==
    /\ "age" \in world.may
    /\ t \notin old /\ \A u \in Trades \ old : t <= u
    /\ old' = old \cup {t}
    /\ UNCHANGED <<workerVars, order, gone, rowVars, cancelVars, pollVars,
                   reportVars, failures>>

-----------------------------------------------------------------------------
(* CancelTrade.                                                            *)

\* Mutant: a queued trade can be cancelled.
CancelReadQueued(c) ==
    /\ call[c] = "idle" /\ c <= world.calls
    /\ \E t \in Trades :
          /\ about' = [about EXCEPT ![c] = t]
          /\ call' = [call EXCEPT ![c] = IF row[t] \in Final THEN "done" ELSE "broker"]
    /\ UNCHANGED <<workerVars, brokerVars, rowVars, pollVars, reportVars, failures>>

\* The trade is read; only a submitted one is cancelled.
CancelRead(c) ==
    /\ call[c] = "idle" /\ c <= world.calls
    /\ \E t \in Trades :
          /\ about' = [about EXCEPT ![c] = t]
          /\ call' = [call EXCEPT ![c] = IF row[t] = "submitted" THEN "broker" ELSE "done"]
    /\ UNCHANGED <<workerVars, brokerVars, rowVars, pollVars, reportVars, failures>>

\* Mutant: every error of the broker counts as success.
CancelAtBrokerAnyhow(c) ==
    /\ call[c] = "broker"
    /\ order' = [order EXCEPT ![about[c]] = IF @ = "open" THEN "cancelled" ELSE @]
    /\ call' = [call EXCEPT ![c] = "mark"]
    /\ UNCHANGED <<workerVars, gone, old, rowVars, about, pollVars, reportVars, failures>>

\* CancelOrder at the broker.  Success and order_not_found go on to the row; any
\* other error leaves the status (MarkTradeCancelled with the message).  Angel's
\* client has no order_not_found.
GoesOn(k) == k = "done" \/ Rules!CancelCode(world.client, k) = "order_not_found"

CancelAtBroker(c) ==
    LET t == about[c] IN
    /\ call[c] = "broker"
    /\ \/ /\ order[t] = "open"
          /\ order' = [order EXCEPT ![t] = IF "async" \in world.may THEN "cancelling"
                                                                 ELSE "cancelled"]
          /\ call' = [call EXCEPT ![c] = "mark"]
          /\ NoFailure
       \/ /\ t \in gone \/ order[t] = "none"
          /\ call' = [call EXCEPT ![c] = IF GoesOn("notfound") THEN "mark" ELSE "done"]
          /\ UNCHANGED order /\ NoFailure
       \/ /\ order[t] \in Closed \cup {"cancelling"} /\ t \notin gone
          /\ call' = [call EXCEPT ![c] = IF GoesOn("other") THEN "mark" ELSE "done"]
          /\ UNCHANGED order /\ NoFailure
       \/ /\ Fail
          /\ order' = [order EXCEPT ![t] = IF @ = "open" THEN "cancelled" ELSE @]
          /\ call' = [call EXCEPT ![c] = IF GoesOn("lost") THEN "mark" ELSE "done"]
    /\ UNCHANGED <<workerVars, gone, old, rowVars, about, pollVars, reportVars>>

\* MarkTradeCancelled: the row's status by now is not looked at, and nothing is pushed.
CancelMark(c) ==
    /\ call[c] = "mark"
    /\ \/ row' = [row EXCEPT ![about[c]] = "cancelled"] /\ NoFailure
       \/ Fail /\ UNCHANGED row
    /\ call' = [call EXCEPT ![c] = "done"]
    /\ UNCHANGED <<workerVars, brokerVars, linked, pushed, about, pollVars, reportVars>>

-----------------------------------------------------------------------------
(* The fill poll: one goroutine, one sweep after the other.                *)

\* The rows of one credential, which is active and of the OAuth mode throughout: those of a
\* paused credential, or of another mode, are not listed for as long as it is that.
Pending == {t \in linked \ old : row[t] = "submitted" /\ world.client = "zerodha"}

\* ListPendingZerodhaOAuthFills: the oldest Limit rows; an error ends the sweep.
PollList ==
    /\ poll = "idle"
    /\ Pending # {}
    /\ LET oldest == SetToSortSeq(Pending, <)
       IN todo' = IF Len(oldest) <= Limit THEN oldest ELSE SubSeq(oldest, 1, Limit)
    /\ poll' = "book"
    /\ UNCHANGED <<workerVars, brokerVars, rowVars, cancelVars, book, reportVars, failures>>

\* FetchTodayOrders; an error gives up the credential for this sweep.
PollBook ==
    /\ poll = "book"
    /\ \/ /\ book' = {<<t, order[t]>> : t \in {u \in Trades \ gone : order[u] # "none"}}
          /\ poll' = "apply"
          /\ UNCHANGED todo /\ NoFailure
       \/ Fail /\ poll' = "idle" /\ todo' = <<>> /\ UNCHANGED book
    /\ UNCHANGED <<workerVars, brokerVars, rowVars, cancelVars, reportVars>>

\* The states PollApply may find for t: the book's, else the history's, else none.
Seen(t) == IF \E s \in Closed \cup {"open", "cancelling"} : <<t, s>> \in book
           THEN {e[2] : e \in {e \in book : e[1] = t}}
           ELSE IF t \in gone \/ order[t] = "none" THEN {} ELSE {order[t]}

\* Mutant: an order cancelled at the exchange is taken for one that is still open.
TerminalByFate(s) == s \in {"complete", "rejected"}

\* Whether MapKiteStatus reports a final state.
Terminal(s) == s \in Closed

\* MapKiteStatus of a closed order.
Mapped(s) == CASE s = "complete" -> "filled"
               [] s = "rejected" -> "rejected"
               [] s = "cancelled" -> "cancelled"

\* UpdateTradeFillOutcome (only a submitted row changes) and the push, which follows
\* whether or not a row has changed.
Apply(t, s) ==
    /\ row' = [row EXCEPT ![t] = IF @ = "submitted" THEN Mapped(s) ELSE @]
    /\ pushed' = [pushed EXCEPT ![t] = Mapped(s)]

NextItem ==
    /\ todo' = Tail(todo)
    /\ poll' = IF Len(todo) = 1 THEN "idle" ELSE "apply"
    /\ book' = IF Len(todo) = 1 THEN {} ELSE book

\* One listed row: its order is looked up and a closed one is written.
PollApply ==
    /\ poll = "apply"
    /\ LET t == Head(todo) IN
       \/ \E s \in Seen(t) : Terminal(s) /\ Apply(t, s) /\ NoFailure
       \/ /\ \A s \in Seen(t) : ~Terminal(s)
          /\ UNCHANGED <<row, pushed>> /\ NoFailure
       \/ Fail /\ UNCHANGED <<row, pushed>>
    /\ NextItem
    /\ UNCHANGED <<workerVars, brokerVars, linked, cancelVars, reportVars>>

-----------------------------------------------------------------------------
(* PostExecutionEvent.                                                     *)

Told(s) == IF s \in {"open", "cancelling"} THEN "submitted" ELSE Mapped(s)

\* An adapter reports the state of an order (external: no adapter of the
\* repository sends them yet).
Report(t) ==
    /\ "report" \in world.may /\ sent < MaxReports
    /\ order[t] # "none"
    /\ reports' = reports \cup {<<t, Told(order[t])>>}
    /\ sent' = sent + 1
    /\ UNCHANGED <<workerVars, brokerVars, rowVars, cancelVars, pollVars, failures>>

\* UpdateTradeFromExecutionEvent: the status is overwritten with the event's.
Receive(t, s) ==
    /\ <<t, s>> \in reports
    /\ reports' = reports \ {<<t, s>>}
    /\ row' = [row EXCEPT ![t] = s]
    /\ linked' = linked \cup {t}
    /\ UNCHANGED <<workerVars, brokerVars, pushed, cancelVars, pollVars, sent, failures>>

-----------------------------------------------------------------------------
Step ==
    \/ \E t \in Trades : Place(t) \/ Finalize(t)
    \/ \E t \in Trades : Resolve(t) \/ Forget(t) \/ Age(t) \/ Report(t)
    \/ \E c \in Calls : CancelRead(c) \/ CancelAtBroker(c) \/ CancelMark(c)
    \/ PollList \/ PollBook \/ PollApply
    \/ \E t \in Trades, s \in Final \cup {"submitted"} : Receive(t, s)

Next == Step /\ UNCHANGED world

Spec == Init /\ [][Next]_vars

\* The poll's ticker runs as long as the process does, the worker finishes what it
\* has begun, and an order is valid for a day.
Fairness ==
    /\ \A t \in Trades : /\ WF_vars(Place(t) /\ UNCHANGED world)
                         /\ WF_vars(Finalize(t) /\ UNCHANGED world)
                         /\ WF_vars(Resolve(t) /\ UNCHANGED world)
    /\ WF_vars((PollList \/ PollBook \/ PollApply) /\ UNCHANGED world)

FairSpec == Spec /\ Fairness

-----------------------------------------------------------------------------
(* Properties.                                                             *)

States == Closed \cup {"open", "cancelling"}

\* The types a status can depend on: all but those of the poll's list and of the bounds.
StatusTypes ==
    /\ world \in Worlds
    /\ worker \in [Trades -> {"place", "finalize", "done"}]
    /\ answer \in [Trades -> {"none", "submitted", "filled", "rejected"}]
    /\ order \in [Trades -> States \cup {"none"}]
    /\ gone \subseteq Trades /\ old \subseteq Trades /\ linked \subseteq Trades
    /\ row \in [Trades -> Final \cup {"queued", "submitted"}]
    /\ call \in [Calls -> {"idle", "broker", "mark", "done"}]
    /\ about \in [Calls -> Trades]
    /\ book \subseteq Trades \X States
    /\ reports \subseteq Trades \X (Final \cup {"submitted"})

\* Every variable keeps its type; a sweep holds at most Limit rows.
TypeOK ==
    /\ StatusTypes
    /\ pushed \in [Trades -> Final \cup {"none", "submitted"}]
    /\ poll \in {"idle", "book", "apply"}
    /\ todo \in Seq(Trades) /\ Len(todo) <= Limit
    /\ sent \in 0..MaxReports /\ failures \in 0..MaxFailures

\* The broker cancels at once, keeps its orders, and nobody else reports.
Steady == world.may \subseteq {"age"}

\* At a steady broker a final row with a broker order says what became of the
\* order (handler.go:879-891: the broker is asked before the row is written).
FinalMatchesBroker ==
    Steady => \A t \in linked : row[t] \in Final =>
        order[t] \in Closed /\ row[t] = Mapped(order[t])

\* What FinalMatchesBroker rests on.  Until the worker is done the row is queued and
\* has no broker order; the worker's answer is true of the order it placed.
WorkerOK(t) ==
    /\ worker[t] # "done" => row[t] = "queued" /\ t \notin linked
    /\ worker[t] = "place" => order[t] = "none"
    /\ worker[t] = "finalize" => /\ answer[t] = "filled" => order[t] = "complete"
                                 /\ answer[t] = "submitted" => order[t] # "none"
\* A worker that finalizes has an answer, at any broker.
Answered == \A t \in Trades : worker[t] = "finalize" => answer[t] # "none"

\* A row beyond queued has a broker order, unless it was rejected without one.
LinkOK(t) ==
    /\ row[t] = "submitted" => t \in linked
    /\ t \in linked => row[t] # "queued" /\ order[t] # "none"
    /\ order[t] # "cancelling"
\* A cancel on its way was aimed at a submitted row; before it marks the row the
\* broker has cancelled the order.
CancelOK(c) ==
    /\ call[c] \in {"broker", "mark"} => about[c] \in linked
    /\ call[c] = "mark" => order[about[c]] = "cancelled"
\* A closed order in the fetched book is as the book says, however old it is.
BookOK == \A t \in Trades, s \in Closed : <<t, s>> \in book => order[t] = s

SteadyInv ==
    /\ \A t \in Trades : WorkerOK(t) /\ LinkOK(t)
    /\ \A c \in Calls : CancelOK(c)
    /\ BookOK
    /\ gone = {} /\ reports = {}
    /\ FinalMatchesBroker

LifecycleInv == StatusTypes /\ Answered /\ (Steady => SteadyInv)

\* A final status is never changed (docs/diagrams/execution-flows.md:138).
FinalStays == [][\A t \in Trades : row[t] \in Final => row'[t] = row[t]]_vars

\* A final status that was pushed to the dashboard is the row's (job.go:169-175).
PushedIsStored == \A t \in Trades : pushed[t] \in Final => row[t] = pushed[t]

\* Once a steady Kite has closed an order its submitted row is settled, unless
\* the row leaves the window of 48 hours first (job.go:1-2).
SubmittedIsSettled ==
    \A t \in Trades : (Steady /\ world.client = "zerodha" /\ t \in linked /\ row[t] = "submitted" /\ order[t] \in Closed)
                      ~> (row[t] # "submitted" \/ t \in old)

\* At a steady broker the row goes through the documented life of a trade.
StatusSpec == INSTANCE TradeStatus WITH
    status <- IF Steady THEN row ELSE [t \in Trades |-> "queued"]
KeepsTradeStatus == StatusSpec!Spec
=============================================================================
