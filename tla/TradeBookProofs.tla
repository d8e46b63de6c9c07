-------------------------- MODULE TradeBookProofs --------------------------
(* The books of trading: the trades rows (TradeLifecycle) and the positions, *)
(* orders and snapshots of a paper account (PaperAccount), for every number  *)
(* of trades, jobs and symbols, every price, fee, slippage and quota.        *)
EXTENDS TradeLifecycle, PaperAccount, FiniteSetTheorems, WellFoundedInduction, TLAPS

-----------------------------------------------------------------------------
(* Types. *)

LEMMA OrderTypes ==
    ASSUME StatusTypes, Answered, Next
    PROVE  StatusTypes' /\ Answered'
<1> USE DEF StatusTypes, Answered, Final, Closed, States, workerVars, brokerVars, rowVars, cancelVars, pollVars, reportVars
<1> world' = world
  BY DEF Next
<1>1. ASSUME NEW t \in Trades, Place(t) PROVE StatusTypes' /\ Answered'
  BY <1>1 DEF Place
<1>2. ASSUME NEW t \in Trades, Finalize(t) PROVE StatusTypes' /\ Answered'
  BY <1>2 DEF Finalize
<1>3. ASSUME NEW t \in Trades, Resolve(t) PROVE StatusTypes' /\ Answered'
  BY <1>3 DEF Resolve
<1>4. ASSUME NEW t \in Trades, Forget(t) PROVE StatusTypes' /\ Answered'
  BY <1>4 DEF Forget
<1>5. ASSUME NEW t \in Trades, Age(t) PROVE StatusTypes' /\ Answered'
  BY <1>5 DEF Age
<1>6. ASSUME NEW t \in Trades, Report(t) PROVE StatusTypes' /\ Answered'
  BY <1>6 DEF Report, Told, Mapped
<1>7. ASSUME NEW c \in Calls, CancelRead(c) PROVE StatusTypes' /\ Answered'
  BY <1>7 DEF CancelRead
<1>8. ASSUME NEW c \in Calls, CancelAtBroker(c) PROVE StatusTypes' /\ Answered'
  BY <1>8 DEF CancelAtBroker
<1>9. ASSUME NEW c \in Calls, CancelMark(c) PROVE StatusTypes' /\ Answered'
  BY <1>9 DEF CancelMark
<1>10. ASSUME PollList PROVE StatusTypes' /\ Answered'
  BY <1>10 DEF PollList
<1>11. ASSUME PollBook PROVE StatusTypes' /\ Answered'
  BY <1>11 DEF PollBook
<1>12. ASSUME PollApply PROVE StatusTypes' /\ Answered'
  BY <1>12 DEF PollApply, Apply, Mapped, NextItem, Terminal
<1>13. ASSUME NEW t \in Trades, NEW s \in Final \cup {"submitted"}, Receive(t, s) PROVE StatusTypes' /\ Answered'
  BY <1>13 DEF Receive
<1> QED
  BY <1>1, <1>2, <1>3, <1>4, <1>5, <1>6, <1>7, <1>8, <1>9, <1>10, <1>11, <1>12, <1>13 DEF Next, Step

-----------------------------------------------------------------------------
(* A steady broker. *)

\* No client takes a refusal or a lost answer for an order it did not find.
LEMMA RefusalsStop ==
    ASSUME StatusTypes
    PROVE  ~GoesOn("other") /\ ~GoesOn("lost")
<1>1. world.client \in {"zerodha", "angel", "dhan", "mt5_cloud"}
  BY TradeConstantsOK DEF StatusTypes
<1> QED
  BY <1>1 DEF GoesOn, Rules!CancelCode, Rules!ZerodhaCancel, Rules!AngelCancel, Rules!DhanCancel, Rules!MT5Cancel,
     Rules!MapKiteErrorCode, Rules!AngelErrorCode, Rules!MapDhanErrorCode, Rules!MapHTTPErrorCode

LEMMA SteadySteps ==
    ASSUME LifecycleInv, Steady, StatusTypes', Next
    PROVE  SteadyInv'
<1> USE DEF LifecycleInv, SteadyInv, StatusTypes, Answered, Steady, Final, Closed, States, WorkerOK, LinkOK, CancelOK, BookOK, FinalMatchesBroker,
            Mapped, workerVars, brokerVars, rowVars, cancelVars, pollVars, reportVars
<1> world' = world
  BY DEF Next
<1>1. ASSUME NEW t \in Trades, Place(t) PROVE SteadyInv'
  BY <1>1 DEF Place
<1>2. ASSUME NEW t \in Trades, Finalize(t) PROVE SteadyInv'
  BY <1>2 DEF Finalize
<1>3. ASSUME NEW t \in Trades, Resolve(t) PROVE SteadyInv'
  BY <1>3 DEF Resolve
<1>4. ASSUME NEW t \in Trades, Forget(t) PROVE SteadyInv'
  BY <1>4 DEF Forget
<1>5. ASSUME NEW t \in Trades, Age(t) PROVE SteadyInv'
  BY <1>5 DEF Age
<1>6. ASSUME NEW t \in Trades, Report(t) PROVE SteadyInv'
  BY <1>6 DEF Report, Told, Mapped
<1>7. ASSUME NEW c \in Calls, CancelRead(c) PROVE SteadyInv'
  BY <1>7 DEF CancelRead
<1>8. ASSUME NEW c \in Calls, CancelAtBroker(c) PROVE SteadyInv'
  BY <1>8, RefusalsStop DEF CancelAtBroker
<1>9. ASSUME NEW c \in Calls, CancelMark(c) PROVE SteadyInv'
  BY <1>9 DEF CancelMark
<1>10. ASSUME PollList PROVE SteadyInv'
  BY <1>10 DEF PollList
<1>11. ASSUME PollBook PROVE SteadyInv'
  BY <1>11 DEF PollBook
<1>12. ASSUME PollApply PROVE SteadyInv'
  BY <1>12 DEF PollApply, Apply, Mapped, NextItem, Terminal, Seen
<1>13. ASSUME NEW t \in Trades, NEW s \in Final \cup {"submitted"}, Receive(t, s) PROVE SteadyInv'
  BY <1>13 DEF Receive
<1> QED
  BY <1>1, <1>2, <1>3, <1>4, <1>5, <1>6, <1>7, <1>8, <1>9, <1>10, <1>11, <1>12, <1>13 DEF Next, Step

\* What a step does to the rows at a steady broker: it writes one of them, and
\* moves it as the documentation of a trade allows.
LEMMA SteadyRowsFollow ==
    ASSUME LifecycleInv, Steady, Next
    PROVE  \/ row' = row
           \/ \E t \in Trades, s \in StatusSpec!Statuses :
                 row' = [row EXCEPT ![t] = s] /\ <<row[t], s>> \in StatusSpec!Follows
<1> DEFINE Follows(t) ==
        \/ row' = row
        \/ \E s \in StatusSpec!Statuses : row' = [row EXCEPT ![t] = s] /\ <<row[t], s>> \in StatusSpec!Follows
<1> USE DEF LifecycleInv, SteadyInv, StatusTypes, Answered, Final, Closed, States,
            StatusSpec!Statuses, StatusSpec!Follows
<1>1. ASSUME NEW t \in Trades, Finalize(t) PROVE Follows(t)
  BY <1>1 DEF Finalize, rowVars, WorkerOK
<1>2. ASSUME NEW c \in Calls, CancelMark(c) PROVE Follows(about[c])
  BY <1>2 DEF CancelMark, CancelOK, LinkOK, FinalMatchesBroker, Mapped
<1>3. ASSUME PollApply PROVE \E t \in Trades : Follows(t)
  <2> DEFINE t == Head(todo)
  <2>1. CASE t \in Trades /\ row[t] = "submitted"
    <3>1. row' = row \/ \E s \in Closed : row' = [row EXCEPT ![t] = Mapped(s)]
      BY <1>3, <2>1 DEF PollApply, Apply, Terminal
    <3> QED
      BY <2>1, <3>1 DEF Mapped
  <2>2. CASE ~(t \in Trades /\ row[t] = "submitted")
    <3>1. row' = row \/ \E s \in Closed : row' = [row EXCEPT ![t] = IF @ = "submitted" THEN Mapped(s) ELSE @]
      BY <1>3 DEF PollApply, Apply, Terminal
    <3>2. row' = row
      BY <2>2, <3>1
    <3> QED
      BY <3>2, TradeConstantsOK
  <2> QED
    BY <2>1, <2>2
<1>4. ASSUME NEW t \in Trades, NEW s, Receive(t, s) PROVE FALSE
  BY <1>4 DEF Receive
<1>5. ASSUME NEW t \in Trades, Place(t) \/ Resolve(t) \/ Forget(t) \/ Age(t) \/ Report(t) PROVE row' = row
  BY <1>5 DEF Place, Resolve, Forget, Age, Report, rowVars
<1>6. ASSUME NEW c \in Calls, CancelRead(c) \/ CancelAtBroker(c) PROVE row' = row
  BY <1>6 DEF CancelRead, CancelAtBroker, rowVars
<1>7. ASSUME PollList \/ PollBook PROVE row' = row
  BY <1>7 DEF PollList, PollBook, rowVars
<1> QED
  BY <1>1, <1>2, <1>3, <1>4, <1>5, <1>6, <1>7 DEF Next, Step

-----------------------------------------------------------------------------
(* The invariant of a live order's row: types, and at a steady broker what   *)
(* the worker, the cancel endpoint and the fill poll may rely on between two *)
(* of their statements (live.go, webhooks/handler.go, fillpoll/job.go).      *)
THEOREM LifecycleInvariance == Spec => []LifecycleInv
<1>1. Init => LifecycleInv
  BY TradeConstantsOK DEF Init, LifecycleInv, SteadyInv, StatusTypes, Answered, WorkerOK, LinkOK, CancelOK, BookOK,
     FinalMatchesBroker, Final, Closed, States
<1>2. LifecycleInv /\ [Next]_vars => LifecycleInv'
  <2> SUFFICES ASSUME LifecycleInv, [Next]_vars PROVE LifecycleInv'
    OBVIOUS
  <2>1. CASE Next
    <3>1. StatusTypes' /\ Answered'
      BY <2>1, OrderTypes DEF LifecycleInv
    <3>2. Steady' => Steady
      BY <2>1 DEF Next, Steady
    <3> QED
      BY <2>1, <3>1, <3>2, SteadySteps DEF LifecycleInv
  <2>2. CASE UNCHANGED vars
    BY <2>2 DEF vars, workerVars, brokerVars, rowVars, cancelVars, pollVars, reportVars, LifecycleInv, SteadyInv, Steady,
       StatusTypes, Answered, WorkerOK, LinkOK, CancelOK, BookOK, FinalMatchesBroker
  <2> QED
    BY <2>1, <2>2
<1> QED
  BY <1>1, <1>2, PTL DEF Spec

(* At a broker that cancels at once and keeps its orders, a final row tells  *)
(* what became of its order, whichever of worker, cancel and poll wrote it   *)
(* (webhooks/handler.go CancelTrade, fillpoll/job.go).                       *)
THEOREM FinalRowsTellTheOrder == Spec => []FinalMatchesBroker
<1>1. LifecycleInv => FinalMatchesBroker
  BY DEF LifecycleInv, SteadyInv, FinalMatchesBroker
<1> QED
  BY <1>1, LifecycleInvariance, PTL

(* At such a broker the row goes through the documented life of a trade and  *)
(* a final status stays, although two of its writers do not look at it       *)
(* (docs/diagrams/execution-flows.md).                                       *)
THEOREM RowsKeepTradeStatus == Spec => KeepsTradeStatus
<1> DEFINE status == IF Steady THEN row ELSE [t \in Trades |-> "queued"]
<1>1. Init => StatusSpec!Init
  BY DEF Init, StatusSpec!Init
<1>2. LifecycleInv /\ [Next]_vars => [StatusSpec!Next]_status
  <2> SUFFICES ASSUME LifecycleInv, [Next]_vars, status' # status PROVE StatusSpec!Next
    OBVIOUS
  <2>1. Next /\ world' = world
    BY DEF vars, rowVars, Next, Steady
  <2>2. Steady /\ Steady'
    BY <2>1 DEF Steady
  <2>3. PICK t \in Trades, s \in StatusSpec!Statuses :
           row' = [row EXCEPT ![t] = s] /\ <<row[t], s>> \in StatusSpec!Follows
    BY <2>1, <2>2, SteadyRowsFollow
  <2> QED
    BY <2>2, <2>3 DEF StatusSpec!Next, StatusSpec!Change
<1> QED
  BY <1>1, <1>2, LifecycleInvariance, PTL DEF Spec, KeepsTradeStatus, StatusSpec!Spec

-----------------------------------------------------------------------------
(* Paper accounts: types. *)

LEMMA FillTypes ==
    ASSUME PaperTypeOK, NEW s \in Symbols, NEW side \in {"BUY", "SELL", "CLOSE"}, NEW n \in Nat, NEW p \in Int,
           ComputeFill(s, side, n, p).filled
    PROVE  /\ ComputeFill(s, side, n, p).position \in PositionRows
           /\ ComputeFill(s, side, n, p).realized \in Int
           /\ ComputeFill(s, side, n, p).fee \in Int
           /\ ComputeFill(s, side, n, p).cash \in Int
<1> DEFINE held == positions[s]
           d == Delta(side, n, held.qty)
           price == p + Slip * Sign(d)
           qty == held.qty + d
           avg == NewAvg(held.qty, held.avg, d, price)
<1>1. held \in PositionRows /\ held.id \in Int /\ held.qty \in Int /\ held.avg \in Int
  BY DEF PaperTypeOK, PositionRows
<1>2. d \in Int
  BY <1>1 DEF Delta
<1> HIDE DEF d, held
<1>3. Slip \in Int /\ Fee \in Int /\ Sign(d) \in {-1, 0, 1} /\ Abs(d) \in Int /\ Abs(held.qty) \in Int
  BY <1>1, <1>2, PaperConstantsOK DEF Sign, Abs
<1>4. price \in Int /\ qty \in Int
  BY <1>1, <1>2, <1>3
<1> HIDE DEF price
<1>5. avg \in Int
  <2>1. held.avg * Abs(held.qty) + price * Abs(d) \in Int
    BY <1>1, <1>3, <1>4
  <2>2. qty # 0 => Abs(qty) \in Int /\ Abs(qty) > 0
    BY <1>4 DEF Abs
  <2>3. qty # 0 => (held.avg * Abs(held.qty) + price * Abs(d)) \div Abs(qty) \in Int
    <3> DEFINE x == held.avg * Abs(held.qty) + price * Abs(d)
               y == Abs(qty)
    <3>1. x \in Int /\ (qty # 0 => y \in Int /\ y > 0)
      BY <2>1, <2>2
    <3> HIDE DEF x, y
    <3>2. qty # 0 => x \div y \in Int
      BY <3>1
    <3> QED
      BY <3>2 DEF x, y
  <2> QED
    BY <1>1, <1>4, <2>3 DEF NewAvg
<1> HIDE DEF avg, qty
<1>6. Realized(held.qty, held.avg, d, price) \in Int
  <2>1. Sign(held.qty) \in Int
    BY <1>1 DEF Sign
  <2>2. (price - held.avg) * Sign(held.qty) \in Int
    BY <1>1, <1>4, <2>1
  <2> DEFINE x == (price - held.avg) * Sign(held.qty)
  <2>3. x * Abs(d) \in Int /\ x * Abs(held.qty) \in Int
    <3> HIDE DEF x
    <3>1. x \in Int
      BY <2>2 DEF x
    <3> QED
      BY <3>1, <1>3
  <2> QED
    BY <2>3 DEF Realized
<1>7. UnrealizedPnL(qty, avg, price) \in Int
  BY <1>4, <1>5 DEF UnrealizedPnL
<1>8. Fee * Abs(d) \in Int /\ d * price \in Int
  BY <1>2, <1>3, <1>4
<1>9. (IF held.id = 0 THEN epoch ELSE held.id) \in Int
  BY <1>1 DEF PaperTypeOK
<1>10. ComputeFill(s, side, n, p) =
         [filled   |-> ValidPrice(p) /\ d # 0,
          position |-> [id |-> IF held.id = 0 THEN epoch ELSE held.id, qty |-> qty, avg |-> avg,
                        last |-> price, upnl |-> UnrealizedPnL(qty, avg, price)],
          realized |-> Realized(held.qty, held.avg, d, price),
          fee      |-> Fee * Abs(d),
          cash     |-> -(d * price) - Fee * Abs(d)]
  BY DEF ComputeFill, held, d, price, qty, avg
<1>11. -(d * price) - Fee * Abs(d) \in Int
  <2> DEFINE x == d * price
             y == Fee * Abs(d)
  <2>1. x \in Int /\ y \in Int
    BY <1>8
  <2> HIDE DEF x, y
  <2>2. -x - y \in Int
    BY <2>1
  <2> QED
    BY <2>2 DEF x, y
<1> QED
  BY <1>4, <1>5, <1>6, <1>7, <1>8, <1>9, <1>10, <1>11 DEF PositionRows

\* What a fill leaves, of whatever side and size.
LEMMA FillLeaves ==
    ASSUME PaperTypeOK, NEW s \in Symbols, NEW side \in {"BUY", "SELL", "CLOSE"}, NEW n \in Nat, NEW p \in Int,
           Fill(s, side, n, p)
    PROVE  /\ account' \in Accounts /\ account'.start = account.start
           /\ positions' \in [Symbols -> PositionRows]
           /\ trades' \in [realized : Int, fees : Int]
           /\ orders' = orders + 1 /\ stale' \subseteq Symbols
<1> DEFINE fill == ComputeFill(s, side, n, p)
<1>1. CASE fill.filled
  <2>1. fill.position \in PositionRows /\ fill.realized \in Int /\ fill.fee \in Int /\ fill.cash \in Int
    BY <1>1, FillTypes
  <2> HIDE DEF fill
  <2>2. /\ orders' = orders + 1
        /\ positions' = [positions EXCEPT ![s] = fill.position]
        /\ trades' = [realized |-> trades.realized + fill.realized, fees |-> trades.fees + fill.fee]
        /\ account' = [account EXCEPT !.cash = @ + fill.cash]
        /\ stale' = stale \ {s}
    BY <1>1 DEF fill, Fill
  <2> QED
    BY <2>1, <2>2 DEF PaperTypeOK, Accounts
<1>2. CASE ~fill.filled
  BY <1>2 DEF Fill, PaperTypeOK
<1> QED
  BY <1>1, <1>2

LEMMA JobTypes ==
    /\ Idle \in Acts
    /\ \A job \in AllJobs \cup {"none"}, step \in Steps : Job(job, step) \in Acts
    /\ \A job \in AllJobs \cup {"none"}, step \in Steps, left \in SUBSET Symbols, read \in [Symbols -> PositionRows] :
          Over(job, step, left, read) \in Acts
<1>1. [s \in Symbols |-> NoRow] \in [Symbols -> PositionRows]
  BY DEF NoRow, PositionRows
<1>2. Idle \in Acts
  BY <1>1 DEF Idle, Acts, Accounts, Steps
<1> QED
  BY <1>2 DEF Job, Over, Acts

LEMMA GotoTypes ==
    ASSUME PaperTypeOK, NEW a \in Actors, NEW rec \in Acts, Goto(a, rec)
    PROVE  act' \in [Actors -> Acts]
  BY DEF PaperTypeOK, Goto, Acts

LEMMA GotoIs ==
    ASSUME PaperTypeOK, NEW a \in Actors, NEW rec, Goto(a, rec)
    PROVE  act'[a] = rec
  BY DEF PaperTypeOK, Goto

LEMMA JobFields ==
    /\ Idle.step = "idle"
    /\ \A job, step : Job(job, step).step = step /\ Job(job, step).job = job
    /\ \A job, step, left, read : Over(job, step, left, read).step = step
<1>1. Idle.step = "idle" /\ "step" \in DOMAIN Idle /\ "job" \in DOMAIN Idle
  BY DEF Idle
<1>2. ASSUME NEW job, NEW step
      PROVE  Job(job, step).step = step /\ Job(job, step).job = job /\ DOMAIN Job(job, step) = DOMAIN Idle
  <2>1. Job(job, step) = [[Idle EXCEPT !.job = job] EXCEPT !.step = step]
    BY DEF Job
  <2> HIDE DEF Idle
  <2> QED
    BY <1>1, <2>1
<1>3. ASSUME NEW job, NEW step, NEW left, NEW read PROVE Over(job, step, left, read).step = step
  BY <1>1, <1>2 DEF Over
<1> QED
  BY <1>1, <1>2, <1>3

LEMMA ReadTypes ==
    ASSUME PaperTypeOK, NEW a \in Actors,
           \/ ReadStatus(a) \/ CheckQuota(a) \/ ReadToClose(a) \/ ReadToSquareOff(a)
           \/ ReadToSweep(a) \/ ReadForSignal(a) \/ ReadAccount(a)
    PROVE  PaperTypeOK'
<1> USE PaperConstantsOK
<1>1. jobs' \in Nat
  BY DEF PaperTypeOK, ReadStatus, CheckQuota, ReadToClose, ReadToSquareOff, ReadToSweep, ReadForSignal, ReadAccount, Begin
<1>2. act' \in [Actors -> Acts]
  <2>1. \A job \in AllJobs \cup {"none"}, step \in Steps : Goto(a, Job(job, step)) => act' \in [Actors -> Acts]
    BY JobTypes, GotoTypes
  <2>2. \A job \in AllJobs \cup {"none"}, step \in Steps, left \in SUBSET Symbols :
            Goto(a, Over(job, step, left, positions)) => act' \in [Actors -> Acts]
    BY JobTypes, GotoTypes DEF PaperTypeOK
  <2>3. UNCHANGED act \/ Goto(a, Idle) => act' \in [Actors -> Acts]
    BY JobTypes, GotoTypes DEF PaperTypeOK
  <2>4. Goto(a, [Job("edit", "write") EXCEPT !.row = account]) => act' \in [Actors -> Acts]
    <3>1. Job("edit", "write") \in Acts
      BY JobTypes DEF AllJobs, Steps
    <3>2. [Job("edit", "write") EXCEPT !.row = account] \in Acts
      BY <3>1 DEF PaperTypeOK, Acts
    <3> QED
      BY <3>2, GotoTypes
  <2>5. OpenSymbols \in SUBSET Symbols /\ \A s \in OpenSymbols : {s} \in SUBSET Symbols
    BY DEF OpenSymbols
  <2>6. CASE ReadStatus(a)
    BY <2>1, <2>3, <2>6 DEF ReadStatus, AllJobs, Steps
  <2>7. CASE CheckQuota(a)
    BY <2>1, <2>3, <2>7 DEF CheckQuota, Finish, AllJobs, Steps
  <2>8. CASE ReadToClose(a)
    BY <2>2, <2>5, <2>8 DEF ReadToClose, AllJobs, Steps
  <2>9. CASE ReadToSquareOff(a)
    BY <2>2, <2>5, <2>9 DEF ReadToSquareOff, AllJobs, Steps
  <2>10. CASE ReadToSweep(a)
    BY <2>2, <2>5, <2>10 DEF ReadToSweep, AllJobs, Steps
  <2>11. CASE ReadForSignal(a)
    BY <2>2, <2>5, <2>11 DEF ReadForSignal, AllJobs, Steps
  <2>12. CASE ReadAccount(a)
    BY <2>4, <2>12 DEF ReadAccount
  <2> QED
    BY <2>6, <2>7, <2>8, <2>9, <2>10, <2>11, <2>12
<1>3. UNCHANGED <<rows, placed, lost, stale>>
  BY DEF ReadStatus, CheckQuota, ReadToClose, ReadToSquareOff, ReadToSweep, ReadForSignal, ReadAccount
<1>4. uncounted' \in Nat
  <2>1. uncounted' \in {uncounted, uncounted + 1}
    BY DEF ReadStatus, CheckQuota, ReadToClose, ReadToSquareOff, ReadToSweep, ReadForSignal, ReadAccount
  <2> QED
    BY <2>1 DEF PaperTypeOK
<1> QED
  BY <1>1, <1>2, <1>3, <1>4 DEF PaperTypeOK, rows

LEMMA WriteTypes ==
    ASSUME PaperTypeOK, NEW a \in Actors, FillOrder(a) \/ Flatten(a) \/ Mark(a)
    PROVE  PaperTypeOK'
<1> USE PaperConstantsOK
<1>0. act[a] \in Acts
  BY DEF PaperTypeOK
<1>1. CASE FillOrder(a)
  <2>1. PICK s \in Symbols, side \in {"BUY", "SELL", "CLOSE"}, n \in Lots, p \in Prices : Fill(s, side, n, p)
    BY <1>1 DEF FillOrder
  <2>2. n \in Nat /\ p \in Int
    OBVIOUS
  <2>3. /\ account' \in Accounts /\ positions' \in [Symbols -> PositionRows]
        /\ trades' \in [realized : Int, fees : Int] /\ orders' = orders + 1 /\ stale' \subseteq Symbols
    BY <2>1, <2>2, FillLeaves
  <2>4. act' \in [Actors -> Acts]
    BY <1>1, JobTypes, GotoTypes DEF FillOrder, AllJobs, Steps
  <2> QED
    BY <1>1, <2>3, <2>4 DEF FillOrder, PaperTypeOK
<1>2. CASE Flatten(a)
  <2>1. PICK s \in act[a].todo :
           \/ Fill(s, "CLOSE", 0, act[a].rows[s].last) /\ Filled(a, s)
           \/ GoOn(a, act[a].todo \ {s}) /\ UNCHANGED <<account, positions, trades, orders, stale>>
    BY <1>2 DEF Flatten
  <2>2. s \in Symbols /\ act[a].rows[s].last \in Int /\ act[a].todo \ {s} \in SUBSET Symbols
    BY <1>0 DEF Acts, PositionRows
  <2>3. ASSUME Fill(s, "CLOSE", 0, act[a].rows[s].last)
        PROVE  /\ account' \in Accounts /\ positions' \in [Symbols -> PositionRows]
               /\ trades' \in [realized : Int, fees : Int] /\ orders' = orders + 1 /\ stale' \subseteq Symbols
    BY <2>2, <2>3, FillLeaves
  <2>4. ASSUME Filled(a, s) PROVE act' \in [Actors -> Acts]
    BY <2>4, <1>0, <2>2 DEF Filled, PaperTypeOK, Acts, Steps
  <2>5. ASSUME GoOn(a, act[a].todo \ {s}) PROVE act' \in [Actors -> Acts]
    BY <2>5, <1>0, <2>2, JobTypes, GotoTypes DEF GoOn, Finish, Acts, Steps
  <2> QED
    BY <1>2, <2>1, <2>3, <2>4, <2>5 DEF Flatten, PaperTypeOK
<1>3. CASE Mark(a)
  <2>1. PICK s \in act[a].todo, p \in Prices, quoted \in BOOLEAN :
          LET held == act[a].rows[s]
              here == quoted /\ positions[s].id = held.id
          IN  /\ positions' = IF here
                              THEN [positions EXCEPT ![s].last = p,
                                        ![s].upnl = UnrealizedPnL(held.qty, held.avg, p)]
                              ELSE positions
              /\ stale' = IF ~here THEN stale
                          ELSE IF <<held.qty, held.avg>> = <<positions[s].qty, positions[s].avg>>
                          THEN stale \ {s} ELSE stale \cup {s}
              /\ Marked(a, s)
    BY <1>3 DEF Mark
  <2>2. s \in Symbols /\ act[a].rows[s] \in PositionRows /\ p \in Int
    BY <1>0 DEF Acts
  <2>3. UnrealizedPnL(act[a].rows[s].qty, act[a].rows[s].avg, p) \in Int
    BY <2>2 DEF UnrealizedPnL, PositionRows
  <2>4. positions' \in [Symbols -> PositionRows]
    BY <2>1, <2>2, <2>3 DEF PaperTypeOK, PositionRows
  <2>5. stale' \subseteq Symbols
    BY <2>1, <2>2 DEF PaperTypeOK
  <2>6. act' \in [Actors -> Acts]
    <3>1. Marked(a, s)
      BY <2>1
    <3>2. act[a].todo \ {s} \in SUBSET Symbols
      BY <1>0 DEF Acts
    <3>3. CASE act' = [act EXCEPT ![a].todo = act[a].todo \ {s}]
      BY <1>0, <3>2, <3>3 DEF PaperTypeOK, Acts
    <3>4. CASE act' = [act EXCEPT ![a].step = "equity", ![a].todo = {}]
      BY <1>0, <3>4 DEF PaperTypeOK, Acts, Steps
    <3>5. CASE Finish(a)
      BY <3>5, JobTypes, GotoTypes DEF Finish
    <3> QED
      BY <3>1, <3>3, <3>4, <3>5 DEF Marked
  <2> QED
    BY <1>3, <2>4, <2>5, <2>6 DEF Mark, PaperTypeOK
<1> QED
  BY <1>1, <1>2, <1>3

LEMMA EquityTypes ==
    ASSUME PaperTypeOK, NEW a \in Actors, ReadStart(a) \/ ReadResults(a) \/ SumUp(a)
    PROVE  PaperTypeOK'
<1>0. act[a] \in Acts
  BY DEF PaperTypeOK
<1>1. ASSUME GoOn(a, act[a].todo) PROVE act' \in [Actors -> Acts]
  BY <1>0, <1>1, JobTypes, GotoTypes DEF GoOn, Finish, Acts, Steps
<1>2. act' \in [Actors -> Acts]
  <2>1. account.start \in Int /\ trades.realized - trades.fees \in Int
    BY DEF PaperTypeOK, Accounts
  <2>2. CASE ReadStart(a)
    BY <1>1, <2>1, <2>2 DEF ReadStart, PaperTypeOK, Acts, Steps
  <2>3. CASE ReadResults(a)
    BY <2>1, <2>3 DEF ReadResults, PaperTypeOK, Acts, Steps
  <2>4. CASE SumUp(a)
    BY <1>1, <2>4 DEF SumUp
  <2> QED
    BY <2>2, <2>3, <2>4
<1>3. UNCHANGED <<rows, jobs, placed, uncounted, lost, stale>>
  BY DEF ReadStart, ReadResults, SumUp
<1> QED
  BY <1>2, <1>3 DEF PaperTypeOK, rows

LEMMA OwnerTypes ==
    ASSUME PaperTypeOK, NEW a \in Actors, WriteAccount(a) \/ Reset(a) \/ SetStatus(a)
    PROVE  PaperTypeOK'
<1> USE PaperConstantsOK
<1>1. CASE WriteAccount(a)
  <2>1. act[a].row \in Accounts
    BY DEF PaperTypeOK, Acts
  <2>2. account' \in Accounts
    <3>1. \A b \in Balances : b \in Int
      OBVIOUS
    <3>2. account \in Accounts
      BY DEF PaperTypeOK
    <3>3. CASE account' = [account EXCEPT !.start = act[a].row.start, !.cash = act[a].row.cash]
      BY <2>1, <3>2, <3>3 DEF Accounts
    <3>4. CASE \E b \in Balances : account' = [account EXCEPT !.start = b, !.cash = b]
      BY <3>1, <3>2, <3>4 DEF Accounts
    <3> QED
      BY <1>1, <3>3, <3>4 DEF WriteAccount
  <2>3. act' \in [Actors -> Acts]
    BY <1>1, JobTypes, GotoTypes DEF WriteAccount, Finish
  <2>4. lost' \in BOOLEAN
    BY <1>1 DEF WriteAccount
  <2> QED
    BY <1>1, <2>2, <2>3, <2>4 DEF WriteAccount, PaperTypeOK
<1>2. CASE Reset(a)
  <2>1. PICK b \in Balances : account' = [account EXCEPT !.start = b, !.cash = b]
    BY <1>2 DEF Reset
  <2>2. account' \in Accounts
    <3>1. b \in Int /\ account \in Accounts
      BY DEF PaperTypeOK
    <3> QED
      BY <2>1, <3>1 DEF Accounts
  <2>3. /\ positions' = [s \in Symbols |-> NoRow] /\ trades' = [realized |-> 0, fees |-> 0]
        /\ orders' = 0 /\ placed' = placed /\ uncounted' = uncounted /\ lost' = FALSE /\ stale' = {} /\ act' = act
        /\ epoch' = epoch + 1 /\ jobs' = jobs + 1
    BY <1>2, Zenon DEF Reset, Begin
  <2>4. positions' \in [Symbols -> PositionRows]
    BY <2>3 DEF NoRow, PositionRows
  <2>5. /\ trades' \in [realized : Int, fees : Int] /\ orders' \in Nat /\ placed' \in Nat /\ uncounted' \in Nat
        /\ jobs' \in Nat /\ epoch' \in Nat \ {0} /\ lost' \in BOOLEAN /\ stale' \subseteq Symbols
    <3>1. orders \in Nat /\ placed \in Nat /\ uncounted \in Nat /\ jobs \in Nat /\ epoch \in Nat \ {0}
      BY DEF PaperTypeOK
    <3>2. orders' \in Nat /\ placed' \in Nat /\ uncounted' \in Nat /\ jobs' \in Nat /\ epoch' \in Nat \ {0}
      BY <2>3, <3>1
    <3>3. trades' \in [realized : Int, fees : Int]
      BY <2>3
    <3>4. lost' \in BOOLEAN
      BY <2>3, Zenon
    <3>5. stale' \subseteq Symbols
      BY <2>3, Zenon
    <3> QED
      BY <3>2, <3>3, <3>4, <3>5
  <2>6. act' \in [Actors -> Acts]
    BY <2>3 DEF PaperTypeOK
  <2> QED
    BY <2>2, <2>4, <2>5, <2>6 DEF PaperTypeOK
<1>3. CASE SetStatus(a)
  <2>1. account' \in Accounts
    BY <1>3 DEF SetStatus, PaperTypeOK, Accounts
  <2>2. jobs' \in Nat
    BY <1>3 DEF SetStatus, Begin, PaperTypeOK
  <2> QED
    BY <1>3, <2>1, <2>2 DEF SetStatus, PaperTypeOK
<1> QED
  BY <1>1, <1>2, <1>3

LEMMA PaperTypesHold ==
    ASSUME PaperTypeOK, [PaperNext]_paperVars
    PROVE  PaperTypeOK'
<1>1. CASE PaperStep
  BY <1>1, ReadTypes, WriteTypes, EquityTypes, OwnerTypes DEF PaperStep
<1>2. CASE UNCHANGED paperVars
  BY <1>2 DEF paperVars, rows, PaperTypeOK
<1> QED
  BY <1>1, <1>2 DEF PaperNext

-----------------------------------------------------------------------------
(* Paper accounts: who moves, and where to.                                   *)

Runs(a) ==
    \/ ReadStatus(a) \/ CheckQuota(a) \/ FillOrder(a)
    \/ ReadToClose(a) \/ ReadToSquareOff(a) \/ Flatten(a)
    \/ ReadToSweep(a) \/ ReadForSignal(a) \/ Mark(a)
    \/ ReadStart(a) \/ ReadResults(a) \/ SumUp(a)
    \/ ReadAccount(a) \/ WriteAccount(a)
    \/ Reset(a) \/ SetStatus(a)

\* Steps at which an actor is neither past the quota nor reading an equity.
Plain == {"idle", "quota", "flatten", "mark", "equity", "write"}

LEMMA Moves ==
    ASSUME PaperTypeOK, NEW a \in Actors, Runs(a)
    PROVE  /\ \A b \in Actors : b # a => act'[b] = act[b]
           /\ \/ act'[a] = act[a]
              \/ act'[a].step \in Plain
              \/ CheckQuota(a)
              \/ ReadStart(a) /\ act'[a].step = "results" /\ act'[a].start = account.start
              \/ /\ ReadResults(a) /\ act'[a].step = "marks"
                 /\ act'[a].start = act[a].start /\ act'[a].result = trades.realized - trades.fees
<1>1. act[a] \in Acts /\ act \in [Actors -> Acts]
  BY DEF PaperTypeOK
<1>2. \A b \in Actors : b # a => act'[b] = act[b]
  BY <1>1 DEF Runs, ReadStatus, CheckQuota, FillOrder, ReadToClose, ReadToSquareOff, Flatten, ReadToSweep,
     ReadForSignal, Mark, Marked, ReadStart, ReadResults, SumUp, ReadAccount, WriteAccount, Reset, SetStatus, Goto,
     Finish, GoOn, Filled
<1>3. Finish(a) => act'[a].step \in Plain
  BY JobFields, GotoIs DEF Finish, Plain
<1>4. \A left : GoOn(a, left) => act'[a].step \in Plain
  BY JobFields, GotoIs, <1>3 DEF GoOn, Plain
<1>5. CASE ReadStatus(a) \/ FillOrder(a)
  BY <1>2, <1>5, JobFields, GotoIs DEF ReadStatus, FillOrder, Plain
<1>6. CASE WriteAccount(a) \/ SetStatus(a) \/ Reset(a)
  BY <1>2, <1>3, <1>6 DEF WriteAccount, SetStatus, Reset
<1>7. CASE ReadToClose(a) \/ ReadToSquareOff(a) \/ ReadToSweep(a) \/ ReadForSignal(a)
  <2>1. ASSUME NEW job, NEW step, NEW left, Goto(a, Over(job, step, left, positions))
        PROVE  act'[a].step = step
    BY <2>1, JobFields, GotoIs
  <2> QED
    BY <1>2, <1>7, <2>1 DEF ReadToClose, ReadToSquareOff, ReadToSweep, ReadForSignal, Plain
<1>8. CASE ReadAccount(a)
  <2>1. act'[a] = [Job("edit", "write") EXCEPT !.row = account]
    BY <1>8, GotoIs DEF ReadAccount
  <2>2. Job("edit", "write") \in Acts
    BY JobTypes DEF AllJobs, Steps
  <2>3. act'[a].step = Job("edit", "write").step
    BY <2>1, <2>2 DEF Acts
  <2> QED
    BY <1>2, <2>3, JobFields DEF Plain
<1>9. CASE Flatten(a)
  <2>1. \A s : Filled(a, s) => act'[a].step = "equity"
    BY <1>1 DEF Filled, Acts
  <2> QED
    BY <1>2, <1>4, <1>9, <2>1 DEF Flatten, Plain
<1>10. CASE Mark(a)
  <2>1. PICK s : Marked(a, s)
    BY <1>10 DEF Mark
  <2>2. act[a].step = "mark"
    BY <1>10 DEF Mark
  <2>3. Finish(a) \/ act'[a].step \in {"mark", "equity"}
    BY <1>1, <2>1, <2>2 DEF Marked, Acts
  <2> QED
    BY <1>2, <1>3, <2>3 DEF Plain
<1>11. CASE ReadStart(a)
  <2>1. CASE GoOn(a, act[a].todo)
    BY <1>2, <1>4, <2>1
  <2>2. CASE act' = [act EXCEPT ![a].start = account.start, ![a].step = "results"]
    <3>1. act'[a].start = account.start /\ act'[a].step = "results"
      BY <1>1, <2>2 DEF Acts
    <3> QED
      BY <1>2, <1>11, <3>1
  <2> QED
    BY <1>11, <2>1, <2>2 DEF ReadStart
<1>12. CASE ReadResults(a)
  <2>1. /\ act'[a].step = "marks"
        /\ act'[a].start = act[a].start /\ act'[a].result = trades.realized - trades.fees
    BY <1>1, <1>12 DEF ReadResults, Acts
  <2> QED
    BY <1>2, <1>12, <2>1
<1>13. CASE SumUp(a)
  BY <1>2, <1>4, <1>13 DEF SumUp
<1> QED
  BY <1>2, <1>5, <1>6, <1>7, <1>8, <1>9, <1>10, <1>11, <1>12, <1>13 DEF Runs

\* An actor that is about to close only closes.
LEMMA OnlyFlattenLeaves ==
    ASSUME PaperTypeOK, PaperStep, NEW a \in Actors, act[a].step = "flatten", act'[a] # act[a]
    PROVE  Flatten(a)
<1>1. PICK b \in Actors : Runs(b)
  BY DEF PaperStep, Runs
<1>2. b = a
  BY <1>1, Moves
<1> QED
  BY <1>1, <1>2 DEF Runs, ReadStatus, CheckQuota, FillOrder, ReadToClose, ReadToSquareOff, ReadToSweep, ReadForSignal,
     Mark, ReadStart, ReadResults, SumUp, ReadAccount, WriteAccount, Reset, SetStatus, Begin, At

-----------------------------------------------------------------------------
(* Paper accounts: closes.                                                    *)

\* A fill that closes leaves nothing of the position it touched, and touches no other.
LEMMA CloseFlattens ==
    ASSUME PaperTypeOK, NEW s \in Symbols, NEW p \in Int, Fill(s, "CLOSE", 0, p),
           NEW t \in Symbols, positions'[t] # positions[t]
    PROVE  positions'[t].qty = 0
<1> DEFINE fill == ComputeFill(s, "CLOSE", 0, p)
<1>1. fill.filled
  BY DEF Fill
<1>2. positions' = [positions EXCEPT ![s] = fill.position]
  BY <1>1 DEF Fill
<1>3. t = s /\ positions'[t] = fill.position
  BY <1>2 DEF PaperTypeOK
<1>4. positions[s].qty \in Int
  BY DEF PaperTypeOK, PositionRows
<1>5. fill.position.qty = positions[s].qty + (-positions[s].qty)
  BY DEF ComputeFill, Delta
<1> QED
  BY <1>3, <1>4, <1>5

-----------------------------------------------------------------------------
(* Paper accounts: the month's quota.                                         *)

\* The workers that have passed the quota and not filled yet.
Filling == {a \in Actors : At(a, "order", "fill")}

\* Until a reset the orders on record are at least the month's fills, and the fills
\* with those still to come overshoot the quota by one per further worker and by the
\* orders that could not be counted.
QuotaInv ==
    /\ epoch = 1 => placed <= orders
    /\ epoch = 1 /\ Quota # 0 =>
          placed + Cardinality(Filling) <= Quota + Cardinality(Actors) - 1 + uncounted

LEMMA FillingFinite ==
    /\ IsFiniteSet(Filling) /\ Cardinality(Filling) \in Nat /\ Cardinality(Filling) <= Cardinality(Actors)
    /\ Cardinality(Actors) \in Nat /\ Cardinality(Actors) > 0
<1>1. Filling \subseteq Actors
  BY DEF Filling
<1> QED
  BY <1>1, PaperConstantsOK, FS_Subset, FS_CardinalityType, FS_EmptySet

LEMMA FillingFiniteNext ==
    /\ Cardinality(Filling') \in Nat /\ Cardinality(Filling') <= Cardinality(Actors)
<1>1. Filling' \subseteq Actors
  BY DEF Filling
<1> QED
  BY <1>1, PaperConstantsOK, FS_Subset, FS_CardinalityType

LEMMA QuotaHolds ==
    ASSUME PaperTypeOK, PaperTypeOK', QuotaInv, PaperStep
    PROVE  QuotaInv'
<1> USE DEF PaperTypeOK
<1> USE PaperConstantsOK
<1>1. PICK a \in Actors : Runs(a)
  BY DEF PaperStep, Runs
<1>2. CASE CheckQuota(a) /\ Quota # 0 /\ ~Finish(a)
  <2>1. UNCHANGED <<placed, orders, epoch>>
    BY <1>2 DEF CheckQuota, rows
  <2>2. CASE orders < Quota /\ uncounted' = uncounted
    BY <2>1, <2>2, FillingFinite, FillingFiniteNext DEF QuotaInv
  <2>3. CASE uncounted' = uncounted + 1
    <3>1. Goto(a, Job("order", "fill"))
      BY <1>2 DEF CheckQuota
    <3>2. \A b \in Actors : b # a => act'[b] = act[b]
      BY <3>1 DEF Goto
    <3>3. Filling' \subseteq Filling \cup {a}
      BY <3>2 DEF Filling, At
    <3>4. Cardinality(Filling') <= Cardinality(Filling) + 1
      <4>1. PICK S : S = Filling
        OBVIOUS
      <4>2. IsFiniteSet(S) /\ Cardinality(S) \in Nat
        BY <4>1, FillingFinite
      <4>3. IsFiniteSet(S \cup {a}) /\ Cardinality(S \cup {a}) \in {Cardinality(S), Cardinality(S) + 1}
        BY <4>2, FS_AddElement
      <4>4. Filling' \subseteq S \cup {a}
        BY <3>3, <4>1
      <4>5. Cardinality(Filling') <= Cardinality(S \cup {a})
        BY <4>3, <4>4, FS_Subset
      <4> QED
        BY <4>1, <4>2, <4>3, <4>5, FillingFiniteNext
    <3> QED
      BY <2>1, <2>3, <3>4, FillingFinite, FillingFiniteNext DEF QuotaInv
  <2> QED
    BY <1>2, <2>2, <2>3 DEF CheckQuota
<1>3. CASE FillOrder(a)
  <2>1. orders' = orders + 1 /\ epoch' = epoch /\ placed' \in {placed, placed + 1} /\ uncounted' = uncounted
    BY <1>3 DEF FillOrder, Fill
  <2>2. a \in Filling /\ Filling' = Filling \ {a}
    BY <1>3 DEF FillOrder, Goto, Job, Idle, At, Filling
  <2>3. Cardinality(Filling') = Cardinality(Filling) - 1
    BY <2>2, FillingFinite, FS_RemoveElement
  <2> QED
    BY <2>1, <2>3, FillingFinite DEF QuotaInv
<1>4. CASE Reset(a)
  <2>1. epoch' = epoch + 1
    BY <1>4 DEF Reset
  <2> QED
    BY <2>1 DEF QuotaInv
<1>5. CASE \/ ReadStatus(a) \/ (CheckQuota(a) /\ Finish(a))
           \/ ReadToClose(a) \/ ReadToSquareOff(a) \/ Flatten(a)
           \/ ReadToSweep(a) \/ ReadForSignal(a) \/ Mark(a)
           \/ ReadStart(a) \/ ReadResults(a) \/ SumUp(a)
           \/ ReadAccount(a) \/ WriteAccount(a) \/ SetStatus(a)
  <2>0. CheckQuota(a) => Finish(a)
    BY <1>5 DEF CheckQuota, ReadStatus, ReadToClose, ReadToSquareOff, Flatten, ReadToSweep, ReadForSignal, Mark,
       ReadStart, ReadResults, SumUp, ReadAccount, WriteAccount, SetStatus, Begin, At
  <2>1. epoch' = epoch /\ placed' = placed /\ orders' \in {orders, orders + 1} /\ uncounted' \in {uncounted, uncounted + 1}
    BY <1>5 DEF ReadStatus, CheckQuota, ReadToClose, ReadToSquareOff, Flatten, Fill, ReadToSweep, ReadForSignal, Mark,
       ReadStart, ReadResults, SumUp, ReadAccount, WriteAccount, SetStatus, rows
  <2>2. \A b \in Actors : b # a => act'[b] = act[b]
    BY <1>5, Moves DEF Runs
  <2>3. act'[a].step # "fill" \/ act'[a] = act[a]
    <3>1. CASE CheckQuota(a) /\ Finish(a)
      BY <3>1, JobFields, GotoIs DEF Finish
    <3>2. CASE ~CheckQuota(a)
      BY <1>1, <3>2, Moves DEF Plain
    <3> QED
      BY <2>0, <3>1, <3>2
  <2>4. Filling' \subseteq Filling
    BY <2>2, <2>3 DEF Filling, At
  <2>5. Cardinality(Filling') <= Cardinality(Filling)
    BY <2>4, FillingFinite, FS_Subset
  <2> QED
    BY <2>1, <2>5, FillingFinite, FillingFiniteNext DEF QuotaInv
<1>6. CASE CheckQuota(a) /\ Quota = 0 /\ ~Finish(a)
  BY <1>6 DEF CheckQuota, rows, QuotaInv
<1> QED
  BY <1>1, <1>2, <1>3, <1>4, <1>5, <1>6 DEF Runs

-----------------------------------------------------------------------------
(* Paper accounts: snapshots of the equity.                                   *)

Marks == SumFunction([s \in Symbols |-> positions[s].upnl])
Results == trades.realized - trades.fees

\* What an actor that is reading the three tables may rely on: the equity now is among
\* those seen; a table that has not changed still says what was read of it; and what
\* was read is an equity of before as long as only the account, or only the trades,
\* have changed.
Honest(a) ==
    LET changed == watch[a].changed
        seen == watch[a].seen
    IN  /\ Equity \in seen
        /\ "account" \notin changed => act[a].start = account.start
        /\ act[a].step = "marks" /\ "trades" \notin changed => act[a].result = Results
        /\ act[a].step = "results" /\ "trades" \notin changed /\ "positions" \notin changed =>
              act[a].start + Results + Marks \in seen
        /\ act[a].step = "marks" /\ "positions" \notin changed /\ ("trades" \notin changed \/ "account" \notin changed) =>
              act[a].start + act[a].result + Marks \in seen

SnapInv ==
    /\ SnapshotIsAnEquity
    /\ \A a \in Actors : Reading(act[a]) => watch[a].changed \subseteq {"account", "trades", "positions"} /\ Honest(a)

\* The equity in the order GetPaperAccountPnL adds it up.
LEMMA EquitySum ==
    ASSUME PaperTypeOK
    PROVE  Equity = account.start + Results + Marks
<1>1. account.start \in Int /\ trades.realized \in Int /\ trades.fees \in Int
  BY DEF PaperTypeOK, Accounts
<1>2. account.start + trades.realized - trades.fees = account.start + (trades.realized - trades.fees)
  BY <1>1
<1> QED
  BY <1>2 DEF Equity, Results, Marks

LEMMA TwoChanges ==
    ASSUME NEW S, S \subseteq {"account", "trades", "positions"}, NEW x \in S, NEW y \in S, x # y
    PROVE  Cardinality(S) > 1
<1>1. IsFiniteSet({"account", "trades", "positions"})
  <2>1. IsFiniteSet({"account"} \cup {"trades"})
    BY FS_Singleton, FS_AddElement
  <2>2. IsFiniteSet(({"account"} \cup {"trades"}) \cup {"positions"})
    BY <2>1, FS_AddElement
  <2>3. ({"account"} \cup {"trades"}) \cup {"positions"} = {"account", "trades", "positions"}
    OBVIOUS
  <2> QED
    BY <2>2, <2>3
<1>2. IsFiniteSet(S) /\ Cardinality(S) \in Nat
  BY <1>1, FS_Subset, FS_CardinalityType
<1>3. {x} \subseteq S /\ {x} # S /\ Cardinality({x}) = 1
  BY FS_Singleton
<1> QED
  BY <1>2, <1>3, FS_Subset, FS_Singleton

\* What is inserted is an equity of the time unless two tables have changed.
LEMMA SumIsSeen ==
    ASSUME PaperTypeOK, SnapInv, NEW a \in Actors, act[a].step = "marks"
    PROVE  Cardinality(watch[a].changed) > 1 \/ SummedEquity(a) \in watch[a].seen
<1> DEFINE changed == watch[a].changed
<1>1. changed \subseteq {"account", "trades", "positions"} /\ Honest(a)
  BY DEF SnapInv, Reading
<1>2. SummedEquity(a) = act[a].start + act[a].result + Marks
  BY DEF SummedEquity, Marks
<1>3. CASE "positions" \notin changed /\ ("trades" \notin changed \/ "account" \notin changed)
  BY <1>1, <1>2, <1>3 DEF Honest
<1>4. CASE "account" \notin changed /\ "trades" \notin changed
  BY <1>1, <1>2, <1>4, EquitySum DEF Honest
<1>5. CASE \/ {"positions", "trades"} \subseteq changed \/ {"positions", "account"} \subseteq changed
           \/ {"account", "trades"} \subseteq changed
  BY <1>1, <1>5, TwoChanges
<1> QED
  BY <1>3, <1>4, <1>5

\* A reader that does not move keeps what it may rely on, whatever the tables do.
LEMMA StandingHonest ==
    ASSUME PaperTypeOK, PaperTypeOK', Watched, NEW a \in Actors, Reading(act[a]), act'[a] = act[a],
           watch[a].changed \subseteq {"account", "trades", "positions"}, Honest(a)
    PROVE  watch'[a].changed \subseteq {"account", "trades", "positions"} /\ Honest(a)'
<1>1. watch'[a] = [seen |-> watch[a].seen \cup {Equity'}, changed |-> watch[a].changed \cup Changed]
  BY DEF Watched
<1>2. watch'[a].seen = watch[a].seen \cup {Equity'} /\ watch'[a].changed = watch[a].changed \cup Changed
  BY <1>1
<1>3. /\ "account" \notin Changed => account'.start = account.start
      /\ "trades" \notin Changed => Results' = Results
      /\ "positions" \notin Changed => Marks' = Marks
  BY DEF Changed, Results, Marks
<1>4. Changed \subseteq {"account", "trades", "positions"}
  BY DEF Changed
<1>5. Equity' = account'.start + Results' + Marks'
  <2>1. account'.start \in Int /\ trades'.realized \in Int /\ trades'.fees \in Int
    BY DEF PaperTypeOK, Accounts
  <2>2. account'.start + trades'.realized - trades'.fees = account'.start + (trades'.realized - trades'.fees)
    BY <2>1
  <2> QED
    BY <2>2 DEF Equity, Results, Marks
<1> QED
  BY <1>2, <1>3, <1>4, <1>5 DEF Honest

LEMMA SnapHolds ==
    ASSUME PaperTypeOK, PaperTypeOK', SnapInv, PaperNext
    PROVE  SnapInv'
<1>1. PICK a \in Actors : Runs(a)
  BY DEF PaperNext, PaperStep, Runs
<1>2. Watched
  BY DEF PaperNext
<1>3. SnapshotIsAnEquity'
  <2>1. CASE SumUp(a)
    <3>1. snapshot' = [exact |-> SummedEquity(a) \in watch[a].seen, torn |-> Cardinality(watch[a].changed) > 1]
      BY <2>1 DEF SumUp
    <3>2. Cardinality(watch[a].changed) > 1 \/ SummedEquity(a) \in watch[a].seen
      BY <2>1, SumIsSeen DEF SumUp
    <3>3. snapshot'.exact = (SummedEquity(a) \in watch[a].seen) /\ snapshot'.torn = (Cardinality(watch[a].changed) > 1)
      BY <3>1
    <3> QED
      BY <3>2, <3>3 DEF SnapshotIsAnEquity
  <2>2. CASE Reset(a)
    <3>1. snapshot' = NoSnapshot
      BY <2>2 DEF Reset
    <3> QED
      BY <3>1 DEF NoSnapshot, SnapshotIsAnEquity
  <2>3. CASE ~(SumUp(a) \/ Reset(a))
    <3>1. snapshot' = snapshot
      BY <1>1, <2>3 DEF Runs, ReadStatus, CheckQuota, FillOrder, ReadToClose, ReadToSquareOff, Flatten, ReadToSweep,
         ReadForSignal, Mark, ReadStart, ReadResults, ReadAccount, WriteAccount, SetStatus
    <3> QED
      BY <3>1 DEF SnapInv, SnapshotIsAnEquity
  <2> QED
    BY <2>1, <2>2, <2>3
<1>4. ASSUME NEW b \in Actors, Reading(act'[b])
      PROVE  watch'[b].changed \subseteq {"account", "trades", "positions"} /\ Honest(b)'
  <2>1. CASE act'[b] = act[b]
    BY <1>2, <1>4, <2>1, StandingHonest DEF SnapInv
  <2>2. CASE act'[b] # act[b]
    <3>1. b = a
      BY <1>1, <2>2, Moves
    <3>3. CASE ReadStart(a) /\ act'[a].step = "results" /\ act'[a].start = account.start
      <4>1. act[a].step = "equity" /\ UNCHANGED <<account, trades, positions>>
        BY <3>3 DEF ReadStart, rows
      <4>2. act'[a].start = account.start /\ act'[a].step = "results"
        BY <3>3
      <4>3. watch'[a] = [seen |-> {Equity}, changed |-> {}]
        BY <1>2, <4>1, <4>2 DEF Watched, Reading
      <4>4. Equity' = Equity /\ Results' = Results /\ Marks' = Marks
        BY <4>1 DEF Equity, Results, Marks
      <4>5. Honest(a)'
        BY <4>1, <4>2, <4>3, <4>4, EquitySum DEF Honest
      <4> QED
        BY <3>1, <4>3, <4>5
    <3>4. CASE /\ ReadResults(a) /\ act'[a].step = "marks"
               /\ act'[a].start = act[a].start /\ act'[a].result = trades.realized - trades.fees
      <4>1. act[a].step = "results" /\ UNCHANGED <<account, trades, positions>>
        BY <3>4 DEF ReadResults, rows
      <4>2. act'[a].start = act[a].start /\ act'[a].result = Results /\ act'[a].step = "marks"
        BY <3>4 DEF Results
      <4>3. /\ watch'[a].seen = watch[a].seen \cup {Equity'}
            /\ watch'[a].changed = watch[a].changed
        <5>1. watch'[a] = [seen |-> watch[a].seen \cup {Equity'}, changed |-> watch[a].changed \cup Changed]
          BY <1>2, <4>1, <4>2 DEF Watched, Reading
        <5>2. Changed = {}
          BY <4>1 DEF Changed
        <5> QED
          BY <5>1, <5>2
      <4>4. Equity' = Equity /\ Results' = Results /\ Marks' = Marks
        BY <4>1 DEF Equity, Results, Marks
      <4>5. Honest(a) /\ watch[a].changed \subseteq {"account", "trades", "positions"}
        BY <4>1 DEF SnapInv, Reading
      <4>6. Honest(a)'
        BY <4>1, <4>2, <4>3, <4>4, <4>5, EquitySum DEF Honest
      <4> QED
        BY <3>1, <4>3, <4>5, <4>6
    <3>5. CASE CheckQuota(a)
      <4>1. act'[a].step \in {"fill", "idle"}
        BY <3>5, GotoIs, JobFields DEF CheckQuota, Finish
      <4> QED
        BY <1>4, <3>1, <4>1 DEF Reading
    <3> QED
      BY <1>1, <1>4, <2>2, <3>1, <3>3, <3>4, <3>5, Moves DEF Reading, Plain
  <2> QED
    BY <2>1, <2>2
<1> QED
  BY <1>3, <1>4 DEF SnapInv

-----------------------------------------------------------------------------
(* Paper accounts: the theorems.                                              *)

PaperInv == PaperTypeOK /\ QuotaInv /\ SnapInv

(* What orders, closes, marks, snapshots, edits and resets of a paper account *)
(* may rely on between their transactions (queue/paper.go, paperengine,       *)
(* store/paper_fill.go, store/paper_pnl.go).                                  *)
THEOREM PaperInvariance == PaperSpec => []PaperInv
<1>1. PaperInit => PaperInv
  <2> SUFFICES ASSUME PaperInit PROVE PaperInv
    OBVIOUS
  <2>1. PaperTypeOK
    <3>1. account \in Accounts
      BY PaperConstantsOK DEF PaperInit, Accounts
    <3>2. positions \in [Symbols -> PositionRows]
      BY DEF PaperInit, NoRow, PositionRows
    <3>3. act \in [Actors -> Acts]
      BY JobTypes DEF PaperInit
    <3> QED
      <4>1. trades \in [realized : Int, fees : Int] /\ orders \in Nat /\ placed \in Nat /\ uncounted \in Nat
            /\ jobs \in Nat /\ epoch \in Nat \ {0}
        BY DEF PaperInit
      <4>2. lost \in BOOLEAN /\ stale \subseteq Symbols
        BY Zenon DEF PaperInit
      <4> QED
        BY <3>1, <3>2, <3>3, <4>1, <4>2 DEF PaperTypeOK
  <2>2. QuotaInv
    <3>1. Filling = {}
      BY JobFields DEF PaperInit, Filling, At
    <3> QED
      BY <3>1, FillingFinite, FS_EmptySet, PaperConstantsOK DEF PaperInit, QuotaInv
  <2>3. SnapInv
    BY JobFields DEF PaperInit, NoSnapshot, SnapInv, SnapshotIsAnEquity, Reading
  <2> QED
    BY <2>1, <2>2, <2>3 DEF PaperInv
<1>2. PaperInv /\ [PaperNext]_paperVars => PaperInv'
  <2> SUFFICES ASSUME PaperInv, [PaperNext]_paperVars PROVE PaperInv'
    OBVIOUS
  <2>1. PaperTypeOK /\ PaperTypeOK'
    BY PaperTypesHold DEF PaperInv
  <2>2. CASE PaperNext
    BY <2>1, <2>2, QuotaHolds, SnapHolds DEF PaperInv, PaperNext
  <2>3. CASE UNCHANGED paperVars
    <3>1. QuotaInv'
      BY <2>3 DEF PaperInv, QuotaInv, Filling, At, paperVars, rows
    <3>2. SnapInv'
      BY <2>3 DEF PaperInv, SnapInv, SnapshotIsAnEquity, Reading, Honest, Equity, Results, Marks, paperVars, rows
    <3> QED
      BY <2>1, <3>1, <3>2 DEF PaperInv
  <2> QED
    BY <2>2, <2>3
<1> QED
  BY <1>1, <1>2, PTL DEF PaperSpec

(* The month's quota is overshot by at most one order per further worker, for *)
(* every number of workers, and by the orders whose count failed              *)
(* (queue/paper_quota.go counts before the order is stored, and lets through  *)
(* what it cannot count).                                                     *)
THEOREM QuotaOvershootIsBounded == PaperSpec => []QuotaOvershoot
<1>1. PaperInv => QuotaOvershoot
  <2> SUFFICES ASSUME PaperInv, Quota # 0, epoch = 1
                PROVE  placed <= Quota + Cardinality(Actors) - 1 + uncounted
    BY DEF QuotaOvershoot
  <2> QED
    BY FillingFinite, PaperConstantsOK DEF PaperInv, QuotaInv, PaperTypeOK
<1> QED
  BY <1>1, PaperInvariance, PTL

(* A stored snapshot is an equity the account had while it was computed,      *)
(* unless two of the three tables changed between the reads                   *)
(* (store/paper_pnl.go reads them in statements of their own).                *)
THEOREM SnapshotsAreEquities == PaperSpec => []SnapshotIsAnEquity
<1>1. PaperInv => SnapshotIsAnEquity
  BY DEF PaperInv, SnapInv
<1> QED
  BY <1>1, PaperInvariance, PTL

(* A close or a square-off leaves what it touches flat, however old the row    *)
(* it was decided on (paperengine/close.go takes the quantity under the       *)
(* lock).                                                                     *)
THEOREM ClosesNeverOpen == PaperSpec => CloseNeverOpens
<1>1. PaperInv /\ [PaperNext]_paperVars =>
         [\A a \in Actors, s \in Symbols :
             act[a].step = "flatten" /\ act'[a] # act[a] /\ positions'[s] # positions[s] =>
                 positions'[s].qty = 0]_paperVars
  <2> SUFFICES ASSUME PaperInv, PaperStep, NEW a \in Actors, NEW s \in Symbols,
                      act[a].step = "flatten", act'[a] # act[a], positions'[s] # positions[s]
               PROVE  positions'[s].qty = 0
    BY DEF PaperNext
  <2>1. PaperTypeOK /\ Flatten(a)
    BY OnlyFlattenLeaves DEF PaperInv
  <2>2. PICK t \in act[a].todo : Fill(t, "CLOSE", 0, act[a].rows[t].last)
    BY <2>1 DEF Flatten
  <2>3. t \in Symbols /\ act[a].rows[t].last \in Int
    BY <2>1, <2>2 DEF PaperTypeOK, Acts, PositionRows
  <2> QED
    BY <2>1, <2>2, <2>3, CloseFlattens
<1> QED
  BY <1>1, PaperInvariance, PTL DEF PaperSpec, CloseNeverOpens

-----------------------------------------------------------------------------
(* Sums. What a sum over a finite set does when one of its terms changes is an *)
(* induction over the set, carried out by the smallest counterexample.         *)

LEMMA SmallestNumber ==
    ASSUME NEW T, T \subseteq Nat, T # {}
    PROVE  \E n \in T : \A m \in T : ~(m < n)
<1> DEFINE R == {ss \in Nat \X Nat : ss[1] < ss[2]}
<1>1. IsWellFoundedOn(R, Nat)
  BY NatLessThanWellFounded, Zenon DEF OpToRel
<1>2. \A m, n \in Nat : m < n => <<m, n>> \in R
  OBVIOUS
<1> HIDE DEF R
<1>3. PICK n \in T : \A m \in T : ~(<<m, n>> \in R)
  BY <1>1, WFMin, Zenon
<1> QED
  BY <1>2, <1>3

LEMMA SmallestSet ==
    ASSUME NEW S, IsFiniteSet(S), NEW W, W \subseteq SUBSET S, W # {}
    PROVE  \E w \in W : \A x \in w : w \ {x} \notin W
<1> DEFINE T == {Cardinality(v) : v \in W}
<1>1. \A v \in SUBSET S : IsFiniteSet(v) /\ Cardinality(v) \in Nat
  BY FS_Subset, FS_CardinalityType
<1>2. PICK n \in T : \A m \in T : ~(m < n)
  <2>1. T \subseteq Nat /\ T # {}
    BY <1>1
  <2> QED
    BY <2>1, SmallestNumber
<1>3. PICK w \in W : n = Cardinality(w)
  OBVIOUS
<1>4. ASSUME NEW x \in w, w \ {x} \in W PROVE FALSE
  <2>1. Cardinality(w \ {x}) = Cardinality(w) - 1
    BY <1>1, FS_RemoveElement
  <2>2. Cardinality(w \ {x}) \in T /\ Cardinality(w) \in Nat
    BY <1>1, <1>4
  <2> HIDE DEF T
  <2>3. ~(Cardinality(w) - 1 < Cardinality(w))
    BY <1>2, <1>3, <2>1, <2>2
  <2> QED
    BY <2>2, <2>3
<1> QED
  BY <1>4

\* How SumFunction adds up: by an element it chooses and the rest.
Chosen(s) == CHOOSE x \in s : TRUE
Added(f, g, s) == IF s = {} THEN 0 ELSE f[Chosen(s)] + g[s \ {Chosen(s)}]
Totals(f, S) == CHOOSE g : g = [s \in SUBSET S |-> Added(f, g, s)]

LEMMA SumIsTotal ==
    ASSUME NEW f, NEW S, DOMAIN f = S
    PROVE  SumFunction(f) = Totals(f, S)[S]
  BY Zenon DEF SumFunction, SumFunctionOnSet, FoldFunctionOnSet, MapThenFoldSet, Totals, Added, Chosen

LEMMA ChosenIsElement ==
    ASSUME NEW s, s # {}
    PROVE  Chosen(s) \in s
  BY DEF Chosen

\* The table of totals exists: for the subsets of at most n elements, for every n.
LEMMA TotalsExist ==
    ASSUME NEW S, IsFiniteSet(S), NEW f
    PROVE  Totals(f, S) = [s \in SUBSET S |-> Added(f, Totals(f, S), s)]
<1> DEFINE Small(n) == {s \in SUBSET S : Cardinality(s) <= n}
           Bad == {n \in Nat : ~ \E g : g = [s \in Small(n) |-> Added(f, g, s)]}
<1>1. \A s \in SUBSET S : IsFiniteSet(s) /\ Cardinality(s) \in Nat /\ Cardinality(s) <= Cardinality(S)
  BY FS_Subset, FS_CardinalityType
<1>2. \A s \in SUBSET S : s # {} => /\ s \ {Chosen(s)} \in SUBSET S
                                    /\ Cardinality(s \ {Chosen(s)}) = Cardinality(s) - 1
  BY <1>1, FS_RemoveElement, ChosenIsElement
<1>3. Bad = {}
  <2> SUFFICES ASSUME Bad # {} PROVE FALSE
    OBVIOUS
  <2>1. PICK n \in Bad : \A m \in Bad : ~(m < n)
    <3>1. Bad \subseteq Nat
      OBVIOUS
    <3> HIDE DEF Bad
    <3> QED
      BY <3>1, SmallestNumber
  <2>2. CASE n = 0
    <3> DEFINE g == [s \in Small(0) |-> 0]
    <3>1. ASSUME NEW s \in Small(0) PROVE s = {}
      BY <1>1, <3>1, FS_EmptySet
    <3>2. \A s \in Small(0) : Added(f, g, s) = 0
      BY <3>1 DEF Added
    <3>3. g = [s \in Small(0) |-> Added(f, g, s)]
      BY <3>2
    <3> QED
      BY <2>1, <2>2, <3>3
  <2>3. CASE n # 0
    <3>1. n \in Nat /\ n - 1 \in Nat /\ n - 1 \notin Bad
      <4>1. n \in Nat
        BY <2>1
      <4> HIDE DEF Bad
      <4>2. n - 1 \in Nat /\ n - 1 < n
        BY <2>3, <4>1
      <4> QED
        BY <2>1, <4>1, <4>2
    <3>2. PICK h : h = [s \in Small(n - 1) |-> Added(f, h, s)]
      BY <3>1
    <3> DEFINE g == [s \in Small(n) |-> Added(f, h, s)]
    <3>3. ASSUME NEW s \in Small(n) PROVE Added(f, h, s) = Added(f, g, s)
      <4>1. CASE s = {}
        BY <4>1 DEF Added
      <4>2. CASE s # {}
        <5> DEFINE t == s \ {Chosen(s)}
        <5>1. t \in Small(n - 1) /\ t \in Small(n)
          BY <1>1, <1>2, <3>1, <4>2
        <5>2. h[t] = Added(f, h, t) /\ g[t] = Added(f, h, t)
          <6>1. h[t] = [u \in Small(n - 1) |-> Added(f, h, u)][t]
            BY <3>2
          <6> HIDE DEF t, Small
          <6> QED
            BY <5>1, <6>1
        <5> QED
          BY <4>2, <5>2 DEF Added
      <4> QED
        BY <4>1, <4>2
    <3>4. g = [s \in Small(n) |-> Added(f, g, s)]
      BY <3>3
    <3> QED
      BY <2>1, <3>4
  <2> QED
    BY <2>2, <2>3
<1>4. Cardinality(S) \in Nat /\ Small(Cardinality(S)) = SUBSET S
  BY <1>1
<1>5. \E g : g = [s \in SUBSET S |-> Added(f, g, s)]
  <2>1. \E g : g = [s \in Small(Cardinality(S)) |-> Added(f, g, s)]
    <3>1. Cardinality(S) \notin Bad /\ Cardinality(S) \in Nat
      BY <1>3, <1>4
    <3> HIDE DEF Small
    <3> QED
      BY <3>1
  <2> QED
    BY <1>4, <2>1
<1> QED
  BY <1>5, Zenon DEF Totals

LEMMA TotalsStep ==
    ASSUME NEW S, IsFiniteSet(S), NEW f, NEW s \in SUBSET S
    PROVE  Totals(f, S)[s] = IF s = {} THEN 0 ELSE f[Chosen(s)] + Totals(f, S)[s \ {Chosen(s)}]
<1>1. Totals(f, S)[s] = [u \in SUBSET S |-> Added(f, Totals(f, S), u)][s]
  BY TotalsExist
<1> QED
  BY <1>1 DEF Added

LEMMA TotalsAreIntegers ==
    ASSUME NEW S, IsFiniteSet(S), NEW f \in [S -> Int], NEW s \in SUBSET S
    PROVE  Totals(f, S)[s] \in Int
<1> DEFINE Bad == {u \in SUBSET S : Totals(f, S)[u] \notin Int}
<1> SUFFICES ASSUME Bad # {} PROVE FALSE
  OBVIOUS
<1>1. PICK u \in Bad : \A x \in u : u \ {x} \notin Bad
  <2>1. Bad \subseteq SUBSET S
    OBVIOUS
  <2> HIDE DEF Bad
  <2> QED
    BY <2>1, SmallestSet
<1>2. u = {} => Totals(f, S)[u] = 0
  BY <1>1, TotalsStep
<1>3. u # {} => /\ Chosen(u) \in u /\ f[Chosen(u)] \in Int
                /\ Totals(f, S)[u \ {Chosen(u)}] \in Int
                /\ Totals(f, S)[u] = f[Chosen(u)] + Totals(f, S)[u \ {Chosen(u)}]
  BY <1>1, TotalsStep, ChosenIsElement
<1> QED
  BY <1>1, <1>2, <1>3

\* Any element may be taken for the chosen one.
LEMMA TotalWithout ==
    ASSUME NEW S, IsFiniteSet(S), NEW f \in [S -> Int], NEW s \in SUBSET S, NEW x \in s
    PROVE  Totals(f, S)[s] = f[x] + Totals(f, S)[s \ {x}]
<1> DEFINE T(u) == Totals(f, S)[u]
           Bad == {u \in SUBSET S : \E y \in u : T(u) # f[y] + T(u \ {y})}
<1> SUFFICES ASSUME Bad # {} PROVE FALSE
  OBVIOUS
<1>1. PICK u \in Bad : \A y \in u : u \ {y} \notin Bad
  <2>1. Bad \subseteq SUBSET S
    OBVIOUS
  <2> HIDE DEF Bad
  <2> QED
    BY <2>1, SmallestSet
<1>2. PICK y \in u : T(u) # f[y] + T(u \ {y})
  BY <1>1
<1> DEFINE c == Chosen(u)
<1>3. c \in u /\ T(u) = f[c] + T(u \ {c})
  <2>1. u \in SUBSET S /\ u # {}
    BY <1>1, <1>2
  <2>2. Totals(f, S)[u] = IF u = {} THEN 0 ELSE f[Chosen(u)] + Totals(f, S)[u \ {Chosen(u)}]
    BY <2>1, TotalsStep, Zenon
  <2> QED
    BY <2>1, <2>2, ChosenIsElement
<1>4. c # y
  BY <1>2, <1>3
<1>5. T(u \ {c}) = f[y] + T((u \ {c}) \ {y}) /\ T(u \ {y}) = f[c] + T((u \ {y}) \ {c})
  BY <1>1, <1>2, <1>3, <1>4
<1>6. (u \ {c}) \ {y} = (u \ {y}) \ {c} /\ (u \ {y}) \ {c} \in SUBSET S
  BY <1>1
<1>7. T((u \ {y}) \ {c}) \in Int /\ f[y] \in Int /\ f[c] \in Int
  BY <1>1, <1>2, <1>3, <1>6, TotalsAreIntegers
<1> HIDE DEF T
<1> QED
  BY <1>2, <1>3, <1>5, <1>6, <1>7

LEMMA TotalOfDifferences ==
    ASSUME NEW S, IsFiniteSet(S), NEW f \in [S -> Int], NEW g \in [S -> Int], NEW h \in [S -> Int],
           NEW s \in SUBSET S
    PROVE  (\A x \in s : h[x] = f[x] - g[x]) => Totals(h, S)[s] = Totals(f, S)[s] - Totals(g, S)[s]
<1>0. SUFFICES ASSUME \A x \in s : h[x] = f[x] - g[x]
               PROVE  Totals(h, S)[s] = Totals(f, S)[s] - Totals(g, S)[s]
  OBVIOUS
<1> DEFINE Bad == {u \in SUBSET s : Totals(h, S)[u] # Totals(f, S)[u] - Totals(g, S)[u]}
<1> SUFFICES ASSUME Bad # {} PROVE FALSE
  OBVIOUS
<1>1. PICK u \in Bad : \A x \in u : u \ {x} \notin Bad
  <2>1. Bad \subseteq SUBSET S
    OBVIOUS
  <2> HIDE DEF Bad
  <2> QED
    BY <2>1, SmallestSet
<1>2. u \in SUBSET S /\ u \in SUBSET s
  BY <1>1
<1>9. /\ Totals(f, S)[u] = IF u = {} THEN 0 ELSE f[Chosen(u)] + Totals(f, S)[u \ {Chosen(u)}]
      /\ Totals(g, S)[u] = IF u = {} THEN 0 ELSE g[Chosen(u)] + Totals(g, S)[u \ {Chosen(u)}]
      /\ Totals(h, S)[u] = IF u = {} THEN 0 ELSE h[Chosen(u)] + Totals(h, S)[u \ {Chosen(u)}]
  <2>1. u \in SUBSET S
    BY <1>2
  <2> HIDE DEF Bad
  <2>2. Totals(f, S)[u] = IF u = {} THEN 0 ELSE f[Chosen(u)] + Totals(f, S)[u \ {Chosen(u)}]
    BY <2>1, TotalsStep
  <2>3. Totals(g, S)[u] = IF u = {} THEN 0 ELSE g[Chosen(u)] + Totals(g, S)[u \ {Chosen(u)}]
    BY <2>1, TotalsStep
  <2>4. Totals(h, S)[u] = IF u = {} THEN 0 ELSE h[Chosen(u)] + Totals(h, S)[u \ {Chosen(u)}]
    BY <2>1, TotalsStep
  <2> QED
    BY <2>2, <2>3, <2>4
<1>3. u # {}
  BY <1>1, <1>9
<1> DEFINE c == Chosen(u)
<1>4. c \in u /\ c \in S /\ u \ {c} \in SUBSET S /\ u \ {c} \notin Bad
  BY <1>1, <1>2, <1>3, ChosenIsElement
<1>5. /\ Totals(f, S)[u] = f[c] + Totals(f, S)[u \ {c}]
      /\ Totals(g, S)[u] = g[c] + Totals(g, S)[u \ {c}]
      /\ Totals(h, S)[u] = h[c] + Totals(h, S)[u \ {c}]
  BY <1>3, <1>9
<1>6. Totals(f, S)[u \ {c}] \in Int /\ Totals(g, S)[u \ {c}] \in Int /\ f[c] \in Int /\ g[c] \in Int
  BY <1>4, TotalsAreIntegers
<1>7. h[c] = f[c] - g[c] /\ Totals(h, S)[u \ {c}] = Totals(f, S)[u \ {c}] - Totals(g, S)[u \ {c}]
  BY <1>0, <1>2, <1>4
<1>8. Totals(h, S)[u] # Totals(f, S)[u] - Totals(g, S)[u]
  BY <1>1
<1> HIDE DEF c, Bad
<1> QED
  BY <1>5, <1>6, <1>7, <1>8

LEMMA SumIsInteger ==
    ASSUME NEW S, IsFiniteSet(S), NEW f \in [S -> Int]
    PROVE  SumFunction(f) \in Int
  BY SumIsTotal, TotalsAreIntegers

LEMMA SumOfDifferences ==
    ASSUME NEW S, IsFiniteSet(S), NEW f \in [S -> Int], NEW g \in [S -> Int], NEW h \in [S -> Int],
           \A x \in S : h[x] = f[x] - g[x]
    PROVE  SumFunction(h) = SumFunction(f) - SumFunction(g)
  BY SumIsTotal, TotalOfDifferences

LEMMA SumOfZeros ==
    ASSUME NEW S, IsFiniteSet(S), NEW f \in [S -> Int], \A x \in S : f[x] = 0
    PROVE  SumFunction(f) = 0
<1>1. SumFunction(f) = SumFunction(f) - SumFunction(f)
  BY SumOfDifferences
<1> QED
  BY <1>1, SumIsInteger

LEMMA SumAfterChange ==
    ASSUME NEW S, IsFiniteSet(S), NEW f \in [S -> Int], NEW g \in [S -> Int], NEW x \in S,
           \A y \in S : y # x => g[y] = f[y]
    PROVE  SumFunction(g) = SumFunction(f) - f[x] + g[x]
<1> DEFINE z == [y \in S |-> 0]
           r == S \ {x}
<1>1. z \in [S -> Int] /\ r \in SUBSET S
  OBVIOUS
<1>2. Totals(z, S)[r] = Totals(z, S)[r] - Totals(z, S)[r] /\ Totals(z, S)[r] \in Int
  BY <1>1, TotalOfDifferences, TotalsAreIntegers
<1>3. Totals(g, S)[r] = Totals(f, S)[r] - Totals(z, S)[r] /\ Totals(f, S)[r] \in Int
  <2>1. \A y \in r : g[y] = f[y] - z[y]
    OBVIOUS
  <2> HIDE DEF z, r
  <2> QED
    BY <1>1, <2>1, TotalOfDifferences, TotalsAreIntegers
<1>4. Totals(f, S)[S] = f[x] + Totals(f, S)[r] /\ Totals(g, S)[S] = g[x] + Totals(g, S)[r]
  BY TotalWithout
<1>5. f[x] \in Int /\ g[x] \in Int
  OBVIOUS
<1> HIDE DEF z, r
<1> QED
  BY <1>2, <1>3, <1>4, <1>5, SumIsTotal

LEMMA WholeDivision ==
    ASSUME NEW x \in Int, NEW n \in Nat, n > 0, x % n = 0
    PROVE  x \div n \in Int /\ (x \div n) * n = x
  OBVIOUS

LEMMA Products ==
    ASSUME NEW a \in Int, NEW b \in Int, NEW c \in Int
    PROVE  /\ a * b \in Int /\ a * b = b * a /\ a * (-b) = -(a * b)
           /\ (a + b) * c = a * c + b * c /\ (a - b) * c = a * c - b * c
  OBVIOUS

\* What a fill pays is what it adds to the cost of the position and does not realize.
LEMMA FillPays ==
    ASSUME NEW qty \in Int, NEW avg \in Int, NEW d \in Int, NEW p \in Int, d # 0,
           Adds(qty, d) => (avg * Abs(qty) + p * Abs(d)) % Abs(qty + d) = 0
    PROVE  (qty + d) * NewAvg(qty, avg, d, p) - qty * avg - Realized(qty, avg, d, p) = d * p
<1> DEFINE new == NewAvg(qty, avg, d, p)
           gain == Realized(qty, avg, d, p)
<1>1. CASE Adds(qty, d) /\ d > 0
  <2>1. qty >= 0 /\ Abs(qty) = qty /\ Abs(d) = d /\ Abs(qty + d) = qty + d
    BY <1>1 DEF Adds, Sign, Abs
  <2>2. new = (avg * qty + p * d) \div (qty + d) /\ gain = 0
    BY <1>1, <2>1 DEF NewAvg, Realized
  <2>3. avg * qty + p * d \in Int /\ qty + d \in Nat /\ qty + d > 0 /\ (avg * qty + p * d) % (qty + d) = 0
    BY <1>1, <2>1
  <2>4. new * (qty + d) = avg * qty + p * d /\ new \in Int
    BY <2>2, <2>3, WholeDivision
  <2>5. (qty + d) * new = new * (qty + d) /\ qty * avg = avg * qty /\ d * p = p * d /\ avg * qty \in Int /\ p * d \in Int
    BY <2>4, Products
  <2> QED
    BY <2>2, <2>4, <2>5
<1>2. CASE Adds(qty, d) /\ d < 0
  <2>1. qty <= 0 /\ Abs(qty) = -qty /\ Abs(d) = -d /\ Abs(qty + d) = -(qty + d)
    <3>1. qty <= 0
      <4>1. Sign(d) = -1
        BY <1>2 DEF Sign
      <4>2. Sign(qty) # -(-1)
        BY <1>2, <4>1 DEF Adds
      <4>3. Sign(qty) # 1
        BY <4>2
      <4> QED
        BY <4>3 DEF Sign
    <3> QED
      BY <1>2, <3>1 DEF Abs
  <2>2. new = (avg * (-qty) + p * (-d)) \div (-(qty + d)) /\ gain = 0
    <3>1. qty + d # 0
      BY <1>2, <2>1
    <3> QED
      BY <1>2, <2>1, <3>1 DEF NewAvg, Realized
  <2>3. avg * (-qty) + p * (-d) \in Int /\ -(qty + d) \in Nat /\ -(qty + d) > 0 /\ (avg * (-qty) + p * (-d)) % (-(qty + d)) = 0
    BY <1>2, <2>1
  <2>4. new * (-(qty + d)) = avg * (-qty) + p * (-d) /\ new \in Int
    BY <2>2, <2>3, WholeDivision
  <2>5. /\ qty + d \in Int /\ new * (-(qty + d)) = -(new * (qty + d)) /\ (qty + d) * new = new * (qty + d)
        /\ avg * (-qty) = -(avg * qty) /\ p * (-d) = -(p * d)
        /\ qty * avg = avg * qty /\ d * p = p * d /\ avg * qty \in Int /\ p * d \in Int /\ new * (qty + d) \in Int
    BY <2>4, Products
  <2> QED
    BY <2>2, <2>4, <2>5
<1>3. CASE Reduces(qty, d)
  <2>1. ~Adds(qty, d) /\ Sign(qty) * Abs(d) = -d
    BY <1>3 DEF Adds, Reduces, Sign, Abs
  <2>2. gain = (p - avg) * Sign(qty) * Abs(d) /\ Sign(qty) \in Int /\ Abs(d) \in Int
    BY <1>3, <2>1 DEF Realized, Sign, Abs
  <2>3. gain = (p - avg) * (-d)
    BY <2>1, <2>2
  <2>4. (qty + d) * new = (qty + d) * avg
    BY <1>3, <2>1 DEF NewAvg
  <2>5. /\ (p - avg) * (-d) = -((p - avg) * d) /\ (p - avg) * d = p * d - avg * d /\ d * p = p * d
        /\ (qty + d) * avg = qty * avg + d * avg /\ d * avg = avg * d
        /\ p * d \in Int /\ avg * d \in Int /\ qty * avg \in Int
    <3>1. p - avg \in Int
      OBVIOUS
    <3> QED
      BY <3>1, Products
  <2> QED
    BY <2>3, <2>4, <2>5
<1>4. CASE ~Adds(qty, d) /\ ~Reduces(qty, d)
  <2>1. qty + d # 0 /\ Sign(qty) * Abs(qty) = qty
    BY <1>4 DEF Adds, Reduces, Sign, Abs
  <2>2. gain = (p - avg) * Sign(qty) * Abs(qty) /\ Sign(qty) \in Int /\ Abs(qty) \in Int
    BY <1>4 DEF Realized, Sign, Abs
  <2>3. gain = (p - avg) * qty
    BY <2>1, <2>2
  <2>4. new = p
    BY <1>4, <2>1 DEF NewAvg
  <2>5. /\ (p - avg) * qty = p * qty - avg * qty /\ p * qty = qty * p /\ avg * qty = qty * avg
        /\ (qty + d) * p = qty * p + d * p
        /\ d * p \in Int /\ qty * p \in Int /\ qty * avg \in Int
    BY Products
  <2> QED
    BY <2>3, <2>4, <2>5
<1> QED
  BY <1>1, <1>2, <1>3, <1>4

LEMMA RealizedIsInteger ==
    ASSUME NEW qty \in Int, NEW avg \in Int, NEW d \in Int, NEW p \in Int
    PROVE  Realized(qty, avg, d, p) \in Int
<1>1. Sign(qty) \in Int /\ Abs(d) \in Int /\ Abs(qty) \in Int /\ p - avg \in Int
  BY DEF Sign, Abs
<1>2. (p - avg) * Sign(qty) \in Int
  BY <1>1, Products
<1>3. (p - avg) * Sign(qty) * Abs(d) \in Int /\ (p - avg) * Sign(qty) * Abs(qty) \in Int
  BY <1>1, <1>2, Products
<1> QED
  BY <1>3 DEF Realized

-----------------------------------------------------------------------------
(* Paper accounts: the books.                                                 *)

LEMMA RowNumbers ==
    ASSUME PaperTypeOK, NEW s \in Symbols
    PROVE  /\ positions[s].qty \in Int /\ positions[s].avg \in Int /\ positions[s].last \in Int /\ positions[s].upnl \in Int
           /\ positions[s].qty * positions[s].avg \in Int /\ positions[s].qty * positions[s].last \in Int
<1>1. positions[s] \in PositionRows
  BY DEF PaperTypeOK
<1>2. positions[s].qty \in Int /\ positions[s].avg \in Int /\ positions[s].last \in Int /\ positions[s].upnl \in Int
  BY <1>1 DEF PositionRows
<1> QED
  BY <1>2, Products

LEMMA CostIsInteger ==
    ASSUME PaperTypeOK
    PROVE  Cost \in Int
<1>1. [s \in Symbols |-> positions[s].qty * positions[s].avg] \in [Symbols -> Int]
  BY RowNumbers
<1> QED
  BY <1>1, SumIsInteger, PaperConstantsOK DEF Cost

\* The cost after a step that touches one position.
LEMMA CostAfterChange ==
    ASSUME PaperTypeOK, PaperTypeOK', NEW s \in Symbols,
           \A t \in Symbols : t # s => positions'[t] = positions[t]
    PROVE  Cost' = Cost - positions[s].qty * positions[s].avg + positions'[s].qty * positions'[s].avg
<1> DEFINE f == [t \in Symbols |-> positions[t].qty * positions[t].avg]
           g == [t \in Symbols |-> positions'[t].qty * positions'[t].avg]
<1>1. f \in [Symbols -> Int] /\ g \in [Symbols -> Int]
  <2>1. \A t \in Symbols : positions'[t].qty * positions'[t].avg \in Int
    <3>1. ASSUME NEW t \in Symbols PROVE positions'[t].qty \in Int /\ positions'[t].avg \in Int
      BY DEF PaperTypeOK, PositionRows
    <3> QED
      BY <3>1, Products
  <2> QED
    BY <2>1, RowNumbers
<1>2. \A t \in Symbols : t # s => g[t] = f[t]
  OBVIOUS
<1>3. SumFunction(g) = SumFunction(f) - f[s] + g[s]
  <2> HIDE DEF f, g
  <2> QED
    BY <1>1, <1>2, SumAfterChange, PaperConstantsOK
<1>4. Cost = SumFunction(f) /\ Cost' = SumFunction(g)
  BY DEF Cost
<1>5. f[s] = positions[s].qty * positions[s].avg /\ g[s] = positions'[s].qty * positions'[s].avg
  OBVIOUS
<1> HIDE DEF f, g
<1> QED
  BY <1>3, <1>4, <1>5

LEMMA CostUnchanged ==
    ASSUME PaperTypeOK, PaperTypeOK',
           \A t \in Symbols : positions'[t].qty = positions[t].qty /\ positions'[t].avg = positions[t].avg
    PROVE  Cost' = Cost
<1>1. [t \in Symbols |-> positions'[t].qty * positions'[t].avg] = [t \in Symbols |-> positions[t].qty * positions[t].avg]
  OBVIOUS
<1> QED
  BY <1>1 DEF Cost

LEMMA NothingCosts ==
    ASSUME \A s \in Symbols : positions[s].qty = 0 /\ positions[s].avg = 0
    PROVE  Cost = 0
<1> DEFINE f == [s \in Symbols |-> positions[s].qty * positions[s].avg]
<1>1. f \in [Symbols -> Int] /\ \A s \in Symbols : f[s] = 0
  OBVIOUS
<1>2. SumFunction(f) = 0
  <2> HIDE DEF f
  <2> QED
    BY <1>1, SumOfZeros, PaperConstantsOK
<1> QED
  BY <1>2 DEF Cost

BooksInv == BooksBalance /\ MarksAreFresh
Numbers == /\ account.start \in Int /\ account.cash \in Int
           /\ trades.realized \in Int /\ trades.fees \in Int

LEMMA AccountNumbers ==
    ASSUME PaperTypeOK
    PROVE  Numbers
  BY DEF PaperTypeOK, Accounts, Numbers

LEMMA FillKeepsBooks ==
    ASSUME PaperTypeOK, PaperTypeOK', BooksInv, AddsWhole, lost' = lost,
           NEW s \in Symbols, NEW side, NEW n \in Nat, NEW p \in Int, Fill(s, side, n, p), side \in {"BUY", "SELL", "CLOSE"}
    PROVE  BooksInv'
<1> DEFINE qty == positions[s].qty
           avg == positions[s].avg
           d == Delta(side, n, qty)
           price == p + Slip * Sign(d)
           new == NewAvg(qty, avg, d, price)
           gain == Realized(qty, avg, d, price)
           fee == Fee * Abs(d)
<1>1. CASE ~ComputeFill(s, side, n, p).filled
  <2>1. UNCHANGED <<account, positions, trades, stale>>
    BY <1>1 DEF Fill
  <2> QED
    BY <2>1 DEF BooksInv, BooksBalance, Balanced, Cost, MarksAreFresh
<1>2. CASE ComputeFill(s, side, n, p).filled
  <2>1. d # 0 /\ d \in Int /\ price \in Int /\ fee \in Int
    <3>1. d # 0
      BY <1>2 DEF ComputeFill
    <3>2. d \in Int
      BY RowNumbers DEF Delta
    <3>3. Sign(d) \in Int /\ Abs(d) \in Int /\ Slip \in Int /\ Fee \in Int
      BY <3>2, PaperConstantsOK DEF Sign, Abs
    <3>4. Slip * Sign(d) \in Int /\ Fee * Abs(d) \in Int
      BY <3>3, Products
    <3> QED
      BY <3>1, <3>2, <3>4
  <2>2. /\ positions' = [positions EXCEPT ![s] = ComputeFill(s, side, n, p).position]
        /\ trades' = [realized |-> trades.realized + gain, fees |-> trades.fees + fee]
        /\ account' = [account EXCEPT !.cash = @ + (-(d * price) - fee)]
        /\ stale' = stale \ {s}
    BY <1>2 DEF Fill, ComputeFill
  <2>3. /\ positions'[s].qty = qty + d /\ positions'[s].avg = new /\ positions'[s].last = price
        /\ positions'[s].upnl = UnrealizedPnL(qty + d, new, price)
        /\ \A t \in Symbols : t # s => positions'[t] = positions[t]
    BY <2>2 DEF PaperTypeOK, ComputeFill
  <2>4. /\ trades'.realized = trades.realized + gain /\ trades'.fees = trades.fees + fee
        /\ account'.start = account.start /\ account'.cash = account.cash + (-(d * price) - fee)
    <3>1. account \in Accounts
      BY DEF PaperTypeOK
    <3> QED
      BY <2>2, <3>1 DEF Accounts
  <2>5. BooksBalance'
    <3>1. Adds(qty, d) => (avg * Abs(qty) + price * Abs(d)) % Abs(qty + d) = 0
      <4>1. positions'[s].qty - qty = d
        BY <2>1, <2>3, RowNumbers
      <4> QED
        BY <2>1, <2>3, <4>1 DEF AddsWhole
    <3>2. (qty + d) * new - qty * avg - gain = d * price
      <4>1. qty \in Int /\ avg \in Int /\ d \in Int /\ price \in Int /\ d # 0
        BY <2>1, RowNumbers
      <4> HIDE DEF qty, avg, d, price
      <4> QED
        BY <3>1, <4>1, FillPays
    <3>3. Cost' = Cost - qty * avg + (qty + d) * new
      BY <2>3, CostAfterChange
    <3>4. /\ qty * avg \in Int /\ (qty + d) * new \in Int /\ gain \in Int /\ d * price \in Int /\ Cost \in Int
      <4>1. qty + d \in Int /\ new \in Int
        BY <2>1, <2>3, RowNumbers DEF PaperTypeOK, PositionRows
      <4>2. gain \in Int
        BY <2>1, RowNumbers, RealizedIsInteger
      <4> QED
        BY <2>1, <4>1, <4>2, RowNumbers, CostIsInteger, Products
    <3> QED
      BY <2>1, <2>4, <3>2, <3>3, <3>4, AccountNumbers DEF Numbers, BooksInv, BooksBalance, Balanced
  <2>6. MarksAreFresh'
    BY <2>2, <2>3 DEF BooksInv, MarksAreFresh
  <2> QED
    BY <2>5, <2>6 DEF BooksInv
<1> QED
  BY <1>1, <1>2

LEMMA MarkKeepsBooks ==
    ASSUME PaperTypeOK, PaperTypeOK', BooksInv, NEW a \in Actors, Mark(a)
    PROVE  BooksInv'
<1>1. PICK s \in act[a].todo, p \in Prices, quoted \in BOOLEAN :
        LET earlier == act[a].rows[s]
            here == quoted /\ positions[s].id = earlier.id
        IN  /\ positions' = IF here THEN [positions EXCEPT ![s].last = p, ![s].upnl = UnrealizedPnL(earlier.qty, earlier.avg, p)]
                            ELSE positions
            /\ stale' = IF ~here THEN stale
                        ELSE IF <<earlier.qty, earlier.avg>> = <<positions[s].qty, positions[s].avg>>
                        THEN stale \ {s} ELSE stale \cup {s}
  BY DEF Mark
<1> DEFINE earlier == act[a].rows[s]
           here == quoted /\ positions[s].id = earlier.id
<1>2. account' = account /\ trades' = trades /\ lost' = lost
  BY DEF Mark
<1>3. s \in Symbols
  BY DEF PaperTypeOK, Acts
<1>4. CASE here
  <2>1. /\ positions' = [positions EXCEPT ![s].last = p, ![s].upnl = UnrealizedPnL(earlier.qty, earlier.avg, p)]
        /\ stale' = IF earlier.qty = positions[s].qty /\ earlier.avg = positions[s].avg THEN stale \ {s} ELSE stale \cup {s}
    BY <1>1, <1>4
  <2>2. /\ \A t \in Symbols : t # s => positions'[t] = positions[t]
        /\ positions'[s].qty = positions[s].qty /\ positions'[s].avg = positions[s].avg
        /\ positions'[s].last = p /\ positions'[s].upnl = UnrealizedPnL(earlier.qty, earlier.avg, p)
    <3>1. positions[s] \in PositionRows
      BY <1>3 DEF PaperTypeOK
    <3> HIDE DEF earlier, here
    <3> QED
      BY <1>3, <2>1, <3>1 DEF PaperTypeOK, PositionRows
  <2> HIDE DEF earlier, here
  <2>3. Cost' = Cost
    BY <2>2, CostUnchanged
  <2>4. MarksAreFresh'
    BY <2>1, <2>2 DEF BooksInv, MarksAreFresh
  <2> QED
    BY <1>2, <2>3, <2>4 DEF BooksInv, BooksBalance, Balanced
<1>5. CASE ~here
  <2>1. positions' = positions /\ stale' = stale
    BY <1>1, <1>5
  <2> QED
    BY <1>2, <2>1 DEF BooksInv, BooksBalance, Balanced, Cost, MarksAreFresh
<1> QED
  BY <1>4, <1>5

\* An edit writes what it has read, or moves both balances of an account nothing has
\* happened to.
LEMMA EditKeepsBooks ==
    ASSUME PaperTypeOK, PaperTypeOK', BooksInv, NEW a \in Actors, WriteAccount(a)
    PROVE  BooksInv'
<1>1. UNCHANGED <<positions, trades, stale>>
  BY DEF WriteAccount
<1>2. MarksAreFresh' /\ Cost' = Cost
  BY <1>1 DEF BooksInv, MarksAreFresh, Cost
<1>3. account \in Accounts
  BY DEF PaperTypeOK
<1>4. ASSUME ~lost' PROVE Balanced'
  <2>1. ~lost /\ act[a].row.cash = account.cash /\ act[a].row.start = account.start
    BY <1>4 DEF WriteAccount
  <2>2. Balanced
    BY <2>1 DEF BooksInv, BooksBalance
  <2>3. CASE account' = [account EXCEPT !.start = act[a].row.start, !.cash = act[a].row.cash]
    <3>1. account'.start = account.start /\ account'.cash = account.cash
      BY <1>3, <2>1, <2>3 DEF Accounts
    <3> QED
      BY <1>1, <1>2, <2>2, <3>1 DEF Balanced
  <2>4. ASSUME act[a].row.cash = act[a].row.start, NEW b \in Balances,
               account' = [account EXCEPT !.start = b, !.cash = b]
        PROVE  Balanced'
    <3>1. account'.start = b /\ account'.cash = b /\ b \in Int
      BY <1>3, <2>4, PaperConstantsOK DEF Accounts
    <3>2. account.cash = account.start
      BY <2>1, <2>4
    <3> QED
      BY <1>1, <1>2, <2>2, <3>1, <3>2, AccountNumbers, CostIsInteger DEF Balanced, Numbers
  <2> QED
    BY <2>3, <2>4 DEF WriteAccount
<1> QED
  BY <1>2, <1>4 DEF BooksInv, BooksBalance

LEMMA NewBooks ==
    ASSUME positions = [s \in Symbols |-> NoRow], trades = [realized |-> 0, fees |-> 0], stale = {},
           NEW b \in Int, account.start = b, account.cash = b
    PROVE  BooksInv
<1>1. \A s \in Symbols : positions[s].qty = 0 /\ positions[s].avg = 0 /\ positions[s].last = 0 /\ positions[s].upnl = 0
  BY DEF NoRow
<1>2. Cost = 0
  BY <1>1, NothingCosts
<1>3. MarksAreFresh
  BY <1>1 DEF MarksAreFresh, UnrealizedPnL
<1> QED
  BY <1>2, <1>3 DEF BooksInv, BooksBalance, Balanced

LEMMA ResetKeepsBooks ==
    ASSUME PaperTypeOK, PaperTypeOK', NEW a \in Actors, Reset(a)
    PROVE  BooksInv'
<1>1. PICK b \in Balances : account' = [account EXCEPT !.start = b, !.cash = b]
  BY DEF Reset
<1>2. account'.start = b /\ account'.cash = b /\ b \in Int
  BY <1>1, PaperConstantsOK DEF PaperTypeOK, Accounts
<1>3. positions' = [s \in Symbols |-> NoRow] /\ trades' = [realized |-> 0, fees |-> 0] /\ stale' = {}
  BY DEF Reset
<1>4. \A s \in Symbols : positions'[s].qty = 0 /\ positions'[s].avg = 0 /\ positions'[s].last = 0 /\ positions'[s].upnl = 0
  BY <1>3 DEF NoRow
<1>5. Cost' = 0
  <2> DEFINE f == [s \in Symbols |-> positions'[s].qty * positions'[s].avg]
  <2>1. f \in [Symbols -> Int] /\ \A s \in Symbols : f[s] = 0
    BY <1>4
  <2>2. SumFunction(f) = 0
    <3> HIDE DEF f
    <3> QED
      BY <2>1, SumOfZeros, PaperConstantsOK
  <2> QED
    BY <2>2 DEF Cost
<1>6. MarksAreFresh'
  BY <1>4 DEF MarksAreFresh, UnrealizedPnL
<1> QED
  BY <1>2, <1>3, <1>5, <1>6 DEF BooksInv, BooksBalance, Balanced

LEMMA BooksKept ==
    ASSUME PaperTypeOK, PaperTypeOK', BooksInv, [PaperNext]_paperVars, [AddsWhole]_paperVars
    PROVE  BooksInv'
<1>1. CASE UNCHANGED paperVars
  BY <1>1 DEF paperVars, rows, BooksInv, BooksBalance, Balanced, Cost, MarksAreFresh
<1>2. CASE PaperNext /\ AddsWhole
  <2>1. PICK a \in Actors : Runs(a)
    BY <1>2 DEF PaperNext, PaperStep, Runs
  <2>2. CASE FillOrder(a)
    <3>1. PICK s \in Symbols, side \in {"BUY", "SELL", "CLOSE"}, n \in Lots, p \in Prices : Fill(s, side, n, p)
      BY <2>2 DEF FillOrder
    <3>2. n \in Nat /\ p \in Int /\ lost' = lost
      BY <2>2, PaperConstantsOK DEF FillOrder
    <3> QED
      BY <1>2, <3>1, <3>2, FillKeepsBooks
  <2>3. CASE Flatten(a)
    <3>1. PICK s \in act[a].todo :
             Fill(s, "CLOSE", 0, act[a].rows[s].last) \/ UNCHANGED <<account, positions, trades, orders, stale>>
      BY <2>3 DEF Flatten
    <3>2. s \in Symbols /\ act[a].rows[s].last \in Int /\ lost' = lost
      BY <2>3 DEF Flatten, PaperTypeOK, Acts, PositionRows
    <3>3. CASE Fill(s, "CLOSE", 0, act[a].rows[s].last)
      BY <1>2, <3>2, <3>3, FillKeepsBooks
    <3>4. CASE UNCHANGED <<account, positions, trades, orders, stale>>
      BY <3>2, <3>4 DEF BooksInv, BooksBalance, Balanced, Cost, MarksAreFresh
    <3> QED
      BY <3>1, <3>3, <3>4
  <2>4. CASE SetStatus(a)
    <3>1. account'.start = account.start /\ account'.cash = account.cash /\ UNCHANGED <<positions, trades, lost, stale>>
      BY <2>4 DEF SetStatus, PaperTypeOK, Accounts
    <3> QED
      BY <3>1 DEF BooksInv, BooksBalance, Balanced, Cost, MarksAreFresh
  <2>5. CASE \/ ReadStatus(a) \/ CheckQuota(a) \/ ReadToClose(a) \/ ReadToSquareOff(a) \/ ReadToSweep(a) \/ ReadForSignal(a)
             \/ ReadStart(a) \/ ReadResults(a) \/ SumUp(a) \/ ReadAccount(a)
    <3>1. UNCHANGED <<account, positions, trades, lost, stale>>
      BY <2>5 DEF ReadStatus, CheckQuota, ReadToClose, ReadToSquareOff, ReadToSweep, ReadForSignal, ReadStart, ReadResults,
         SumUp, ReadAccount, rows
    <3> QED
      BY <3>1 DEF BooksInv, BooksBalance, Balanced, Cost, MarksAreFresh
  <2> QED
    BY <2>1, <2>2, <2>3, <2>4, <2>5, MarkKeepsBooks, EditKeepsBooks, ResetKeepsBooks DEF Runs
<1> QED
  BY <1>1, <1>2 DEF PaperNext

(* While what adds to a position leaves it a whole average, the books balance  *)
(* and a mark that is not stale is of the row as it is.                        *)
THEOREM BooksInvariance == PaperSpec /\ WholeAverages => []BooksInv
<1>1. PaperInit => BooksInv
  <2> SUFFICES ASSUME PaperInit PROVE BooksInv
    OBVIOUS
  <2>1. PICK b \in Balances : account = [start |-> b, cash |-> b, active |-> TRUE]
    BY DEF PaperInit
  <2>2. b \in Int /\ account.start = b /\ account.cash = b
    BY <2>1, PaperConstantsOK
  <2> QED
    BY <2>2, NewBooks DEF PaperInit
<1>2. PaperInv /\ PaperInv' /\ BooksInv /\ [PaperNext]_paperVars /\ [AddsWhole]_paperVars => BooksInv'
  BY BooksKept DEF PaperInv
<1> QED
  BY <1>1, <1>2, PaperInvariance, PTL DEF PaperSpec, WholeAverages

(* Fills, closes, marks, edits and resets keep cash equal to the starting      *)
(* balance, the realized profit and the fees less the cost of the positions,   *)
(* however many they are and however they interleave, unless an edit has       *)
(* written over a fill (store/paper_fill.go, store/paper_trading.go:146).      *)
THEOREM BooksAlwaysBalance == PaperSpec /\ WholeAverages => []BooksBalance
<1>1. BooksInv => BooksBalance
  BY DEF BooksInv
<1> QED
  BY <1>1, BooksInvariance, PTL

(* The equity of the three tables is the account's cash and the worth of its  *)
(* positions, unless an edit has written over a fill or a mark was computed   *)
(* for a row that has changed since (store/paper_pnl.go:11).                  *)
THEOREM EquityAgreesWithCash == PaperSpec /\ WholeAverages => []EquityUnlessStale
<1>1. PaperInv /\ BooksInv => EquityUnlessStale
  <2> SUFFICES ASSUME PaperTypeOK, BooksInv, ~lost, stale = {} PROVE Equity = account.cash + Worth
    BY DEF PaperInv, EquityUnlessStale
  <2> DEFINE worth == [s \in Symbols |-> positions[s].qty * positions[s].last]
             cost == [s \in Symbols |-> positions[s].qty * positions[s].avg]
             upnl == [s \in Symbols |-> positions[s].upnl]
  <2>1. worth \in [Symbols -> Int] /\ cost \in [Symbols -> Int] /\ upnl \in [Symbols -> Int]
    BY RowNumbers
  <2>2. ASSUME NEW s \in Symbols PROVE upnl[s] = worth[s] - cost[s]
    <3>1. positions[s].upnl = (positions[s].last - positions[s].avg) * positions[s].qty
      BY DEF BooksInv, MarksAreFresh, UnrealizedPnL
    <3>2. /\ (positions[s].last - positions[s].avg) * positions[s].qty
               = positions[s].last * positions[s].qty - positions[s].avg * positions[s].qty
          /\ positions[s].last * positions[s].qty = positions[s].qty * positions[s].last
          /\ positions[s].avg * positions[s].qty = positions[s].qty * positions[s].avg
      BY RowNumbers, Products
    <3> QED
      BY <3>1, <3>2
  <2>3. SumFunction(upnl) = SumFunction(worth) - SumFunction(cost) /\ SumFunction(worth) \in Int /\ SumFunction(cost) \in Int
    <3> HIDE DEF worth, cost, upnl
    <3> QED
      BY <2>1, <2>2, SumOfDifferences, SumIsInteger, PaperConstantsOK
  <2>4. Cost = SumFunction(cost) /\ Worth = SumFunction(worth)
    BY DEF Cost, Worth
  <2>5. Equity = account.start + trades.realized - trades.fees + SumFunction(upnl)
    BY DEF Equity
  <2>6. account.cash = account.start + trades.realized - trades.fees - Cost
    BY DEF BooksInv, BooksBalance, Balanced
  <2> HIDE DEF worth, cost, upnl
  <2> QED
    BY <2>3, <2>4, <2>5, <2>6, AccountNumbers DEF Numbers
<1> QED
  BY <1>1, PaperInvariance, BooksInvariance, PTL
=============================================================================
