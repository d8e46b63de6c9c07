---------------------------- MODULE PaperAccount ----------------------------
(***************************************************************************)
(* One paper account: orders from the queue's workers, one-click closes,   *)
(* the MIS square-off, price marks, and the owner's edits and resets, all  *)
(* on the same rows.                                                       *)
(*                                                                         *)
(*   orders     internal/platform/queue/paper.go, paper_quota.go           *)
(*   fills      internal/paperengine/fill.go, internal/store/paper_fill.go *)
(*   closes     internal/paperengine/close.go, missquareoff/job.go         *)
(*   marks      internal/marketdata/snapshotjob.go, signals/paper_ingest.go *)
(*   equity     internal/store/paper_pnl.go, paper_trading.go:632          *)
(*   owner      internal/modules/paperaccounts/handler.go                  *)
(*                                                                         *)
(* A transaction is one step; what a handler or job has read before it is  *)
(* a copy of its own.  Money and quantities are integers: an instance      *)
(* takes prices whose averages are whole numbers, which stands for the     *)
(* eight decimals of the columns.  Slippage and fee are amounts per unit.  *)
(***************************************************************************)
EXTENDS Integers, FiniteSets, Functions

CONSTANTS
    Actors,     \* goroutines that run jobs: workers, requests, tickers
    Symbols,    \* instruments
    Prices,     \* prices of signals and quotes
    Lots,       \* quantities of orders
    Balances,   \* starting balances
    Quota,      \* MaxPaperTradesPerMonth, 0 for none
    Tick,       \* tick size of the instruments
    Slip, Fee,  \* slippage and fee per unit
    Jobs,       \* which jobs the actors run
    MaxJobs     \* bound on the jobs of a run

AllJobs == {"order", "close", "squareoff", "sweep", "signal", "edit", "reset", "status"}

ASSUME PaperConstantsOK ==
    /\ Prices \subseteq Nat \ {0} /\ Lots \subseteq Nat \ {0}
    /\ Balances \subseteq Nat \ {0} /\ Balances # {}
    /\ Quota \in Nat /\ Tick \in Nat /\ Slip \in Nat /\ Fee \in Nat /\ MaxJobs \in Nat
    /\ Jobs \subseteq AllJobs /\ IsFiniteSet(Actors) /\ Actors # {}
    /\ IsFiniteSet(Symbols)

VARIABLES
    account,    \* the paper_accounts row
    positions,  \* the paper_positions rows
    trades,     \* sums over the paper_trades rows
    orders,     \* number of paper_orders rows
    epoch,      \* how often the account has been reset
    act,        \* act[a]: the job of a, how far it is, and what it has read
    jobs,       \* jobs begun
    placed,     \* history: fills of webhook orders this month
    uncounted,  \* history: webhook orders let through because the count failed
    lost,       \* history: an edit has overwritten cash it had not read
    stale,      \* history: symbols marked from a row that had changed
    snapshot,   \* the youngest paper_account_snapshots row, and how it came about
    watch       \* history: what an equity computation under way could have seen

rows == <<account, positions, trades, orders, epoch>>
paperVars == <<rows, act, jobs, placed, uncounted, lost, stale, snapshot, watch>>

NoSnapshot == [exact |-> TRUE, torn |-> FALSE]
Unwatched == [seen |-> {}, changed |-> {}]
NoRow == [id |-> 0, qty |-> 0, avg |-> 0, last |-> 0, upnl |-> 0]

\* What an actor does and holds: the symbols to do, the positions and the account it
\* has read, and the parts of an equity read so far.
Idle == [job |-> "none", step |-> "idle", todo |-> {}, rows |-> [s \in Symbols |-> NoRow],
         row |-> [start |-> 0, cash |-> 0, active |-> FALSE], start |-> 0, result |-> 0]
Job(job, step) == [Idle EXCEPT !.job = job, !.step = step]
Over(job, step, todo, read) == [Job(job, step) EXCEPT !.todo = todo, !.rows = read]

PaperInit ==
    /\ \E b \in Balances : account = [start |-> b, cash |-> b, active |-> TRUE]
    /\ positions = [s \in Symbols |-> NoRow]
    /\ trades = [realized |-> 0, fees |-> 0]
    /\ orders = 0
    /\ epoch = 1
    /\ act = [a \in Actors |-> Idle]
    /\ jobs = 0
    /\ placed = 0
    /\ uncounted = 0
    /\ lost = FALSE
    /\ stale = {}
    /\ snapshot = NoSnapshot
    /\ watch = [a \in Actors |-> Unwatched]

-----------------------------------------------------------------------------
(* The fill engine.                                                        *)

Abs(n) == IF n < 0 THEN -n ELSE n
Sign(n) == IF n < 0 THEN -1 ELSE IF n = 0 THEN 0 ELSE 1

\* domain.UnrealizedPnL
UnrealizedPnL(qty, avg, last) == (last - avg) * qty

\* applyBuy and applySell: d more units (d < 0: fewer) at price p either add to a
\* position, reduce it, or flip it.
Adds(qty, d) == Sign(qty) # -Sign(d)
Reduces(qty, d) == ~Adds(qty, d) /\ Abs(d) <= Abs(qty)

\* Mutant: the short side divides by the signed quantity.
NewAvgSigned(qty, avg, d, p) ==
    IF Adds(qty, d) THEN Sign(qty + d) * ((avg * Abs(qty) + p * Abs(d)) \div Abs(qty + d))
    ELSE IF Reduces(qty, d) THEN avg ELSE p

NewAvg(qty, avg, d, p) ==
    IF qty + d = 0 THEN 0
    ELSE IF Adds(qty, d) THEN (avg * Abs(qty) + p * Abs(d)) \div Abs(qty + d)
    ELSE IF Reduces(qty, d) THEN avg ELSE p

Realized(qty, avg, d, p) ==
    IF Adds(qty, d) THEN 0
    ELSE (p - avg) * Sign(qty) * (IF Reduces(qty, d) THEN Abs(d) ELSE Abs(qty))

\* resolveCloseSide, or the side and quantity of the order.
Delta(side, n, qty) == CASE side = "BUY" -> n
                         [] side = "SELL" -> -n
                         [] side = "CLOSE" -> -qty

ValidPrice(p) == Tick = 0 \/ p % Tick = 0

\* computeFill: what an order does to the position, the trades and the cash; the
\* slip worsens the price of either side.
ComputeFill(s, side, n, p) ==
    LET row == positions[s]
        d == Delta(side, n, row.qty)
        price == p + Slip * Sign(d)
        qty == row.qty + d
        avg == NewAvg(row.qty, row.avg, d, price)
    IN  [filled   |-> ValidPrice(p) /\ d # 0,
         position |-> [id |-> IF row.id = 0 THEN epoch ELSE row.id, qty |-> qty, avg |-> avg,
                       last |-> price, upnl |-> UnrealizedPnL(qty, avg, price)],
         realized |-> Realized(row.qty, row.avg, d, price),
         fee      |-> Fee * Abs(d),
         cash     |-> -(d * price) - Fee * Abs(d)]

\* ExecutePaperFill, under the lock of the account row: order, position, trade and
\* cash in one transaction.
Fill(s, side, n, p) ==
    LET fill == ComputeFill(s, side, n, p)
    IN  /\ orders' = orders + 1
        /\ IF ~fill.filled THEN UNCHANGED <<account, positions, trades, stale>>
           ELSE /\ positions' = [positions EXCEPT ![s] = fill.position]
                /\ trades' = [realized |-> trades.realized + fill.realized,
                              fees |-> trades.fees + fill.fee]
                /\ account' = [account EXCEPT !.cash = @ + fill.cash]
                /\ stale' = stale \ {s}

-----------------------------------------------------------------------------
Begin(a, job) == /\ act[a].step = "idle" /\ job \in Jobs /\ jobs < MaxJobs
                 /\ jobs' = jobs + 1
Goto(a, rec) == act' = [act EXCEPT ![a] = rec]
Finish(a) == Goto(a, Idle)
At(a, job, step) == act[a].job = job /\ act[a].step = step

OpenSymbols == {s \in Symbols : positions[s].qty # 0}

(* A webhook order in a worker: the account's status, the month's orders, then *)
(* the fill; any other check may end it.                                   *)

ReadStatus(a) ==
    /\ Begin(a, "order")
    /\ IF account.active THEN Goto(a, Job("order", "quota"))
                         ELSE UNCHANGED act
    /\ UNCHANGED <<rows, placed, uncounted, lost, stale, snapshot>>

\* Mutant: off by one.
CheckQuotaLate(a) ==
    /\ At(a, "order", "quota")
    /\ \/ /\ Quota = 0 \/ orders <= Quota
          /\ Goto(a, Job("order", "fill"))
          /\ uncounted' = uncounted
       \/ /\ Quota # 0
          /\ Goto(a, Job("order", "fill"))
          /\ uncounted' = uncounted + 1
       \/ Finish(a) /\ uncounted' = uncounted
    /\ UNCHANGED <<rows, jobs, placed, lost, stale, snapshot>>

\* enforcePaperTradeQuota: an order whose count fails is let through.
CheckQuota(a) ==
    /\ At(a, "order", "quota")
    /\ \/ /\ Quota = 0 \/ orders < Quota
          /\ Goto(a, Job("order", "fill"))
          /\ uncounted' = uncounted
       \/ /\ Quota # 0
          /\ Goto(a, Job("order", "fill"))
          /\ uncounted' = uncounted + 1
       \/ Finish(a) /\ uncounted' = uncounted
    /\ UNCHANGED <<rows, jobs, placed, lost, stale, snapshot>>

FillOrder(a) ==
    /\ At(a, "order", "fill")
    /\ \E s \in Symbols, side \in {"BUY", "SELL", "CLOSE"}, n \in Lots, p \in Prices :
          Fill(s, side, n, p)
    /\ placed' = placed + (IF positions' = positions THEN 0 ELSE 1)
    /\ Goto(a, Job("order", "equity"))
    /\ UNCHANGED <<epoch, jobs, uncounted, lost, snapshot>>

-----------------------------------------------------------------------------
(* ClosePaperPosition and the MIS square-off: FlattenPosition at the last  *)
(* price of a row read before.                                             *)

ReadToClose(a) ==
    /\ Begin(a, "close")
    /\ account.active
    /\ \E s \in OpenSymbols :
          Goto(a, Over("close", "flatten", {s}, positions))
    /\ UNCHANGED <<rows, placed, uncounted, lost, stale, snapshot>>

\* ListOpenMISPaperPositions takes accounts of any status but closed.
ReadToSquareOff(a) ==
    /\ Begin(a, "squareoff")
    /\ OpenSymbols # {}
    /\ Goto(a, Over("squareoff", "flatten", OpenSymbols, positions))
    /\ UNCHANGED <<rows, placed, uncounted, lost, stale, snapshot>>

\* On to the rest of a list.
GoOn(a, left) == IF left = {} THEN Finish(a)
                 ELSE Goto(a, Over(act[a].job, "flatten", left, act[a].rows))

\* A fill is followed by an equity snapshot, then by the rest of the list.
Filled(a, s) == act' = [act EXCEPT ![a].step = "equity", ![a].todo = @ \ {s}]

\* Mutant: the quantity is taken from the row read before.
FlattenAsRead(a) ==
    /\ act[a].step = "flatten"
    /\ \E s \in act[a].todo :
          /\ LET q == act[a].rows[s].qty
             IN  Fill(s, IF q > 0 THEN "SELL" ELSE "BUY", Abs(q), act[a].rows[s].last)
          /\ Filled(a, s)
    /\ UNCHANGED <<epoch, jobs, placed, uncounted, lost, snapshot>>

\* A refusal (no price, no instrument, no profile, market closed) comes before any order.
Flatten(a) ==
    /\ act[a].step = "flatten"
    /\ \E s \in act[a].todo :
          \/ Fill(s, "CLOSE", 0, act[a].rows[s].last) /\ Filled(a, s)
          \/ GoOn(a, act[a].todo \ {s}) /\ UNCHANGED <<account, positions, trades, orders, stale>>
    /\ UNCHANGED <<epoch, jobs, placed, uncounted, lost, snapshot>>

-----------------------------------------------------------------------------
(* Marks: the sweep over all open rows, and a PRICE_UPDATE signal.         *)

ReadToSweep(a) ==
    /\ Begin(a, "sweep")
    /\ OpenSymbols # {}
    /\ Goto(a, Over("sweep", "mark", OpenSymbols, positions))
    /\ UNCHANGED <<rows, placed, uncounted, lost, stale, snapshot>>

\* ingestPaperPriceUpdate: a wrong comment, symbol or price and a flat position
\* change nothing.
ReadForSignal(a) ==
    /\ Begin(a, "signal")
    /\ account.active
    /\ \E s \in OpenSymbols :
          Goto(a, Over("signal", "mark", {s}, positions))
    /\ UNCHANGED <<rows, placed, uncounted, lost, stale, snapshot>>

\* applyMarks goes through the rows and takes a snapshot; a signal marks its row.
Marked(a, s) ==
    LET left == act[a].todo \ {s}
    IN  IF left # {} THEN act' = [act EXCEPT ![a].todo = left]
        ELSE IF act[a].job = "sweep" THEN act' = [act EXCEPT ![a].step = "equity", ![a].todo = {}]
        ELSE Finish(a)

\* Mutant: a row is found by its symbol instead of its id.
MarkAnyRow(a) ==
    /\ act[a].step = "mark"
    /\ \E s \in act[a].todo, p \in Prices :
          /\ positions' = [positions EXCEPT ![s].last = p,
                               ![s].upnl = UnrealizedPnL(act[a].rows[s].qty, act[a].rows[s].avg, p)]
          /\ stale' = stale
          /\ Marked(a, s)
    /\ UNCHANGED <<account, trades, orders, epoch, jobs, placed, uncounted, lost, snapshot>>

\* UpdatePaperPositionMark: the profit is computed from the row as it was read; a
\* symbol without a quote is skipped.
Mark(a) ==
    /\ act[a].step = "mark"
    /\ \E s \in act[a].todo, p \in Prices, quoted \in BOOLEAN :
          LET row == act[a].rows[s]
              here == quoted /\ positions[s].id = row.id
          IN  /\ positions' = IF here
                              THEN [positions EXCEPT ![s].last = p,
                                        ![s].upnl = UnrealizedPnL(row.qty, row.avg, p)]
                              ELSE positions
              /\ stale' = IF ~here THEN stale
                          ELSE IF <<row.qty, row.avg>> = <<positions[s].qty, positions[s].avg>>
                          THEN stale \ {s} ELSE stale \cup {s}
              /\ Marked(a, s)
    /\ UNCHANGED <<account, trades, orders, epoch, jobs, placed, uncounted, lost, snapshot>>

-----------------------------------------------------------------------------
(* RecordPaperAccountEquitySnapshot over GetPaperAccountPnL: the account,  *)
(* the trades and the positions are read in statements of their own, then  *)
(* the row is inserted.  Its failure is logged and passed over.            *)

\* What the three tables say at one moment.
Equity == account.start + trades.realized - trades.fees
          + SumFunction([s \in Symbols |-> positions[s].upnl])

ReadStart(a) ==
    /\ act[a].step = "equity"
    /\ \/ act' = [act EXCEPT ![a].start = account.start, ![a].step = "results"]
       \/ GoOn(a, act[a].todo)
    /\ UNCHANGED <<rows, jobs, placed, uncounted, lost, stale, snapshot>>

\* Mutant: the fees are left out.
ReadResultsGross(a) ==
    /\ act[a].step = "results"
    /\ act' = [act EXCEPT ![a].result = trades.realized, ![a].step = "marks"]
    /\ UNCHANGED <<rows, jobs, placed, uncounted, lost, stale, snapshot>>

ReadResults(a) ==
    /\ act[a].step = "results"
    /\ act' = [act EXCEPT ![a].result = trades.realized - trades.fees, ![a].step = "marks"]
    /\ UNCHANGED <<rows, jobs, placed, uncounted, lost, stale, snapshot>>

\* GetPaperAccountPnL: StartingBalance + RealizedPnL + UnrealizedPnL - TotalFees.
SummedEquity(a) == act[a].start + act[a].result + SumFunction([s \in Symbols |-> positions[s].upnl])

\* What is inserted is one of the equities the account had meanwhile, or not.
SumUp(a) ==
    /\ act[a].step = "marks"
    /\ snapshot' = [exact |-> SummedEquity(a) \in watch[a].seen,
                    torn |-> Cardinality(watch[a].changed) > 1]
    /\ GoOn(a, act[a].todo)
    /\ UNCHANGED <<rows, jobs, placed, uncounted, lost, stale>>

\* The history of the computations under way: the equities since the account was
\* read, and which of the three tables have changed.
Reading(b) == b.step \in {"results", "marks"}
Changed == {t \in {"account", "trades", "positions"} :
              \/ t = "account" /\ account'.start # account.start
              \/ t = "trades" /\ trades' # trades
              \/ t = "positions" /\ positions' # positions}
Watched == watch' = [a \in Actors |->
    IF ~Reading(act'[a]) THEN Unwatched
    ELSE IF ~Reading(act[a]) THEN [seen |-> {Equity}, changed |-> {}]
    ELSE [seen |-> watch[a].seen \cup {Equity'}, changed |-> watch[a].changed \cup Changed]]

-----------------------------------------------------------------------------
(* The owner.                                                              *)

ReadAccount(a) ==
    /\ Begin(a, "edit")
    /\ Goto(a, [Job("edit", "write") EXCEPT !.row = account])
    /\ UNCHANGED <<rows, placed, uncounted, lost, stale, snapshot>>

\* UpdatePaperAccount writes both balances back, as read or as edited.
WriteAccount(a) ==
    /\ At(a, "edit", "write")
    /\ LET row == act[a].row
       IN  \/ account' = [account EXCEPT !.start = row.start, !.cash = row.cash]
           \/ /\ row.cash = row.start
              /\ \E b \in Balances : account' = [account EXCEPT !.start = b, !.cash = b]
    /\ lost' = (lost \/ act[a].row.cash # account.cash \/ act[a].row.start # account.start)
    /\ Finish(a)
    /\ UNCHANGED <<positions, trades, orders, epoch, jobs, placed, uncounted, stale, snapshot>>

\* ResetPaperAccount, one transaction.
Reset(a) ==
    /\ Begin(a, "reset")
    /\ \E b \in Balances : account' = [account EXCEPT !.start = b, !.cash = b]
    /\ positions' = [s \in Symbols |-> NoRow]
    /\ trades' = [realized |-> 0, fees |-> 0]
    /\ orders' = 0
    /\ epoch' = epoch + 1
    /\ lost' = FALSE /\ stale' = {} /\ snapshot' = NoSnapshot
    /\ UNCHANGED <<act, placed, uncounted>>

SetStatus(a) ==
    /\ Begin(a, "status")
    /\ account' = [account EXCEPT !.active = ~@]
    /\ UNCHANGED <<positions, trades, orders, epoch, act, placed, uncounted, lost, stale, snapshot>>

PaperStep == \E a \in Actors :
    \/ ReadStatus(a) \/ CheckQuota(a) \/ FillOrder(a)
    \/ ReadToClose(a) \/ ReadToSquareOff(a) \/ Flatten(a)
    \/ ReadToSweep(a) \/ ReadForSignal(a) \/ Mark(a)
    \/ ReadStart(a) \/ ReadResults(a) \/ SumUp(a)
    \/ ReadAccount(a) \/ WriteAccount(a)
    \/ Reset(a) \/ SetStatus(a)

PaperNext == PaperStep /\ Watched

PaperSpec == PaperInit /\ [][PaperNext]_paperVars

-----------------------------------------------------------------------------
(* Properties.                                                             *)

Accounts == [start : Int, cash : Int, active : BOOLEAN]
PositionRows == [id : Int, qty : Int, avg : Int, last : Int, upnl : Int]
Steps == {"idle", "quota", "fill", "flatten", "mark", "equity", "results", "marks", "write"}
Acts == [job : AllJobs \cup {"none"}, step : Steps, todo : SUBSET Symbols,
         rows : [Symbols -> PositionRows], row : Accounts, start : Int, result : Int]

PaperTypeOK ==
    /\ account \in Accounts
    /\ positions \in [Symbols -> PositionRows]
    /\ trades \in [realized : Int, fees : Int]
    /\ orders \in Nat /\ placed \in Nat /\ uncounted \in Nat /\ jobs \in Nat
    /\ epoch \in Nat \ {0} /\ lost \in BOOLEAN /\ stale \subseteq Symbols
    /\ act \in [Actors -> Acts]

\* What the positions cost, and what they are worth at their last prices.
Cost == SumFunction([s \in Symbols |-> positions[s].qty * positions[s].avg])
Worth == SumFunction([s \in Symbols |-> positions[s].qty * positions[s].last])

\* The books balance: cash is what the starting balance, the realized profit and
\* the fees leave after paying for the positions.
Balanced == account.cash = account.start + trades.realized - trades.fees - Cost

\* Money is counted in whole numbers here: what adds to a position leaves it a whole
\* average. (The code divides float64s; their rounding is left out.)
AddsWhole ==
    \A s \in Symbols :
        LET qty == positions[s].qty
            d == positions'[s].qty - qty
        IN  d # 0 /\ Adds(qty, d) =>
                (positions[s].avg * Abs(qty) + positions'[s].last * Abs(d)) % Abs(qty + d) = 0
WholeAverages == [][AddsWhole]_paperVars

\* Concurrent fills, closes, marks, resets and edits keep the books balanced, as
\* long as no edit has overwritten the cash of a fill.
BooksBalance == ~lost => Balanced

\* "starting_balance is only editable while the account is still flat [...]
\* changing it after that would silently invalidate the account's own P&L math"
\* (paperaccounts/handler.go:188): the math holds whatever the owner edits.
EditsKeepBooks == Balanced

\* "Equity/TotalPnL are computed from RealizedPnL+UnrealizedPnL-TotalFees rather
\* than reconciled against CashBalance [...] these are equivalent" (paper_pnl.go:11).
EquityIsEquivalent == ~lost => Equity = account.cash + Worth

\* A mark nothing has overtaken is the profit of the row it stands in.
MarksAreFresh ==
    \A s \in Symbols \ stale :
        positions[s].upnl = UnrealizedPnL(positions[s].qty, positions[s].avg, positions[s].last)

\* The two agree except where a mark was computed from a row that has changed since.
EquityUnlessStale == ~lost /\ stale = {} => Equity = account.cash + Worth

\* A close never opens a position or turns it round, however old the row is it
\* was decided on: the quantity is taken under the lock.
CloseNeverOpens ==
    [][\A a \in Actors, s \in Symbols :
          act[a].step = "flatten" /\ act'[a] # act[a] /\ positions'[s] # positions[s] =>
              positions'[s].qty = 0]_paperVars

\* "auto-exits all open MIS paper positions" (missquareoff/job.go:1): a square-off
\* that gets to an open position leaves it flat.
SquareOffCloses ==
    [][\A a \in Actors : act[a].job = "squareoff" /\ act'[a] # act[a] =>
          \E s \in act[a].todo : /\ act'[a] # Idle => s \notin act'[a].todo
                                 /\ positions'[s].qty = 0]_paperVars

\* A stored snapshot is an equity the account really had while it was computed:
\* only two changes of different tables between the reads (a fill is such a pair)
\* leave a peak or a drawdown in the history that never was.
SnapshotIsAnEquity == ~snapshot.torn => snapshot.exact

\* As long as the account is not reset, the orders of a month exceed the quota by
\* one for each further worker, which has counted before the others stored theirs,
\* and by those whose count failed (paper_quota.go counts before the order is stored
\* and lets through what it cannot count).
QuotaOvershoot ==
    Quota # 0 /\ epoch = 1 => placed <= Quota + Cardinality(Actors) - 1 + uncounted

\* "Free plan capped at 10 paper trades/month" (feature-catalogue.md:82).
QuotaKept == Quota # 0 => placed <= Quota
=============================================================================
