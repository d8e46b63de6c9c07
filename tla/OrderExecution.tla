--------------------------- MODULE OrderExecution ---------------------------
(***************************************************************************)
(* From an execution request to an order at the broker and back: the       *)
(* gateway's local or HTTP adapter, the adapter's idempotency wrapper, the *)
(* checks and the sizing of the live adapter, the broker clients and the   *)
(* orders the broker keeps.                                                *)
(*                                                                         *)
(*   gateway   internal/execution (orchestrator, router, adapter/http)     *)
(*   adapter   internal/execution/adapter/server, adapter/local            *)
(*   brokers   internal/integrations/brokers/livebrokers, simulated        *)
(*                                                                         *)
(* A command is one call of the gateway; two commands with one key are a   *)
(* command and its repetition.  Every Redis call and every HTTP request to *)
(* the broker is a step of its own.  OrderRules holds the rules applied.   *)
(***************************************************************************)
EXTENDS OrderRules

CONSTANTS
    Cmds,       \* commands
    Keys,       \* idempotency keys
    Starts,     \* sets of [scene, key, want]: a deployment and credential (see
                \* OrderRules), the key of each command, the request of each key
    Equities,   \* figures the broker may report as equity
    Positions,  \* initial net positions, in hundredths
    Quotes,     \* prices the broker may quote
    CredCap,    \* BrokerCredOrdersPerSecCap
    Faults,     \* which faults may happen
    MaxFaults   \* bound on their number

\* A request as the gate lets it through (signals/handler.go:132).
Wanted(r) == /\ r.side \in {"BUY", "SELL", "CLOSE"}
             /\ {r.sl, r.tp, r.price, r.fixed, r.signal, r.risk} \subseteq Int

ASSUME ExecutionConstantsOK ==
    /\ CredCap \in Nat \ {0}
    /\ MaxFaults \in Nat
    /\ \A s \in Starts : /\ s.key \in [Cmds -> Keys] /\ DOMAIN s.want = Keys
                         /\ s.scene.wire # "http" =>
                              \A c, d \in Cmds : s.key[c] = s.key[d] => c = d
                         /\ s.scene.products \subseteq {"MIS", "CNC", "NRML"} /\ s.scene.slip \in Int
                         /\ \A k \in Keys : Wanted(s.want[k])
    /\ Equities \subseteq Int /\ Positions \subseteq Int /\ Quotes \subseteq Nat \ {0}
    /\ Faults \subseteq {"redis", "lost", "garbled", "busy", "refuse", "crash", "timeout"}

VARIABLES
    scene,     \* the deployment, fixed
    key,       \* key[c]: idempotency key of command c
    want,      \* want[k]: the request behind key k
    pc,        \* pc[c]: what the execution of c does next
    draft,     \* draft[c]: the order c prepares and the calls still to make
    outcome,   \* outcome[c]: what the execution of c came to
    heard,     \* heard[c]: what the gateway has heard of c
    cached,    \* cached[k]: outcome stored under key k
    window,    \* orders counted against the credential this second
    token,     \* the instrument cached for the symbol, "" for none
    book,      \* orders the broker has accepted
    position,  \* position[p]: net position per product
    faults,    \* faults so far
    excused    \* keys for which the idempotency store could not be relied on

localVars == <<pc, draft, outcome, heard>>
storeVars == <<cached, window, token, excused>>
brokerVars == <<book, position>>
vars == <<scene, key, want, localVars, storeVars, brokerVars, faults>>

Products == {"MIS", "CNC", "NRML", "net"}
SearchRows == {<<>>, <<"other">>, <<"other", "exact">>}
None == [status |-> "none", code |-> "ok", by |-> 0]
Rejected(c, code) == [status |-> "rejected", code |-> code, by |-> c]
Submitted(c) == [status |-> "submitted", code |-> "ok", by |-> c]

Http == scene.wire = "http"
Live == scene.mode = "live"
Req(c) == want[key[c]]

\* An order at the broker; stood is the position its product had when a
\* close was sized, ltp the quote its stop was computed from.
OrderOf(c) ==
    LET close == Req(c).side = "CLOSE"
    IN  [by |-> c, close |-> close, stood |-> draft[c].stood, ltp |-> draft[c].ltp, state |-> "open",
         post |-> Posted(scene.broker, draft[c].order, close, draft[c].ltp)]

OrdersOf(c) == {i \in DOMAIN book : book[i].by = c}

Init ==
    /\ \E s \in Starts : scene = s.scene /\ key = s.key /\ want = s.want
    /\ pc = [c \in Cmds |-> "idle"]
    /\ draft = [c \in Cmds |-> [order |-> <<>>, calls |-> <<>>, lot |-> 0, stood |-> 0, ltp |-> 0]]
    /\ outcome = [c \in Cmds |-> None]
    /\ heard = [c \in Cmds |-> None]
    /\ cached = [k \in Keys |-> None]
    /\ window = 0
    /\ token = ""
    /\ book = <<>>
    /\ \E q \in Positions : position = [p \in Products |-> IF p = "CNC" THEN 0 ELSE q]
    /\ faults = 0
    /\ excused = {}

\* A fault of kind f, within the bound.
Fault(f) == f \in Faults /\ faults < MaxFaults /\ faults' = faults + 1

Goto(c, step) == pc' = [pc EXCEPT ![c] = step]

\* The execution of c has come to o: over HTTP it is stored first.
Finish(c, o) ==
    /\ outcome' = [outcome EXCEPT ![c] = o]
    /\ Goto(c, IF Http THEN "store" ELSE "reply")

Fail(c, code) == Finish(c, Rejected(c, code))

-----------------------------------------------------------------------------
(* The gateway.                                                            *)

\* ExecuteLive: the local adapter runs in the process, the HTTP adapter
\* checks on its own and posts.
Submit(c) ==
    /\ pc[c] = "idle"
    /\ IF ~Http THEN Goto(c, "admit") /\ UNCHANGED outcome
       ELSE IF GatewayCode(scene) # "ok"
       THEN Goto(c, "reply") /\ outcome' = [outcome EXCEPT ![c] = Rejected(c, GatewayCode(scene))]
       ELSE Goto(c, "lookup") /\ UNCHANGED outcome
    /\ UNCHANGED <<scene, key, want, draft, heard, storeVars, brokerVars, faults>>

\* OutcomeToResult: an error without a code is internal.
OutcomeToResult(o) == IF o.status = "rejected" /\ o.code = "" THEN [o EXCEPT !.code = "internal"] ELSE o

\* Client.PlaceOrder: the answer of the adapter, unless the client has left.
Reply(c) ==
    /\ pc[c] = "reply"
    /\ Goto(c, "done")
    /\ heard' = [heard EXCEPT ![c] = IF @ = None THEN OutcomeToResult(outcome[c]) ELSE @]
    /\ UNCHANGED <<scene, key, want, draft, outcome, storeVars, brokerVars, faults>>

\* The HTTP client times out; the adapter does not notice.
GiveUp(c) ==
    /\ Http /\ pc[c] \notin {"idle", "done"} /\ heard[c] = None
    /\ Fault("timeout")
    /\ heard' = [heard EXCEPT ![c] = Rejected(c, "broker_unreachable")]
    /\ UNCHANGED <<scene, key, want, pc, draft, outcome, storeVars, brokerVars>>

-----------------------------------------------------------------------------
(* The adapter.                                                            *)

Busy(c) == pc[c] \notin {"idle", "lookup", "reply", "done"}

\* GetAdapterOrderOutcome: a hit is the answer, a miss or an error executes.
Lookup(c) ==
    LET k == key[c]
        other == \E d \in Cmds \ {c} : key[d] = k /\ Busy(d)
    IN  /\ pc[c] = "lookup"
        /\ \/ /\ cached[k] # None
              /\ outcome' = [outcome EXCEPT ![c] = cached[k]]
              /\ Goto(c, "reply")
              /\ UNCHANGED <<excused, faults>>
           \/ /\ cached[k] = None
              /\ Goto(c, "admit")
              /\ excused' = excused \cup (IF other THEN {k} ELSE {})
              /\ UNCHANGED <<outcome, faults>>
           \/ /\ Fault("redis")
              /\ Goto(c, "admit")
              /\ excused' = excused \cup {k}
              /\ UNCHANGED outcome
        /\ UNCHANGED <<scene, key, want, draft, heard, cached, window, token, brokerVars>>

\* PutAdapterOrderOutcome; its error is dropped.
Store(c) ==
    /\ pc[c] = "store"
    /\ Goto(c, "reply")
    /\ \/ /\ cached' = [cached EXCEPT ![key[c]] = outcome[c]]
          /\ UNCHANGED <<excused, faults>>
       \/ /\ Fault("redis")
          /\ excused' = excused \cup {key[c]}
          /\ UNCHANGED cached
    /\ UNCHANGED <<scene, key, want, draft, outcome, heard, window, token, brokerVars>>

\* LiveAdapter.Execute up to sizing: the router, the credential's rate cap
\* (an error of Redis lets the order on), access.
Admit(c) ==
    /\ pc[c] = "admit"
    /\ \/ /\ ~RequireBroker(scene)
          /\ Fail(c, "internal")
          /\ UNCHANGED <<window, faults>>
       \/ /\ RequireBroker(scene)
          /\ \/ window' = window + 1 /\ UNCHANGED faults
             \/ window' = window /\ Fault("redis")
          /\ IF window' > CredCap THEN Fail(c, "rate_limited")
             ELSE IF AccessCode(scene) # "ok" THEN Fail(c, AccessCode(scene))
             ELSE Goto(c, "size") /\ UNCHANGED outcome
    /\ UNCHANGED <<scene, key, want, draft, heard, cached, token, excused, brokerVars>>

\* The order is built: the broker's client takes it (livebrokers), or the mock.
Plan(c, o, lot) ==
    /\ draft' = [draft EXCEPT ![c].order = o, ![c].lot = lot, ![c].calls = CallsTo(scene.broker, o)]
    /\ Goto(c, IF Live THEN "call" ELSE "mock")

\* Sizing, the cap on the lot, maporder.Build and the algo tag.  The mock
\* broker reports an equity of 100000.
Size(c) ==
    LET r == Req(c)
    IN  /\ pc[c] = "size"
        /\ \E e \in IF ~NeedsEquity(r) THEN {0} ELSE IF Live THEN Equities ELSE {100000} :
             LET lot == ResolveLot(r, Equity(scene.broker, e), scene.broker)
                 o == Build(scene, r, lot)
             IN  IF ~ApplyMaxLotSize(r.max, lot) THEN Fail(c, "internal") /\ UNCHANGED draft
                 ELSE IF BuildCode(scene, r) # "ok"
                      THEN Fail(c, BuildCode(scene, r)) /\ UNCHANGED draft
                 ELSE IF AlgoCode(scene) # "ok" THEN Fail(c, AlgoCode(scene)) /\ UNCHANGED draft
                 ELSE Plan(c, o, lot) /\ UNCHANGED outcome
    /\ UNCHANGED <<scene, key, want, heard, storeVars, brokerVars, faults>>

\* simulated.Broker: every order is submitted, none exists anywhere.
Mock(c) ==
    /\ pc[c] = "mock"
    /\ Finish(c, Submitted(c))
    /\ UNCHANGED <<scene, key, want, draft, heard, storeVars, brokerVars, faults>>

-----------------------------------------------------------------------------
(* The broker clients.                                                     *)

Calling(c, call) == pc[c] = "call" /\ Head(draft[c].calls) = call
Rest(c) == Tail(draft[c].calls)
Advance(c, d) == draft' = [draft EXCEPT ![c] = [d EXCEPT !.calls = Rest(c)]]

\* A request to the broker that fails without having placed anything: it is
\* repeated if the client may, else its code is the outcome.
CallFails(c, call) ==
    \E k \in {"lost", "garbled", "busy", "refuse"} :
        /\ Fault(k)
        /\ \E kind \in IF k = "refuse" THEN Refusals ELSE {k} :
             IF ShouldRetry(Method(scene.broker, call), kind)
             THEN UNCHANGED <<pc, outcome>>
             ELSE Fail(c, ErrorCode(scene.broker, Req(c).side, kind))
        /\ UNCHANGED draft

\* Resolver.Resolve: the cached instrument, or a search whose pick fills the
\* cache.  An error of Redis on reading fails the order, one on writing not.
Instrument(c) ==
    /\ Calling(c, "instrument")
    /\ \/ /\ token # ""
          /\ Advance(c, draft[c])
          /\ UNCHANGED <<pc, outcome, token, faults>>
       \/ /\ token = ""
          /\ \E rows \in SearchRows :
               LET found == PickInstrument(scene.broker, rows)
               IN  IF found = "" THEN Fail(c, "invalid_symbol") /\ UNCHANGED <<draft, token>>
                   ELSE /\ token' \in {"", found}
                        /\ Advance(c, draft[c])
                        /\ UNCHANGED <<pc, outcome>>
          /\ UNCHANGED faults
       \/ /\ Fault("redis")
          /\ Fail(c, "internal")
          /\ UNCHANGED <<draft, token>>
       \/ /\ token = ""
          /\ CallFails(c, "instrument")
          /\ UNCHANGED token
    /\ UNCHANGED <<scene, key, want, heard, cached, window, excused, brokerVars>>

\* getLTP, getCurrentPrice.
Quote(c) ==
    /\ Calling(c, "quote")
    /\ \/ /\ \E p \in Quotes : Advance(c, [draft[c] EXCEPT !.ltp = p])
          /\ UNCHANGED <<pc, outcome, faults>>
       \/ /\ \E code \in QuoteCodes(scene.broker) : Fail(c, code)
          /\ UNCHANGED <<draft, faults>>
       \/ CallFails(c, "quote")
    /\ UNCHANGED <<scene, key, want, heard, storeVars, brokerVars>>

\* netPositionQty and squareOff: nothing to close is an error.
Position(c) ==
    LET o == draft[c].order
        net == NetPosition(scene.broker, position, o.product)
    IN  /\ Calling(c, "position")
        /\ \/ /\ net = 0
              /\ Fail(c, "no_position")
              /\ UNCHANGED <<draft, faults>>
           \/ /\ net # 0
              /\ Advance(c, [draft[c] EXCEPT !.order = SquareOff(o, net), !.stood = position[o.product]])
              /\ UNCHANGED <<pc, outcome, faults>>
           \/ CallFails(c, "position")
        /\ UNCHANGED <<scene, key, want, heard, storeVars, brokerVars>>

\* placeMarketOrderWithSecurity refuses a bracket before it posts.
Refuse(c) ==
    /\ Calling(c, "refuse")
    /\ Fail(c, "bracket_not_supported")
    /\ UNCHANGED <<scene, key, want, draft, heard, storeVars, brokerVars, faults>>

\* The broker takes the order; MetaApi closes the position at once.
Accept(c) ==
    LET o == OrderOf(c)
    IN  IF o.post.side = "CLOSE"
        THEN /\ book' = Append(book, [o EXCEPT !.state = "filled"])
             /\ position' = [position EXCEPT ![o.post.product] = 0]
        ELSE /\ book' = Append(book, o)
             /\ UNCHANGED position

\* The one POST that places the order.  The answer may be lost, unreadable
\* or a 5xx whether the broker has taken the order or not.
Send(c) ==
    /\ Calling(c, "send")
    /\ \/ /\ Accept(c)
          /\ Finish(c, Submitted(c))
          /\ UNCHANGED faults
       \/ /\ Fault("refuse")
          /\ \E k \in Refusals : Fail(c, ErrorCode(scene.broker, Req(c).side, k))
          /\ UNCHANGED brokerVars
       \/ \E k \in {"lost", "garbled", "busy"} :
            /\ Fault(k)
            /\ Accept(c) \/ (k # "garbled" /\ UNCHANGED brokerVars)
            /\ IF ShouldRetry("POST", k) THEN UNCHANGED <<pc, outcome>>
               ELSE Fail(c, ErrorCode(scene.broker, Req(c).side, k))
    /\ UNCHANGED <<scene, key, want, draft, heard, storeVars>>

-----------------------------------------------------------------------------
(* The world around.                                                       *)

\* The exchange fills an order as a whole.
Fill(i) ==
    LET o == book[i].post
    IN  /\ book[i].state = "open"
        /\ book' = [book EXCEPT ![i].state = "filled"]
        /\ position' = [position EXCEPT ![o.product] = IF o.side = "BUY" THEN @ + o.qty ELSE @ - o.qty]
        /\ UNCHANGED <<scene, key, want, localVars, storeVars, faults>>

\* The second of the rate cap passes.
Second ==
    /\ window > 0
    /\ window' = 0
    /\ UNCHANGED <<scene, key, want, localVars, cached, token, excused, brokerVars, faults>>

\* adapterIdempotencyTTL passes.
Forget(k) ==
    /\ cached[k] # None
    /\ cached' = [cached EXCEPT ![k] = None]
    /\ excused' = excused \cup {k}
    /\ UNCHANGED <<scene, key, want, localVars, window, token, brokerVars, faults>>

\* The adapter process dies; the gateway sees the connection break.
Crash(c) ==
    /\ Http /\ Busy(c)
    /\ Fault("crash")
    /\ Goto(c, "done")
    /\ heard' = [heard EXCEPT ![c] = IF @ = None THEN Rejected(c, "broker_unreachable") ELSE @]
    /\ excused' = excused \cup {key[c]}
    /\ UNCHANGED <<scene, key, want, draft, outcome, cached, window, token, brokerVars>>

Step(c) ==
    \/ Submit(c) \/ Lookup(c) \/ Admit(c) \/ Size(c) \/ Mock(c)
    \/ Instrument(c) \/ Quote(c) \/ Position(c) \/ Refuse(c) \/ Send(c)
    \/ Store(c) \/ Reply(c)

Next ==
    \/ \E c \in Cmds : Step(c) \/ GiveUp(c) \/ Crash(c)
    \/ \E i \in DOMAIN book : Fill(i)
    \/ \E k \in Keys : Forget(k)
    \/ Second

Spec == Init /\ [][Next]_vars

-----------------------------------------------------------------------------
(* Properties.                                                             *)

Steps == {"idle", "lookup", "admit", "size", "mock", "call", "store", "reply", "done"}
Outcomes == [status : {"none", "submitted", "rejected"}, code : STRING, by : Cmds \cup {0}]

\* An execution waits for a call only with calls left, and has come to an
\* outcome exactly when it stores or answers (adapter/local, adapter/server).
TypeOK ==
    /\ pc \in [Cmds -> Steps]
    /\ \A c \in Cmds : /\ {outcome[c], heard[c]} \subseteq Outcomes
                       /\ pc[c] = "call" => Len(draft[c].calls) > 0
                       /\ pc[c] \in {"store", "reply"} => outcome[c] # None
    /\ \A k \in Keys : cached[k] \in Outcomes
    /\ excused \subseteq Keys

\* Codes that do not tell whether the broker has the order.
Unsure == {"broker_unreachable", "internal"}

\* "Retries return the same outcome; never double-place at broker"
\* (ADAPTER_SPLIT.md): one execution never places two orders, whatever fails;
\* two commands with one key place one order and hear the same unless the
\* key's record could not be relied on: an error of Redis, a repetition that
\* overlaps the first, a crash, or the 24 hours gone (adapter/server/
\* idempotency.go, httpclient).
OncePerKey ==
    /\ \A c \in Cmds : Cardinality(OrdersOf(c)) <= 1
    /\ \A c, d \in Cmds :
         key[c] = key[d] /\ c # d /\ key[c] \notin excused =>
           /\ OrdersOf(c) = {} \/ OrdersOf(d) = {}
           /\ heard[c] # None /\ heard[d] # None
              /\ "broker_unreachable" \notin {heard[c].code, heard[d].code} =>
                   heard[c].status = heard[d].status /\ heard[c].code = heard[d].code

\* What OncePerKey rests on.  The shape of the tables and of the broker's book.
Tables ==
    /\ pc \in [Cmds -> Steps]
    /\ outcome = [c \in Cmds |-> outcome[c]] /\ heard = [c \in Cmds |-> heard[c]]
    /\ cached = [k \in Keys |-> cached[k]]
    /\ key \in [Cmds -> Keys]
    /\ ~Http => \A c, d \in Cmds : key[c] = key[d] => c = d
Booked ==
    /\ Len(book) \in Nat /\ book = [i \in 1..Len(book) |-> book[i]]
    /\ \A i \in 1..Len(book) : "by" \in DOMAIN book[i]

\* An execution has no order before its only POST, and one after it; its outcome is its own.
OneOrderEach ==
    /\ \A i, j \in DOMAIN book : book[i].by = book[j].by => i = j
    /\ \A c \in Cmds : OrdersOf(c) # {} => pc[c] \in {"store", "reply", "done"} /\ outcome[c].by = c

\* While the record of a key can be relied on, whoever executes under it is alone
\* and has found nothing, and whoever is past the store answers what is recorded.
RecordHolds ==
    Http => \A c \in Cmds : key[c] \notin excused =>
        /\ Busy(c) => /\ cached[key[c]] = None
                      /\ \A d \in Cmds : key[d] = key[c] /\ Busy(d) => d = c
        /\ GatewayCode(scene) = "ok" /\ pc[c] \in {"reply", "done"} =>
              cached[key[c]] = outcome[c] /\ outcome[c] # None

\* A gateway that refuses sends nobody to the adapter.
RefusedAtGateway ==
    Http /\ GatewayCode(scene) # "ok" => \A c \in Cmds :
        /\ pc[c] \in {"idle", "reply", "done"} /\ OrdersOf(c) = {}
        /\ pc[c] # "idle" => outcome[c] = Rejected(c, GatewayCode(scene))

\* What the gateway hears is the outcome, unless it has given the adapter up; at the
\* store there is an outcome.
HeardOutcome == \A c \in Cmds :
    /\ heard[c] # None /\ heard[c].code # "broker_unreachable" =>
          pc[c] = "done" /\ heard[c] = OutcomeToResult(outcome[c])
    /\ pc[c] = "store" => outcome[c] # None

\* A trade shown as submitted has one order at the broker, and one shown as
\* rejected has none unless its code says that nobody knows, over every
\* lost, late, unreadable or cached answer (livebrokers, adapter/http).
AnswerMatchesBroker ==
    Live => \A c \in Cmds :
              LET a == heard[c]
              IN  /\ a.status = "submitted" => Cardinality(OrdersOf(a.by)) = 1
                  /\ a.status = "rejected" /\ a.code \notin Unsure => OrdersOf(a.by) = {}

\* An answer, wherever it is kept: who has it is past its only POST, so what it says
\* of the order stays true.
SaysTrue(a) ==
    /\ a = [status |-> a.status, code |-> a.code, by |-> a.by]
    /\ a.status = "submitted" /\ Live => a.by \in Cmds /\ OrdersOf(a.by) # {}
    /\ a.status = "rejected" /\ a.code \notin Unsure =>
          a.by \in Cmds /\ pc[a.by] \in {"store", "reply", "done"} /\ OrdersOf(a.by) = {}
AnswersHold ==
    /\ \A c \in Cmds : SaysTrue(outcome[c]) /\ SaysTrue(heard[c])
    /\ \A k \in Keys : SaysTrue(cached[k])
    /\ \A c \in Cmds : pc[c] = "mock" => ~Live

ExecutionInv ==
    Tables /\ Booked /\ OneOrderEach /\ RecordHolds /\ RefusedAtGateway /\ HeardOutcome /\ AnswersHold

\* What the book rests on: how far the preparation of an order has come.  An entry keeps
\* the side, the stop and the limit price of its request, and where the stop is computed from a quote the
\* quote is asked for before the order is sent.
Entering(c) ==
    LET d == draft[c]
        o == d.order
    IN  /\ o.side = Req(c).side /\ o.sl = Req(c).sl /\ o.bracket = Bracket(Req(c))
        /\ o.price = Req(c).price /\ o.slip = scene.slip
        /\ d.calls \in {<<"instrument", "quote", "send">>, <<"instrument", "send">>, <<"instrument", "refuse">>,
                        <<"quote", "send">>, <<"send">>, <<"refuse">>}
        /\ Req(c).sl > 0 =>
              /\ scene.broker = "zerodha" => d.calls = <<"quote", "send">> \/ d.ltp > 0
              /\ scene.broker = "dhan" => d.calls \in {<<"instrument", "refuse">>, <<"refuse">>}

\* The opposite of a net position.
Opposite(o, net) == /\ net # 0 /\ o.side = (IF net < 0 THEN "BUY" ELSE "SELL")
                    /\ o.qty = (IF net < 0 THEN -net ELSE net)

\* A close asks for the position, then is its opposite; MetaApi closes by itself.
Leaving(c) ==
    LET d == draft[c]
        o == d.order
    IN  \/ /\ scene.broker \in Indian
           /\ d.calls \in {<<"instrument", "position", "send">>, <<"instrument", "position", "refuse">>,
                           <<"position", "send">>, <<"position", "refuse">>}
        \/ /\ scene.broker \in Indian /\ d.calls \in {<<"send">>, <<"refuse">>}
           /\ o.exec = "MARKET" /\ Opposite(o, d.stood)
        \/ scene.broker \notin Indian /\ d.calls = <<"send">> /\ o.side = "CLOSE"

Prepared(c) ==
    /\ DOMAIN draft[c].order = {"side", "product", "bracket", "sl", "tp", "price", "slip", "qty", "exec"}
    /\ draft[c].order.qty \in Int /\ draft[c].order.product \in Products
    /\ IF Req(c).side = "CLOSE" THEN Leaving(c) ELSE Entering(c)

\* At Zerodha the quote is above the least trigger and a limit price of the signal less
\* than the stop distance beyond the quote; the other clients have neither.
WithinReach(o) ==
    LET r == Req(o.by)
        d == r.sl * Point("zerodha")
    IN  scene.broker = "zerodha" =>
          /\ r.side = "BUY" => o.ltp > MinTrigger
          /\ o.post.type = "LIMIT" /\ r.price > 0 =>
                IF r.side = "BUY" THEN r.price > MinTrigger /\ r.price > o.ltp - d
                                  ELSE r.price < o.ltp + d

\* The stop lies on the losing side of the quote, and of the price of a LIMIT order.
LosingSide(p, from) == IF p.side = "BUY" THEN p.stop.at < from ELSE p.stop.at > from
StopsLoss(o) == /\ LosingSide(o.post, o.ltp)
                /\ o.post.type = "LIMIT" => LosingSide(o.post, o.post.price)

\* An order with a stop keeps it, and a close is the opposite of what it was sized from.
Protected(o) == o.post.stop.set /\ (WithinReach(o) => StopsLoss(o))
Standing(o) ==
    /\ Req(o.by).sl > 0 /\ ~o.close => Protected(o)
    /\ o.state = "open" => o.post.qty \in Int /\ o.post.product \in Products
    /\ o.close /\ o.state = "open" => o.post.type = "MARKET" /\ Opposite(o.post, o.stood)

DraftFields == {"order", "calls", "lot", "stood", "ltp"}
OrdersInv ==
    /\ scene.products \subseteq {"MIS", "CNC", "NRML"} /\ scene.slip \in Int
    /\ position \in [Products -> Int]
    /\ draft = [c \in Cmds |-> draft[c]]
    /\ \A c \in Cmds : /\ Wanted(Req(c))
                       /\ DOMAIN draft[c] = DraftFields /\ {draft[c].ltp, draft[c].stood} \subseteq Int
                       /\ pc[c] = "call" => Prepared(c)
    /\ \A i \in DOMAIN book : DOMAIN book[i] = {"by", "close", "stood", "ltp", "state", "post"} /\ Standing(book[i])

\* A close that fills on the position it was sized from leaves its product
\* flat: it never opens the opposite position; and it is a market order
\* (squareOff of each client: "never send a LIMIT close order").
CloseNeverReverses ==
    [][\A i \in DOMAIN book :
         /\ book[i].close /\ book[i].state = "open"
         /\ book'[i].state = "filled"
         /\ position[book[i].post.product] = book[i].stood
         => book[i].post.type = "MARKET" /\ position'[book[i].post.product] = 0]_vars

\* An entry asked for with a stop distance is at the broker with a stop, or not at
\* all (placeCoverOrder, placeROBOOrder, MT5), and the stop is on the losing side of
\* the quote and of the limit price, except where Zerodha's client raises the trigger
\* to five paise, or takes a limit price from the signal that lies beyond the trigger.
StopProtects ==
    \A i \in DOMAIN book : Req(book[i].by).sl > 0 /\ ~book[i].close => Protected(book[i])

\* A stop is on the losing side whatever the quote and the limit price.
StopAlwaysProtects ==
    \A i \in DOMAIN book : Req(book[i].by).sl > 0 /\ ~book[i].close => StopsLoss(book[i])
=============================================================================
