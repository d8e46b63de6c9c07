----------------------------- MODULE OrderRules -----------------------------
(***************************************************************************)
(* The rules an order passes through between an execution request and the  *)
(* broker: sizing, the order a credential allows, the algo tag, what each  *)
(* broker client calls and posts, and how broker failures become codes.    *)
(*                                                                         *)
(*   internal/execution/adapter/local, internal/risk, internal/algo,       *)
(*   internal/credentialproduct, internal/integrations/brokers             *)
(*                                                                         *)
(* Lots and shares are in hundredths, prices in paise at an Indian broker  *)
(* and in points of 0.0001 at MT5.  A request is a record                  *)
(*   [side, symbol, sl, tp, price, exec, fixed, signal, risk, max, product] *)
(* A scene is one deployment, user and credential:                         *)
(*   [broker, wire, mode, enabled, plan, parsed, oauth, exchange,          *)
(*    products, algo, required, fallback, slip]                            *)
(* "ok" is the code of no error.                                           *)
(***************************************************************************)
EXTENDS Integers, FiniteSets, Sequences

Indian == {"zerodha", "angel", "dhan"}
Brokers == Indian \cup {"mt5_cloud"}

-----------------------------------------------------------------------------
(* Sizing.                                                                 *)

MinQtyForBroker(b) == IF b \in Indian THEN 100 ELSE 1

\* 0 when the lot cannot be computed: no risk, or no stop distance.
CalcLotSize(equity, pct, sl, b) ==
    IF pct <= 0 \/ sl <= 0 THEN 0
    ELSE LET lot == IF b \in Indian THEN ((equity * pct) \div (100 * sl)) * 100
                                    ELSE (equity * pct) \div (10 * sl)
         IN  IF lot < MinQtyForBroker(b) THEN MinQtyForBroker(b) ELSE lot

\* risk.ResolveLot: fixed lot, then the signal's, then risk; 0 unresolved.
RiskResolveLot(r, equity, b) ==
    IF r.fixed > 0 THEN r.fixed
    ELSE IF r.signal > 0 THEN r.signal
    ELSE IF r.risk > 0 /\ equity > 0 THEN CalcLotSize(equity, r.risk, r.sl, b)
    ELSE 0

\* The equity is asked for only when nothing else decides the lot.
NeedsEquity(r) == r.fixed = 0 /\ r.signal = 0 /\ r.risk > 0

\* local.ResolveLot: an unknown equity or lot falls back to the minimum.
ResolveLot(r, equity, b) ==
    LET lot == RiskResolveLot(r, equity, b)
    IN  IF lot > 0 THEN lot ELSE MinQtyForBroker(b)

ApplyMaxLotSize(max, lot) == max <= 0 \/ lot <= max

\* What the equity call of each client makes of the broker's figure; 0 is
\* the error, which ResolveLot treats like an equity that is not positive.
ZerodhaEquity(cash) == cash
AngelEquity(cash) == IF cash > 0 THEN cash ELSE 0
DhanEquity(cash, alt) ==
    LET e == IF cash > 0 THEN cash ELSE alt IN IF e > 0 THEN e ELSE 0
MT5Equity(equity) == IF equity > 0 THEN equity ELSE 0

Equity(b, e) == CASE b = "zerodha" -> ZerodhaEquity(e)
                  [] b = "angel"   -> AngelEquity(e)
                  [] b = "dhan"    -> DhanEquity(0, e)
                  [] OTHER         -> MT5Equity(e)

-----------------------------------------------------------------------------
(* Building the order.                                                     *)

\* "" when the signal must name a product and does not, or names another.
ResolveOrderProduct(stored, signal) ==
    IF stored = {} THEN "MIS"
    ELSE IF signal # "" THEN IF signal \in stored THEN signal ELSE ""
    ELSE IF Cardinality(stored) = 1 THEN CHOOSE p \in stored : TRUE
    ELSE ""

ValidSymbolForBroker(b, symbol) == ~(b \in Indian /\ symbol = "forex")

\* Indian quantities are whole shares, rounded half up and never below one.
Shares(lot) == LET n == (lot + 50) \div 100 IN IF n < 1 THEN 100 ELSE n * 100

Bracket(r) == r.sl > 0 \/ r.tp > 0

ProductFor(s, r) ==
    IF s.broker \in Indian THEN ResolveOrderProduct(s.products, r.product) ELSE "net"

\* Build's refusals, in its order.
BuildCode(s, r) ==
    IF ~ValidSymbolForBroker(s.broker, r.symbol) THEN "invalid_symbol"
    ELSE IF s.broker \notin Indian THEN "ok"
    ELSE IF s.exchange \notin {"NSE", "BSE"} THEN "invalid_credentials"
    ELSE IF ProductFor(s, r) = "" THEN "invalid_credentials"
    ELSE IF Bracket(r) /\ ProductFor(s, r) # "MIS" THEN "bracket_not_supported"
    ELSE IF r.exec \notin {"", "MARKET", "LIMIT"} THEN "internal"
    ELSE "ok"

\* The order a request becomes; an empty order type means LIMIT.
Build(s, r, lot) ==
    [side |-> r.side, product |-> ProductFor(s, r), bracket |-> Bracket(r),
     sl |-> r.sl, tp |-> r.tp, price |-> r.price, slip |-> s.slip,
     qty |-> IF s.broker \in Indian THEN Shares(lot) ELSE lot,
     exec |-> IF s.broker \notin Indian THEN "MARKET"
              ELSE IF r.exec = "" THEN "LIMIT" ELSE r.exec]

-----------------------------------------------------------------------------
(* The algo tag of a live order at an Indian broker.                       *)

NeedsLiveTag(s) == s.mode = "live" /\ s.broker \in Indian

FallbackFor(s) == IF s.broker \in Indian THEN s.fallback ELSE "none"

\* validateForBroker: alphanumeric, at most 30 characters for Dhan, 20 else.
ValidTag(id, b) == id \in {"short"} \cup (IF b = "dhan" THEN {"long"} ELSE {})

AlgoCode(s) ==
    LET id == IF s.algo # "none" THEN s.algo ELSE FallbackFor(s)
    IN  IF ~NeedsLiveTag(s) THEN "ok"
        ELSE IF id = "none" THEN IF s.required THEN "algo_id_required" ELSE "ok"
        ELSE IF ValidTag(id, s.broker) THEN "ok" ELSE "invalid_credentials"

-----------------------------------------------------------------------------
(* Who may execute.                                                        *)

RequireBroker(s) == s.enabled

LiveAllowed(plan) == plan # "free"

ServerAllowsExecution(s) == s.mode \in {"live", "mock"}

ResolveExecution(s) ==
    IF ServerAllowsExecution(s) /\ LiveAllowed(s.plan) THEN "ok" ELSE "live_not_allowed"

\* The client that executes: the simulated one, one of the live ones, or none
\* for a broker type the factory does not know.
NewWithParsed(s) == IF s.mode = "mock" THEN "simulated"
                    ELSE IF s.broker \in Brokers THEN s.broker ELSE "none"

\* Checks of LiveAdapter.Execute between the rate cap and sizing, in order.
AccessCode(s) ==
    IF ResolveExecution(s) # "ok" THEN ResolveExecution(s)
    ELSE IF s.parsed # "ok" THEN "invalid_credentials"
    ELSE IF s.broker = "zerodha" /\ ~s.oauth THEN "internal"
    ELSE IF NewWithParsed(s) = "none" THEN "invalid_credentials"
    ELSE "ok"

\* The gateway's own checks before it posts to an adapter.
GatewayCode(s) ==
    IF ~RequireBroker(s) \/ ~LiveAllowed(s.plan) THEN "internal" ELSE "ok"

-----------------------------------------------------------------------------
(* Broker failures.  A kind is what the response says; "busy" is 502-504,  *)
(* "garbled" a success whose body does not parse, "lost" no response.      *)

Refusals == {"token", "permission", "throttled", "notfound", "margin",
             "closed", "symbol", "flat", "other"}

MapHTTPErrorCode(k) ==
    CASE k \in {"token", "permission"} -> "auth_failed"
      [] k = "throttled"               -> "rate_limited"
      [] k \in {"notfound", "symbol"}  -> "invalid_symbol"
      [] k = "margin"                  -> "insufficient_margin"
      [] k = "closed"                  -> "market_closed"
      [] k = "flat"                    -> "no_position"
      [] OTHER                         -> "internal"

\* Kite's error_type tells a dead session from a missing permission.
MapKiteErrorCode(k) ==
    CASE k = "token"      -> "auth_failed"
      [] k = "permission" -> "permission_denied"
      [] OTHER            -> MapHTTPErrorCode(k)

\* decodeAngelJSON: the envelope's message decides, except for 401 and 403.
AngelErrorCode(k) == MapHTTPErrorCode(k)

\* Dhan has no word for a closed market or an unknown path.
MapDhanErrorCode(k) ==
    CASE k \in {"token", "permission"} -> "auth_failed"
      [] k = "throttled"               -> "rate_limited"
      [] k = "margin"                  -> "insufficient_margin"
      [] k = "flat"                    -> "no_position"
      [] k = "symbol"                  -> "invalid_symbol"
      [] OTHER                         -> "internal"

\* brokerErrNoPosition: a refused MT5 close is told from a bad symbol.
MT5CloseCode(k) == IF k \in {"notfound", "flat"} THEN "no_position" ELSE MapHTTPErrorCode(k)

\* Mutant: no response is taken for a throttled request.
ErrorCodeLost(b, side, k) ==
    IF k = "lost" THEN "rate_limited" ELSE IF b = "zerodha" THEN MapKiteErrorCode(k)
    ELSE MapHTTPErrorCode(k)

ErrorCode(b, side, k) ==
    CASE k = "lost"       -> "broker_unreachable"
      [] k = "garbled"    -> "internal"
      [] b = "zerodha"    -> MapKiteErrorCode(k)
      [] b = "angel"      -> AngelErrorCode(k)
      [] b = "dhan"       -> MapDhanErrorCode(k)
      [] side = "CLOSE"   -> MT5CloseCode(k)
      [] OTHER            -> MapHTTPErrorCode(k)

\* Mutant: every method counts as idempotent.
IsIdempotentAll(method) == TRUE

\* Client.Do repeats a request only if the method is idempotent.
IsIdempotent(method) == method \in {"GET", "HEAD", "OPTIONS"}
ShouldRetry(method, k) == IsIdempotent(method) /\ k = "busy"

\* Cancelling: 404 is order_not_found everywhere but at Angel.
ZerodhaCancel(k) == IF k = "notfound" THEN "order_not_found" ELSE MapKiteErrorCode(k)
AngelCancel(k) == AngelErrorCode(k)
DhanCancel(k) == IF k = "notfound" THEN "order_not_found" ELSE MapDhanErrorCode(k)
MT5Cancel(k) == IF k = "notfound" THEN "order_not_found" ELSE MapHTTPErrorCode(k)

CancelCode(b, k) == CASE k = "lost"     -> "broker_unreachable"
                      [] b = "zerodha"  -> ZerodhaCancel(k)
                      [] b = "angel"    -> AngelCancel(k)
                      [] b = "dhan"     -> DhanCancel(k)
                      [] OTHER          -> MT5Cancel(k)

-----------------------------------------------------------------------------
(* What PlaceOrder calls, in order, for an order o.                        *)

ZerodhaCalls(o) ==
    IF o.side = "CLOSE" THEN <<"position", "send">>
    ELSE IF o.bracket \/ (o.exec = "LIMIT" /\ o.price <= 0) THEN <<"quote", "send">>
    ELSE <<"send">>

AngelCalls(o) ==
    <<"instrument">> \o (IF o.side = "CLOSE" THEN <<"position">>
                         ELSE IF o.bracket THEN <<"quote">> ELSE <<>>) \o <<"send">>

\* Dhan refuses a bracket after all look-ups, a close included.
DhanCalls(o) ==
    <<"instrument">> \o (IF o.side = "CLOSE" THEN <<"position">> ELSE <<>>)
    \o (IF o.bracket THEN <<"refuse">> ELSE <<"send">>)

MT5Calls(o) == IF o.bracket /\ o.side # "CLOSE" THEN <<"quote", "send">> ELSE <<"send">>

CallsTo(b, o) == CASE b = "zerodha" -> ZerodhaCalls(o)
                   [] b = "angel"   -> AngelCalls(o)
                   [] b = "dhan"    -> DhanCalls(o)
                   [] OTHER         -> MT5Calls(o)

\* Angel reads its quote and its instrument with POST.
Method(b, call) ==
    IF call = "send" \/ (b = "angel" /\ call \in {"quote", "instrument"}) THEN "POST" ELSE "GET"

\* Search results for a symbol: the exact name, the name with -EQ, another.
\* Angel takes the first row when none matches, Dhan only a match.
PickAngelSearchResult(rows) ==
    IF rows = <<>> THEN ""
    ELSE IF \E i \in DOMAIN rows : rows[i] = "exact" THEN "exact"
    ELSE IF \E i \in DOMAIN rows : rows[i] = "eq" THEN "eq"
    ELSE Head(rows)
FindSecurityInInstrumentCSV(rows) ==
    LET m == SelectSeq(rows, LAMBDA x : x \in {"exact", "eq"}) IN IF m = <<>> THEN "" ELSE Head(m)
PickInstrument(b, rows) ==
    IF b = "angel" THEN PickAngelSearchResult(rows) ELSE FindSecurityInInstrumentCSV(rows)

\* Codes with which a look-up fails although the broker answered 200.
ZerodhaQuoteCodes == {"invalid_symbol"}
AngelQuoteCodes == {"invalid_symbol"}
MT5QuoteCodes == {"internal"}

QuoteCodes(b) == CASE b = "zerodha" -> ZerodhaQuoteCodes
                   [] b = "angel"   -> AngelQuoteCodes
                   [] OTHER         -> MT5QuoteCodes

\* The net position each client takes for the symbol: that of the order's
\* product; at MT5 the account has one.
ZerodhaNetPosition(pos, product) == pos[product]
AngelNetPosition(pos, product) == pos[product]
DhanNetPosition(pos, product) == pos[product]

NetPosition(b, pos, product) == CASE b = "zerodha" -> ZerodhaNetPosition(pos, product)
                                  [] b = "angel"   -> AngelNetPosition(pos, product)
                                  [] OTHER         -> DhanNetPosition(pos, product)

\* Mutant: the close keeps the quantity of the request.
SquareOffLot(o, net) == [o EXCEPT !.side = IF net < 0 THEN "BUY" ELSE "SELL", !.exec = "MARKET"]

\* squareOff: the opposite side and the whole net quantity, at market.
SquareOff(o, net) == [o EXCEPT !.side = IF net < 0 THEN "BUY" ELSE "SELL",
                               !.qty = IF net < 0 THEN -net ELSE net,
                               !.exec = "MARKET"]

\* What is posted: side, quantity and product of the order, its type, the limit
\* price (0 for none) and the stop it carries.
NoStop == [set |-> FALSE, at |-> 0]
StopAt(t) == [set |-> TRUE, at |-> t]
Post(o, type, stop) ==
    [side |-> o.side, qty |-> o.qty, product |-> o.product, type |-> type, price |-> 0, stop |-> stop]

\* A stop distance is in rupees at an Indian broker; a trigger is five paise or more.
Point(b) == IF b \in Indian THEN 100 ELSE 1
MinTrigger == 5

\* The quote worsened by a percentage, rounded to the paisa, ties upwards.
LimitPrice(ltp, side, slip) ==
    IF slip <= 0 THEN ltp
    ELSE IF side = "BUY" THEN ltp + (ltp * slip + 50) \div 100 ELSE ltp - (ltp * slip + 49) \div 100

\* A LIMIT order goes at the price of the signal, or at one found from the quote.
Limited(o, ltp, post) ==
    IF o.exec # "LIMIT" THEN post
    ELSE [post EXCEPT !.price = IF o.price > 0 THEN o.price ELSE LimitPrice(ltp, o.side, o.slip)]

ZerodhaRegular(o, ltp) ==
    Limited(o, ltp, Post(o, IF o.exec = "LIMIT" THEN "LIMIT" ELSE "MARKET", NoStop))

\* Mutant: the trigger of a short is below the market too.
ZerodhaCoverBelow(o, ltp) ==
    LET t == ltp - o.sl * Point("zerodha")
    IN  Limited(o, ltp, Post(o, o.exec, StopAt(IF t <= 0 THEN MinTrigger ELSE t)))

\* A cover order has a trigger even when only a target was asked for; the
\* target is dropped.  The trigger is found from the quote, the limit price may
\* be the signal's.
ZerodhaCover(o, ltp) ==
    LET d == o.sl * Point("zerodha")
        t == IF o.side = "SELL" THEN ltp + d ELSE ltp - d
    IN  Limited(o, ltp, Post(o, o.exec, StopAt(IF t <= 0 THEN MinTrigger ELSE t)))

\* Angel and Dhan orders are market orders, whatever the webhook asks.
AngelNormal(o) == Post(o, "MARKET", NoStop)
AngelWithToken(o) == Post(o, "MARKET", NoStop)
\* A ROBO order carries distances; the exchange puts them on either side.
AngelRobo(o, ltp) ==
    LET t == IF o.side = "SELL" THEN ltp + o.sl * Point("angel") ELSE ltp - o.sl * Point("angel")
        d == IF t < ltp THEN ltp - t ELSE t - ltp
    IN  Post(o, "MARKET", StopAt(IF o.side = "SELL" THEN ltp + d ELSE ltp - d))
DhanOrder(o) == Post(o, "MARKET", NoStop)
MT5Trade(o, price) ==
    Post(o, "MARKET",
         IF o.sl <= 0 \/ o.side = "CLOSE" THEN NoStop
         ELSE StopAt(IF o.side = "SELL" THEN price + o.sl ELSE price - o.sl))

\* close: the order comes from squareOff, which never places a bracket.
Posted(b, o, close, ltp) ==
    CASE b = "zerodha" -> IF o.bracket /\ ~close THEN ZerodhaCover(o, ltp) ELSE ZerodhaRegular(o, ltp)
      [] b = "angel"   -> IF close THEN AngelWithToken(o)
                          ELSE IF o.bracket THEN AngelRobo(o, ltp) ELSE AngelNormal(o)
      [] b = "dhan"    -> DhanOrder(o)
      [] OTHER         -> MT5Trade(o, ltp)
=============================================================================
