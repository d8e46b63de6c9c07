--------------------------- MODULE SignalAdmission ---------------------------
(* What a request to a webhook goes through before an order is placed: the  *)
(* account and compliance checks, the two body formats, the webhook's guard *)
(* rules and trading hours, the Redis counters, and the worker's second     *)
(* look (modules/signals, guard/guard.go, compliance, store/redis.go,       *)
(* plan.EnforceOrdersPerSec, queue.go).  Dedup, the queue and the trade row *)
(* of an accepted signal are SignalPipeline's: here a hand-over is accepted,*)
(* a duplicate, or refused by a full queue.                                 *)
EXTENDS Integers, FiniteSets, Sequences

CONSTANTS SecTTL, MinTTL,  \* ticks a per-second and a per-minute counter live
          Day,             \* ticks of a day
          Week,            \* days of a week
          DailyCap,        \* the free plan's 100 requests a day
          PaidPerSec,      \* orders per second of a user on a paid plan
          CredPerSec       \* plan.BrokerCredOrdersPerSecCap

ASSUME AdmissionConstantsOK ==
    /\ {SecTTL, MinTTL, Day, Week} \subseteq Nat \ {0}
    /\ {DailyCap, PaidPerSec, CredPerSec} \subseteq Nat

VARIABLES gate,      \* the webhooks and bodies of this behaviour, and its bounds
          now,
          requests,  \* sequence of requests, in the order they arrived
          counters,  \* Redis: key -> count and expiry
          hits,      \* key -> every INCR carried out on it, in order, and what became of it
          ledger,    \* rows of trades written for the requests
          failures   \* statements that failed so far

gateVars == <<gate, now, requests, counters, hits, ledger, failures>>

-----------------------------------------------------------------------------
(* Webhooks as the handlers save them. *)

\* The spellings the instances use.
Trim(s)  == CASE s = " BUY" -> "BUY" [] OTHER -> s
Upper(s) == CASE s = "buy" -> "BUY" [] s = "acme" -> "ACME" [] s = "market" -> "MARKET"
              [] s = "price_update" -> "PRICE_UPDATE" [] OTHER -> s
Clean(s) == Upper(Trim(s))

Actions == {"BUY", "SELL", "CLOSE"}
OrderTypes == {"MARKET", "LIMIT"}
Unusable == [refused |-> TRUE]

ValidateAllowedActions(actions) == actions \subseteq Actions
DefaultActions(publisher) == IF publisher THEN Actions \ {"CLOSE"} ELSE Actions
NormalizeAllowedSymbols(symbols) == {Clean(s) : s \in symbols} \ {""}
NormalizeEntryOrderType(t) == IF Clean(t) \in OrderTypes THEN Clean(t) ELSE ""
AdvancedGuards(in) == in.perSec > 0 \/ in.hours # << >> \/ in.offset # 0

\* What a create request with this input leaves in the row, or its refusal; no
\* actions means the default ones.
Saved(in) ==
    LET type == IF in.publisher \/ in.orderType = "" THEN "LIMIT" ELSE NormalizeEntryOrderType(in.orderType)
    IN IF \/ ~ValidateAllowedActions(in.actions)
          \/ in.publisher /\ "CLOSE" \in in.actions
          \/ NormalizeAllowedSymbols(in.symbols) = {}
          \/ type = "" \/ in.perSec < 0 \/ in.perMin < 0
          \/ ~in.paper /\ AdvancedGuards(in) /\ in.plan = "free"
       THEN Unusable
       ELSE [in EXCEPT !.symbols = NormalizeAllowedSymbols(@), !.orderType = type,
                       !.actions = IF @ = {} THEN DefaultActions(in.publisher) ELSE @]

-----------------------------------------------------------------------------
(* Trading hours. *)

\* Mutant: the weekday is UTC's, the minutes are local.
LocalDayUTC(instant, offset) == (instant \div Day) % Week

\* now.In(loc).Weekday()
LocalDay(instant, offset) == ((instant + offset) \div Day) % Week

LocalMinutes(instant, offset) == (instant + offset) % Day

\* parseHHMM: a window with an end it cannot read is passed over.
Readable(w) == w.start \in 0..(Day - 1) /\ w.end \in 0..(Day - 1)

InWindow(w, minutes) == IF w.start <= w.end THEN w.start <= minutes /\ minutes <= w.end
                                            ELSE w.start <= minutes \/ minutes <= w.end

\* A schedule maps days to sets of windows; an empty one is open round the clock.
WithinSchedule(schedule, offset, instant) ==
    \/ schedule = << >>
    \/ /\ LocalDay(instant, offset) \in DOMAIN schedule
       /\ \E w \in schedule[LocalDay(instant, offset)] :
             Readable(w) /\ InWindow(w, LocalMinutes(instant, offset))

\* CheckMarketHours: enforcement is on unless the setting says otherwise, and a
\* profile that is missing or cannot be read refuses nothing.
CheckMarketHours(h, setting, profileRead, instant) ==
    setting = "false" \/ ~profileRead \/ WithinSchedule(h.market, 0, instant)

-----------------------------------------------------------------------------
(* Bodies. *)

NoSignal == [none |-> TRUE]
FlatOrder(b) == [action |-> b.action, symbol |-> b.symbol, lot |-> b.lot,
                 orderType |-> b.orderType, comment |-> b.comment]
PaperOrder(b, orderType) ==
    [FlatOrder(b) EXCEPT !.action = Clean(@), !.lot = IF b.quantity = 0 THEN @ ELSE b.quantity,
                         !.orderType = orderType]

PaperTypes == {"ORDER_SIGNAL", "PRICE_UPDATE"}
\* normalizePaperTypeFields; the order type behind a misplaced paper type is
\* not recovered, since both decodings of the body see the same field.
Misplaced(b) == Trim(b.type) = "" /\ Clean(b.orderType) \in PaperTypes
PaperType(b) == IF Misplaced(b) THEN Clean(b.orderType) ELSE Clean(b.type)

To(route, sig) == [to |-> route, sig |-> sig, code |-> ""]
Bad(sig, code) == [to |-> "refused", sig |-> sig, code |-> code]

RoutePaperIngest(b) ==
    CASE PaperType(b) = "PRICE_UPDATE" -> To("price", NoSignal)
      [] PaperType(b) = "ORDER_SIGNAL" ->
            To("order", PaperOrder(b, IF Misplaced(b) THEN "" ELSE b.orderType))
      [] PaperType(b) = "" -> IF Trim(b.action) = "" THEN Bad(NoSignal, "invalid_payload")
                                                     ELSE To("order", FlatOrder(b))
      [] OTHER -> Bad(PaperOrder(b, b.orderType), "gateway_rejected")

Route(h, b) ==
    IF b.large \/ ~b.json THEN Bad(NoSignal, "invalid_payload")
    ELSE IF h.paper THEN RoutePaperIngest(b) ELSE To("order", FlatOrder(b))

\* tryParseOrderSignal: what a refusal before the parser can say about the body.
TryParseOrderSignal(h, b) ==
    LET flat == IF b.json /\ Trim(b.action) # "" THEN [FlatOrder(b) EXCEPT !.action = Clean(@)] ELSE NoSignal
    IN IF h.paper /\ b.json /\ RoutePaperIngest(b).to = "order" THEN RoutePaperIngest(b).sig ELSE flat

-----------------------------------------------------------------------------
(* Guard rules. *)

AllowedActions(h) == IF h.actions = {} THEN Actions ELSE h.actions
EffectiveAllowedSymbols(h) ==
    IF h.symbols # {} THEN h.symbols ELSE {Clean(h.legacySymbol)} \ {""}
WebhookOrderType(h) == IF NormalizeEntryOrderType(h.orderType) = "" THEN "LIMIT" ELSE NormalizeEntryOrderType(h.orderType)

ValidateOrderType(h, sig) == Clean(sig.orderType) \in {"", WebhookOrderType(h)}
ResolvedSymbol(h, sig) ==
    IF sig.symbol # "" THEN Trim(sig.symbol)
    ELSE IF Cardinality(EffectiveAllowedSymbols(h)) = 1
         THEN CHOOSE s \in EffectiveAllowedSymbols(h) : TRUE ELSE ""
ValidateSymbol(h, symbol) == \E s \in EffectiveAllowedSymbols(h) : Clean(s) = Clean(symbol)
ResolveQuantity(h, lot) == IF h.lot > 0 THEN h.lot ELSE lot

\* The reason of the first failing check, or "".
Unless(ok, code) == IF ok THEN "" ELSE code
FirstOf(codes) == IF \E i \in DOMAIN codes : codes[i] # ""
                  THEN codes[CHOOSE i \in DOMAIN codes : codes[i] # "" /\ \A j \in 1..(i - 1) : codes[j] = ""]
                  ELSE ""

AccountCode(h) == FirstOf(<<
    Unless(h.org \/ ~h.member, "solo_resources_disabled"),
    Unless(h.status = "active", "webhook_paused"),
    Unless(h.userStatus # "suspended", "account_suspended"),
    Unless(h.org => h.orgStatus = "active", "org_suspended") >>)

ValidateIngest(h, sig, instant) == FirstOf(<<
    Unless(sig.action \in AllowedActions(h), "action_not_allowed"),
    Unless(h.comment \in {"", sig.comment}, "invalid_secret"),
    Unless(WithinSchedule(h.hours, h.offset, instant), "outside_trading_hours"),
    Unless(ValidateOrderType(h, sig), "order_type_not_allowed") >>)

WorkerCode(h, sig) == FirstOf(<<
    Unless(sig.action \in AllowedActions(h), "action_not_allowed"),
    Unless(ResolvedSymbol(h, sig) # "", "symbol_required"),
    Unless(ValidateSymbol(h, ResolvedSymbol(h, sig)), "symbol_not_allowed"),
    Unless(ResolveQuantity(h, sig.lot) > 0, "quantity_required"),
    Unless(ValidateOrderType(h, sig), "order_type_not_allowed") >>)

PriceUpdateCode(h, b) == FirstOf(<<
    Unless(h.comment \in {"", b.comment}, "invalid_secret"),
    Unless(ResolvedSymbol(h, b) # "", "symbol_required"),
    Unless(ValidateSymbol(h, ResolvedSymbol(h, b)), "symbol_not_allowed"),
    Unless(b.price > 0, "bad_price"),
    Unless(h.accountStatus = "active", "paper_account_inactive") >>)

-----------------------------------------------------------------------------
(* Redis counters.  A key is <<kind, owner>>, or <<"day", owner, day>>. *)

NoExpiry == -1
With(f, k, v) == [x \in DOMAIN f \cup {k} |-> IF x = k THEN v ELSE f[x]]

Alive(k) == /\ k \in DOMAIN counters
            /\ counters[k].expires = NoExpiry \/ now < counters[k].expires
Count(k) == IF Alive(k) THEN counters[k].count ELSE 0
Expiry(k) == IF Alive(k) THEN counters[k].expires ELSE NoExpiry

\* Mutant: an expiry that is set is left as it is.
ExpireOnce(k, at) == IF Expiry(k) # NoExpiry THEN Expiry(k) ELSE at

\* EXPIRE follows every INCR: each hit, a refused one too, renews the key.
Renewed(k, at) == at

ExpiresAt(k) == CASE k[1] = "minute" -> now + MinTTL
                  [] k[1] = "day"    -> (k[3] + 1) * Day
                  [] OTHER           -> now + SecTTL

Failing(what) == what \in gate.failing /\ failures < gate.failures /\ failures' = failures + 1

Log(k) == IF k \in DOMAIN hits THEN hits[k] ELSE << >>
LastCount(log) == log[Len(log)].count

\* INCR creates a key without an expiry and keeps the one of a living key.
Incr(k, limit, i) ==
    /\ counters' = With(counters, k, [count |-> Count(k) + 1, expires |-> Expiry(k)])
    /\ hits' = With(hits, k, Append(Log(k), [by |-> i, at |-> now, count |-> Count(k) + 1, limit |-> limit,
                                            result |-> "counting", ended |-> now]))

\* EXPIRE and EXPIREAT do nothing to a key that has expired since.
Expire(k) == counters' = IF Alive(k) THEN With(counters, k, [count |-> Count(k), expires |-> Renewed(k, ExpiresAt(k))])
                                     ELSE counters

Settle(k, j, result) == hits' = [hits EXCEPT ![k][j].result = result, ![k][j].ended = now]

\* The INCR of hit j is still in the count of its key.
Counts(k, j) == Alive(k) /\ LastCount(hits[k]) > Len(hits[k]) - j

\* What the request makes of INCR's reply; a pass is late when its counter
\* expired between the two commands, so that nobody after it sees it.
Verdict(k, j) == IF hits[k][j].count > hits[k][j].limit THEN "refuse"
                 ELSE IF Counts(k, j) THEN "pass" ELSE "late"

Uncounted == UNCHANGED <<counters, hits>>

\* EnforceOrdersPerSec
EnforceOrdersPerSec(plan) == IF plan \in {"paper", "pro", "pro_plus"} THEN PaidPerSec ELSE 1

-----------------------------------------------------------------------------
(* Answers and their rows. *)

Move(i, job) == requests' = [requests EXCEPT ![i] = job]
Step(i, at) == Move(i, [requests[i] EXCEPT !.at = at, !.hit = 0])
Served(i) == requests[i].at \in {"refused", "priced", "executed"}

\* buildGatewayRejectedTrade
RejectedRow(i, h, sig, code) ==
    IF sig = NoSignal
    THEN [request |-> i, signal |-> "none", symbol |-> "none", code |-> code]
    ELSE [request |-> i, signal |-> Clean(sig.action), symbol |-> ResolvedSymbol(h, sig), code |-> code]

\* Mutant: a duplicate is answered and leaves no row.
RowUnlessDuplicate(i, h, sig, code) ==
    IF code = "duplicate_suppressed" THEN {} ELSE {RejectedRow(i, h, sig, code)}

\* insertGatewayRejectedTrade, called by every refusal of a known webhook.
RowOf(i, h, sig, code) == {RejectedRow(i, h, sig, code)}

\* The row is written before the answer; a failing insert is only logged.
Refuse(i, sig, code) ==
    LET ruled == IF requests[i].at = "account" THEN now ELSE requests[i].ruled
        answer(kept) == [requests[i] EXCEPT !.at = "refused", !.sig = sig, !.code = code, !.kept = kept,
                                            !.ruled = ruled]
    IN \/ /\ Move(i, answer(TRUE)) /\ UNCHANGED failures
          /\ ledger' = ledger \cup RowOf(i, requests[i].hook, sig, code)
       \/ Failing("rows") /\ Move(i, answer(FALSE)) /\ UNCHANGED ledger

\* A refusal after a counter: the insert's own failure is left to the others.
RefuseCounted(i, code) ==
    /\ Move(i, [requests[i] EXCEPT !.at = "refused", !.code = code, !.hit = 0])
    /\ ledger' = ledger \cup RowOf(i, requests[i].hook, requests[i].sig, code)

Arrive(h, b) ==
    /\ Len(requests) < gate.requests
    /\ Cardinality({i \in DOMAIN requests : ~Served(i)}) < gate.inFlight
    /\ requests' = Append(requests, [hook |-> h, body |-> b, at |-> "account", sig |-> NoSignal,
                                     code |-> "", kept |-> TRUE, ruled |-> now, day |-> 0, hit |-> 0])
    /\ UNCHANGED <<gate, now, counters, hits, ledger, failures>>

\* The next step that does something: a limit of zero counts nothing.
AfterRules(h)  == IF h.perMin > 0 THEN "minute" ELSE "user"
AfterUser(h)   == IF h.plan = "free" THEN "day" ELSE IF h.perSec > 0 THEN "second" ELSE "hand over"
AfterDay(h)    == IF h.perSec > 0 THEN "second" ELSE "hand over"

\* processOrderSignal up to its first counter.
Rules(i, sig) ==
    LET h == requests[i].hook
        code == IF sig.action \in Actions THEN ValidateIngest(h, sig, now) ELSE "invalid_action"
    IN IF code # "" THEN Refuse(i, sig, code)
       ELSE /\ Move(i, [requests[i] EXCEPT !.at = AfterRules(h), !.sig = sig, !.ruled = now])
            /\ UNCHANGED <<ledger, failures>>

\* The look-ups of membership, owner and organisation, the parser and the
\* rules; the clock is read once, for the hours.
Receive(i) ==
    LET h == requests[i].hook
        b == requests[i].body
        parsed == Route(h, b)
        early == TryParseOrderSignal(h, b)
    IN /\ requests[i].at = "account"
       /\ \/ AccountCode(h) # "" /\ Refuse(i, early, AccountCode(h))
          \/ /\ Failing("rows")
             /\ Move(i, [requests[i] EXCEPT !.at = "refused", !.sig = early, !.code = "gateway_rejected"])
             /\ ledger' = ledger \cup RowOf(i, h, early, "gateway_rejected")
          \/ /\ AccountCode(h) = ""
             /\ \/ parsed.to = "refused" /\ Refuse(i, parsed.sig, parsed.code)
                \/ parsed.to = "order" /\ Rules(i, [parsed.sig EXCEPT !.action = Upper(@)])
                \/ parsed.to = "price" /\ Step(i, "price") /\ UNCHANGED <<ledger, failures>>
       /\ Uncounted /\ UNCHANGED <<gate, now>>

\* A price update is answered without a row, refused or not; a failed look-up
\* of its account or position, or a failed mark, is an answer too.
PriceUpdate(i) ==
    LET code == PriceUpdateCode(requests[i].hook, requests[i].body)
    IN /\ requests[i].at = "price"
       /\ \/ Move(i, [requests[i] EXCEPT !.at = "priced", !.code = code]) /\ UNCHANGED failures
          \/ /\ code \in {"", "paper_account_inactive"} /\ Failing("rows")
             /\ Move(i, [requests[i] EXCEPT !.at = "priced", !.code = "mark_failed"])
       /\ Uncounted /\ UNCHANGED <<gate, now, ledger>>

\* One counter of the request: INCR and EXPIRE travel in one pipeline and are
\* two commands to Redis.  The first may fail, and the request passes uncounted.
CountHit(i, at, k, limit, next) ==
    /\ requests[i].at = at /\ requests[i].hit = 0
    /\ \/ Incr(k, limit, i) /\ Move(i, [requests[i] EXCEPT !.hit = Len(Log(k)) + 1]) /\ UNCHANGED failures
       \/ Failing("redis") /\ Step(i, next) /\ Uncounted
    /\ UNCHANGED <<gate, now, ledger>>

\* The second, and the reply; when the pipeline errs after the first, the
\* second may have been carried out or not, and the request passes.
RenewKey(i, at, k, next) ==
    LET j == requests[i].hit
    IN /\ requests[i].at = at /\ j # 0
       /\ \/ /\ Expire(k) /\ Settle(k, j, Verdict(k, j)) /\ UNCHANGED failures
             /\ IF Verdict(k, j) = "refuse" THEN RefuseCounted(i, "rate_limited")
                                            ELSE Step(i, next) /\ UNCHANGED ledger
          \/ /\ Failing("redis")
             /\ Expire(k) \/ UNCHANGED counters
             /\ Settle(k, j, "open") /\ Step(i, next) /\ UNCHANGED ledger
       /\ UNCHANGED <<gate, now>>

Limited(i, at, k, limit, next) == CountHit(i, at, k, limit, next) \/ RenewKey(i, at, k, next)

PerMinute(i) == Limited(i, "minute", <<"minute", requests[i].hook.id>>, requests[i].hook.perMin, "user")

\* The user is read and, on the free plan, the day's key is named from the
\* request's own clock.
ReadUser(i) ==
    /\ requests[i].at = "user"
    /\ \/ /\ Move(i, [requests[i] EXCEPT !.at = AfterUser(requests[i].hook),
                                         !.day = now \div Day])
          /\ UNCHANGED <<ledger, failures>>
       \/ Failing("rows") /\ RefuseCounted(i, "gateway_rejected")
    /\ Uncounted /\ UNCHANGED <<gate, now>>

PerDay(i) == Limited(i, "day", <<"day", requests[i].hook.owner, requests[i].day>>, DailyCap, AfterDay(requests[i].hook))
PerSecond(i) == Limited(i, "second", <<"second", requests[i].hook.id>>, requests[i].hook.perSec, "hand over")

HandOver(i, outcome) ==
    /\ requests[i].at = "hand over"
    /\ CASE outcome = "accepted" -> Step(i, "worker") /\ UNCHANGED <<ledger, failures>>
         [] outcome = "duplicate" -> Refuse(i, requests[i].sig, "duplicate_suppressed")
         [] outcome = "queue full" -> Refuse(i, requests[i].sig, "queue_full")
    /\ Uncounted /\ UNCHANGED <<gate, now>>

-----------------------------------------------------------------------------
(* The worker.  The product, the second look for a duplicate and the row    *)
(* while it is queued are OrderExecution's and SignalPipeline's: the ledger *)
(* holds what a refusal finally says.                                       *)

Work(i) ==
    LET h == requests[i].hook
        code == WorkerCode(h, requests[i].sig)
    IN /\ requests[i].at = "worker"
       /\ IF code = "" THEN Step(i, "order rate") /\ UNCHANGED <<ledger, failures>>
                       ELSE Refuse(i, requests[i].sig, code)
       /\ Uncounted /\ UNCHANGED <<gate, now>>

OrderRate(i) == Limited(i, "order rate", <<"user", requests[i].hook.owner>>,
                        EnforceOrdersPerSec(requests[i].hook.plan),
                        IF requests[i].hook.paper THEN "market" ELSE "broker rate")

BrokerRate(i) == Limited(i, "broker rate", <<"broker", requests[i].hook.cred>>, CredPerSec, "executed")

MarketHours(i, setting) ==
    /\ requests[i].at = "market"
    /\ \/ /\ CheckMarketHours(requests[i].hook, setting, TRUE, now)
          /\ Step(i, "executed") /\ UNCHANGED <<ledger, failures>>
       \/ /\ ~CheckMarketHours(requests[i].hook, setting, TRUE, now)
          /\ Refuse(i, requests[i].sig, "outside_trading_hours")
       \/ Failing("rows") /\ Step(i, "executed") /\ UNCHANGED ledger    \* the profile could not be read
    /\ Uncounted /\ UNCHANGED <<gate, now>>

\* What reaches the broker or the paper engine.
OrderOf(r) == [action |-> r.sig.action, symbol |-> ResolvedSymbol(r.hook, r.sig),
               quantity |-> ResolveQuantity(r.hook, r.sig.lot), orderType |-> WebhookOrderType(r.hook)]

Tick == /\ now < gate.until
        /\ now' = now + 1
        /\ UNCHANGED <<gate, requests, counters, hits, ledger, failures>>

GateInit(gates) ==
    /\ gate \in gates
    /\ now = gate.from
    /\ requests = << >>
    /\ counters = << >>
    /\ hits = << >>
    /\ ledger = {}
    /\ failures = 0

GateNext ==
    \/ Tick
    \/ \E h \in gate.hooks, b \in gate.bodies : Arrive(h, b)
    \/ \E i \in DOMAIN requests :
          \/ Receive(i) \/ PriceUpdate(i) \/ PerMinute(i) \/ ReadUser(i) \/ PerDay(i)
          \/ PerSecond(i) \/ Work(i) \/ OrderRate(i) \/ BrokerRate(i)
          \/ \E outcome \in gate.outcomes : HandOver(i, outcome)
          \/ \E setting \in gate.settings : MarketHours(i, setting)

\* The webhooks of a behaviour: two with one id are one row, two of one owner have
\* the owner's plan, and a time zone is less than a day away.
WellConfigured(world) ==
    /\ world.from \in Nat /\ world.outcomes \subseteq {"accepted", "duplicate", "queue full"}
    /\ \A h \in world.hooks :
          /\ {h.perMin, h.perSec} \subseteq Nat
          /\ h.offset \in Int /\ h.offset >= -Day
          /\ \A g \in world.hooks :
                /\ h.id = g.id => h.perMin = g.perMin /\ h.perSec = g.perSec
                /\ h.owner = g.owner => h.plan = g.plan

GateOK == WellConfigured(gate)

GateSpec == GateInit({gate}) /\ GateOK /\ [][GateNext]_gateVars

-----------------------------------------------------------------------------
(* Properties. *)

TTL(k) == IF k[1] = "minute" THEN MinTTL ELSE SecTTL
Ended(log, results, from, to) ==
    Cardinality({j \in DOMAIN log : log[j].result \in results /\ log[j].at \in from..to})
Passes(log, from, to) == Ended(log, {"pass"}, from, to)

\* Hit p + 1 found what hit p had counted: p was between its two commands, its
\* second one failed, or a hit up to it had renewed the key less than a TTL before.
Linked(k, log, p) ==
    LET t == log[p + 1].at
    IN \/ log[p].result \in {"counting", "open"} \/ t <= log[p].ended
       \/ \E q \in 1..p : /\ log[q].result # "counting"
                         /\ log[q].ended <= t /\ t < log[q].ended + TTL(k)

\* Within any TTL no more requests pass a counter than its limit, late ones
\* apart, whatever the counting of the others does, in whatever order their
\* commands reach Redis and however it fails in between (those it fails for
\* pass uncounted); a free user's UTC day admits no more than the cap,
\* stragglers of the day before apart; and nobody is refused unless at least
\* as many hits as the limit came before its own, each linked to the next
\* (redis.go:70-120, handler.go:144-185 of signals).
RatesHold ==
    \A k \in DOMAIN hits :
        LET h == hits[k]
        IN IF k[1] = "day"
           THEN Passes(h, k[3] * Day, (k[3] + 1) * Day - 1) <= DailyCap
           ELSE \A j \in DOMAIN h :
                   /\ Passes(h, h[j].at, h[j].at + TTL(k) - 1) <= h[j].limit
                   /\ h[j].result = "refuse" =>
                        j > h[j].limit /\ \A p \in (j - h[j].limit)..(j - 1) : Linked(k, h, p)

\* Does not hold: a pass whose counter expires between INCR and EXPIRE is
\* forgotten, and the window admits another in its place (redis.go:72-74).
RatesHoldForAll ==
    \A k \in DOMAIN hits : \A j \in DOMAIN hits[k] :
        Ended(hits[k], {"pass", "late"}, hits[k][j].at, hits[k][j].at + TTL(k) - 1) <= hits[k][j].limit

\* The instants a schedule means: from each listed day's start to its end,
\* which for a window across midnight is on the next day.
OpenAt(schedule, offset, instant) ==
    LET local == instant + offset
    IN \E day \in (-2)..((local \div Day) + 1) :
          /\ day % Week \in DOMAIN schedule
          /\ \E w \in schedule[day % Week] :
                /\ Readable(w)
                /\ local >= day * Day + w.start
                /\ local <= day * Day + w.end + (IF w.start > w.end THEN Day ELSE 0)

\* A schedule with a window across midnight is judged day by day: guard.go:368
\* looks for the early morning in the list of the same day, so the schedule
\* must list the window on every day to mean what it says.
Overnight(w) == Readable(w) /\ w.start > w.end
Regular(schedule) ==
    \A d \in DOMAIN schedule : \A w \in schedule[d] :
        Overnight(w) => \A e \in 0..(Week - 1) : e \in DOMAIN schedule /\ w \in schedule[e]

\* A signal passes the hours rule exactly in the hours of the webhook's local
\* week: the end minute included, unreadable windows passed over, a day
\* without windows shut, in any time zone (guard.go:333-373).
HoursKept ==
    \A i \in DOMAIN requests :
        LET r == requests[i]
            open == r.hook.hours = << >> \/ OpenAt(r.hook.hours, r.hook.offset, r.ruled)
        IN Regular(r.hook.hours) =>
              /\ r.at \in {"minute", "user", "day", "second", "hand over", "worker",
                           "order rate", "broker rate", "market", "executed"} => open
              /\ r.at = "refused" /\ r.code = "outside_trading_hours" /\ r.hook.market = << >> => ~open

AsConfigured(r) ==
    LET order == OrderOf(r)
    IN /\ order.action \in AllowedActions(r.hook)
       /\ Clean(order.symbol) \in {Clean(s) : s \in EffectiveAllowedSymbols(r.hook)}
       /\ r.body.symbol # "" => Clean(order.symbol) = Clean(r.body.symbol)
       /\ order.quantity > 0 /\ (r.hook.lot > 0 => order.quantity = r.hook.lot)
       /\ Clean(r.body.orderType) \in PaperTypes \cup {"", order.orderType}
       /\ r.hook.comment \in {"", r.body.comment}
       /\ Clean(r.body.action) = order.action

\* Every answer a known webhook gives to an order request has its row in the
\* trades table, with the answer's code and what could be read of the order,
\* unless the insert itself failed; and an order that is carried out is the
\* one its webhook allows and its body asked for, whichever of the two body
\* formats and the two passes of the rules it came through
\* (ingest_reject.go:30-32, handler.go:118-145, queue.go:255-285).
AnsweredIsOnRecord ==
    \A i \in DOMAIN requests :
        LET r == requests[i]
            own == {row \in ledger : row.request = i}
        IN /\ r.at = "refused" =>
                 IF r.kept THEN /\ Cardinality(own) = 1
                                /\ \A row \in own : /\ row.code = r.code
                                                    /\ r.sig # NoSignal => row.signal = Clean(r.body.action)
                 ELSE own = {}
           /\ r.at = "executed" => AsConfigured(r)
=============================================================================
