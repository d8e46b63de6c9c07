--------------------------- MODULE AdmissionProofs ---------------------------
(* What a request passes on its way in and what its user hears of it.        *)
(* SignalAdmission for any webhooks and bodies, any lengths of the counters' *)
(* TTLs, of the day and the week, any limits and any number of requests in   *)
(* flight: the hours of the schedule are kept, every answer has its row, and *)
(* no window of a counter passes more than its limit, in whatever order the  *)
(* commands of the requests reach Redis.  TradePush for every set of users   *)
(* and connections, every queue length and number of writes: a connection    *)
(* that works has no gap in its feed.                                        *)
EXTENDS SignalAdmission, TradePush, FiniteSetTheorems, WellFoundedInduction, TLAPS

\* The first failing check decides.
LEMMA FirstOfFour ==
    ASSUME NEW s, DOMAIN s = 1..4
    PROVE  FirstOf(s) = IF s[1] # "" THEN s[1] ELSE IF s[2] # "" THEN s[2] ELSE IF s[3] # "" THEN s[3] ELSE IF s[4] # "" THEN s[4] ELSE ""
<1> DEFINE P(k) == k \in DOMAIN s /\ s[k] # "" /\ \A j \in 1..(k - 1) : s[j] = ""
<1>1. DOMAIN s = {1, 2, 3, 4}
  OBVIOUS
<1>2. (\E i \in DOMAIN s : s[i] # "") <=> s[1] # "" \/ s[2] # "" \/ s[3] # "" \/ s[4] # ""
  BY <1>1
<1>3. (\E i \in DOMAIN s : s[i] # "") => \E k : P(k)
  <2>1. /\ \A j \in 1..(1 - 1) : FALSE
        /\ \A j \in 1..(2 - 1) : j = 1
        /\ \A j \in 1..(3 - 1) : j = 1 \/ j = 2
        /\ \A j \in 1..(4 - 1) : j = 1 \/ j = 2 \/ j = 3
    OBVIOUS
  <2>2. s[1] # "" => P(1)
    BY <1>1, <2>1
  <2>3. s[1] = "" /\ s[2] # "" => P(2)
    BY <1>1, <2>1
  <2>4. s[1] = "" /\ s[2] = "" /\ s[3] # "" => P(3)
    BY <1>1, <2>1
  <2>5. s[1] = "" /\ s[2] = "" /\ s[3] = "" /\ s[4] # "" => P(4)
    BY <1>1, <2>1
  <2> QED
    BY <1>2, <2>2, <2>3, <2>4, <2>5
<1>4. ASSUME NEW k, P(k)
      PROVE  s[k] = IF s[1] # "" THEN s[1] ELSE IF s[2] # "" THEN s[2] ELSE IF s[3] # "" THEN s[3] ELSE IF s[4] # "" THEN s[4] ELSE ""
  <2>1. CASE k = 1
    BY <1>4, <2>1
  <2>2. CASE k = 2
    <3>1. 1 \in 1..(k - 1)
      BY <2>2
    <3> QED
      BY <1>4, <2>2, <3>1
  <2>3. CASE k = 3
    <3>1. 1 \in 1..(k - 1) /\ 2 \in 1..(k - 1)
      BY <2>3
    <3> QED
      BY <1>4, <2>3, <3>1
  <2>4. CASE k = 4
    <3>1. 1 \in 1..(k - 1) /\ 2 \in 1..(k - 1) /\ 3 \in 1..(k - 1)
      BY <2>4
    <3> QED
      BY <1>4, <2>4, <3>1
  <2> QED
    BY <1>1, <1>4, <2>1, <2>2, <2>3, <2>4
<1> QED
  BY <1>2, <1>3, <1>4 DEF FirstOf

LEMMA FirstOfFive ==
    ASSUME NEW s, DOMAIN s = 1..5
    PROVE  FirstOf(s) = IF s[1] # "" THEN s[1] ELSE IF s[2] # "" THEN s[2] ELSE IF s[3] # "" THEN s[3] ELSE IF s[4] # "" THEN s[4] ELSE IF s[5] # "" THEN s[5] ELSE ""
<1> DEFINE P(k) == k \in DOMAIN s /\ s[k] # "" /\ \A j \in 1..(k - 1) : s[j] = ""
<1>1. DOMAIN s = {1, 2, 3, 4, 5}
  OBVIOUS
<1>2. (\E i \in DOMAIN s : s[i] # "") <=> s[1] # "" \/ s[2] # "" \/ s[3] # "" \/ s[4] # "" \/ s[5] # ""
  BY <1>1
<1>3. (\E i \in DOMAIN s : s[i] # "") => \E k : P(k)
  <2>1. /\ \A j \in 1..(1 - 1) : FALSE
        /\ \A j \in 1..(2 - 1) : j = 1
        /\ \A j \in 1..(3 - 1) : j = 1 \/ j = 2
        /\ \A j \in 1..(4 - 1) : j = 1 \/ j = 2 \/ j = 3
        /\ \A j \in 1..(5 - 1) : j = 1 \/ j = 2 \/ j = 3 \/ j = 4
    OBVIOUS
  <2>2. s[1] # "" => P(1)
    BY <1>1, <2>1
  <2>3. s[1] = "" /\ s[2] # "" => P(2)
    BY <1>1, <2>1
  <2>4. s[1] = "" /\ s[2] = "" /\ s[3] # "" => P(3)
    BY <1>1, <2>1
  <2>5. s[1] = "" /\ s[2] = "" /\ s[3] = "" /\ s[4] # "" => P(4)
    BY <1>1, <2>1
  <2>6. s[1] = "" /\ s[2] = "" /\ s[3] = "" /\ s[4] = "" /\ s[5] # "" => P(5)
    BY <1>1, <2>1
  <2> QED
    BY <1>2, <2>2, <2>3, <2>4, <2>5, <2>6
<1>4. ASSUME NEW k, P(k)
      PROVE  s[k] = IF s[1] # "" THEN s[1] ELSE IF s[2] # "" THEN s[2] ELSE IF s[3] # "" THEN s[3] ELSE IF s[4] # "" THEN s[4] ELSE IF s[5] # "" THEN s[5] ELSE ""
  <2>1. CASE k = 1
    BY <1>4, <2>1
  <2>2. CASE k = 2
    <3>1. 1 \in 1..(k - 1)
      BY <2>2
    <3> QED
      BY <1>4, <2>2, <3>1
  <2>3. CASE k = 3
    <3>1. 1 \in 1..(k - 1) /\ 2 \in 1..(k - 1)
      BY <2>3
    <3> QED
      BY <1>4, <2>3, <3>1
  <2>4. CASE k = 4
    <3>1. 1 \in 1..(k - 1) /\ 2 \in 1..(k - 1) /\ 3 \in 1..(k - 1)
      BY <2>4
    <3> QED
      BY <1>4, <2>4, <3>1
  <2>5. CASE k = 5
    <3>1. 1 \in 1..(k - 1) /\ 2 \in 1..(k - 1) /\ 3 \in 1..(k - 1) /\ 4 \in 1..(k - 1)
      BY <2>5
    <3> QED
      BY <1>4, <2>5, <3>1
  <2> QED
    BY <1>1, <1>4, <2>1, <2>2, <2>3, <2>4, <2>5
<1> QED
  BY <1>2, <1>3, <1>4 DEF FirstOf

\* What the checks say (guard.go ValidateIngest, the worker's second look).
LEMMA AccountCodes ==
    ASSUME NEW h
    PROVE  AccountCode(h) \in {"", "solo_resources_disabled", "webhook_paused", "account_suspended", "org_suspended"}
<1> DEFINE c1 == Unless(h.org \/ ~h.member, "solo_resources_disabled")
           c2 == Unless(h.status = "active", "webhook_paused")
           c3 == Unless(h.userStatus # "suspended", "account_suspended")
           c4 == Unless(h.org => h.orgStatus = "active", "org_suspended")
           s == <<c1, c2, c3, c4>>
<1>1. /\ c1 \in {"", "solo_resources_disabled"} /\ c2 \in {"", "webhook_paused"}
      /\ c3 \in {"", "account_suspended"} /\ c4 \in {"", "org_suspended"}
      /\ AccountCode(h) = FirstOf(s)
  BY DEF AccountCode, Unless
<1>2. DOMAIN s = 1..4 /\ s[1] = c1 /\ s[2] = c2 /\ s[3] = c3 /\ s[4] = c4
  OBVIOUS
<1> HIDE DEF s, c1, c2, c3, c4
<1>3. FirstOf(s) = IF c1 # "" THEN c1 ELSE IF c2 # "" THEN c2 ELSE IF c3 # "" THEN c3 ELSE IF c4 # "" THEN c4 ELSE ""
  BY <1>2, FirstOfFour
<1> QED
  BY <1>1, <1>3

LEMMA IngestCodes ==
    ASSUME NEW h, NEW sig, NEW t
    PROVE  /\ ValidateIngest(h, sig, t) \in {"", "action_not_allowed", "invalid_secret", "outside_trading_hours",
                                             "order_type_not_allowed"}
           /\ ValidateIngest(h, sig, t) = "outside_trading_hours" => ~WithinSchedule(h.hours, h.offset, t)
           /\ ValidateIngest(h, sig, t) = "" =>
                 /\ sig.action \in AllowedActions(h) /\ h.comment \in {"", sig.comment}
                 /\ WithinSchedule(h.hours, h.offset, t)
<1> DEFINE c1 == Unless(sig.action \in AllowedActions(h), "action_not_allowed")
           c2 == Unless(h.comment \in {"", sig.comment}, "invalid_secret")
           c3 == Unless(WithinSchedule(h.hours, h.offset, t), "outside_trading_hours")
           c4 == Unless(ValidateOrderType(h, sig), "order_type_not_allowed")
           s == <<c1, c2, c3, c4>>
<1>1. /\ (c1 = "" /\ sig.action \in AllowedActions(h)) \/ c1 = "action_not_allowed"
      /\ (c2 = "" /\ h.comment \in {"", sig.comment}) \/ c2 = "invalid_secret"
      /\ \/ c3 = "" /\ WithinSchedule(h.hours, h.offset, t)
         \/ c3 = "outside_trading_hours" /\ ~WithinSchedule(h.hours, h.offset, t)
      /\ c4 \in {"", "order_type_not_allowed"}
      /\ ValidateIngest(h, sig, t) = FirstOf(s)
  BY DEF ValidateIngest, Unless
<1>2. DOMAIN s = 1..4 /\ s[1] = c1 /\ s[2] = c2 /\ s[3] = c3 /\ s[4] = c4
  OBVIOUS
<1> HIDE DEF s, c1, c2, c3, c4
<1>3. FirstOf(s) = IF c1 # "" THEN c1 ELSE IF c2 # "" THEN c2 ELSE IF c3 # "" THEN c3 ELSE IF c4 # "" THEN c4 ELSE ""
  BY <1>2, FirstOfFour
<1> QED
  BY <1>1, <1>3

LEMMA WorkerCodes ==
    ASSUME NEW h, NEW sig
    PROVE  /\ WorkerCode(h, sig) \in {"", "action_not_allowed", "symbol_required", "symbol_not_allowed",
                                      "quantity_required", "order_type_not_allowed"}
           /\ WorkerCode(h, sig) = "" =>
                 /\ ValidateSymbol(h, ResolvedSymbol(h, sig))
                 /\ ResolveQuantity(h, sig.lot) > 0
                 /\ ValidateOrderType(h, sig)
<1> DEFINE c1 == Unless(sig.action \in AllowedActions(h), "action_not_allowed")
           c2 == Unless(ResolvedSymbol(h, sig) # "", "symbol_required")
           c3 == Unless(ValidateSymbol(h, ResolvedSymbol(h, sig)), "symbol_not_allowed")
           c4 == Unless(ResolveQuantity(h, sig.lot) > 0, "quantity_required")
           c5 == Unless(ValidateOrderType(h, sig), "order_type_not_allowed")
           s == <<c1, c2, c3, c4, c5>>
<1>1. /\ c1 \in {"", "action_not_allowed"} /\ c2 \in {"", "symbol_required"}
      /\ (c3 = "" /\ ValidateSymbol(h, ResolvedSymbol(h, sig))) \/ c3 = "symbol_not_allowed"
      /\ (c4 = "" /\ ResolveQuantity(h, sig.lot) > 0) \/ c4 = "quantity_required"
      /\ (c5 = "" /\ ValidateOrderType(h, sig)) \/ c5 = "order_type_not_allowed"
      /\ WorkerCode(h, sig) = FirstOf(s)
  BY DEF WorkerCode, Unless
<1>2. DOMAIN s = 1..5 /\ s[1] = c1 /\ s[2] = c2 /\ s[3] = c3 /\ s[4] = c4 /\ s[5] = c5
  OBVIOUS
<1> HIDE DEF s, c1, c2, c3, c4, c5
<1>3. FirstOf(s) = IF c1 # "" THEN c1 ELSE IF c2 # "" THEN c2 ELSE IF c3 # "" THEN c3 ELSE IF c4 # "" THEN c4 ELSE IF c5 # "" THEN c5 ELSE ""
  BY <1>2, FirstOfFive
<1> QED
  BY <1>1, <1>3

-----------------------------------------------------------------------------
(* Trading hours. *)

LEMMA ConstantTypes ==
    /\ Day \in Nat \ {0} /\ Week \in Nat \ {0} /\ SecTTL \in Nat \ {0} /\ MinTTL \in Nat \ {0}
    /\ DailyCap \in Nat /\ PaidPerSec \in Nat /\ CredPerSec \in Nat
  BY AdmissionConstantsOK

\* An instant is a minute of one day.
LEMMA DayOf ==
    ASSUME NEW t \in Int
    PROVE  /\ t \div Day \in Int /\ t % Day \in 0..(Day - 1)
           /\ t = (t \div Day) * Day + (t % Day)
<1>1. Day \in Nat \ {0}
  BY ConstantTypes
<1>2. t \div Day \in Int
  BY <1>1
<1>3. t % Day \in 0..(Day - 1)
  BY <1>1
<1>4. t = (t \div Day) * Day + (t % Day)
  BY <1>1
<1> QED
  BY <1>2, <1>3, <1>4

LEMMA DaysApart ==
    ASSUME NEW q \in Int, NEW d \in Int
    PROVE  /\ q * Day \in Int /\ d * Day \in Int
           /\ (q - 1) * Day = q * Day - Day
           /\ d < q => d * Day + Day <= q * Day
           /\ d < q - 1 => d * Day + Day + Day <= q * Day
<1>1. Day \in Nat \ {0}
  BY ConstantTypes
<1>2. q * Day \in Int /\ d * Day \in Int /\ (q - 1) * Day = q * Day - Day /\ (q - 2) * Day = q * Day - Day - Day
  BY <1>1
<1>3. ASSUME NEW a \in Int, NEW b \in Int, a <= b PROVE a * Day <= b * Day
  <2>1. (b - a) * Day >= 0
    <3>1. b - a \in Nat
      BY <1>3
    <3> QED
      BY <3>1, <1>1
  <2>2. (b - a) * Day = b * Day - a * Day /\ a * Day \in Int /\ b * Day \in Int
    BY <1>1, <1>3
  <2> QED
    BY <2>1, <2>2
<1>4. d < q => d * Day <= (q - 1) * Day
  <2>1. d < q => d <= q - 1
    OBVIOUS
  <2> QED
    BY <2>1, <1>3
<1>5. d < q - 1 => d * Day <= (q - 2) * Day
  <2>1. d < q - 1 => d <= q - 2
    OBVIOUS
  <2> QED
    BY <2>1, <1>3
<1> QED
  BY <1>1, <1>2, <1>4, <1>5

\* The gate's day-by-day look at the windows is the meaning of the week's schedule
\* (guard.go:333-373).
LEMMA ScheduleMeansHours ==
    ASSUME NEW schedule, Regular(schedule), schedule # << >>,
           NEW offset \in Int, NEW instant \in Int, instant + offset >= -Day
    PROVE  WithinSchedule(schedule, offset, instant) <=> OpenAt(schedule, offset, instant)
<1> DEFINE local == instant + offset
           q == local \div Day
           m == local % Day
<1>1. Day \in Nat \ {0} /\ Week \in Nat \ {0} /\ local \in Int /\ local >= -Day
  BY ConstantTypes
<1>2. q \in Int /\ m \in 0..(Day - 1) /\ local = q * Day + m /\ q * Day \in Int
  <2> HIDE DEF local
  <2>1. q \in Int /\ m \in 0..(Day - 1) /\ local = q * Day + m
    BY <1>1, DayOf
  <2> QED
    BY <2>1, DaysApart
<1>3. q >= -1
  <2>1. CASE q < -1
    <3>1. q * Day + Day <= (-1) * Day
      BY <1>2, <2>1, DaysApart
    <3> QED
      BY <3>1, <1>1, <1>2
  <2> QED
    BY <2>1, <1>2
<1>4. \A d \in Int : d % Week \in 0..(Week - 1)
  BY <1>1
<1>5. LocalDay(instant, offset) = q % Week /\ LocalMinutes(instant, offset) = m
  BY DEF LocalDay, LocalMinutes
<1>6. WithinSchedule(schedule, offset, instant) <=>
         /\ q % Week \in DOMAIN schedule
         /\ \E w \in schedule[q % Week] : Readable(w) /\ InWindow(w, m)
  BY <1>5 DEF WithinSchedule
<1>7. OpenAt(schedule, offset, instant) <=>
         \E day \in (-2)..(q + 1) :
            /\ day % Week \in DOMAIN schedule
            /\ \E w \in schedule[day % Week] :
                  /\ Readable(w)
                  /\ local >= day * Day + w.start
                  /\ local <= day * Day + w.end + (IF w.start > w.end THEN Day ELSE 0)
  BY DEF OpenAt
<1> HIDE DEF local, q, m
<1>8. ASSUME q % Week \in DOMAIN schedule, NEW w \in schedule[q % Week], Readable(w), InWindow(w, m)
      PROVE  \E day \in (-2)..(q + 1) :
                /\ day % Week \in DOMAIN schedule
                /\ \E v \in schedule[day % Week] :
                      /\ Readable(v)
                      /\ local >= day * Day + v.start
                      /\ local <= day * Day + v.end + (IF v.start > v.end THEN Day ELSE 0)
  <2>1. w.start \in 0..(Day - 1) /\ w.end \in 0..(Day - 1)
    BY <1>8 DEF Readable
  <2>2. q \in (-2)..(q + 1) /\ q - 1 \in (-2)..(q + 1)
    BY <1>2, <1>3
  <2>3. CASE w.start <= w.end
    <3>1. w.start <= m /\ m <= w.end /\ ~(w.start > w.end)
      BY <1>2, <1>8, <2>1, <2>3 DEF InWindow
    <3>2. local >= q * Day + w.start /\ local <= q * Day + w.end + 0
      BY <1>1, <1>2, <2>1, <3>1
    <3> QED
      BY <1>8, <2>2, <3>1, <3>2
  <2>4. CASE w.start > w.end /\ w.start <= m
    <3>1. local >= q * Day + w.start /\ local <= q * Day + w.end + Day
      BY <1>1, <1>2, <2>1, <2>4
    <3> QED
      BY <1>8, <2>2, <2>4, <3>1
  <2>5. CASE w.start > w.end /\ m <= w.end
    <3>1. (q - 1) % Week \in DOMAIN schedule /\ w \in schedule[(q - 1) % Week]
      <4>1. q \in Int /\ q - 1 \in Int
        BY <1>2
      <4>2. q % Week \in DOMAIN schedule /\ (q - 1) % Week \in 0..(Week - 1) /\ Overnight(w)
        BY <1>4, <1>8, <2>5, <4>1 DEF Overnight
      <4> QED
        BY <1>8, <4>2 DEF Regular
    <3>2. (q - 1) * Day = q * Day - Day
      BY <1>2, DaysApart
    <3>3. local >= (q - 1) * Day + w.start /\ local <= (q - 1) * Day + w.end + Day
      BY <1>1, <1>2, <2>1, <2>5, <3>2
    <3> QED
      BY <1>8, <2>2, <2>5, <3>1, <3>3
  <2> QED
    BY <1>2, <1>8, <2>1, <2>3, <2>4, <2>5 DEF InWindow
<1>9. ASSUME NEW day \in (-2)..(q + 1), day % Week \in DOMAIN schedule, NEW w \in schedule[day % Week],
             Readable(w), local >= day * Day + w.start,
             local <= day * Day + w.end + (IF w.start > w.end THEN Day ELSE 0)
      PROVE  /\ q % Week \in DOMAIN schedule
             /\ \E v \in schedule[q % Week] : Readable(v) /\ InWindow(v, m)
  <2>1. w.start \in 0..(Day - 1) /\ w.end \in 0..(Day - 1) /\ day \in Int /\ day * Day \in Int
    BY <1>1, <1>2, <1>9 DEF Readable
  <2>2. day <= q
    <3>1. q < day => q * Day + Day <= day * Day
      BY <1>2, <2>1, DaysApart
    <3> QED
      <4>1. local >= day * Day + w.start
        BY <1>9
      <4>2. local < q * Day + Day
        BY <1>1, <1>2
      <4> QED
        BY <1>1, <1>2, <2>1, <3>1, <4>1, <4>2
  <2>3. CASE w.start <= w.end
    <3>1. local <= day * Day + w.end
      BY <1>9, <2>1, <2>3
    <3>2. day < q => day * Day + Day <= q * Day
      BY <1>2, <2>1, DaysApart
    <3>3. day = q
      BY <1>1, <1>2, <2>1, <2>2, <3>1, <3>2
    <3>4. w.start <= m /\ m <= w.end
      BY <1>2, <1>9, <2>1, <3>1, <3>3
    <3> QED
      BY <1>9, <2>3, <3>3, <3>4 DEF InWindow
  <2>4. CASE w.start > w.end
    <3>1. local <= day * Day + w.end + Day
      BY <1>9, <2>1, <2>4
    <3>2. day < q - 1 => day * Day + Day + Day <= q * Day
      BY <1>2, <2>1, DaysApart
    <3>3. day = q \/ day = q - 1
      BY <1>1, <1>2, <2>1, <2>2, <3>1, <3>2
    <3>4. q % Week \in DOMAIN schedule /\ w \in schedule[q % Week]
      BY <1>2, <1>4, <1>9, <2>4 DEF Regular, Overnight
    <3>5. (q - 1) * Day = q * Day - Day
      BY <1>2, DaysApart
    <3>6. w.start <= m \/ m <= w.end
      BY <1>1, <1>2, <1>9, <2>1, <3>1, <3>3, <3>5
    <3>7. InWindow(w, m)
      BY <2>1, <2>4, <3>6 DEF InWindow
    <3> QED
      BY <1>9, <3>4, <3>7
  <2> QED
    BY <2>1, <2>3, <2>4
<1> QED
  BY <1>6, <1>7, <1>8, <1>9

-----------------------------------------------------------------------------
(* Bodies. *)

SignalFields == {"action", "symbol", "lot", "orderType", "comment"}

LEMMA Spellings ==
    ASSUME NEW s
    PROVE  /\ Clean(Trim(s)) = Clean(s) /\ Clean(Upper(s)) = Clean(s) /\ Clean(Clean(s)) = Clean(s)
           /\ s \in Actions => Clean(s) = s
  BY DEF Trim, Upper, Clean, Actions

\* An order the parser finds has the body's fields; what a refusal remembers of a
\* body has its action (ingest.go, paper_ingest.go).
Faithful(sig, b) ==
    sig # NoSignal => DOMAIN sig = SignalFields /\ Clean(sig.action) = Clean(b.action)
Parses(sig, b) ==
    /\ sig # NoSignal /\ Faithful(sig, b) /\ sig.symbol = b.symbol /\ sig.comment = b.comment
    /\ sig.orderType = b.orderType \/ (sig.orderType = "" /\ Clean(b.orderType) \in PaperTypes)

LEMMA ParsedOrders ==
    ASSUME NEW h, NEW b
    PROVE  /\ Route(h, b).to \in {"order", "price", "refused"}
           /\ Route(h, b).to = "order" => Parses(Route(h, b).sig, b)
           /\ Faithful(Route(h, b).sig, b)
           /\ Route(h, b).code \in {"", "invalid_payload", "gateway_rejected"}
           /\ Faithful(TryParseOrderSignal(h, b), b)
<1> DEFINE flat == FlatOrder(b)
           paper(t) == PaperOrder(b, t)
           Good(r) == /\ r.to \in {"order", "price", "refused"}
                      /\ r.to = "order" => Parses(r.sig, b)
                      /\ Faithful(r.sig, b)
                      /\ r.code \in {"", "invalid_payload", "gateway_rejected"}
<1>1. /\ DOMAIN flat = SignalFields /\ flat.action = b.action /\ flat.symbol = b.symbol
      /\ flat.orderType = b.orderType /\ flat.comment = b.comment
  BY DEF FlatOrder, SignalFields
<1>2. Clean(Clean(b.action)) = Clean(b.action)
  BY Spellings
<1>3. ASSUME NEW t
      PROVE  /\ DOMAIN paper(t) = SignalFields /\ paper(t).action = Clean(b.action) /\ paper(t).symbol = b.symbol
             /\ paper(t).orderType = t /\ paper(t).comment = b.comment
  BY DEF PaperOrder, FlatOrder, SignalFields
<1>4. ASSUME NEW sig, DOMAIN sig = SignalFields PROVE sig # NoSignal
  <2>1. DOMAIN NoSignal = {"none"}
    BY DEF NoSignal
  <2> QED
    BY <1>4, <2>1 DEF SignalFields
<1> HIDE DEF flat, paper
<1>5. ASSUME NEW code \in {"invalid_payload", "gateway_rejected"}, NEW sig, Faithful(sig, b)
      PROVE  Good(Bad(sig, code))
  BY <1>5 DEF Bad
<1>6. Faithful(NoSignal, b) /\ Faithful(flat, b) /\ \A t : Faithful(paper(t), b)
  BY <1>1, <1>2, <1>3 DEF Faithful
<1>7. Good(To("order", flat))
  <2>1. Parses(flat, b)
    BY <1>1, <1>4, <1>6 DEF Parses
  <2> QED
    BY <1>6, <2>1 DEF To
<1>8. ASSUME NEW t, t = b.orderType \/ (t = "" /\ Clean(b.orderType) \in PaperTypes)
      PROVE  Good(To("order", paper(t)))
  <2>1. Parses(paper(t), b)
    BY <1>3, <1>4, <1>6, <1>8 DEF Parses
  <2> QED
    BY <1>6, <2>1 DEF To
<1>9. Good(RoutePaperIngest(b))
  <2>1. CASE PaperType(b) = "PRICE_UPDATE"
    <3>1. RoutePaperIngest(b) = To("price", NoSignal)
      BY <2>1 DEF RoutePaperIngest
    <3>2. Good(To("price", NoSignal))
      BY <1>6 DEF To
    <3> QED
      BY <3>1, <3>2
  <2>2. CASE PaperType(b) = "ORDER_SIGNAL"
    <3> DEFINE t == IF Misplaced(b) THEN "" ELSE b.orderType
    <3>1. RoutePaperIngest(b) = To("order", paper(t))
      BY <2>2 DEF RoutePaperIngest, paper
    <3>2. t = b.orderType \/ (t = "" /\ Clean(b.orderType) \in PaperTypes)
      BY DEF Misplaced
    <3> HIDE DEF t, Good
    <3> QED
      BY <3>1, <3>2, <1>8
  <2>3. CASE PaperType(b) = "" /\ Trim(b.action) = ""
    <3>1. RoutePaperIngest(b) = Bad(NoSignal, "invalid_payload")
      BY <2>3 DEF RoutePaperIngest
    <3> HIDE DEF Good
    <3> QED
      BY <3>1, <1>5, <1>6
  <2>4. CASE PaperType(b) = "" /\ Trim(b.action) # ""
    <3>1. RoutePaperIngest(b) = To("order", flat)
      BY <2>4 DEF RoutePaperIngest, flat
    <3> HIDE DEF Good
    <3> QED
      BY <3>1, <1>7
  <2>5. CASE PaperType(b) \notin {"PRICE_UPDATE", "ORDER_SIGNAL", ""}
    <3>1. RoutePaperIngest(b) = Bad(paper(b.orderType), "gateway_rejected")
      BY <2>5 DEF RoutePaperIngest, paper
    <3> HIDE DEF Good
    <3> QED
      BY <3>1, <1>5, <1>6
  <2> QED
    BY <2>1, <2>2, <2>3, <2>4, <2>5
<1>10. Good(Route(h, b))
  <2> HIDE DEF Good
  <2>1. CASE b.large \/ ~b.json
    BY <2>1, <1>5, <1>6 DEF Route
  <2>2. CASE ~(b.large \/ ~b.json)
    BY <2>2, <1>7, <1>9 DEF Route, flat
  <2> QED
    BY <2>1, <2>2
<1>11. Faithful(TryParseOrderSignal(h, b), b)
  <2> DEFINE clean == [flat EXCEPT !.action = Clean(@)]
  <2>1. Faithful(clean, b)
    BY <1>1, <1>2 DEF Faithful, SignalFields
  <2>2. RoutePaperIngest(b).to = "order" => Faithful(RoutePaperIngest(b).sig, b)
    BY <1>9
  <2>3. TryParseOrderSignal(h, b) \in {RoutePaperIngest(b).sig, clean, NoSignal}
        /\ (TryParseOrderSignal(h, b) = RoutePaperIngest(b).sig =>
              RoutePaperIngest(b).to = "order" \/ TryParseOrderSignal(h, b) \in {clean, NoSignal})
    BY DEF TryParseOrderSignal, flat
  <2> HIDE DEF clean
  <2> QED
    BY <2>1, <2>2, <2>3, <1>6
<1> QED
  BY <1>10, <1>11

-----------------------------------------------------------------------------
(* Requests. *)

RequestFields == {"hook", "body", "at", "sig", "code", "kept", "ruled", "day", "hit"}
\* The steps at which a request is counted.
CountedSteps == {"minute", "day", "second", "order rate", "broker rate"}
PastRules == {"minute", "user", "day", "second", "hand over", "worker", "order rate", "broker rate",
              "market", "executed"}
PastWork == {"order rate", "broker rate", "market", "executed"}

\* What the rules have established of an order, and then the worker.
Ruled(r) ==
    /\ Parses(r.sig, r.body) /\ r.sig.action \in Actions /\ r.sig.action \in AllowedActions(r.hook)
    /\ r.hook.comment \in {"", r.sig.comment}
    /\ WithinSchedule(r.hook.hours, r.hook.offset, r.ruled)

Judged(r) ==
    /\ DOMAIN r = RequestFields /\ r.hook \in gate.hooks /\ r.ruled \in Nat /\ r.day \in Nat
    /\ Faithful(r.sig, r.body)
    /\ r.at \in PastRules => Ruled(r)
    /\ r.at \in PastWork => WorkerCode(r.hook, r.sig) = ""
    /\ r.at = "refused" /\ r.code = "outside_trading_hours" =>
          r.hook.market # << >> \/ ~WithinSchedule(r.hook.hours, r.hook.offset, r.ruled)
    /\ r.kept \in BOOLEAN /\ (r.at # "refused" => r.kept = TRUE)
    /\ r.hit # 0 => r.at \in CountedSteps

\* The row of a refusal.
RowOfRefusal(i, r) == IF r.at = "refused" /\ r.kept = TRUE THEN {RejectedRow(i, r.hook, r.sig, r.code)} ELSE {}

\* What a step does to one request, which it leaves at a hit or at none, and the
\* trades table.
StepOf(i, hit) ==
    \E r : /\ Judged(r) /\ r.hit = hit /\ r.hook = requests[i].hook /\ r.body = requests[i].body
           /\ requests[i].at # "refused" /\ Move(i, r)
           /\ ledger' = ledger \cup RowOfRefusal(i, r)

\* A request at which a step may begin.
Waits(i) == Judged(requests[i]) /\ requests[i].at # "refused" /\ now \in Nat

LEMMA GoesOn ==
    ASSUME NEW i, Waits(i), NEW at, at # "refused", Step(i, at), ledger' = ledger,
           at \in PastRules => Ruled(requests[i]),
           at \in PastWork => WorkerCode(requests[i].hook, requests[i].sig) = ""
    PROVE  StepOf(i, 0)
<1> DEFINE q == requests[i]
           r == [q EXCEPT !.at = at, !.hit = 0]
<1>1. DOMAIN q = RequestFields /\ {"at", "hit"} \subseteq RequestFields
  BY DEF Waits, Judged, RequestFields
<1>2. /\ DOMAIN r = RequestFields /\ r.at = at /\ r.hook = q.hook /\ r.body = q.body /\ r.sig = q.sig
      /\ r.code = q.code /\ r.kept = q.kept /\ r.ruled = q.ruled /\ r.day = q.day
      /\ r.hit = 0
  BY <1>1 DEF RequestFields
<1>3. Move(i, r)
  BY DEF Step
<1> HIDE DEF r
<1>4. Judged(r)
  BY <1>2 DEF Judged, Waits, Ruled
<1>5. RowOfRefusal(i, r) = {}
  BY <1>2 DEF RowOfRefusal
<1> QED
  BY <1>2, <1>3, <1>4, <1>5 DEF StepOf, Waits

LEMMA RefuseIsAStep ==
    ASSUME NEW i, Waits(i), requests[i].hit = 0, NEW sig, Faithful(sig, requests[i].body), NEW code,
           Refuse(i, sig, code),
           code = "outside_trading_hours" =>
              \/ requests[i].hook.market # << >>
              \/ /\ requests[i].at = "account"
                 /\ ~WithinSchedule(requests[i].hook.hours, requests[i].hook.offset, now)
    PROVE  StepOf(i, 0)
<1> DEFINE q == requests[i]
           ruled == IF q.at = "account" THEN now ELSE q.ruled
           r(kept) == [q EXCEPT !.at = "refused", !.sig = sig, !.code = code, !.kept = kept, !.ruled = ruled]
<1>1. DOMAIN q = RequestFields
  BY DEF Waits, Judged
<1>2. ASSUME NEW kept \in BOOLEAN
      PROVE  /\ DOMAIN r(kept) = RequestFields /\ r(kept).at = "refused" /\ r(kept).hook = q.hook
             /\ r(kept).body = q.body /\ r(kept).sig = sig /\ r(kept).code = code /\ r(kept).kept = kept
             /\ r(kept).ruled = ruled /\ r(kept).day = q.day /\ r(kept).hit = 0
  BY <1>1 DEF RequestFields
<1>3. \/ Move(i, r(TRUE)) /\ ledger' = ledger \cup {RejectedRow(i, q.hook, sig, code)}
      \/ Move(i, r(FALSE)) /\ ledger' = ledger
  BY DEF Refuse, RowOf
<1> HIDE DEF r
<1>4. ASSUME NEW kept \in BOOLEAN PROVE Judged(r(kept))
  <2>1. ruled \in Nat
    BY DEF Waits, Judged
  <2>2. code = "outside_trading_hours" =>
           r(kept).hook.market # << >> \/ ~WithinSchedule(q.hook.hours, q.hook.offset, ruled)
    BY <1>2
  <2> HIDE DEF ruled
  <2> QED
    BY <1>2, <2>1, <2>2 DEF Judged, Waits, PastRules, PastWork
<1>5. RowOfRefusal(i, r(TRUE)) = {RejectedRow(i, q.hook, sig, code)}
  BY <1>2 DEF RowOfRefusal
<1>6. RowOfRefusal(i, r(FALSE)) = {}
  BY <1>2 DEF RowOfRefusal
<1>7. CASE Move(i, r(TRUE)) /\ ledger' = ledger \cup {RejectedRow(i, q.hook, sig, code)}
  BY <1>2, <1>4, <1>5, <1>7 DEF StepOf, Waits
<1>8. CASE Move(i, r(FALSE)) /\ ledger' = ledger
  BY <1>2, <1>4, <1>6, <1>8 DEF StepOf, Waits
<1> QED
  BY <1>3, <1>7, <1>8

LEMMA RefuseCountedIsAStep ==
    ASSUME NEW i, Waits(i), NEW code, code # "outside_trading_hours", RefuseCounted(i, code)
    PROVE  StepOf(i, 0)
<1> DEFINE q == requests[i]
           r == [q EXCEPT !.at = "refused", !.code = code, !.hit = 0]
<1>1. DOMAIN q = RequestFields
  BY DEF Waits, Judged
<1>2. /\ DOMAIN r = RequestFields /\ r.at = "refused" /\ r.hook = q.hook /\ r.body = q.body /\ r.sig = q.sig
      /\ r.code = code /\ r.kept = q.kept /\ r.ruled = q.ruled /\ r.day = q.day /\ r.hit = 0
  BY <1>1 DEF RequestFields
<1>3. Move(i, r) /\ ledger' = ledger \cup {RejectedRow(i, q.hook, q.sig, code)}
  BY DEF RefuseCounted, RowOf
<1> HIDE DEF r
<1>4. Judged(r) /\ r.kept = TRUE
  BY <1>2 DEF Judged, Waits, PastRules, PastWork
<1>5. RowOfRefusal(i, r) = {RejectedRow(i, q.hook, q.sig, code)}
  BY <1>2, <1>4 DEF RowOfRefusal
<1> QED
  BY <1>2, <1>3, <1>4, <1>5 DEF StepOf, Waits

LEMMA RulesIsAStep ==
    ASSUME NEW i, Waits(i), requests[i].at = "account", NEW sig, Parses(sig, requests[i].body), Rules(i, sig)
    PROVE  StepOf(i, 0)
<1> DEFINE q == requests[i]
           h == q.hook
           code == IF sig.action \in Actions THEN ValidateIngest(h, sig, now) ELSE "invalid_action"
           r == [q EXCEPT !.at = AfterRules(h), !.sig = sig, !.ruled = now]
<1>1. DOMAIN q = RequestFields /\ Faithful(sig, q.body) /\ now \in Nat /\ q.kept = TRUE /\ q.hit = 0
  BY DEF Waits, Judged, Parses, CountedSteps
<1>2. /\ DOMAIN r = RequestFields /\ r.at = AfterRules(h) /\ r.hook = h /\ r.body = q.body /\ r.sig = sig
      /\ r.code = q.code /\ r.kept = q.kept /\ r.ruled = now /\ r.day = q.day /\ r.hit = 0
  BY <1>1 DEF RequestFields
<1>3. AfterRules(h) \in {"minute", "user"}
  BY DEF AfterRules
<1>4. CASE code # ""
  <2>1. Refuse(i, sig, code)
    BY <1>4 DEF Rules
  <2>2. code = "outside_trading_hours" => ~WithinSchedule(h.hours, h.offset, now)
    BY IngestCodes
  <2> HIDE DEF code
  <2> QED
    BY <1>1, <2>1, <2>2, RefuseIsAStep
<1>5. CASE code = ""
  <2>1. Move(i, r) /\ ledger' = ledger
    BY <1>5 DEF Rules
  <2>2. /\ sig.action \in Actions /\ sig.action \in AllowedActions(h) /\ h.comment \in {"", sig.comment}
        /\ WithinSchedule(h.hours, h.offset, now)
    BY <1>5, IngestCodes
  <2> HIDE DEF r, code
  <2>3. Judged(r)
    BY <1>1, <1>2, <1>3, <2>2 DEF Judged, Waits, Ruled, PastWork
  <2>4. RowOfRefusal(i, r) = {}
    BY <1>2, <1>3 DEF RowOfRefusal
  <2> QED
    BY <1>2, <2>1, <2>3, <2>4 DEF StepOf, Waits
<1> QED
  BY <1>4, <1>5

LEMMA ReceiveIsAStep ==
    ASSUME NEW i, Waits(i), Receive(i)
    PROVE  StepOf(i, 0)
<1> DEFINE q == requests[i]
           h == q.hook
           b == q.body
           parsed == Route(h, b)
           early == TryParseOrderSignal(h, b)
<1>1. q.at = "account" /\ q.hit = 0
  BY DEF Receive, Waits, Judged, CountedSteps
<1>2. /\ parsed.to = "order" => Parses(parsed.sig, b)
      /\ Faithful(parsed.sig, b) /\ Faithful(early, b)
      /\ parsed.code \in {"", "invalid_payload", "gateway_rejected"}
  BY ParsedOrders
<1>3. CASE Refuse(i, early, AccountCode(h))
  BY <1>1, <1>2, <1>3, AccountCodes, RefuseIsAStep
<1>4. CASE /\ Move(i, [q EXCEPT !.at = "refused", !.sig = early, !.code = "gateway_rejected"])
           /\ ledger' = ledger \cup RowOf(i, h, early, "gateway_rejected")
  <2> DEFINE r == [q EXCEPT !.at = "refused", !.sig = early, !.code = "gateway_rejected"]
  <2>1. DOMAIN q = RequestFields
    BY DEF Waits, Judged
  <2>2. /\ DOMAIN r = RequestFields /\ r.at = "refused" /\ r.hook = q.hook /\ r.body = q.body /\ r.sig = early
        /\ r.code = "gateway_rejected" /\ r.kept = q.kept /\ r.ruled = q.ruled /\ r.day = q.day
        /\ r.hit = 0
    BY <1>1, <2>1 DEF RequestFields
  <2>3. Move(i, r) /\ ledger' = ledger \cup {RejectedRow(i, h, early, "gateway_rejected")}
    BY <1>4 DEF RowOf
  <2> HIDE DEF r, early
  <2>4. Judged(r) /\ r.kept = TRUE
    BY <1>2, <2>2 DEF Judged, Waits, PastRules, PastWork
  <2>5. RowOfRefusal(i, r) = {RejectedRow(i, h, early, "gateway_rejected")}
    BY <2>2, <2>4 DEF RowOfRefusal
  <2> QED
    BY <2>2, <2>3, <2>4, <2>5 DEF StepOf, Waits
<1>5. CASE Refuse(i, parsed.sig, parsed.code)
  <2> HIDE DEF parsed
  <2> QED
    BY <1>1, <1>2, <1>5, RefuseIsAStep
<1>6. CASE parsed.to = "order" /\ Rules(i, [parsed.sig EXCEPT !.action = Upper(@)])
  <2> DEFINE sig == [parsed.sig EXCEPT !.action = Upper(@)]
  <2>1. Parses(parsed.sig, b)
    BY <1>2, <1>6
  <2>2. DOMAIN parsed.sig = SignalFields /\ Clean(parsed.sig.action) = Clean(b.action)
    BY <2>1 DEF Parses, Faithful
  <2> HIDE DEF parsed
  <2>3. /\ DOMAIN sig = SignalFields /\ sig.action = Upper(parsed.sig.action) /\ sig.symbol = parsed.sig.symbol
        /\ sig.comment = parsed.sig.comment /\ sig.orderType = parsed.sig.orderType
    BY <2>2 DEF SignalFields
  <2>4. Clean(sig.action) = Clean(b.action)
    BY <2>2, <2>3, Spellings
  <2>5. sig # NoSignal
    <3>1. DOMAIN NoSignal = {"none"}
      BY DEF NoSignal
    <3> QED
      BY <2>3, <3>1 DEF SignalFields
  <2> HIDE DEF sig
  <2>6. Parses(sig, b)
    BY <2>1, <2>3, <2>4, <2>5 DEF Parses, Faithful
  <2>7. Rules(i, sig)
    BY <1>6 DEF sig
  <2> QED
    BY <1>1, <2>6, <2>7, RulesIsAStep
<1>7. CASE Step(i, "price") /\ UNCHANGED <<ledger, failures>>
  BY <1>7, GoesOn DEF PastRules, PastWork
<1> QED
  BY <1>3, <1>4, <1>5, <1>6, <1>7 DEF Receive

\* A counter's command, or its reply.
LEMMA CountingIsAStep ==
    ASSUME NEW i, Waits(i), requests[i].at \in PastRules \cap CountedSteps, NEW next \in PastRules,
           next \in PastWork => requests[i].at \in PastWork,
           NEW k, NEW limit, Limited(i, requests[i].at, k, limit, next)
    PROVE  /\ \/ StepOf(i, 0)
              \/ /\ requests[i].hit = 0 /\ Incr(k, limit, i) /\ StepOf(i, Len(Log(k)) + 1)
           /\ gate' = gate /\ now' = now
<1> DEFINE q == requests[i]
           n == Len(Log(k)) + 1
           r == [q EXCEPT !.hit = n]
<1>1. Ruled(q) /\ (q.at \in PastWork => WorkerCode(q.hook, q.sig) = "") /\ DOMAIN q = RequestFields
  BY DEF Waits, Judged
<1>2. next # "refused"
  BY DEF PastRules
<1>3. gate' = gate /\ now' = now
  BY DEF Limited, CountHit, RenewKey
<1>4. CASE CountHit(i, q.at, k, limit, next)
  <2>1. CASE Failing("redis") /\ Step(i, next)
    BY <1>1, <1>2, <1>3, <1>4, <2>1, GoesOn DEF CountHit
  <2>2. CASE Incr(k, limit, i) /\ Move(i, r)
    <3>1. /\ DOMAIN r = RequestFields /\ r.hit = n /\ r.hook = q.hook /\ r.body = q.body /\ r.sig = q.sig
          /\ r.at = q.at /\ r.code = q.code /\ r.kept = q.kept /\ r.ruled = q.ruled /\ r.day = q.day
      BY <1>1 DEF RequestFields
    <3> HIDE DEF r, n
    <3>3. Judged(r)
      BY <1>1, <3>1 DEF Judged, Waits, Ruled
    <3>4. RowOfRefusal(i, r) = {} /\ ledger' = ledger
      BY <1>4, <3>1 DEF RowOfRefusal, Waits, CountHit
    <3> QED
      BY <1>3, <1>4, <2>2, <3>1, <3>3, <3>4 DEF StepOf, Waits, CountHit, n
  <2> QED
    BY <1>4, <2>1, <2>2 DEF CountHit
<1>5. CASE RenewKey(i, q.at, k, next)
  <2>1. (Step(i, next) /\ ledger' = ledger) \/ RefuseCounted(i, "rate_limited")
    BY <1>5 DEF RenewKey
  <2> QED
    BY <1>1, <1>2, <1>3, <2>1, GoesOn, RefuseCountedIsAStep
<1> QED
  BY <1>4, <1>5 DEF Limited

LEMMA ReadUserIsAStep ==
    ASSUME NEW i, Waits(i), ReadUser(i)
    PROVE  StepOf(i, 0)
<1> DEFINE q == requests[i]
           at == AfterUser(q.hook)
           r == [q EXCEPT !.at = at, !.day = now \div Day]
<1>1. q.at = "user" /\ DOMAIN q = RequestFields /\ now \in Nat /\ Ruled(q) /\ q.hit = 0
  BY DEF ReadUser, Waits, Judged, PastRules, CountedSteps
<1>2. now \div Day \in Nat
  <2>1. Day \in Nat \ {0}
    BY ConstantTypes
  <2> QED
    BY <1>1, <2>1
<1>3. at \in PastRules \ PastWork
  BY DEF AfterUser, PastRules, PastWork
<1> HIDE DEF at
<1>4. /\ DOMAIN r = RequestFields /\ r.at = at /\ r.hook = q.hook /\ r.body = q.body /\ r.sig = q.sig
      /\ r.code = q.code /\ r.kept = q.kept /\ r.ruled = q.ruled /\ r.day = now \div Day
      /\ r.hit = 0
  BY <1>1 DEF RequestFields
<1>5. \/ Move(i, r) /\ ledger' = ledger
      \/ RefuseCounted(i, "gateway_rejected")
  BY DEF ReadUser, at
<1> HIDE DEF r
<1>6. CASE Move(i, r) /\ ledger' = ledger
  <2>1. at # "refused"
    BY <1>3 DEF PastRules
  <2>2. Judged(r)
    BY <1>1, <1>2, <1>3, <1>4, <2>1 DEF Judged, Waits, Ruled
  <2>3. RowOfRefusal(i, r) = {}
    BY <1>4, <2>1 DEF RowOfRefusal
  <2> QED
    BY <1>4, <1>6, <2>2, <2>3 DEF StepOf, Waits
<1>7. CASE RefuseCounted(i, "gateway_rejected")
  BY <1>7, RefuseCountedIsAStep
<1> QED
  BY <1>5, <1>6, <1>7

\* The steps that count nothing.
LEMMA RequestSteps ==
    ASSUME GateOK, NEW i, Judged(requests[i]), now \in Nat,
           \/ Receive(i) \/ PriceUpdate(i) \/ ReadUser(i) \/ Work(i)
           \/ \E outcome \in gate.outcomes : HandOver(i, outcome)
           \/ \E setting \in gate.settings : MarketHours(i, setting)
    PROVE  StepOf(i, 0) /\ gate' = gate /\ now' = now
<1> DEFINE q == requests[i]
           h == q.hook
<1>1. requests[i].at \in {"account", "price", "user", "worker", "hand over", "market"}
  BY DEF Receive, PriceUpdate, ReadUser, Work, HandOver, MarketHours
<1>2. gate' = gate /\ now' = now
  BY DEF Receive, PriceUpdate, ReadUser, Work, HandOver, MarketHours
<1>3. Waits(i) /\ Faithful(q.sig, q.body) /\ q.hit = 0
  BY <1>1 DEF Waits, Judged, CountedSteps
<1>4. CASE PriceUpdate(i)
  <2>1. PICK code : LET r == [q EXCEPT !.at = "priced", !.code = code] IN Move(i, r) /\ ledger' = ledger
    BY <1>4 DEF PriceUpdate
  <2> DEFINE r == [q EXCEPT !.at = "priced", !.code = code]
  <2>2. DOMAIN q = RequestFields
    BY DEF Judged
  <2>3. /\ DOMAIN r = RequestFields /\ r.at = "priced" /\ r.hook = h /\ r.body = q.body /\ r.sig = q.sig
        /\ r.kept = q.kept /\ r.ruled = q.ruled /\ r.day = q.day /\ r.hit = 0
    BY <1>3, <2>2 DEF RequestFields
  <2>4. Move(i, r) /\ ledger' = ledger
    BY <2>1
  <2> HIDE DEF r
  <2>5. Judged(r)
    BY <1>3, <2>3 DEF Waits, Judged, PastRules, PastWork
  <2>6. RowOfRefusal(i, r) = {}
    BY <2>3 DEF RowOfRefusal
  <2> QED
    BY <1>2, <1>3, <2>3, <2>4, <2>5, <2>6 DEF StepOf, Waits
<1>6. CASE Work(i)
  <2>1. Ruled(q)
    BY <1>3, <1>6 DEF Work, Waits, Judged, PastRules
  <2>2. CASE WorkerCode(h, q.sig) = ""
    <3>1. Step(i, "order rate") /\ ledger' = ledger
      BY <1>6, <2>2 DEF Work
    <3> QED
      BY <1>2, <1>3, <2>1, <2>2, <3>1, GoesOn
  <2>3. CASE WorkerCode(h, q.sig) # ""
    <3>1. Refuse(i, q.sig, WorkerCode(h, q.sig))
      BY <1>6, <2>3 DEF Work
    <3>2. WorkerCode(h, q.sig) # "outside_trading_hours"
      BY WorkerCodes
    <3> QED
      BY <1>2, <1>3, <3>1, <3>2, RefuseIsAStep
  <2> QED
    BY <2>2, <2>3
<1>7. ASSUME NEW outcome \in gate.outcomes, HandOver(i, outcome)
      PROVE  StepOf(i, 0)
  <2>1. Ruled(q)
    BY <1>3, <1>7 DEF HandOver, Waits, Judged, PastRules
  <2>2. CASE outcome = "accepted"
    <3>1. Step(i, "worker") /\ ledger' = ledger
      BY <1>7, <2>2 DEF HandOver
    <3>2. "worker" \notin PastWork
      BY DEF PastWork
    <3> QED
      BY <1>3, <2>1, <3>1, <3>2, GoesOn
  <2>3. CASE outcome = "duplicate"
    <3>1. Refuse(i, q.sig, "duplicate_suppressed")
      BY <1>7, <2>3 DEF HandOver
    <3> QED
      BY <1>3, <3>1, RefuseIsAStep
  <2>4. CASE outcome = "queue full"
    <3>1. Refuse(i, q.sig, "queue_full")
      BY <1>7, <2>4 DEF HandOver
    <3> QED
      BY <1>3, <3>1, RefuseIsAStep
  <2> QED
    BY <2>2, <2>3, <2>4 DEF GateOK, WellConfigured
<1>8. ASSUME NEW setting \in gate.settings, MarketHours(i, setting)
      PROVE  StepOf(i, 0)
  <2>1. Ruled(q) /\ WorkerCode(h, q.sig) = ""
    BY <1>3, <1>8 DEF MarketHours, Waits, Judged, PastRules, PastWork
  <2>2. \/ Step(i, "executed") /\ ledger' = ledger
        \/ Refuse(i, q.sig, "outside_trading_hours") /\ ~CheckMarketHours(h, setting, TRUE, now)
    BY <1>8 DEF MarketHours, Step
  <2>3. ~CheckMarketHours(h, setting, TRUE, now) => h.market # << >>
    BY DEF CheckMarketHours, WithinSchedule
  <2>4. CASE Step(i, "executed") /\ ledger' = ledger
    BY <1>3, <2>1, <2>4, GoesOn
  <2>5. CASE Refuse(i, q.sig, "outside_trading_hours") /\ ~CheckMarketHours(h, setting, TRUE, now)
    BY <1>3, <2>3, <2>5, RefuseIsAStep
  <2> QED
    BY <2>2, <2>4, <2>5
<1> QED
  BY <1>2, <1>3, <1>4, <1>6, <1>7, <1>8, ReceiveIsAStep, ReadUserIsAStep

\* The steps that count, with the key and the limit of each.
KeyOf(r) ==
    CASE r.at = "minute" -> <<"minute", r.hook.id>>
      [] r.at = "day" -> <<"day", r.hook.owner, r.day>>
      [] r.at = "second" -> <<"second", r.hook.id>>
      [] r.at = "order rate" -> <<"user", r.hook.owner>>
      [] r.at = "broker rate" -> <<"broker", r.hook.cred>>
LimitOf(r) ==
    CASE r.at = "minute" -> r.hook.perMin
      [] r.at = "day" -> DailyCap
      [] r.at = "second" -> r.hook.perSec
      [] r.at = "order rate" -> EnforceOrdersPerSec(r.hook.plan)
      [] r.at = "broker rate" -> CredPerSec

LEMMA CountedSteppers ==
    ASSUME NEW i, Judged(requests[i]), now \in Nat,
           PerMinute(i) \/ PerDay(i) \/ PerSecond(i) \/ OrderRate(i) \/ BrokerRate(i)
    PROVE  LET q == requests[i]
               k == KeyOf(q)
           IN /\ q.at \in CountedSteps /\ gate' = gate /\ now' = now
              /\ \/ StepOf(i, 0)
                 \/ q.hit = 0 /\ Incr(k, LimitOf(q), i) /\ StepOf(i, Len(Log(k)) + 1)
              /\ \E next : Limited(i, q.at, k, LimitOf(q), next)
<1> DEFINE q == requests[i]
           h == q.hook
           k == KeyOf(q)
           Goal(next) == /\ q.at \in PastRules \cap CountedSteps /\ next \in PastRules
                         /\ next \in PastWork => q.at \in PastWork
                         /\ Limited(i, q.at, k, LimitOf(q), next)
<1>1. ASSUME NEW next, Goal(next)
      PROVE  /\ q.at \in CountedSteps /\ gate' = gate /\ now' = now
             /\ \/ StepOf(i, 0)
                \/ q.hit = 0 /\ Incr(k, LimitOf(q), i) /\ StepOf(i, Len(Log(k)) + 1)
             /\ \E n : Limited(i, q.at, k, LimitOf(q), n)
  <2>1. Waits(i)
    BY <1>1 DEF Waits, PastRules
  <2> QED
    BY <1>1, <2>1, CountingIsAStep
<1>2. AfterDay(h) \in {"second", "hand over"} /\ (IF h.paper THEN "market" ELSE "broker rate") \in {"market", "broker rate"}
  BY DEF AfterDay
<1>3. CASE PerMinute(i)
  <2>1. q.at = "minute" /\ Limited(i, "minute", <<"minute", h.id>>, h.perMin, "user")
    BY <1>3 DEF PerMinute, Limited, CountHit, RenewKey
  <2>2. k = <<"minute", h.id>> /\ LimitOf(q) = h.perMin
    BY <2>1 DEF KeyOf, LimitOf
  <2>3. Goal("user")
    BY <2>1, <2>2 DEF PastRules, CountedSteps, PastWork
  <2> QED
    BY <1>1, <2>3
<1>4. CASE PerDay(i)
  <2>1. q.at = "day" /\ Limited(i, "day", <<"day", h.owner, q.day>>, DailyCap, AfterDay(h))
    BY <1>4 DEF PerDay, Limited, CountHit, RenewKey
  <2>2. k = <<"day", h.owner, q.day>> /\ LimitOf(q) = DailyCap
    BY <2>1 DEF KeyOf, LimitOf
  <2>3. Goal(AfterDay(h))
    BY <1>2, <2>1, <2>2 DEF PastRules, CountedSteps, PastWork
  <2> QED
    BY <1>1, <2>3
<1>5. CASE PerSecond(i)
  <2>1. q.at = "second" /\ Limited(i, "second", <<"second", h.id>>, h.perSec, "hand over")
    BY <1>5 DEF PerSecond, Limited, CountHit, RenewKey
  <2>2. k = <<"second", h.id>> /\ LimitOf(q) = h.perSec
    BY <2>1 DEF KeyOf, LimitOf
  <2>3. Goal("hand over")
    BY <2>1, <2>2 DEF PastRules, CountedSteps, PastWork
  <2> QED
    BY <1>1, <2>3
<1>6. CASE OrderRate(i)
  <2>1. PICK next : next = IF h.paper THEN "market" ELSE "broker rate"
    OBVIOUS
  <2>2. q.at = "order rate" /\ Limited(i, "order rate", <<"user", h.owner>>, EnforceOrdersPerSec(h.plan), next)
    BY <1>6, <2>1 DEF OrderRate, Limited, CountHit, RenewKey
  <2>3. k = <<"user", h.owner>> /\ LimitOf(q) = EnforceOrdersPerSec(h.plan)
    BY <2>2 DEF KeyOf, LimitOf
  <2>4. Goal(next)
    BY <1>2, <2>1, <2>2, <2>3 DEF PastRules, CountedSteps, PastWork
  <2> QED
    BY <1>1, <2>4
<1>7. CASE BrokerRate(i)
  <2>1. q.at = "broker rate" /\ Limited(i, "broker rate", <<"broker", h.cred>>, CredPerSec, "executed")
    BY <1>7 DEF BrokerRate, Limited, CountHit, RenewKey
  <2>2. k = <<"broker", h.cred>> /\ LimitOf(q) = CredPerSec
    BY <2>1 DEF KeyOf, LimitOf
  <2>3. Goal("executed")
    BY <2>1, <2>2 DEF PastRules, CountedSteps, PastWork
  <2> QED
    BY <1>1, <2>3
<1> QED
  BY <1>3, <1>4, <1>5, <1>6, <1>7

\* What both passes of the rules let through is as configured.
LEMMA AsTheRulesSay ==
    ASSUME NEW r, Ruled(r), WorkerCode(r.hook, r.sig) = ""
    PROVE  AsConfigured(r)
<1> DEFINE h == r.hook
           sig == r.sig
           symbol == ResolvedSymbol(h, sig)
<1>1. /\ sig # NoSignal /\ sig.symbol = r.body.symbol /\ sig.comment = r.body.comment
      /\ Clean(sig.action) = Clean(r.body.action) /\ Clean(sig.action) = sig.action
      /\ sig.orderType = r.body.orderType \/ Clean(r.body.orderType) \in PaperTypes
  BY Spellings DEF Ruled, Parses, Faithful
<1>2. /\ ValidateSymbol(h, symbol) /\ ValidateOrderType(h, sig)
      /\ ResolveQuantity(h, sig.lot) > 0
  BY WorkerCodes
<1>3. /\ OrderOf(r).action = sig.action /\ OrderOf(r).symbol = symbol
      /\ OrderOf(r).quantity = ResolveQuantity(h, sig.lot) /\ OrderOf(r).orderType = WebhookOrderType(h)
  BY DEF OrderOf
<1>4. Clean(symbol) \in {Clean(s) : s \in EffectiveAllowedSymbols(h)}
  BY <1>2 DEF ValidateSymbol
<1>5. r.body.symbol # "" => Clean(symbol) = Clean(r.body.symbol)
  BY <1>1, Spellings DEF ResolvedSymbol
<1>6. h.lot > 0 => ResolveQuantity(h, sig.lot) = h.lot
  BY DEF ResolveQuantity
<1>7. Clean(r.body.orderType) \in PaperTypes \cup {"", WebhookOrderType(h)}
  BY <1>1, <1>2 DEF ValidateOrderType
<1> HIDE DEF symbol
<1> QED
  BY <1>1, <1>2, <1>3, <1>4, <1>5, <1>6, <1>7 DEF AsConfigured, Ruled

-----------------------------------------------------------------------------
(* The trades table. *)

Rows(i) == {row \in ledger : row.request = i}

\* The invariant of the requests: what each has passed, and its row.
RequestsInv ==
    /\ GateOK /\ now \in Nat
    /\ \E S : requests \in Seq(S)
    /\ \A i \in DOMAIN requests : Judged(requests[i]) /\ Rows(i) = RowOfRefusal(i, requests[i])
    /\ \A row \in ledger : row.request \in DOMAIN requests

LEMMA RowsOf ==
    ASSUME NEW i, NEW r
    PROVE  \A row \in RowOfRefusal(i, r) : row.request = i
  BY DEF RowOfRefusal, RejectedRow

LEMMA RequestsStep ==
    ASSUME RequestsInv, NEW i \in DOMAIN requests, NEW hit, StepOf(i, hit), gate' = gate, now' = now
    PROVE  RequestsInv'
<1>1. PICK r : /\ Judged(r) /\ requests[i].at # "refused" /\ Move(i, r)
               /\ ledger' = ledger \cup RowOfRefusal(i, r)
  BY DEF StepOf
<1>2. PICK S : requests \in Seq(S)
  BY DEF RequestsInv
<1>3. /\ DOMAIN requests = 1..Len(requests) /\ Len(requests) \in Nat
      /\ requests' \in Seq(S \cup {r}) /\ DOMAIN requests' = DOMAIN requests
      /\ requests'[i] = r /\ \A j \in DOMAIN requests : j # i => requests'[j] = requests[j]
  <2>1. requests \in Seq(S \cup {r}) /\ r \in S \cup {r} /\ i \in 1..Len(requests)
    BY <1>2
  <2> HIDE DEF RequestsInv
  <2> QED
    BY <1>1, <1>2, <2>1 DEF Move
<1>4. \A q : Judged(q)' = Judged(q)
  BY DEF Judged, Ruled
<1>5. \A j, q : RowOfRefusal(j, q)' = RowOfRefusal(j, q)
  BY DEF RowOfRefusal, RejectedRow
<1>6. RowOfRefusal(i, requests[i]) = {}
  BY <1>1 DEF RowOfRefusal
<1>7. ASSUME NEW j \in DOMAIN requests
      PROVE  Judged(requests'[j]) /\ Rows(j)' = RowOfRefusal(j, requests'[j])
  <2>1. Judged(requests[j]) /\ Rows(j) = RowOfRefusal(j, requests[j])
    BY DEF RequestsInv
  <2>2. CASE j = i
    <3>1. Rows(i)' = Rows(i) \cup RowOfRefusal(i, r)
      BY <1>1, RowsOf DEF Rows
    <3> QED
      BY <1>1, <1>3, <1>6, <2>1, <2>2, <3>1
  <2>3. CASE j # i
    <3>1. Rows(j)' = Rows(j)
      BY <1>1, <2>3, RowsOf DEF Rows
    <3> QED
      BY <1>3, <2>1, <2>3, <3>1
  <2> QED
    BY <2>2, <2>3
<1>8. \A row \in ledger' : row.request \in DOMAIN requests
  BY <1>1, RowsOf DEF RequestsInv
<1>9. GateOK' /\ now' \in Nat
  BY DEF RequestsInv, GateOK, WellConfigured
<1> QED
  BY <1>3, <1>4, <1>5, <1>7, <1>8, <1>9 DEF RequestsInv

LEMMA RequestsArrive ==
    ASSUME RequestsInv, NEW h \in gate.hooks, NEW b, Arrive(h, b)
    PROVE  RequestsInv'
<1> DEFINE r == [hook |-> h, body |-> b, at |-> "account", sig |-> NoSignal,
                 code |-> "", kept |-> TRUE, ruled |-> now, day |-> 0, hit |-> 0]
<1>1. /\ DOMAIN r = RequestFields /\ r.hook = h /\ r.body = b /\ r.at = "account" /\ r.sig = NoSignal
      /\ r.kept = TRUE /\ r.ruled = now /\ r.day = 0 /\ r.hit = 0
  BY DEF RequestFields
<1>2. requests' = Append(requests, r) /\ gate' = gate /\ now' = now /\ ledger' = ledger
  BY DEF Arrive
<1> HIDE DEF r
<1>3. PICK S : requests \in Seq(S)
  BY DEF RequestsInv
<1>4. /\ Len(requests) \in Nat /\ DOMAIN requests = 1..Len(requests)
      /\ requests' \in Seq(S \cup {r}) /\ DOMAIN requests' = 1..(Len(requests) + 1)
      /\ requests'[Len(requests) + 1] = r /\ \A j \in DOMAIN requests : requests'[j] = requests[j]
  <2>1. requests \in Seq(S \cup {r}) /\ r \in S \cup {r}
    BY <1>3
  <2> QED
    BY <1>2, <1>3, <2>1
<1>5. \A q : Judged(q)' = Judged(q)
  BY <1>2 DEF Judged, Ruled
<1>6. \A j, q : RowOfRefusal(j, q)' = RowOfRefusal(j, q)
  BY DEF RowOfRefusal, RejectedRow
<1>7. Judged(r) /\ \A j : RowOfRefusal(j, r) = {}
  <2>1. r.ruled \in Nat /\ r.day \in Nat /\ Faithful(r.sig, r.body)
    BY <1>1 DEF RequestsInv, Faithful
  <2>2. r.at \notin PastRules /\ r.at \notin PastWork /\ r.at # "refused"
    BY <1>1 DEF PastRules, PastWork
  <2> QED
    BY <1>1, <2>1, <2>2 DEF Judged, RowOfRefusal
<1>8. ASSUME NEW j \in DOMAIN requests'
      PROVE  Judged(requests'[j]) /\ Rows(j)' = RowOfRefusal(j, requests'[j])
  <2>1. Rows(j)' = Rows(j)
    BY <1>2 DEF Rows
  <2>2. CASE j \in DOMAIN requests
    BY <1>4, <2>1, <2>2 DEF RequestsInv
  <2>3. CASE j = Len(requests) + 1
    <3>1. j \notin DOMAIN requests
      BY <1>4, <2>3
    <3>2. Rows(j) = {}
      BY <3>1 DEF RequestsInv, Rows
    <3> QED
      BY <1>4, <1>7, <2>1, <2>3, <3>2
  <2> QED
    BY <1>4, <2>2, <2>3
<1>9. GateOK' /\ now' \in Nat
  BY <1>2 DEF RequestsInv, GateOK, WellConfigured
<1>10. \A row \in ledger' : row.request \in DOMAIN requests'
  BY <1>2, <1>4 DEF RequestsInv
<1> QED
  BY <1>4, <1>5, <1>6, <1>8, <1>9, <1>10 DEF RequestsInv

LEMMA RequestsKept ==
    ASSUME RequestsInv, [GateNext]_gateVars
    PROVE  RequestsInv'
<1>1. CASE Tick \/ UNCHANGED gateVars
  <2>1. requests' = requests /\ gate' = gate /\ ledger' = ledger /\ now' \in Nat
    BY <1>1 DEF Tick, gateVars, RequestsInv
  <2>2. \A q : Judged(q)' = Judged(q)
    BY <2>1 DEF Judged, Ruled
  <2>3. \A j, q : RowOfRefusal(j, q)' = RowOfRefusal(j, q) /\ Rows(j)' = Rows(j)
    BY <2>1 DEF RowOfRefusal, RejectedRow, Rows
  <2>4. GateOK'
    BY <2>1 DEF RequestsInv, GateOK, WellConfigured
  <2> QED
    BY <2>1, <2>2, <2>3, <2>4 DEF RequestsInv
<1>2. ASSUME NEW h \in gate.hooks, NEW b \in gate.bodies, Arrive(h, b) PROVE RequestsInv'
  BY <1>2, RequestsArrive
<1>3. ASSUME NEW i \in DOMAIN requests,
             \/ Receive(i) \/ PriceUpdate(i) \/ PerMinute(i) \/ ReadUser(i) \/ PerDay(i)
             \/ PerSecond(i) \/ Work(i) \/ OrderRate(i) \/ BrokerRate(i)
             \/ \E outcome \in gate.outcomes : HandOver(i, outcome)
             \/ \E setting \in gate.settings : MarketHours(i, setting)
      PROVE  RequestsInv'
  <2>1. Judged(requests[i]) /\ GateOK /\ now \in Nat
    BY DEF RequestsInv
  <2>2. (\E hit : StepOf(i, hit)) /\ gate' = gate /\ now' = now
    BY <1>3, <2>1, RequestSteps, CountedSteppers
  <2> QED
    BY <2>2, RequestsStep
<1> QED
  BY <1>1, <1>2, <1>3 DEF GateNext

(* What the gate and the worker have established of a request, and the one   *)
(* row every refusal has (signals/handler.go, ingest_reject.go, guard.go).   *)
THEOREM RequestsInvariance == GateSpec => []RequestsInv
<1>1. GateInit({gate}) /\ GateOK => RequestsInv
  <2> SUFFICES ASSUME GateInit({gate}), GateOK PROVE RequestsInv
    OBVIOUS
  <2>1. requests = << >> /\ ledger = {} /\ now = gate.from
    BY DEF GateInit
  <2>2. requests \in Seq({}) /\ DOMAIN requests = {}
    BY <2>1
  <2> QED
    BY <2>1, <2>2 DEF RequestsInv, GateOK, WellConfigured
<1>2. RequestsInv /\ [GateNext]_gateVars => RequestsInv'
  BY RequestsKept
<1> QED
  BY <1>1, <1>2, PTL DEF GateSpec

(* A signal passes the hours rule exactly in the hours its webhook's week    *)
(* means, in any time zone, for any length of day and week and any windows   *)
(* (guard.go:333-373).                                                       *)
THEOREM HoursAreKept == GateSpec => []HoursKept
<1>1. ASSUME RequestsInv PROVE HoursKept
  <2> SUFFICES ASSUME NEW i \in DOMAIN requests, Regular(requests[i].hook.hours)
               PROVE  LET r == requests[i]
                          open == r.hook.hours = << >> \/ OpenAt(r.hook.hours, r.hook.offset, r.ruled)
                      IN /\ r.at \in PastRules => open
                         /\ r.at = "refused" /\ r.code = "outside_trading_hours" /\ r.hook.market = << >> => ~open
    BY DEF HoursKept, PastRules
  <2> DEFINE r == requests[i]
             within == WithinSchedule(r.hook.hours, r.hook.offset, r.ruled)
  <2>1. Judged(r) /\ r.hook.offset \in Int /\ r.hook.offset >= -Day /\ Day \in Nat
    BY <1>1, ConstantTypes DEF RequestsInv, GateOK, WellConfigured, Judged
  <2>2. /\ r.at \in PastRules => within
        /\ r.at = "refused" /\ r.code = "outside_trading_hours" /\ r.hook.market = << >> => ~within
        /\ r.ruled \in Nat
    BY <2>1 DEF Judged, Ruled
  <2>3. within <=> (r.hook.hours = << >> \/ OpenAt(r.hook.hours, r.hook.offset, r.ruled))
    <3>1. CASE r.hook.hours = << >>
      BY <3>1 DEF WithinSchedule
    <3>2. CASE r.hook.hours # << >>
      <4>1. r.ruled + r.hook.offset >= -Day
        BY <2>1, <2>2
      <4> QED
        BY <2>1, <2>2, <3>2, <4>1, ScheduleMeansHours
    <3> QED
      BY <3>1, <3>2
  <2> HIDE DEF within
  <2> QED
    BY <2>2, <2>3
<1> QED
  BY <1>1, RequestsInvariance, PTL

(* Every refusal has its one row, with the answer's code and what was read   *)
(* of the order, unless the insert failed; and an order that is carried out  *)
(* is the one its webhook allows and its body asked for                      *)
(* (ingest_reject.go:30-32, handler.go:118-145, queue.go:255-285).           *)
THEOREM AnswersAreOnRecord == GateSpec => []AnsweredIsOnRecord
<1>1. ASSUME RequestsInv PROVE AnsweredIsOnRecord
  <2> SUFFICES ASSUME NEW i \in DOMAIN requests
               PROVE  LET r == requests[i]
                          own == {row \in ledger : row.request = i}
                      IN /\ r.at = "refused" =>
                               IF r.kept THEN /\ Cardinality(own) = 1
                                              /\ \A row \in own :
                                                    /\ row.code = r.code
                                                    /\ r.sig # NoSignal => row.signal = Clean(r.body.action)
                               ELSE own = {}
                         /\ r.at = "executed" => AsConfigured(r)
    BY DEF AnsweredIsOnRecord
  <2> DEFINE r == requests[i]
             own == {row \in ledger : row.request = i}
             line == RejectedRow(i, r.hook, r.sig, r.code)
  <2>1. Judged(r) /\ own = RowOfRefusal(i, r)
    BY <1>1 DEF RequestsInv, Rows
  <2>2. line.code = r.code /\ (r.sig # NoSignal => line.signal = Clean(r.body.action))
    BY <2>1 DEF RejectedRow, Judged, Faithful
  <2>3. Cardinality({line}) = 1
    BY FS_Singleton
  <2>4. r.kept \in BOOLEAN
    BY <2>1 DEF Judged
  <2>5. r.at = "executed" => AsConfigured(r)
    BY <2>1, AsTheRulesSay DEF PastWork, PastRules, Judged
  <2> QED
    BY <2>1, <2>2, <2>3, <2>4, <2>5 DEF RowOfRefusal
<1> QED
  BY <1>1, RequestsInvariance, PTL

-----------------------------------------------------------------------------
(* Counters. *)

Entries == [by : Nat, at : Nat, count : Nat \ {0}, limit : Nat,
            result : {"counting", "pass", "late", "refuse", "open"}, ended : Nat]

\* The first tick after the window of a hit at t.
WindowEnd(k, t) == IF k[1] = "day" THEN (k[3] + 1) * Day ELSE t + TTL(k)

\* The limits that requests bring to a counter: one (GateOK).
IsLimit(k, n) ==
    \/ k[1] = "minute" /\ \E h \in gate.hooks : h.id = k[2] /\ n = h.perMin
    \/ k[1] = "second" /\ \E h \in gate.hooks : h.id = k[2] /\ n = h.perSec
    \/ k[1] = "user" /\ \E h \in gate.hooks : h.owner = k[2] /\ n = EnforceOrdersPerSec(h.plan)
    \/ k[1] = "day" /\ n = DailyCap /\ k[3] \in Nat
    \/ k[1] = "broker" /\ n = CredPerSec

KeyOK(k) == k[1] = "day" => k[3] \in Nat

(* A log s of the hits on k, whose counter holds the count c and the expiry x *)
(* at t.                                                                      *)

Dead(x, t) == x # NoExpiry /\ x <= t

LogTypes(k, s, t) ==
    /\ KeyOK(k) /\ s \in Seq(Entries) /\ s # << >>
    /\ \A j \in 1..Len(s) : s[j].at <= t /\ s[j].ended <= t /\ IsLimit(k, s[j].limit)

\* A count rises by one with each hit, or begins again.
CountsUp(s) ==
    \A j \in 1..Len(s) : s[j].count <= j /\ \A i \in 1..j : s[j].count <= s[i].count + (j - i)

\* A pass whose window is not over is still in the count.
Remembered(k, s, c, x, t) ==
    \A i \in 1..Len(s) : s[i].result = "pass" /\ t < WindowEnd(k, s[i].at) =>
        (x = NoExpiry \/ WindowEnd(k, s[i].at) <= x) /\ c > Len(s) - i

\* A hit within the window of a pass has counted it.
SeenLater(k, s) ==
    \A j \in 1..Len(s) : \A i \in 1..(j - 1) :
        s[i].result = "pass" /\ s[j].at < WindowEnd(k, s[i].at) => s[j].count > j - i

Judgement(s) == \A j \in 1..Len(s) : /\ s[j].result = "pass" => s[j].count <= s[j].limit
                                     /\ s[j].result = "refuse" => s[j].count > s[j].limit

\* Who has set the expiry.
RenewedBy(k, s, x) ==
    IF x = NoExpiry THEN s[Len(s)].result \in {"counting", "open"}
    ELSE \E q \in 1..Len(s) : s[q].result # "counting" /\ x = s[q].ended + TTL(k)

AllLinked(k, s) == \A p \in 1..(Len(s) - 1) : s[p + 1].count # 1 => Linked(k, s, p)

LogInv(k, s, c, x, t) ==
    /\ LogTypes(k, s, t) /\ x \in Int /\ c = s[Len(s)].count
    /\ CountsUp(s) /\ Remembered(k, s, c, x, t) /\ SeenLater(k, s) /\ Judgement(s)
    /\ k[1] # "day" => RenewedBy(k, s, x) /\ AllLinked(k, s)

\* A request between the two commands is at a hit of its own that is not settled.
Counting(i) ==
    LET r == requests[i]
    IN /\ KeyOf(r) \in DOMAIN hits /\ r.hit \in DOMAIN hits[KeyOf(r)]
       /\ hits[KeyOf(r)][r.hit].by = i /\ hits[KeyOf(r)][r.hit].result = "counting"

CountersInv ==
    /\ DOMAIN counters = DOMAIN hits
    /\ \A k \in DOMAIN hits : LogInv(k, hits[k], counters[k].count, counters[k].expires, now)
    /\ \A i \in DOMAIN requests : requests[i].hit # 0 => Counting(i)

LEMMA OneLimit ==
    ASSUME GateOK, NEW k, NEW m, NEW n, IsLimit(k, m), IsLimit(k, n)
    PROVE  m = n
<1>1. ASSUME NEW g \in gate.hooks, NEW h \in gate.hooks
      PROVE  /\ h.id = g.id => h.perMin = g.perMin /\ h.perSec = g.perSec
             /\ h.owner = g.owner => h.plan = g.plan
  BY DEF GateOK, WellConfigured
<1>2. CASE k[1] = "minute"
  BY <1>1, <1>2 DEF IsLimit
<1>3. CASE k[1] = "second"
  BY <1>1, <1>3 DEF IsLimit
<1>4. CASE k[1] = "user"
  BY <1>1, <1>4 DEF IsLimit
<1>5. CASE k[1] = "day" \/ k[1] = "broker"
  BY <1>5 DEF IsLimit
<1> QED
  BY <1>2, <1>3, <1>4, <1>5 DEF IsLimit

LEMMA Windows ==
    ASSUME NEW k, KeyOK(k)
    PROVE  /\ TTL(k) \in Nat \ {0}
           /\ \A t \in Nat : WindowEnd(k, t) \in Nat
           /\ \A t, u \in Nat : t <= u => WindowEnd(k, t) <= WindowEnd(k, u)
           /\ k[1] # "day" => \A t \in Nat : WindowEnd(k, t) = t + TTL(k)
<1>1. TTL(k) \in Nat \ {0}
  BY ConstantTypes DEF TTL
<1>2. CASE k[1] = "day"
  <2> DEFINE d == (k[3] + 1) * Day
  <2>1. d \in Nat
    BY <1>2, ConstantTypes DEF KeyOK
  <2>2. \A t : WindowEnd(k, t) = d
    BY <1>2 DEF WindowEnd
  <2> HIDE DEF d
  <2> QED
    BY <1>1, <1>2, <2>1, <2>2
<1>3. CASE k[1] # "day"
  <2>1. \A t : WindowEnd(k, t) = t + TTL(k)
    BY <1>3 DEF WindowEnd
  <2> QED
    BY <1>1, <1>3, <2>1
<1> QED
  BY <1>2, <1>3

\* Entries of a log.
LEMMA EntryTypes ==
    ASSUME NEW s \in Seq(Entries), s # << >>
    PROVE  /\ Len(s) \in Nat \ {0} /\ DOMAIN s = 1..Len(s)
           /\ \A j \in 1..Len(s) : /\ s[j] \in Entries /\ s[j].by \in Nat /\ s[j].at \in Nat /\ s[j].ended \in Nat
                                   /\ s[j].count \in Nat \ {0} /\ s[j].limit \in Nat
<1>1. Len(s) \in Nat \ {0} /\ DOMAIN s = 1..Len(s) /\ \A j \in 1..Len(s) : s[j] \in Entries
  OBVIOUS
<1>2. \A e \in Entries : /\ e.by \in Nat /\ e.at \in Nat /\ e.ended \in Nat
                         /\ e.count \in Nat \ {0} /\ e.limit \in Nat
  BY DEF Entries
<1> QED
  BY <1>1, <1>2

\* The first hit of a key.
LEMMA FirstHit ==
    ASSUME NEW k, KeyOK(k), NEW t \in Nat, NEW e \in Entries, e.at = t, e.ended = t, e.count = 1,
           e.result = "counting", IsLimit(k, e.limit), NEW s, s = << >>
    PROVE  LogInv(k, Append(s, e), 1, NoExpiry, t)
<1> DEFINE z == Append(s, e)
<1>1. z \in Seq(Entries) /\ Len(z) = 1 /\ z[1] = e /\ z # << >>
  OBVIOUS
<1> HIDE DEF z
<1>2. 1..Len(z) = {1} /\ Len(z) - 1 = 0
  BY <1>1
<1>3. LogTypes(k, z, t) /\ NoExpiry \in Int
  BY <1>1, <1>2 DEF LogTypes, NoExpiry
<1>4. CountsUp(z) /\ Remembered(k, z, 1, NoExpiry, t) /\ SeenLater(k, z) /\ Judgement(z)
  BY <1>1, <1>2 DEF CountsUp, Remembered, SeenLater, Judgement
<1>5. RenewedBy(k, z, NoExpiry) /\ AllLinked(k, z)
  BY <1>1, <1>2 DEF RenewedBy, AllLinked
<1> QED
  BY <1>1, <1>3, <1>4, <1>5 DEF LogInv, z

\* One more hit.
LEMMA NextHit ==
    ASSUME NEW k, NEW s, NEW c, NEW x, NEW t \in Nat, LogInv(k, s, c, x, t),
           NEW e \in Entries, e.at = t, e.ended = t, e.result = "counting", IsLimit(k, e.limit),
           NEW y, IF Dead(x, t) THEN e.count = 1 /\ y = NoExpiry ELSE e.count = c + 1 /\ y = x
    PROVE  LogInv(k, Append(s, e), e.count, y, t)
<1> DEFINE z == Append(s, e)
           n == Len(s)
<1>1. s \in Seq(Entries) /\ s # << >> /\ KeyOK(k) /\ x \in Int /\ c = s[n].count
  BY DEF LogInv, LogTypes
<1>2. /\ n \in Nat \ {0} /\ Len(z) = n + 1 /\ z \in Seq(Entries) /\ z # << >> /\ z[n + 1] = e
      /\ \A j \in 1..n : z[j] = s[j]
  BY <1>1
<1>3. /\ \A j \in 1..n : /\ s[j].at \in Nat /\ s[j].ended \in Nat /\ s[j].count \in Nat \ {0} /\ s[j].limit \in Nat
                         /\ s[j].at <= t /\ s[j].ended <= t /\ IsLimit(k, s[j].limit)
      /\ c \in Nat \ {0} /\ e.count \in Nat \ {0} /\ e.count <= c + 1
  <2>1. \A j \in 1..n : s[j].at <= t /\ s[j].ended <= t /\ IsLimit(k, s[j].limit)
    BY DEF LogInv, LogTypes
  <2>2. e.count \in Nat \ {0}
    BY DEF Entries
  <2>3. n \in 1..n
    BY <1>2
  <2>4. c \in Nat \ {0}
    BY <1>1, <2>3, EntryTypes
  <2> HIDE DEF n
  <2> QED
    BY <1>1, <2>1, <2>2, <2>4, EntryTypes DEF n
<1>4. \A j \in 1..n : WindowEnd(k, s[j].at) \in Nat
  BY <1>1, <1>3, Windows
<1> HIDE DEF z, n
<1>5. LogTypes(k, z, t) /\ y \in Int /\ e.count = z[Len(z)].count
  <2>1. \A j \in 1..(n + 1) : z[j].at <= t /\ z[j].ended <= t /\ IsLimit(k, z[j].limit)
    BY <1>2, <1>3
  <2>2. y \in Int
    BY <1>1 DEF NoExpiry
  <2> QED
    BY <1>1, <1>2, <2>1, <2>2 DEF LogTypes
<1>6. CountsUp(z)
  <2> SUFFICES ASSUME NEW j \in 1..(n + 1)
               PROVE  z[j].count <= j /\ \A i \in 1..j : z[j].count <= z[i].count + (j - i)
    BY <1>2 DEF CountsUp
  <2>1. \A m \in 1..n : s[m].count <= m /\ \A i \in 1..m : s[m].count <= s[i].count + (m - i)
    BY DEF LogInv, CountsUp, n
  <2>2. CASE j \in 1..n
    <3>1. z[j] = s[j] /\ \A i \in 1..j : z[i] = s[i]
      BY <1>2, <2>2
    <3> QED
      BY <2>1, <2>2, <3>1
  <2>3. CASE j = n + 1
    <3>1. n \in 1..n /\ s[n].count = c
      BY <1>1, <1>2 DEF n
    <3>2. z[j].count <= j
      BY <1>2, <1>3, <2>1, <2>3, <3>1
    <3>3. ASSUME NEW i \in 1..n PROVE z[j].count <= z[i].count + (j - i)
      <4>1. c <= s[i].count + (n - i) /\ s[i].count \in Nat
        BY <1>3, <2>1, <3>1
      <4> QED
        BY <1>2, <1>3, <2>3, <4>1
    <3>4. z[j].count <= z[j].count + (j - j)
      BY <1>2, <1>3, <2>3
    <3> QED
      BY <1>2, <2>3, <3>2, <3>3, <3>4
  <2> QED
    BY <1>2, <2>2, <2>3
<1>7. ASSUME NEW i \in 1..n, s[i].result = "pass", t < WindowEnd(k, s[i].at)
      PROVE  (y = NoExpiry \/ WindowEnd(k, s[i].at) <= y) /\ e.count > n + 1 - i
  <2>1. (x = NoExpiry \/ WindowEnd(k, s[i].at) <= x) /\ c > n - i
    BY <1>7 DEF LogInv, Remembered, n
  <2>2. ~Dead(x, t)
    BY <1>1, <1>4, <1>7, <2>1 DEF Dead
  <2> QED
    BY <1>2, <1>3, <2>1, <2>2
<1>8. Remembered(k, z, e.count, y, t)
  BY <1>2, <1>7 DEF Remembered
<1>9. SeenLater(k, z)
  <2> SUFFICES ASSUME NEW j \in 1..(n + 1), NEW i \in 1..(j - 1), z[i].result = "pass",
                      z[j].at < WindowEnd(k, z[i].at)
               PROVE  z[j].count > j - i
    BY <1>2 DEF SeenLater
  <2>1. CASE j \in 1..n
    BY <1>2, <2>1 DEF LogInv, SeenLater, n
  <2>2. CASE j = n + 1
    BY <1>2, <1>7, <2>2
  <2> QED
    BY <1>2, <2>1, <2>2
<1>10. Judgement(z)
  BY <1>2 DEF Judgement, LogInv, n
<1>11. ASSUME k[1] # "day" PROVE RenewedBy(k, z, y)
  <2>1. RenewedBy(k, s, x)
    BY <1>11 DEF LogInv
  <2>2. CASE y = NoExpiry
    BY <1>2, <2>2 DEF RenewedBy
  <2>3. CASE y # NoExpiry
    <3>1. y = x
      BY <2>3
    <3>2. PICK q \in 1..n : s[q].result # "counting" /\ x = s[q].ended + TTL(k)
      BY <2>1, <2>3, <3>1 DEF RenewedBy, n
    <3>3. q \in 1..(n + 1) /\ z[q] = s[q]
      BY <1>2
    <3> QED
      BY <1>2, <2>3, <3>1, <3>2, <3>3 DEF RenewedBy
  <2> QED
    BY <2>2, <2>3
<1>12. ASSUME k[1] # "day" PROVE AllLinked(k, z)
  <2> SUFFICES ASSUME NEW p \in 1..n, z[p + 1].count # 1
               PROVE  Linked(k, z, p)
    BY <1>2 DEF AllLinked
  <2>1. z[p] = s[p]
    BY <1>2
  <2>2. CASE p + 1 \in 1..n
    <3>1. z[p + 1] = s[p + 1] /\ p \in 1..(n - 1)
      BY <1>2, <2>2
    <3>2. Linked(k, s, p)
      BY <1>12, <3>1 DEF LogInv, AllLinked, n
    <3>3. \A q \in 1..p : z[q] = s[q]
      BY <1>2
    <3> QED
      BY <2>1, <3>1, <3>2, <3>3 DEF Linked
  <2>3. CASE p = n
    <3>1. ~Dead(x, t) /\ z[p + 1] = e
      BY <1>2, <2>3
    <3>2. RenewedBy(k, s, x)
      BY <1>12 DEF LogInv
    <3>3. CASE x = NoExpiry
      BY <2>1, <2>3, <3>2, <3>3 DEF RenewedBy, Linked, n
    <3>4. CASE x # NoExpiry
      <4>1. PICK q \in 1..n : s[q].result # "counting" /\ x = s[q].ended + TTL(k)
        BY <3>2, <3>4 DEF RenewedBy, n
      <4>2. s[q].ended <= t /\ t < x
        BY <1>1, <1>3, <3>1, <3>4 DEF Dead
      <4>3. z[q] = s[q]
        BY <1>2
      <4> QED
        BY <2>3, <3>1, <4>1, <4>2, <4>3 DEF Linked
    <3> QED
      BY <3>3, <3>4
  <2> QED
    BY <1>2, <2>2, <2>3
<1> QED
  BY <1>5, <1>6, <1>8, <1>9, <1>10, <1>11, <1>12 DEF LogInv, z

\* A hit is settled.
LEMMA SettledHit ==
    ASSUME NEW k, NEW s, NEW c, NEW x, NEW t \in Nat, LogInv(k, s, c, x, t),
           NEW j \in 1..Len(s), s[j].result = "counting",
           NEW result \in {"pass", "late", "refuse", "open"},
           NEW y, \/ y = x /\ (result = "open" \/ Dead(x, t))
                  \/ y = WindowEnd(k, t),
           result = "pass" => s[j].count <= s[j].limit /\ y = WindowEnd(k, t) /\ c > Len(s) - j,
           result = "refuse" => s[j].count > s[j].limit
    PROVE  LogInv(k, [s EXCEPT ![j] = [@ EXCEPT !.result = result, !.ended = t]], c, y, t)
<1> DEFINE z == [s EXCEPT ![j] = [@ EXCEPT !.result = result, !.ended = t]]
           n == Len(s)
           f == [s[j] EXCEPT !.result = result, !.ended = t]
<1>1. s \in Seq(Entries) /\ s # << >> /\ KeyOK(k) /\ x \in Int /\ c = s[n].count
  BY DEF LogInv, LogTypes
<1>2. /\ f \in Entries /\ f.result = result /\ f.ended = t /\ f.at = s[j].at /\ f.count = s[j].count
      /\ f.limit = s[j].limit
  <2>1. s[j] \in Entries
    BY <1>1
  <2> QED
    BY <2>1 DEF Entries
<1>3. /\ n \in Nat \ {0} /\ Len(z) = n /\ z \in Seq(Entries) /\ z # << >> /\ z[j] = f
      /\ \A i \in 1..n : i # j => z[i] = s[i]
  <2>1. n \in Nat \ {0} /\ s \in [1..n -> Entries] /\ z = [s EXCEPT ![j] = f]
    BY <1>1
  <2> HIDE DEF f, z, n
  <2>2. z \in [1..n -> Entries] /\ z[j] = f /\ \A i \in 1..n : i # j => z[i] = s[i]
    BY <1>2, <2>1 DEF n
  <2>3. z \in Seq(Entries) /\ Len(z) = n
    BY <2>1, <2>2
  <2> QED
    BY <2>1, <2>2, <2>3
<1>4. \A i \in 1..n : /\ s[i].at \in Nat /\ s[i].ended \in Nat /\ s[i].count \in Nat \ {0} /\ s[i].limit \in Nat
                      /\ s[i].at <= t /\ s[i].ended <= t /\ IsLimit(k, s[i].limit)
                      /\ WindowEnd(k, s[i].at) \in Nat /\ WindowEnd(k, s[i].at) <= WindowEnd(k, t)
  <2>1. \A i \in 1..n : s[i].at <= t /\ s[i].ended <= t /\ IsLimit(k, s[i].limit)
    BY DEF LogInv, LogTypes
  <2> HIDE DEF n
  <2>2. \A i \in 1..n : /\ s[i].at \in Nat /\ s[i].ended \in Nat /\ s[i].count \in Nat \ {0} /\ s[i].limit \in Nat
    BY <1>1, EntryTypes DEF n
  <2> QED
    BY <1>1, <2>1, <2>2, Windows
<1>5. WindowEnd(k, t) \in Nat /\ TTL(k) \in Nat \ {0} /\ (k[1] # "day" => WindowEnd(k, t) = t + TTL(k))
  BY <1>1, Windows
<1> HIDE DEF z, n, f
<1>6. \A i \in 1..n : z[i].at = s[i].at /\ z[i].count = s[i].count /\ z[i].limit = s[i].limit
  BY <1>2, <1>3
<1>7. j \in 1..n /\ n \in 1..n
  BY <1>3 DEF n
<1>8. LogTypes(k, z, t) /\ y \in Int /\ c = z[Len(z)].count
  <2>1. ASSUME NEW i \in 1..n PROVE z[i].at <= t /\ z[i].ended <= t /\ IsLimit(k, z[i].limit)
    <3>1. z[i].at = s[i].at /\ z[i].limit = s[i].limit /\ s[i].at <= t /\ s[i].ended <= t /\ IsLimit(k, s[i].limit)
      BY <1>4, <1>6
    <3>2. z[i].ended = t \/ z[i].ended = s[i].ended
      BY <1>2, <1>3
    <3>3. t <= t
      OBVIOUS
    <3> QED
      BY <3>1, <3>2, <3>3
  <2> QED
    <3>1. y \in Int
      BY <1>1, <1>5
    <3>2. c = z[Len(z)].count
      BY <1>1, <1>3, <1>6, <1>7 DEF n
    <3> QED
      BY <1>1, <1>3, <2>1, <3>1, <3>2 DEF LogTypes
<1>9. CountsUp(z)
  <2>1. \A m \in 1..n : s[m].count <= m /\ \A i \in 1..m : s[m].count <= s[i].count + (m - i)
    BY DEF LogInv, CountsUp, n
  <2>2. \A m \in 1..n : \A i \in 1..m : i \in 1..n
    BY <1>3
  <2> QED
    BY <1>3, <1>6, <2>1, <2>2 DEF CountsUp
<1>10. Remembered(k, z, c, y, t)
  <2> SUFFICES ASSUME NEW i \in 1..n, z[i].result = "pass", t < WindowEnd(k, s[i].at)
               PROVE  (y = NoExpiry \/ WindowEnd(k, s[i].at) <= y) /\ c > n - i
    BY <1>3, <1>6 DEF Remembered
  <2>1. CASE i = j
    BY <1>2, <1>3, <1>4, <2>1 DEF n
  <2>2. CASE i # j
    <3>1. (x = NoExpiry \/ WindowEnd(k, s[i].at) <= x) /\ c > n - i
      BY <1>3, <2>2 DEF LogInv, Remembered, n
    <3> QED
      BY <1>4, <3>1
  <2> QED
    BY <2>1, <2>2
<1>11. SeenLater(k, z)
  <2> SUFFICES ASSUME NEW m \in 1..n, NEW i \in 1..(m - 1), z[i].result = "pass",
                      s[m].at < WindowEnd(k, s[i].at)
               PROVE  s[m].count > m - i
    <3>1. \A m \in 1..n : \A i \in 1..(m - 1) : i \in 1..n
      BY <1>3
    <3> QED
      BY <1>3, <1>6, <3>1 DEF SeenLater
  <2>1. i \in 1..n
    BY <1>3
  <2>2. CASE i = j
    <3>1. c > n - j
      BY <1>2, <1>3, <2>2 DEF n
    <3>2. c <= s[m].count + (n - m)
      BY <1>1, <1>7 DEF LogInv, CountsUp, n
    <3>3. c \in Nat /\ s[m].count \in Nat
      BY <1>1, <1>4, <1>7
    <3> QED
      BY <1>3, <2>2, <3>1, <3>2, <3>3
  <2>3. CASE i # j
    BY <1>3, <2>1, <2>3 DEF LogInv, SeenLater, n
  <2> QED
    BY <2>2, <2>3
<1>12. Judgement(z)
  <2>1. \A i \in 1..n : /\ s[i].result = "pass" => s[i].count <= s[i].limit
                        /\ s[i].result = "refuse" => s[i].count > s[i].limit
    BY DEF LogInv, Judgement, n
  <2>2. \A i \in 1..n : i # j => z[i].result = s[i].result
    BY <1>3
  <2>3. z[j].result = result
    BY <1>2, <1>3
  <2> QED
    BY <1>3, <1>6, <2>1, <2>2, <2>3 DEF Judgement
<1>13. ASSUME k[1] # "day" PROVE RenewedBy(k, z, y)
  <2>1. RenewedBy(k, s, x)
    BY <1>13 DEF LogInv
  <2>2. CASE y = x /\ x = NoExpiry
    <3>1. result = "open"
      BY <1>5, <2>2 DEF Dead, NoExpiry
    <3>2. s[n].result \in {"counting", "open"}
      BY <2>1, <2>2 DEF RenewedBy, n
    <3>3. z[n].result \in {"counting", "open"}
      BY <1>2, <1>3, <1>7, <3>1, <3>2
    <3> QED
      BY <1>3, <2>2, <3>3 DEF RenewedBy
  <2>3. CASE y = x /\ x # NoExpiry
    <3>1. PICK q \in 1..n : s[q].result # "counting" /\ x = s[q].ended + TTL(k)
      BY <2>1, <2>3 DEF RenewedBy, n
    <3>2. z[q] = s[q]
      BY <1>3, <3>1
    <3> QED
      BY <1>3, <2>3, <3>1, <3>2 DEF RenewedBy
  <2>4. CASE y = WindowEnd(k, t)
    <3>1. y # NoExpiry /\ z[j].result # "counting" /\ y = z[j].ended + TTL(k)
      BY <1>2, <1>3, <1>5, <1>13, <2>4 DEF NoExpiry
    <3> QED
      BY <1>3, <1>7, <3>1 DEF RenewedBy
  <2> QED
    BY <2>2, <2>3, <2>4
<1>14. ASSUME k[1] # "day" PROVE AllLinked(k, z)
  <2> SUFFICES ASSUME NEW p \in 1..(n - 1), s[p + 1].count # 1
               PROVE  Linked(k, z, p)
    <3>1. \A p \in 1..(n - 1) : p + 1 \in 1..n
      BY <1>3
    <3> QED
      BY <1>3, <1>6, <3>1 DEF AllLinked
  <2>1. Linked(k, s, p) /\ p \in 1..n /\ p + 1 \in 1..n
    BY <1>3, <1>14 DEF LogInv, AllLinked, n
  <2>2. z[p + 1].at = s[p + 1].at
    BY <1>6, <2>1
  <2>3. CASE p = j
    BY <1>2, <1>3, <1>4, <2>1, <2>2, <2>3 DEF Linked
  <2>4. CASE p # j
    <3>1. z[p] = s[p]
      BY <1>3, <2>1, <2>4
    <3>2. ASSUME NEW q \in 1..p, s[q].result # "counting" PROVE z[q] = s[q]
      BY <1>3, <3>2
    <3> QED
      BY <2>1, <2>2, <3>1, <3>2 DEF Linked
  <2> QED
    BY <2>3, <2>4
<1> QED
  BY <1>8, <1>9, <1>10, <1>11, <1>12, <1>13, <1>14 DEF LogInv, z

\* Time passes.
LEMMA LaterLog ==
    ASSUME NEW k, NEW s, NEW c, NEW x, NEW t \in Nat, LogInv(k, s, c, x, t)
    PROVE  LogInv(k, s, c, x, t + 1)
<1>1. s \in Seq(Entries) /\ s # << >> /\ KeyOK(k)
  BY DEF LogInv, LogTypes
<1>2. \A j \in 1..Len(s) : s[j].at \in Nat /\ s[j].ended \in Nat /\ WindowEnd(k, s[j].at) \in Nat
  BY <1>1, EntryTypes, Windows
<1>3. LogTypes(k, s, t + 1)
  BY <1>2 DEF LogInv, LogTypes
<1>4. Remembered(k, s, c, x, t + 1)
  BY <1>2 DEF LogInv, Remembered
<1> QED
  BY <1>3, <1>4 DEF LogInv

(* Steps. *)

LEMMA SameLimits ==
    ASSUME gate' = gate, NEW k, NEW s, NEW c, NEW x, NEW t, LogInv(k, s, c, x, t)
    PROVE  LogInv(k, s, c, x, t)'
<1>1. \A n : IsLimit(k, n)' = IsLimit(k, n)
  BY DEF IsLimit
<1>2. LogTypes(k, s, t)'
  BY <1>1 DEF LogInv, LogTypes, KeyOK, Entries
<1> QED
  BY <1>2 DEF LogInv, CountsUp, Remembered, SeenLater, Judgement, RenewedBy, AllLinked, Linked, WindowEnd, TTL, NoExpiry

\* A step that counts nothing, whatever it does to requests that wait for no reply.
LEMMA CountersElsewhere ==
    ASSUME CountersInv, gate' = gate, now' = now, UNCHANGED <<counters, hits>>,
           \A i \in DOMAIN requests' : requests'[i].hit # 0 =>
               i \in DOMAIN requests /\ requests'[i] = requests[i]
    PROVE  CountersInv'
<1>1. ASSUME NEW k \in DOMAIN hits
      PROVE  LogInv(k, hits[k], counters[k].count, counters[k].expires, now)'
  <2>1. PICK s, c, x, t : s = hits[k] /\ c = counters[k].count /\ x = counters[k].expires /\ t = now
    OBVIOUS
  <2>2. LogInv(k, s, c, x, t)'
    BY <2>1, SameLimits DEF CountersInv
  <2> QED
    BY <2>1, <2>2
<1>2. ASSUME NEW i \in DOMAIN requests', requests'[i].hit # 0 PROVE Counting(i)'
  <2>1. Counting(i) /\ requests'[i] = requests[i]
    BY <1>2 DEF CountersInv
  <2> QED
    BY <2>1 DEF Counting, KeyOf
<1> QED
  BY <1>1, <1>2 DEF CountersInv

LEMMA TickKeeps ==
    ASSUME CountersInv, now \in Nat, Tick
    PROVE  CountersInv'
<1>1. now' = now + 1 /\ gate' = gate /\ counters' = counters /\ hits' = hits /\ requests' = requests
  BY DEF Tick
<1>2. ASSUME NEW k \in DOMAIN hits
      PROVE  LogInv(k, hits[k], counters[k].count, counters[k].expires, now)'
  <2>1. PICK s, c, x, t : s = hits[k] /\ c = counters[k].count /\ x = counters[k].expires /\ t = now
    OBVIOUS
  <2>2. LogInv(k, s, c, x, t) /\ t \in Nat
    BY <2>1 DEF CountersInv
  <2>3. PICK u : u = t + 1
    OBVIOUS
  <2>4. LogInv(k, s, c, x, u)
    BY <2>2, <2>3, LaterLog
  <2>5. LogInv(k, s, c, x, u)'
    BY <1>1, <2>4, SameLimits
  <2> QED
    BY <1>1, <2>1, <2>3, <2>5
<1>3. ASSUME NEW i \in DOMAIN requests, requests[i].hit # 0 PROVE Counting(i)'
  BY <1>1, <1>3 DEF CountersInv, Counting, KeyOf
<1> QED
  BY <1>1, <1>2, <1>3 DEF CountersInv

LEMMA IncrKeeps ==
    ASSUME CountersInv, now \in Nat, now' = now, gate' = gate, NEW i \in Nat,
           NEW k, KeyOK(k), NEW limit \in Nat, IsLimit(k, limit), Incr(k, limit, i)
    PROVE  /\ DOMAIN counters' = DOMAIN hits'
           /\ \A x \in DOMAIN hits' : LogInv(x, hits[x], counters[x].count, counters[x].expires, now)'
           /\ \A x \in DOMAIN hits : x \in DOMAIN hits' /\ \A j \in DOMAIN hits[x] :
                 j \in DOMAIN hits'[x] /\ hits'[x][j] = hits[x][j]
           /\ k \in DOMAIN hits'
           /\ LET n == Len(Log(k)) + 1
              IN n \in DOMAIN hits'[k] /\ hits'[k][n].by = i /\ hits'[k][n].result = "counting"
<1> DEFINE s == Log(k)
           e == [by |-> i, at |-> now, count |-> Count(k) + 1, limit |-> limit, result |-> "counting", ended |-> now]
           v == [count |-> Count(k) + 1, expires |-> Expiry(k)]
           z == Append(s, e)
           n == Len(s) + 1
<1>1. hits' = With(hits, k, z) /\ counters' = With(counters, k, v)
  BY DEF Incr
<1>2. /\ DOMAIN hits' = DOMAIN hits \cup {k} /\ hits'[k] = z
      /\ \A x \in DOMAIN hits : x # k => hits'[x] = hits[x]
      /\ DOMAIN counters' = DOMAIN counters \cup {k} /\ counters'[k] = v
      /\ \A x \in DOMAIN counters : x # k => counters'[x] = counters[x]
  <2> HIDE DEF z, v
  <2>1. /\ DOMAIN hits' = DOMAIN hits \cup {k} /\ hits'[k] = z
        /\ \A x \in DOMAIN hits : x # k => hits'[x] = hits[x]
    BY <1>1 DEF With
  <2>2. /\ DOMAIN counters' = DOMAIN counters \cup {k} /\ counters'[k] = v
        /\ \A x \in DOMAIN counters : x # k => counters'[x] = counters[x]
    BY <1>1 DEF With
  <2> QED
    BY <2>1, <2>2
<1>3. e.by = i /\ e.at = now /\ e.ended = now /\ e.result = "counting" /\ e.limit = limit
      /\ e.count = Count(k) + 1 /\ v.count = e.count /\ v.expires = Expiry(k)
  OBVIOUS
<1>4. /\ s \in Seq(Entries) /\ e \in Entries
      /\ LogInv(k, z, v.count, v.expires, now)
  <2>1. CASE k \notin DOMAIN hits
    <3>1. s = << >> /\ Count(k) = 0 /\ Expiry(k) = NoExpiry
      BY <2>1 DEF Log, Count, Expiry, Alive, CountersInv
    <3>2. e \in Entries
      BY <3>1 DEF Entries
    <3> HIDE DEF s, e, v
    <3>3. e.count = 1 /\ v.count = 1 /\ v.expires = NoExpiry
      BY <1>3, <3>1
    <3>4. LogInv(k, Append(s, e), 1, NoExpiry, now)
      BY <1>3, <3>1, <3>2, <3>3, FirstHit
    <3> QED
      BY <3>1, <3>2, <3>3, <3>4
  <2>2. CASE k \in DOMAIN hits
    <3>1. PICK c, x : c = counters[k].count /\ x = counters[k].expires
      OBVIOUS
    <3>2. s = hits[k] /\ LogInv(k, s, c, x, now)
      BY <2>2, <3>1 DEF CountersInv, Log
    <3>3. s \in Seq(Entries) /\ s # << >> /\ x \in Int /\ c = s[Len(s)].count
      BY <3>2 DEF LogInv, LogTypes
    <3>4. c \in Nat \ {0}
      <4>1. Len(s) \in 1..Len(s)
        BY <3>3, EntryTypes
      <4> QED
        BY <3>3, <4>1, EntryTypes
    <3>5. Alive(k) <=> ~Dead(x, now)
      BY <2>2, <3>1, <3>3 DEF Alive, Dead, CountersInv
    <3>6. IF Dead(x, now) THEN Count(k) = 0 /\ Expiry(k) = NoExpiry ELSE Count(k) = c /\ Expiry(k) = x
      BY <3>1, <3>5 DEF Count, Expiry
    <3>7. e \in Entries
      BY <3>4, <3>6 DEF Entries
    <3>8. PICK y : y = v.expires
      OBVIOUS
    <3> HIDE DEF s, e, v
    <3>9. IF Dead(x, now) THEN e.count = 1 /\ y = NoExpiry ELSE e.count = c + 1 /\ y = x
      BY <1>3, <3>6, <3>8
    <3>10. LogInv(k, Append(s, e), e.count, y, now)
      BY <1>3, <3>2, <3>7, <3>9, NextHit
    <3> QED
      BY <1>3, <3>3, <3>7, <3>8, <3>10
  <2> QED
    BY <2>1, <2>2
<1>5. n \in DOMAIN z /\ z[n] = e /\ \A j \in DOMAIN s : j \in DOMAIN z /\ z[j] = s[j]
  <2> HIDE DEF s, e
  <2>1. Len(s) \in Nat /\ DOMAIN s = 1..Len(s) /\ DOMAIN z = 1..n
    BY <1>4
  <2> QED
    BY <1>4, <2>1
<1> HIDE DEF z, e, v
<1>6. ASSUME NEW x \in DOMAIN hits'
      PROVE  LogInv(x, hits[x], counters[x].count, counters[x].expires, now)'
  <2>1. PICK h, c, y, t : h = hits'[x] /\ c = counters'[x].count /\ y = counters'[x].expires /\ t = now
    OBVIOUS
  <2>2. LogInv(x, h, c, y, t)
    BY <1>2, <1>4, <2>1 DEF CountersInv
  <2>3. LogInv(x, h, c, y, t)'
    BY <2>2, SameLimits
  <2> QED
    BY <2>1, <2>3
<1>7. DOMAIN counters' = DOMAIN hits'
  BY <1>2 DEF CountersInv
<1>8. \A x \in DOMAIN hits : x \in DOMAIN hits' /\ \A j \in DOMAIN hits[x] :
         j \in DOMAIN hits'[x] /\ hits'[x][j] = hits[x][j]
  <2>1. k \in DOMAIN hits => s = hits[k]
    BY DEF Log
  <2> QED
    BY <1>2, <1>5, <2>1
<1> QED
  BY <1>2, <1>3, <1>5, <1>6, <1>7, <1>8

LEMMA CountHitKeeps ==
    ASSUME CountersInv, RequestsInv, NEW i \in DOMAIN requests, now' = now, gate' = gate,
           KeyOK(KeyOf(requests[i])), LimitOf(requests[i]) \in Nat, IsLimit(KeyOf(requests[i]), LimitOf(requests[i])),
           requests[i].hit = 0, Incr(KeyOf(requests[i]), LimitOf(requests[i]), i),
           Move(i, [requests[i] EXCEPT !.hit = Len(Log(KeyOf(requests[i]))) + 1])
    PROVE  CountersInv'
<1> DEFINE k == KeyOf(requests[i])
           n == Len(Log(k)) + 1
           r == [requests[i] EXCEPT !.hit = n]
<1>1. i \in Nat /\ now \in Nat /\ DOMAIN requests[i] = RequestFields
  <2>1. PICK S : requests \in Seq(S)
    BY DEF RequestsInv
  <2>2. i \in Nat
    BY <2>1
  <2> QED
    BY <2>2 DEF RequestsInv, Judged
<1>2. /\ DOMAIN requests' = DOMAIN requests /\ requests'[i] = r
      /\ \A j \in DOMAIN requests : j # i => requests'[j] = requests[j]
  BY DEF Move
<1>3. /\ DOMAIN counters' = DOMAIN hits'
      /\ \A x \in DOMAIN hits' : LogInv(x, hits[x], counters[x].count, counters[x].expires, now)'
      /\ \A x \in DOMAIN hits : x \in DOMAIN hits' /\ \A j \in DOMAIN hits[x] :
            j \in DOMAIN hits'[x] /\ hits'[x][j] = hits[x][j]
      /\ k \in DOMAIN hits' /\ n \in DOMAIN hits'[k] /\ hits'[k][n].by = i /\ hits'[k][n].result = "counting"
  BY <1>1, IncrKeeps
<1>4. KeyOf(r) = k /\ r.hit = n
  <2>1. r.at = requests[i].at /\ r.hook = requests[i].hook /\ r.day = requests[i].day /\ r.hit = n
    BY <1>1 DEF RequestFields
  <2> HIDE DEF r, n
  <2> QED
    BY <2>1 DEF KeyOf
<1> HIDE DEF k, n, r
<1>5. Counting(i)'
  <2>1. KeyOf(requests[i])' = KeyOf(r)
    BY <1>2 DEF KeyOf
  <2> QED
    BY <1>2, <1>3, <1>4, <2>1 DEF Counting
<1>6. ASSUME NEW j \in DOMAIN requests, j # i, requests'[j].hit # 0 PROVE Counting(j)'
  <2>1. requests'[j] = requests[j] /\ Counting(j)
    BY <1>2, <1>6 DEF CountersInv
  <2>2. KeyOf(requests[j])' = KeyOf(requests[j])
    BY <2>1 DEF KeyOf
  <2> QED
    BY <1>3, <2>1, <2>2 DEF Counting
<1> QED
  BY <1>2, <1>3, <1>5, <1>6 DEF CountersInv

LEMMA RenewKeyKeeps ==
    ASSUME CountersInv, RequestsInv, NEW i \in DOMAIN requests, now' = now, gate' = gate, StepOf(i, 0),
           NEW next, RenewKey(i, requests[i].at, KeyOf(requests[i]), next)
    PROVE  CountersInv'
<1>1. PICK k, j, s, c, x : /\ k = KeyOf(requests[i]) /\ j = requests[i].hit /\ s = hits[k]
                           /\ c = counters[k].count /\ x = counters[k].expires
  OBVIOUS
<1>2. /\ now \in Nat /\ k \in DOMAIN hits /\ j \in DOMAIN s /\ s[j].by = i /\ s[j].result = "counting"
      /\ LogInv(k, s, c, x, now)
  <2>1. requests[i].hit # 0
    BY DEF RenewKey
  <2>2. Counting(i) /\ now \in Nat
    BY <2>1 DEF CountersInv, RequestsInv
  <2> QED
    BY <1>1, <2>2 DEF CountersInv, Counting
<1>3. /\ s \in Seq(Entries) /\ s # << >> /\ x \in Int /\ c = s[Len(s)].count /\ KeyOK(k)
      /\ Len(s) \in Nat /\ j \in 1..Len(s) /\ DOMAIN s = 1..Len(s)
  BY <1>2 DEF LogInv, LogTypes
<1>4. PICK result \in {"pass", "late", "refuse", "open"} :
         /\ Settle(k, j, result)
         /\ (result = "open" /\ UNCHANGED counters) \/ Expire(k)
         /\ result # "open" => result = Verdict(k, j)
  <2>1. Verdict(k, j) \in {"pass", "late", "refuse"}
    BY DEF Verdict
  <2> QED
    BY <1>1, <2>1 DEF RenewKey
<1>5. ExpiresAt(k) = WindowEnd(k, now) /\ Renewed(k, ExpiresAt(k)) = ExpiresAt(k)
  BY DEF ExpiresAt, WindowEnd, TTL, Renewed
<1>6. k \in DOMAIN counters /\ (Alive(k) <=> ~Dead(x, now)) /\ (Alive(k) => Count(k) = c)
  BY <1>1, <1>2, <1>3 DEF Alive, Dead, Count, CountersInv
<1>7. /\ DOMAIN counters' = DOMAIN counters /\ counters'[k].count = c
      /\ \A y \in DOMAIN counters : y # k => counters'[y] = counters[y]
      /\ \/ counters'[k].expires = x /\ (result = "open" \/ Dead(x, now))
         \/ counters'[k].expires = WindowEnd(k, now)
      /\ Alive(k) /\ result # "open" => counters'[k].expires = WindowEnd(k, now)
  <2> DEFINE v == [count |-> Count(k), expires |-> WindowEnd(k, now)]
  <2>1. CASE UNCHANGED counters /\ (result = "open" \/ ~Alive(k))
    BY <1>1, <1>6, <2>1
  <2>2. CASE Alive(k) /\ counters' = With(counters, k, v)
    <3>1. v.count = c /\ v.expires = WindowEnd(k, now)
      BY <1>6, <2>2
    <3> HIDE DEF v
    <3>2. DOMAIN counters \cup {k} = DOMAIN counters
      BY <1>6
    <3>3. /\ DOMAIN counters' = DOMAIN counters \cup {k} /\ counters'[k] = v
          /\ \A y \in DOMAIN counters : y # k => counters'[y] = counters[y]
      BY <2>2 DEF With
    <3> QED
      BY <3>1, <3>2, <3>3
  <2> QED
    BY <1>4, <1>5, <2>1, <2>2 DEF Expire
<1> DEFINE f == [s[j] EXCEPT !.result = result, !.ended = now]
           z == [s EXCEPT ![j] = [@ EXCEPT !.result = result, !.ended = now]]
<1>8. /\ DOMAIN hits' = DOMAIN hits /\ hits'[k] = z
      /\ \A y \in DOMAIN hits : y # k => hits'[y] = hits[y]
  <2>1. hits' = [hits EXCEPT ![k][j].result = result, ![k][j].ended = now]
    BY <1>4 DEF Settle
  <2>2. hits'[k] = [[s EXCEPT ![j].result = result] EXCEPT ![j].ended = now]
    BY <1>1, <1>2, <2>1
  <2>3. [[s EXCEPT ![j].result = result] EXCEPT ![j].ended = now] = z
    BY <1>2
  <2> QED
    BY <2>1, <2>2, <2>3
<1>9. \A m \in DOMAIN s : m \in DOMAIN z /\ (m # j => z[m] = s[m])
  OBVIOUS
<1>10. PICK y : y = counters'[k].expires
  OBVIOUS
<1>11. LogInv(k, z, c, y, now)
  <2>1. result = "pass" => s[j].count <= s[j].limit /\ y = WindowEnd(k, now) /\ c > Len(s) - j
    <3>1. ASSUME result = "pass"
          PROVE  ~(s[j].count > s[j].limit) /\ Alive(k) /\ c > Len(s) - j
      BY <1>1, <1>3, <1>4, <3>1 DEF Verdict, Counts, LastCount
    <3>2. s[j].count \in Nat /\ s[j].limit \in Nat
      BY <1>3, EntryTypes
    <3> QED
      BY <1>7, <1>10, <3>1, <3>2
  <2>2. result = "refuse" => s[j].count > s[j].limit
    <3>1. s[j].count \in Nat /\ s[j].limit \in Nat
      BY <1>3, EntryTypes
    <3> QED
      BY <1>1, <1>4, <3>1 DEF Verdict
  <2>3. (y = x /\ (result = "open" \/ Dead(x, now))) \/ y = WindowEnd(k, now)
    BY <1>7, <1>10
  <2>4. s[j].result = "counting"
    BY <1>2
  <2> HIDE DEF z
  <2>5. z = [s EXCEPT ![j] = [@ EXCEPT !.result = result, !.ended = now]]
    BY DEF z
  <2>6. LogInv(k, [s EXCEPT ![j] = [@ EXCEPT !.result = result, !.ended = now]], c, y, now)
    BY <1>2, <1>3, <2>1, <2>2, <2>3, <2>4, SettledHit
  <2> QED
    BY <2>5, <2>6
<1> HIDE DEF z, f
<1>12. ASSUME NEW w \in DOMAIN hits'
       PROVE  LogInv(w, hits[w], counters[w].count, counters[w].expires, now)'
  <2>1. PICK h, d, u, t : h = hits'[w] /\ d = counters'[w].count /\ u = counters'[w].expires /\ t = now
    OBVIOUS
  <2>2. LogInv(w, h, d, u, t)
    BY <1>7, <1>8, <1>10, <1>11, <2>1 DEF CountersInv
  <2>3. LogInv(w, h, d, u, t)'
    BY <2>2, SameLimits
  <2> QED
    BY <2>1, <2>3
<1>13. /\ DOMAIN requests' = DOMAIN requests /\ requests'[i].hit = 0
       /\ \A m \in DOMAIN requests : m # i => requests'[m] = requests[m]
  BY DEF StepOf, Move
<1>14. ASSUME NEW m \in DOMAIN requests', requests'[m].hit # 0 PROVE Counting(m)'
  <2>1. m # i /\ requests'[m] = requests[m] /\ Counting(m)
    BY <1>13, <1>14 DEF CountersInv
  <2>2. KeyOf(requests[m])' = KeyOf(requests[m])
    BY <2>1 DEF KeyOf
  <2>3. KeyOf(requests[m]) = k => requests[m].hit # j
    BY <1>1, <1>2, <2>1 DEF Counting
  <2> QED
    BY <1>1, <1>8, <1>9, <2>1, <2>2, <2>3 DEF Counting
<1> QED
  BY <1>7, <1>8, <1>12, <1>14 DEF CountersInv

LEMMA StepsAtNoHit ==
    ASSUME NEW i \in DOMAIN requests, StepOf(i, 0)
    PROVE  \A j \in DOMAIN requests' : requests'[j].hit # 0 =>
               j \in DOMAIN requests /\ requests'[j] = requests[j]
  BY DEF StepOf, Move

\* The key and the limit of a counted step.
LEMMA KeysAndLimits ==
    ASSUME RequestsInv, NEW i \in DOMAIN requests, requests[i].at \in CountedSteps
    PROVE  /\ KeyOK(KeyOf(requests[i])) /\ LimitOf(requests[i]) \in Nat
           /\ IsLimit(KeyOf(requests[i]), LimitOf(requests[i]))
<1> DEFINE r == requests[i]
           h == r.hook
<1>1. h \in gate.hooks /\ r.day \in Nat /\ h.perMin \in Nat /\ h.perSec \in Nat
  BY DEF RequestsInv, Judged, GateOK, WellConfigured
<1>2. DailyCap \in Nat /\ CredPerSec \in Nat /\ EnforceOrdersPerSec(h.plan) \in Nat
  BY ConstantTypes DEF EnforceOrdersPerSec
<1>3. CASE r.at = "minute"
  BY <1>1, <1>3 DEF KeyOf, LimitOf, KeyOK, IsLimit
<1>4. CASE r.at = "day"
  BY <1>1, <1>2, <1>4 DEF KeyOf, LimitOf, KeyOK, IsLimit
<1>5. CASE r.at = "second"
  BY <1>1, <1>5 DEF KeyOf, LimitOf, KeyOK, IsLimit
<1>6. CASE r.at = "order rate"
  BY <1>1, <1>2, <1>6 DEF KeyOf, LimitOf, KeyOK, IsLimit
<1>7. CASE r.at = "broker rate"
  BY <1>1, <1>2, <1>7 DEF KeyOf, LimitOf, KeyOK, IsLimit
<1> QED
  BY <1>3, <1>4, <1>5, <1>6, <1>7 DEF CountedSteps

LEMMA CountersKept ==
    ASSUME RequestsInv, CountersInv, [GateNext]_gateVars
    PROVE  CountersInv'
<1>1. GateOK /\ now \in Nat /\ \A i \in DOMAIN requests : Judged(requests[i])
  BY DEF RequestsInv
<1>2. CASE Tick
  BY <1>1, <1>2, TickKeeps
<1>3. CASE UNCHANGED gateVars
  BY <1>3, CountersElsewhere DEF gateVars
<1>4. ASSUME NEW h \in gate.hooks, NEW b \in gate.bodies, Arrive(h, b) PROVE CountersInv'
  <2>1. PICK r : requests' = Append(requests, r) /\ r.hit = 0
    <3> DEFINE r == [hook |-> h, body |-> b, at |-> "account", sig |-> NoSignal,
                     code |-> "", kept |-> TRUE, ruled |-> now, day |-> 0, hit |-> 0]
    <3>1. requests' = Append(requests, r) /\ r.hit = 0
      BY <1>4 DEF Arrive
    <3> HIDE DEF r
    <3> QED
      BY <3>1
  <2>2. PICK S : requests \in Seq(S)
    BY DEF RequestsInv
  <2>3. requests \in Seq(S \cup {r}) /\ r \in S \cup {r}
    BY <2>2
  <2>4. \A i \in DOMAIN requests' : requests'[i].hit # 0 =>
           i \in DOMAIN requests /\ requests'[i] = requests[i]
    BY <2>1, <2>3
  <2> QED
    BY <1>4, <2>4, CountersElsewhere DEF Arrive
<1>5. ASSUME NEW i \in DOMAIN requests,
             \/ Receive(i) \/ PriceUpdate(i) \/ ReadUser(i) \/ Work(i)
             \/ \E outcome \in gate.outcomes : HandOver(i, outcome)
             \/ \E setting \in gate.settings : MarketHours(i, setting)
      PROVE  CountersInv'
  <2>1. StepOf(i, 0) /\ gate' = gate /\ now' = now
    BY <1>1, <1>5, RequestSteps
  <2>2. UNCHANGED <<counters, hits>>
    BY <1>5 DEF Receive, PriceUpdate, ReadUser, Work, HandOver, MarketHours, Uncounted
  <2> QED
    BY <2>1, <2>2, StepsAtNoHit, CountersElsewhere
<1>6. ASSUME NEW i \in DOMAIN requests,
             PerMinute(i) \/ PerDay(i) \/ PerSecond(i) \/ OrderRate(i) \/ BrokerRate(i)
      PROVE  CountersInv'
  <2> DEFINE q == requests[i]
             k == KeyOf(q)
             limit == LimitOf(q)
  <2>1. /\ q.at \in CountedSteps /\ gate' = gate /\ now' = now
        /\ \/ StepOf(i, 0)
           \/ q.hit = 0 /\ Incr(k, limit, i) /\ StepOf(i, Len(Log(k)) + 1)
    BY <1>1, <1>6, CountedSteppers
  <2>2. PICK next : Limited(i, q.at, k, limit, next)
    BY <1>1, <1>6, CountedSteppers
  <2>3. KeyOK(k) /\ limit \in Nat /\ IsLimit(k, limit)
    BY <2>1, KeysAndLimits
  <2>4. CASE /\ q.hit = 0 /\ Incr(k, limit, i)
             /\ Move(i, [q EXCEPT !.hit = Len(Log(k)) + 1])
    BY <2>1, <2>3, <2>4, CountHitKeeps
  <2>5. CASE q.hit = 0 /\ Step(i, next) /\ Uncounted
    <3>1. \A j \in DOMAIN requests' : requests'[j].hit # 0 =>
             j \in DOMAIN requests /\ requests'[j] = requests[j]
      <4>1. DOMAIN q = RequestFields
        BY <1>1 DEF Judged
      <4>2. [q EXCEPT !.at = next, !.hit = 0].hit = 0
        BY <4>1 DEF RequestFields
      <4> QED
        BY <2>5, <4>2 DEF Step, Move
    <3> QED
      BY <2>1, <2>5, <3>1, CountersElsewhere DEF Uncounted
  <2>6. CASE RenewKey(i, q.at, k, next)
    <3>1. StepOf(i, 0)
      BY <2>1, <2>6 DEF RenewKey
    <3> QED
      BY <2>1, <2>6, <3>1, RenewKeyKeeps
  <2> QED
    BY <2>2, <2>4, <2>5, <2>6 DEF Limited, CountHit
<1> QED
  BY <1>2, <1>3, <1>4, <1>5, <1>6 DEF GateNext

(* What the counters remember, for any limits, lengths of the TTLs and of    *)
(* the day, any number of requests in flight, their commands in any order,   *)
(* any expiry between two commands of a pipeline and any failures of Redis   *)
(* (redis.go:70-104, 131-140).                                               *)
THEOREM CountersInvariance == GateSpec => [](RequestsInv /\ CountersInv)
<1>1. GateInit({gate}) => CountersInv
  BY DEF GateInit, CountersInv
<1>2. RequestsInv /\ CountersInv /\ [GateNext]_gateVars => CountersInv'
  BY CountersKept
<1> QED
  BY <1>1, <1>2, RequestsInvariance, PTL DEF GateSpec

-----------------------------------------------------------------------------
(* Windows. *)

LEMMA LargestNumber ==
    ASSUME NEW n \in Nat, NEW W, W \subseteq 1..n, W # {}
    PROVE  \E m \in W : \A w \in W : w <= m
<1> DEFINE R == {ss \in Nat \X Nat : ss[1] < ss[2]}
           T == {n - w : w \in W}
<1>1. IsWellFoundedOn(R, Nat)
  BY NatLessThanWellFounded, Zenon DEF OpToRel
<1>2. \A a, b \in Nat : a < b => <<a, b>> \in R
  OBVIOUS
<1>3. T \subseteq Nat /\ T # {}
  OBVIOUS
<1> HIDE DEF R, T
<1>4. PICK t \in T : \A u \in T : ~(<<u, t>> \in R)
  BY <1>1, <1>3, WFMin, Zenon
<1>5. \A u \in T : ~(u < t)
  BY <1>2, <1>3, <1>4
<1>6. PICK m \in W : t = n - m
  BY DEF T
<1>7. ASSUME NEW w \in W PROVE w <= m
  <2>1. n - w \in T
    BY DEF T
  <2> QED
    BY <1>5, <1>6, <2>1
<1> QED
  BY <1>7

\* The last pass of a window has counted the others.
LEMMA WindowBound ==
    ASSUME GateOK, NEW k, NEW s, NEW c, NEW x, NEW t, LogInv(k, s, c, x, t),
           NEW limit, IsLimit(k, limit), limit \in Nat, NEW from \in Int, NEW to \in Int,
           \A u \in from..to : u \in Nat => to < WindowEnd(k, u)
    PROVE  Passes(s, from, to) <= limit
<1> DEFINE W == {j \in DOMAIN s : s[j].result \in {"pass"} /\ s[j].at \in from..to}
           n == Len(s)
<1>1. s \in Seq(Entries) /\ s # << >> /\ KeyOK(k)
  BY DEF LogInv, LogTypes
<1>2. /\ n \in Nat \ {0} /\ DOMAIN s = 1..n
      /\ \A j \in 1..n : s[j].at \in Nat /\ s[j].count \in Nat \ {0} /\ s[j].limit \in Nat
  BY <1>1, EntryTypes
<1>3. Passes(s, from, to) = Cardinality(W)
  BY DEF Passes, Ended
<1>4. CASE W = {}
  <2>1. Cardinality({}) = 0
    BY FS_EmptySet
  <2>2. Passes(s, from, to) = 0
    <3> HIDE DEF W
    <3> QED
      BY <1>3, <1>4, <2>1, Zenon
  <2> QED
    BY <2>2
<1>5. CASE W # {}
  <2>1. W \subseteq 1..n
    BY <1>2
  <2>2. PICK m \in W : \A w \in W : w <= m
    BY <1>2, <1>5, <2>1, LargestNumber
  <2> DEFINE b == s[m].count
  <2>3. m \in 1..n /\ b \in Nat \ {0} /\ b <= limit
    <3>1. m \in 1..n /\ s[m].result = "pass"
      BY <2>1, <2>2
    <3>2. IsLimit(k, s[m].limit) /\ s[m].count <= s[m].limit
      BY <3>1 DEF LogInv, LogTypes, Judgement
    <3>3. s[m].limit = limit
      BY <3>2, OneLimit
    <3> QED
      BY <1>2, <3>1, <3>2, <3>3
  <2>4. ASSUME NEW w \in W PROVE w \in (m - b + 1)..m
    <3>1. w \in 1..n /\ w <= m /\ s[w].result = "pass" /\ s[w].at \in from..to /\ s[m].at <= to
      BY <1>2, <2>1, <2>2
    <3>2. CASE w = m
      BY <2>3, <3>2
    <3>3. CASE w # m
      <4>1. w \in 1..(m - 1)
        BY <2>3, <3>1, <3>3
      <4>2. s[m].at < WindowEnd(k, s[w].at)
        <5>1. s[m].at \in Nat /\ s[w].at \in Nat
          BY <1>2, <2>3, <3>1
        <5>2. to < WindowEnd(k, s[w].at) /\ WindowEnd(k, s[w].at) \in Nat
          BY <1>1, <3>1, <5>1, Windows
        <5> QED
          BY <3>1, <5>1, <5>2
      <4>3. b > m - w
        BY <2>3, <3>1, <4>1, <4>2 DEF LogInv, SeenLater
      <4> QED
        BY <2>3, <3>1, <4>3
    <3> QED
      BY <3>2, <3>3
  <2> HIDE DEF W, n, b
  <2>5. IsFiniteSet((m - b + 1)..m) /\ Cardinality((m - b + 1)..m) = b
    <3>1. m - b + 1 \in Int /\ m \in Int /\ ~(m - b + 1 > m) /\ m - (m - b + 1) + 1 = b
      BY <2>3
    <3> QED
      BY <3>1, FS_Interval
  <2>6. W \in SUBSET ((m - b + 1)..m)
    BY <2>4
  <2>7. IsFiniteSet(W) /\ Cardinality(W) <= b
    BY <2>5, <2>6, FS_Subset
  <2>8. Cardinality(W) \in Nat
    BY <2>7, FS_CardinalityType
  <2> QED
    BY <1>3, <2>3, <2>7, <2>8
<1> QED
  BY <1>4, <1>5

\* A refusal has as many hits before it as the limit, each found by the next.
LEMMA RefusedForCause ==
    ASSUME NEW k, k[1] # "day", NEW s, NEW c, NEW x, NEW t, LogInv(k, s, c, x, t),
           NEW j \in DOMAIN s, s[j].result = "refuse"
    PROVE  j > s[j].limit /\ \A p \in (j - s[j].limit)..(j - 1) : Linked(k, s, p)
<1> DEFINE n == Len(s)
<1>1. s \in Seq(Entries) /\ s # << >>
  BY DEF LogInv, LogTypes
<1>2. /\ n \in Nat \ {0} /\ j \in 1..n
      /\ \A i \in 1..n : s[i].count \in Nat \ {0} /\ s[i].limit \in Nat
  BY <1>1, EntryTypes
<1>3. s[j].count > s[j].limit /\ s[j].count <= j /\ \A i \in 1..j : s[j].count <= s[i].count + (j - i)
  BY <1>2 DEF LogInv, Judgement, CountsUp
<1> HIDE DEF n
<1>4. j > s[j].limit
  BY <1>2, <1>3
<1>5. ASSUME NEW p \in (j - s[j].limit)..(j - 1) PROVE Linked(k, s, p)
  <2>1. p \in 1..(n - 1) /\ p + 1 \in 1..j
    BY <1>2, <1>4
  <2>2. s[p + 1].count \in Nat
    BY <1>2, <2>1
  <2>3. s[j].count <= s[p + 1].count + (j - (p + 1))
    BY <1>3, <2>1
  <2>4. s[p + 1].count # 1
    BY <1>2, <1>3, <2>2, <2>3
  <2> QED
    BY <2>1, <2>4 DEF LogInv, AllLinked, n
<1> QED
  BY <1>4, <1>5

(* No window of a counter passes more than its limit, late ones apart, a day *)
(* no more than its cap, and nobody is refused without as many hits before   *)
(* it, each found by the next (redis.go:70-120, handler.go:144-185 of        *)
(* signals).                                                                 *)
THEOREM RatesAlwaysHold == GateSpec => []RatesHold
<1>1. ASSUME RequestsInv, CountersInv PROVE RatesHold
  <2> SUFFICES ASSUME NEW k \in DOMAIN hits
               PROVE  LET h == hits[k]
                      IN IF k[1] = "day"
                         THEN Passes(h, k[3] * Day, (k[3] + 1) * Day - 1) <= DailyCap
                         ELSE \A j \in DOMAIN h :
                                 /\ Passes(h, h[j].at, h[j].at + TTL(k) - 1) <= h[j].limit
                                 /\ h[j].result = "refuse" =>
                                      j > h[j].limit /\ \A p \in (j - h[j].limit)..(j - 1) : Linked(k, h, p)
    BY DEF RatesHold
  <2>1. PICK h, c, x, t : h = hits[k] /\ c = counters[k].count /\ x = counters[k].expires /\ t = now
    OBVIOUS
  <2>2. LogInv(k, h, c, x, t) /\ GateOK
    BY <1>1, <2>1 DEF CountersInv, RequestsInv
  <2>3. h \in Seq(Entries) /\ h # << >> /\ KeyOK(k)
    BY <2>2 DEF LogInv, LogTypes
  <2>4. CASE k[1] = "day"
    <3>1. k[3] \in Nat /\ Day \in Nat \ {0} /\ DailyCap \in Nat
      BY <2>3, <2>4, ConstantTypes DEF KeyOK
    <3>2. IsLimit(k, DailyCap)
      BY <2>4, <3>1 DEF IsLimit
    <3>3. PICK from, to : from = k[3] * Day /\ to = (k[3] + 1) * Day - 1
      OBVIOUS
    <3>4. from \in Int /\ to \in Int /\ \A u : WindowEnd(k, u) = to + 1
      BY <2>4, <3>1, <3>3 DEF WindowEnd
    <3>5. Passes(h, from, to) <= DailyCap
      BY <2>2, <3>1, <3>2, <3>4, WindowBound
    <3> QED
      BY <2>1, <2>4, <3>3, <3>5
  <2>5. CASE k[1] # "day"
    <3> SUFFICES ASSUME NEW j \in DOMAIN h
                 PROVE  /\ Passes(h, h[j].at, h[j].at + TTL(k) - 1) <= h[j].limit
                        /\ h[j].result = "refuse" =>
                              j > h[j].limit /\ \A p \in (j - h[j].limit)..(j - 1) : Linked(k, h, p)
      BY <2>1, <2>5
    <3>1. j \in 1..Len(h) /\ h[j].at \in Nat /\ h[j].limit \in Nat
      BY <2>3, EntryTypes
    <3>2. IsLimit(k, h[j].limit)
      BY <2>2, <3>1 DEF LogInv, LogTypes
    <3>3. TTL(k) \in Nat \ {0} /\ \A u \in Nat : WindowEnd(k, u) = u + TTL(k)
      BY <2>3, <2>5, Windows
    <3>4. PICK from, to : from = h[j].at /\ to = h[j].at + TTL(k) - 1
      OBVIOUS
    <3>5. from \in Int /\ to \in Int /\ \A u \in from..to : u \in Nat => to < WindowEnd(k, u)
      <4>1. PICK ttl \in Nat \ {0} : ttl = TTL(k)
        BY <3>3
      <4>2. from \in Int /\ to \in Int /\ to = from + ttl - 1
        BY <3>1, <3>4, <4>1
      <4>3. ASSUME NEW u \in from..to, u \in Nat PROVE to < WindowEnd(k, u)
        <5>1. WindowEnd(k, u) = u + ttl
          BY <3>3, <4>1, <4>3
        <5> QED
          BY <4>1, <4>2, <4>3, <5>1
      <4> QED
        BY <4>2, <4>3
    <3>6. Passes(h, from, to) <= h[j].limit
      BY <2>2, <3>1, <3>2, <3>5, WindowBound
    <3> QED
      BY <2>2, <2>5, <3>4, <3>6, RefusedForCause
  <2> QED
    BY <2>4, <2>5
<1> QED
  BY <1>1, CountersInvariance, PTL

-----------------------------------------------------------------------------
(* Trade push: queues. *)

Items(q) == {q[i] : i \in DOMAIN q}

\* A new message waits behind those that wait already.
LEMMA AppendWaits ==
    ASSUME NEW S, NEW q \in Seq(S), NEW n \in S
    PROVE  /\ Append(q, n) \in Seq(S)
           /\ Items(Append(q, n)) = Items(q) \cup {n}
<1>1. /\ Append(q, n) \in Seq(S) /\ Len(Append(q, n)) = Len(q) + 1
      /\ \A i \in 1..Len(q) : Append(q, n)[i] = q[i]
      /\ Append(q, n)[Len(q) + 1] = n
  OBVIOUS
<1>2. DOMAIN q = 1..Len(q) /\ DOMAIN Append(q, n) = 1..(Len(q) + 1) /\ Len(q) \in Nat
  BY <1>1
<1>3. 1..(Len(q) + 1) = 1..Len(q) \cup {Len(q) + 1}
  BY <1>2
<1> QED
  BY <1>1, <1>2, <1>3 DEF Items

\* Taking the first message leaves the others waiting.
LEMMA TailWaits ==
    ASSUME NEW S, NEW q \in Seq(S), q # << >>
    PROVE  /\ Tail(q) \in Seq(S) /\ Head(q) \in S
           /\ Items(q) \subseteq Items(Tail(q)) \cup {Head(q)}
<1>1. /\ Tail(q) \in Seq(S) /\ Head(q) \in S /\ Head(q) = q[1]
      /\ Len(q) \in Nat \ {0} /\ Len(Tail(q)) = Len(q) - 1
      /\ \A i \in 1..Len(Tail(q)) : Tail(q)[i] = q[i + 1]
  OBVIOUS
<1>2. DOMAIN q = 1..Len(q) /\ DOMAIN Tail(q) = 1..Len(Tail(q))
  BY <1>1
<1>3. ASSUME NEW i \in 1..Len(q), i # 1
      PROVE  \E j \in 1..Len(Tail(q)) : q[i] = Tail(q)[j]
  <2>1. i - 1 \in 1..Len(Tail(q)) /\ (i - 1) + 1 = i
    BY <1>1, <1>3
  <2> QED
    BY <1>1, <2>1
<1>4. ASSUME NEW x \in Items(q)
      PROVE  x \in Items(Tail(q)) \cup {Head(q)}
  <2>1. PICK i \in 1..Len(q) : x = q[i]
    BY <1>2 DEF Items
  <2> QED
    BY <2>1, <1>1, <1>2, <1>3 DEF Items
<1> QED
  BY <1>1, <1>4

-----------------------------------------------------------------------------
(* Steps. *)

\* What the records of a push and of a connection are made of.
LEMMA Shapes ==
    ASSUME PushTypeOK
    PROVE  /\ Opened \subseteq Conns /\ feed.owner \in Users /\ feed.members \subseteq Users
           /\ \A c \in Opened : User(c) \in Users
           /\ \A n \in Writes : /\ pushes[n].at \in {"none", "look up", "send", "done"}
                                /\ pushes[n].users \subseteq Users /\ pushes[n].sends \subseteq Conns
           /\ \A c \in Conns : /\ conn[c] \in ClientRows /\ conn[c].queue \in Seq(Writes)
                             /\ conn[c].writing \subseteq {Pong} \cup Writes
<1>1. feed \in FeedRows /\ pushes \in [Writes -> [at : {"none", "look up", "send", "done"},
                                                   users : SUBSET Users, sends : SUBSET Conns]]
      /\ conn \in [Conns -> ClientRows]
  BY DEF PushTypeOK
<1>2. PICK S \in SUBSET Conns : feed.opens \in [S -> Users]
  BY <1>1 DEF FeedRows
<1>3. Opened = S
  BY <1>2 DEF Opened
<1>4. \A c \in Opened : User(c) \in Users
  BY <1>2, <1>3 DEF User
<1>5. feed.owner \in Users /\ feed.members \subseteq Users
  BY <1>1 DEF FeedRows
<1>6. \A c \in Conns : /\ conn[c] \in ClientRows /\ conn[c].queue \in Seq(Writes)
                       /\ conn[c].writing \subseteq {Pong} \cup Writes
  BY <1>1 DEF ClientRows
<1>7. \A n \in Writes : /\ pushes[n].at \in {"none", "look up", "send", "done"}
                       /\ pushes[n].users \subseteq Users /\ pushes[n].sends \subseteq Conns
  BY <1>1
<1> QED
  BY <1>3, <1>4, <1>5, <1>6, <1>7

\* An update is shown, excused, waiting, or on its way.
Covered(c, n) == n \in got[c] \cup missed[c] \cup Waiting(c) \/ Due(n, c)

\* A step that uncovers nothing on a working connection makes no gap.
LEMMA GapsFrame ==
    ASSUME FeedHasNoGaps, UNCHANGED <<feed, writes>>,
           \A c \in Opened, n \in 1..writes :
              Connected(c)' /\ (Connected(c) => Covered(c, n)) => Covered(c, n)'
    PROVE  FeedHasNoGaps'
<1>1. \A c \in Opened, n \in 1..writes : Connected(c)' => Covered(c, n)'
  BY DEF FeedHasNoGaps, Covered
<1> QED
  BY <1>1 DEF FeedHasNoGaps, Covered, Opened

\* The rows written are among those that can be.
LEMMA Written == ASSUME PushConstantsOK, PushTypeOK PROVE writes \in Nat /\ 1..writes \subseteq Writes
<1>1. writes \in 0..MaxWrites /\ MaxWrites \in Nat
  BY DEF PushConstantsOK, PushTypeOK
<1> QED
  BY <1>1 DEF Writes

LEMMA WriteKeeps ==
    ASSUME PushConstantsOK, FeedInv, NEW kind \in feed.kinds, Write(kind)
    PROVE  FeedInv'
<1>1. kind \in {"trade", "mark", "silent"}
  BY DEF FeedInv, PushTypeOK, FeedRows
<1>0. writes \in Nat /\ MaxWrites \in Nat /\ writes < MaxWrites
  <2>1. writes < MaxWrites
    BY DEF Write
  <2>2. MaxWrites \in Nat
    BY DEF PushConstantsOK
  <2>3. writes \in 0..MaxWrites
    BY DEF FeedInv, PushTypeOK
  <2> QED
    BY <2>1, <2>2, <2>3
<1>n. PICK n \in Nat : n = writes + 1
  BY <1>0
<1>2. n \in Writes /\ n \in 0..MaxWrites /\ writes' = n /\ 1..n = 1..writes \cup {n} /\ 1..writes \subseteq Writes
  <2>1. writes' = n
    BY <1>n DEF Write
  <2> QED
    BY <1>0, <1>n, <2>1 DEF Writes
<1>3. /\ UNCHANGED <<feed, clients, conn, got>>
      /\ pushes' = [pushes EXCEPT ![n] = pushes'[n]]
      /\ pushes'[n] \in [at : {"none", "look up", "send", "done"}, users : SUBSET Users, sends : SUBSET Conns]
      /\ missed' \in [Conns -> SUBSET Writes]
      /\ \A c \in Conns : missed[c] \subseteq missed'[c]
      /\ \A c \in Opened : n \in missed'[c] \/ StillToCopy(n, User(c))'
  <2>0. PushTypeOK /\ Opened \subseteq Conns /\ feed.owner \in Users
    BY Shapes DEF FeedInv
  <2>1. CASE kind = "trade"
    BY <1>n, <2>0, <2>1, <1>2 DEF Write, PushTypeOK, StillToCopy, User
  <2>2. CASE kind = "mark"
    <3>1. /\ UNCHANGED <<feed, clients, conn, got>>
          /\ pushes' = [pushes EXCEPT ![n] = [@ EXCEPT !.at = "send", !.users = {feed.owner}]]
          /\ missed' = Excuse(n, {c \in Opened : User(c) # feed.owner})
      BY <1>n, <2>2 DEF Write
    <3>2. pushes \in [Writes -> [at : {"none", "look up", "send", "done"}, users : SUBSET Users, sends : SUBSET Conns]]
          /\ missed \in [Conns -> SUBSET Writes]
      BY <2>0 DEF PushTypeOK
    <3>3. pushes'[n] = [pushes[n] EXCEPT !.at = "send", !.users = {feed.owner}]
      BY <3>1, <3>2, <1>2
    <3>4. \A c \in Opened : User(c) = feed.owner => StillToCopy(n, User(c))'
      BY <3>1, <3>2, <3>3, <1>2 DEF StillToCopy, User
    <3> QED
      BY <3>1, <3>2, <3>3, <3>4, <2>0, <1>2 DEF Excuse
  <2>3. CASE kind = "silent"
    BY <1>n, <2>0, <2>3, <1>2 DEF Write, PushTypeOK, StillToCopy, User, Opened, Excuse, Pushed, Unwritten
  <2> QED
    BY <1>1, <2>1, <2>2, <2>3
<1>4. PushTypeOK'
  BY <1>2, <1>3 DEF FeedInv, PushTypeOK, Writes
<1>5. Listed'
  BY <1>3 DEF FeedInv, Listed, Opened, Connected
<1>6. ASSUME NEW c \in Opened, NEW m \in 1..n, Connected(c)
      PROVE  m \in got[c] \cup missed'[c] \cup Waiting(c) \/ Due(m, c)'
  <2>1. CASE m = n
    BY <1>3, <2>1 DEF Due, User
  <2>2. CASE m \in 1..writes /\ m # n
    <3>1. m \in got[c] \cup missed[c] \cup Waiting(c) \/ Due(m, c)
      BY <1>6, <2>2 DEF FeedInv, FeedHasNoGaps
    <3>2. pushes'[m] = pushes[m] /\ c \in Conns
      BY <1>2, <1>3, <2>2, Shapes DEF FeedInv, PushTypeOK, Writes
    <3> QED
      BY <3>1, <3>2, <1>3 DEF Due, StillToCopy, User
  <2> QED
    BY <1>2, <2>1, <2>2
<1>7. FeedHasNoGaps'
  <2>1. \A c : Waiting(c)' = Waiting(c) /\ Connected(c)' = Connected(c)
    <3>1. conn' = conn
      BY <1>3
    <3> QED
      BY <3>1 DEF Waiting, Connected
  <2> QED
    BY <1>2, <1>3, <1>6, <2>1 DEF FeedHasNoGaps, Opened
<1> QED
  BY <1>4, <1>5, <1>7 DEF FeedInv

LEMMA LookUpKeeps ==
    ASSUME PushConstantsOK, FeedInv, NEW n \in Writes, LookUp(n)
    PROVE  FeedInv'
<1>1. PICK found \in BOOLEAN, listed \in BOOLEAN, users \in SUBSET Users :
         /\ users = IF found THEN TradeRecipients(listed) ELSE {}
         /\ pushes' = [pushes EXCEPT ![n] = IF found THEN [@ EXCEPT !.at = "send", !.users = users] ELSE Pushed]
         /\ missed' = Excuse(n, {c \in Opened : User(c) \notin users})
  <2>1. feed.steady \in BOOLEAN /\ feed.owner \in Users /\ feed.members \subseteq Users
    BY Shapes DEF FeedInv, PushTypeOK, FeedRows
  <2> DEFINE users(found, listed) == IF found THEN TradeRecipients(listed) ELSE {}
  <2>2. PICK found \in {TRUE, feed.steady}, listed \in {TRUE, feed.steady} :
           /\ pushes' = [pushes EXCEPT ![n] =
                            IF found THEN [@ EXCEPT !.at = "send", !.users = users(found, listed)] ELSE Pushed]
           /\ missed' = Excuse(n, {c \in Opened : User(c) \notin users(found, listed)})
    BY DEF LookUp
  <2>3. found \in BOOLEAN /\ listed \in BOOLEAN /\ users(found, listed) \in SUBSET Users
    BY <2>1 DEF TradeRecipients
  <2> QED
    BY <2>2, <2>3
<1>2. UNCHANGED <<feed, writes, clients, conn, got>> /\ PushTypeOK /\ Opened \subseteq Conns
  BY Shapes DEF LookUp, FeedInv
<1>3. /\ pushes' \in [Writes -> [at : {"none", "look up", "send", "done"},
                                users : SUBSET Users, sends : SUBSET Conns]]
      /\ pushes'[n].users = users /\ \A m \in Writes \ {n} : pushes'[m] = pushes[m]
  BY <1>1, <1>2 DEF PushTypeOK, Pushed, Unwritten
<1>4. /\ missed' \in [Conns -> SUBSET Writes]
      /\ \A c \in Conns : missed[c] \subseteq missed'[c]
      /\ \A c \in Opened : User(c) \in users \/ n \in missed'[c]
  BY <1>1, <1>2 DEF Excuse, PushTypeOK
<1>5. PushTypeOK'
  BY <1>2, <1>3, <1>4 DEF PushTypeOK
<1>6. \A c : Connected(c)' = Connected(c) /\ Waiting(c)' = Waiting(c)
  <2>1. conn' = conn
    BY <1>2
  <2> QED
    BY <2>1 DEF Waiting, Connected
<1>7. Listed'
  BY <1>2, <1>6 DEF FeedInv, Listed, Opened
<1>8. ASSUME NEW c \in Opened, NEW m \in 1..writes, Covered(c, m)
      PROVE  Covered(c, m)'
  <2>1. m \in Writes /\ c \in Conns
    BY <1>2, Written
  <2>2. CASE m = n
    BY <2>1, <2>2, <1>2, <1>3, <1>4 DEF Covered, Due, StillToCopy, User
  <2>3. CASE m # n
    <3>1. Due(m, c) <=> Due(m, c)'
      BY <2>1, <2>3, <1>2, <1>3 DEF Due, StillToCopy, User
    <3> QED
      BY <2>1, <3>1, <1>2, <1>4, <1>6, <1>8 DEF Covered
  <2> QED
    BY <2>2, <2>3
<1>9. FeedHasNoGaps'
  BY <1>2, <1>6, <1>8, GapsFrame DEF FeedInv
<1> QED
  BY <1>5, <1>7, <1>9 DEF FeedInv

LEMMA SnapshotKeeps ==
    ASSUME PushConstantsOK, FeedInv, NEW n \in Writes, NEW u \in Users, Snapshot(n, u)
    PROVE  FeedInv'
<1>1. /\ pushes[n].at = "send" /\ pushes[n].sends = {}
      /\ UNCHANGED <<feed, writes, clients, conn, got, missed>>
      /\ pushes' = [pushes EXCEPT ![n].users = @ \ {u}, ![n].sends = {c \in clients : User(c) = u}]
      /\ pushes \in [Writes -> [at : {"none", "look up", "send", "done"},
                               users : SUBSET Users, sends : SUBSET Conns]]
      /\ clients \subseteq Conns /\ Opened \subseteq Conns
  BY Shapes DEF Snapshot, FeedInv, PushTypeOK
<1>2. /\ pushes' \in [Writes -> [at : {"none", "look up", "send", "done"},
                                users : SUBSET Users, sends : SUBSET Conns]]
      /\ pushes'[n].at = "send" /\ pushes'[n].users = pushes[n].users \ {u}
      /\ pushes'[n].sends = {c \in clients : User(c) = u}
      /\ \A m \in Writes \ {n} : pushes'[m] = pushes[m]
  BY <1>1
<1>3. PushTypeOK'
  BY <1>1, <1>2 DEF FeedInv, PushTypeOK
<1>4. \A c : Connected(c)' = Connected(c) /\ Waiting(c)' = Waiting(c)
  <2>1. conn' = conn
    BY <1>1
  <2> QED
    BY <2>1 DEF Waiting, Connected
<1>5. Listed'
  BY <1>1, <1>4 DEF FeedInv, Listed, Opened
<1>6. ASSUME NEW c \in Opened, NEW m \in 1..writes, Connected(c), Covered(c, m)
      PROVE  Covered(c, m)'
  <2>1. m \in Writes /\ c \in clients
    BY <1>6, Written DEF FeedInv, Listed
  <2>2. Due(m, c) => Due(m, c)'
    <3>1. CASE m = n
      BY <3>1, <2>1, <1>1, <1>2 DEF Due, StillToCopy, User
    <3>2. CASE m # n
      BY <3>2, <2>1, <1>1, <1>2 DEF Due, StillToCopy, User
    <3> QED
      BY <3>1, <3>2
  <2> QED
    BY <1>1, <1>4, <1>6, <2>2 DEF Covered
<1>7. FeedHasNoGaps'
  BY <1>1, <1>4, <1>6, GapsFrame DEF FeedInv
<1> QED
  BY <1>3, <1>5, <1>7 DEF FeedInv

LEMMA PushEndsKeeps ==
    ASSUME PushConstantsOK, FeedInv, NEW n \in Writes, PushEnds(n)
    PROVE  FeedInv'
<1>1. /\ pushes[n].at = "send" /\ pushes[n].users = {} /\ pushes[n].sends = {}
      /\ UNCHANGED <<feed, writes, clients, conn, got, missed>>
      /\ pushes' = [pushes EXCEPT ![n] = Pushed]
      /\ pushes \in [Writes -> [at : {"none", "look up", "send", "done"},
                               users : SUBSET Users, sends : SUBSET Conns]]
  BY DEF PushEnds, FeedInv, PushTypeOK
<1>2. /\ pushes' \in [Writes -> [at : {"none", "look up", "send", "done"},
                                users : SUBSET Users, sends : SUBSET Conns]]
      /\ \A m \in Writes \ {n} : pushes'[m] = pushes[m]
  BY <1>1 DEF Pushed, Unwritten
<1>3. PushTypeOK'
  BY <1>1, <1>2 DEF FeedInv, PushTypeOK
<1>4. \A c : Connected(c)' = Connected(c) /\ Waiting(c)' = Waiting(c)
  <2>1. conn' = conn
    BY <1>1
  <2> QED
    BY <2>1 DEF Waiting, Connected
<1>5. Listed'
  BY <1>1, <1>4 DEF FeedInv, Listed, Opened
<1>6. ASSUME NEW c \in Opened, NEW m \in 1..writes, Covered(c, m)
      PROVE  Covered(c, m)'
  <2>1. m \in Writes
    BY Written DEF FeedInv
  <2>2. Due(m, c) => Due(m, c)'
    BY <2>1, <1>1, <1>2 DEF Due, StillToCopy, User
  <2> QED
    BY <1>1, <1>4, <1>6, <2>2 DEF Covered
<1>7. FeedHasNoGaps'
  BY <1>1, <1>4, <1>6, GapsFrame DEF FeedInv
<1> QED
  BY <1>3, <1>5, <1>7 DEF FeedInv

LEMMA SendKeeps ==
    ASSUME PushConstantsOK, FeedInv, NEW n \in Writes, NEW c \in Conns, Send(n, c)
    PROVE  FeedInv'
<1>1. /\ UNCHANGED <<feed, writes, clients, got>>
      /\ pushes' = [pushes EXCEPT ![n].sends = @ \ {c}]
      /\ Enqueue(n, c) \/ Drop(n, c)
      /\ pushes \in [Writes -> [at : {"none", "look up", "send", "done"},
                               users : SUBSET Users, sends : SUBSET Conns]]
      /\ conn \in [Conns -> ClientRows] /\ missed \in [Conns -> SUBSET Writes] /\ Opened \subseteq Conns
      /\ conn[c].queue \in Seq(Writes)
  BY Shapes DEF Send, FeedInv, PushTypeOK
<1>2. /\ pushes' \in [Writes -> [at : {"none", "look up", "send", "done"},
                                users : SUBSET Users, sends : SUBSET Conns]]
      /\ pushes'[n].at = pushes[n].at /\ pushes'[n].users = pushes[n].users
      /\ pushes'[n].sends = pushes[n].sends \ {c}
      /\ \A m \in Writes \ {n} : pushes'[m] = pushes[m]
  BY <1>1
<1>3. /\ conn' \in [Conns -> ClientRows] /\ missed' \in [Conns -> SUBSET Writes]
      /\ \A d \in Conns : Connected(d)' = Connected(d)
      /\ \A d \in Conns : Waiting(d) \subseteq Waiting(d)' /\ missed[d] \subseteq missed'[d]
      /\ n \in Waiting(c)' \cup missed'[c]
  <2>1. CASE Enqueue(n, c)
    <3>1. /\ conn' = [conn EXCEPT ![c].queue = Append(@, n)] /\ missed' = missed
      BY <2>1 DEF Enqueue
    <3>2. Append(conn[c].queue, n) \in Seq(Writes)
      BY <1>1, AppendWaits
    <3>3. conn' \in [Conns -> ClientRows]
      BY <1>1, <3>1, <3>2 DEF ClientRows
    <3>4. \A d \in Conns : Connected(d)' = Connected(d)
      BY <1>1, <3>1 DEF Connected, ClientRows
    <3>5. Waiting(c)' = Waiting(c) \cup {n}
      <4>1. conn'[c].queue = Append(conn[c].queue, n)
        BY <1>1, <3>1 DEF ClientRows
      <4>2. Items(Append(conn[c].queue, n)) = Items(conn[c].queue) \cup {n}
        <5>1. conn[c].queue \in Seq(Writes) /\ n \in Writes
          BY <1>1
        <5> QED
          BY ONLY <5>1, AppendWaits
      <4>3. /\ Waiting(c) = conn[c].writing \cup Items(conn[c].queue)
            /\ Waiting(c)' = conn'[c].writing \cup Items(conn'[c].queue)
        BY DEF Waiting, Items
      <4>4. conn'[c].writing = conn[c].writing
        BY <1>1, <3>1 DEF ClientRows
      <4> QED
        BY <4>1, <4>2, <4>3, <4>4
    <3>6. \A d \in Conns \ {c} : Waiting(d)' = Waiting(d)
      <4>1. \A d \in Conns \ {c} : conn'[d] = conn[d]
        BY <1>1, <3>1
      <4> QED
        BY <4>1 DEF Waiting
    <3> QED
      BY <1>1, <3>1, <3>3, <3>4, <3>5, <3>6
  <2>2. CASE Drop(n, c)
    <3>1. conn' = conn /\ missed' = Excuse(n, {c})
      BY <2>2 DEF Drop
    <3>2. \A d : Connected(d)' = Connected(d) /\ Waiting(d)' = Waiting(d)
      BY <3>1 DEF Connected, Waiting
    <3> QED
      BY <1>1, <3>1, <3>2 DEF Excuse
  <2> QED
    BY <1>1, <2>1, <2>2
<1>4. PushTypeOK'
  BY <1>1, <1>2, <1>3 DEF FeedInv, PushTypeOK
<1>5. Listed'
  BY <1>1, <1>3 DEF FeedInv, Listed, Opened
<1>6. ASSUME NEW d \in Opened, NEW m \in 1..writes, Covered(d, m)
      PROVE  Covered(d, m)'
  <2>1. m \in Writes /\ d \in Conns
    BY <1>1, Written DEF FeedInv
  <2>2. Due(m, d) => Due(m, d)' \/ (m = n /\ d = c)
    <3>1. CASE m = n
      BY <3>1, <2>1, <1>1, <1>2 DEF Due, StillToCopy, User
    <3>2. CASE m # n
      BY <3>2, <2>1, <1>1, <1>2 DEF Due, StillToCopy, User
    <3> QED
      BY <3>1, <3>2
  <2> QED
    BY <1>1, <1>3, <1>6, <2>1, <2>2 DEF Covered
<1>7. FeedHasNoGaps'
  BY <1>1, <1>3, <1>6, GapsFrame DEF FeedInv
<1> QED
  BY <1>4, <1>5, <1>7 DEF FeedInv

LEMMA RegisterKeeps ==
    ASSUME PushConstantsOK, FeedInv, NEW c \in Opened, Register(c)
    PROVE  FeedInv'
<1>1. /\ UNCHANGED <<feed, writes, pushes, got>>
      /\ conn' = [conn EXCEPT ![c] = [@ EXCEPT !.wire = "up", !.reader = TRUE, !.pump = TRUE]]
      /\ clients' = clients \cup {c}
      /\ missed' = [missed EXCEPT ![c] = {n \in 1..writes : ~StillToCopy(n, User(c))}]
      /\ conn \in [Conns -> ClientRows] /\ missed \in [Conns -> SUBSET Writes] /\ Opened \subseteq Conns
      /\ 1..writes \subseteq Writes
  BY Shapes, Written DEF Register, FeedInv, PushTypeOK
<1>2. PushTypeOK'
  <2>1. conn' \in [Conns -> ClientRows]
    BY <1>1 DEF ClientRows
  <2> QED
    BY <1>1, <2>1 DEF FeedInv, PushTypeOK
<1>3. \A d \in Conns \ {c} : /\ Connected(d)' = Connected(d) /\ Waiting(d)' = Waiting(d)
                            /\ missed'[d] = missed[d]
  <2>1. \A d \in Conns \ {c} : conn'[d] = conn[d] /\ missed'[d] = missed[d]
    BY <1>1
  <2> QED
    BY <2>1 DEF Connected, Waiting
<1>4. Listed'
  BY <1>1, <1>3 DEF FeedInv, Listed, Opened
<1>5. ASSUME NEW d \in Opened, NEW n \in 1..writes, Connected(d)', Connected(d) => Covered(d, n)
      PROVE  Covered(d, n)'
  <2>1. Due(n, d)' <=> Due(n, d)
    BY <1>1 DEF Due, StillToCopy, User
  <2>2. CASE d = c
    <3>1. n \in missed'[c] \/ Due(n, c)
      BY <1>1 DEF Due
    <3> QED
      BY <2>1, <2>2, <3>1 DEF Covered
  <2>3. CASE d # c
    BY <1>1, <1>3, <1>5, <2>1, <2>3 DEF Covered
  <2> QED
    BY <2>2, <2>3
<1>6. FeedHasNoGaps'
  BY <1>1, <1>5, GapsFrame DEF FeedInv
<1> QED
  BY <1>2, <1>4, <1>6 DEF FeedInv

\* A step of a connection that only stops it, or changes nothing others see.
LEMMA ConnectionFrame ==
    ASSUME PushConstantsOK, FeedInv, NEW c \in Opened,
           UNCHANGED <<feed, writes, pushes, missed>>,
           conn' = [conn EXCEPT ![c] = conn'[c]], conn'[c] \in ClientRows,
           got' \in [Conns -> SUBSET Writes],
           \A d \in Conns : got[d] \subseteq got'[d],
           clients' \in {clients, clients \ {c}},
           Connected(c)' => Connected(c) /\ clients' = clients,
           Connected(c)' => \A n \in Writes : n \in Waiting(c) => n \in Waiting(c)' \cup got'[c]
    PROVE  FeedInv'
<1>1. conn \in [Conns -> ClientRows] /\ Opened \subseteq Conns
  BY Shapes DEF FeedInv, PushTypeOK
<1>2. PushTypeOK'
  BY <1>1 DEF FeedInv, PushTypeOK
<1>3. \A d \in Conns \ {c} : Connected(d)' = Connected(d) /\ Waiting(d)' = Waiting(d)
  <2>1. \A d \in Conns \ {c} : conn'[d] = conn[d]
    BY <1>1
  <2> QED
    BY <2>1 DEF Connected, Waiting
<1>4. Listed'
  BY <1>1, <1>3 DEF FeedInv, Listed, Opened
<1>5. ASSUME NEW d \in Opened, NEW n \in 1..writes, Connected(d)', Connected(d) => Covered(d, n)
      PROVE  Covered(d, n)'
  <2>1. Due(n, d)' <=> Due(n, d)
    BY DEF Due, StillToCopy, User
  <2>2. Connected(d) /\ n \in Writes /\ (n \in Waiting(d) => n \in Waiting(d)' \cup got'[d])
    BY <1>1, <1>3, <1>5, Written DEF FeedInv
  <2> QED
    BY <1>1, <1>5, <2>1, <2>2 DEF Covered
<1>6. FeedHasNoGaps'
  BY <1>5, GapsFrame DEF FeedInv
<1> QED
  BY <1>2, <1>4, <1>6 DEF FeedInv

LEMMA SocketKeeps ==
    ASSUME PushConstantsOK, FeedInv, NEW c \in Opened,
           \/ \E how \in {"gone", "stalled", "mute"} : Fails(c, how)
           \/ ReadsOn(c) \/ Ping(c) \/ ReadFails(c)
    PROVE  FeedInv'
<1>1. /\ conn \in [Conns -> ClientRows] /\ got \in [Conns -> SUBSET Writes] /\ c \in Conns
      /\ conn[c] \in ClientRows
  BY Shapes DEF FeedInv, PushTypeOK
<1>2. /\ UNCHANGED <<feed, writes, pushes, missed, got>>
      /\ conn' = [conn EXCEPT ![c] = conn'[c]] /\ conn'[c] \in ClientRows
      /\ conn'[c].queue = conn[c].queue /\ conn'[c].writing = conn[c].writing
      /\ \/ ~Connected(c)' /\ clients' \in {clients, clients \ {c}}
         \/ Connected(c)' = Connected(c) /\ clients' = clients
  <2>1. CASE Fails(c, "gone")
    BY <1>1, <2>1 DEF Fails, Connected, ClientRows
  <2>2. CASE Fails(c, "mute")
    BY <1>1, <2>2 DEF Fails, Connected, ClientRows
  <2>3. CASE Fails(c, "stalled")
    BY <1>1, <2>3 DEF Fails, Connected, ClientRows
  <2>4. CASE ReadsOn(c)
    BY <1>1, <2>4 DEF ReadsOn, Connected, ClientRows
  <2>5. CASE Ping(c)
    BY <1>1, <2>5 DEF Ping, Connected, ClientRows
  <2>6. CASE ReadFails(c)
    BY <1>1, <2>6 DEF ReadFails, Connected, ClientRows, Unregistered
  <2> QED
    BY <2>1, <2>2, <2>3, <2>4, <2>5, <2>6
<1>3. Waiting(c)' = Waiting(c)
  BY <1>2 DEF Waiting
<1> QED
  BY <1>1, <1>2, <1>3, ConnectionFrame

\* A pump that ends uncovers nothing: its connection works no more.
LEMMA StopsKeeps ==
    ASSUME PushConstantsOK, FeedInv, NEW c \in Opened, PumpEnds(c),
           UNCHANGED <<feed, writes, pushes, got, missed>>
    PROVE  FeedInv'
<1>1. /\ conn \in [Conns -> ClientRows] /\ got \in [Conns -> SUBSET Writes] /\ c \in Conns
      /\ conn[c] \in ClientRows
  BY Shapes DEF FeedInv, PushTypeOK
<1>2. /\ conn' = [conn EXCEPT ![c] = conn'[c]] /\ conn'[c] \in ClientRows
      /\ ~Connected(c)' /\ clients' = clients \ {c}
  BY <1>1 DEF PumpEnds, Closed, Connected, ClientRows, Unregistered
<1> QED
  BY <1>1, <1>2, ConnectionFrame

LEMMA PicksKeeps ==
    ASSUME PushConstantsOK, FeedInv, NEW c \in Opened, Picks(c)
    PROVE  FeedInv'
<1>1. /\ conn \in [Conns -> ClientRows] /\ got \in [Conns -> SUBSET Writes] /\ c \in Conns
      /\ conn[c] \in ClientRows /\ conn[c].queue \in Seq(Writes)
      /\ conn[c].writing = {}
      /\ UNCHANGED <<feed, writes, pushes, got, missed>>
  BY Shapes DEF FeedInv, PushTypeOK, Picks
<1>2. CASE PumpEnds(c)
  BY <1>1, <1>2, StopsKeeps
<1>3. CASE /\ conn' = [conn EXCEPT ![c].pong = FALSE, ![c].writing = {Pong}]
           /\ UNCHANGED clients
  <2>1. /\ conn' = [conn EXCEPT ![c] = conn'[c]] /\ conn'[c] \in ClientRows
        /\ Connected(c)' = Connected(c) /\ clients' = clients
        /\ conn'[c].queue = conn[c].queue
    BY <1>1, <1>3 DEF Connected, ClientRows
  <2>2. Waiting(c) \subseteq Waiting(c)'
    BY <1>1, <2>1 DEF Waiting
  <2> QED
    BY <1>1, <2>1, <2>2, ConnectionFrame
<1>4. CASE /\ conn[c].queue # << >>
           /\ conn' = [conn EXCEPT ![c].queue = Tail(@), ![c].writing = {Head(conn[c].queue)}]
           /\ UNCHANGED clients
  <2>1. /\ Tail(conn[c].queue) \in Seq(Writes) /\ Head(conn[c].queue) \in Writes
        /\ Items(conn[c].queue) \subseteq Items(Tail(conn[c].queue)) \cup {Head(conn[c].queue)}
    <3>1. conn[c].queue \in Seq(Writes) /\ conn[c].queue # << >>
      BY <1>1, <1>4
    <3> QED
      BY ONLY <3>1, TailWaits
  <2>2. /\ conn' = [conn EXCEPT ![c] = conn'[c]] /\ conn'[c] \in ClientRows
        /\ conn'[c].queue = Tail(conn[c].queue) /\ conn'[c].writing = {Head(conn[c].queue)}
        /\ Connected(c)' = Connected(c) /\ clients' = clients
    BY <1>1, <1>4, <2>1 DEF Connected, ClientRows
  <2>3. /\ Waiting(c) = conn[c].writing \cup Items(conn[c].queue)
        /\ Waiting(c)' = conn'[c].writing \cup Items(conn'[c].queue)
    BY DEF Waiting, Items
  <2>4. Waiting(c) \subseteq Waiting(c)'
    BY <1>1, <2>1, <2>2, <2>3
  <2> QED
    BY <1>1, <2>2, <2>4, ConnectionFrame
<1> QED
  BY <1>2, <1>3, <1>4 DEF Picks

LEMMA WriteReturnsKeeps ==
    ASSUME PushConstantsOK, FeedInv, NEW c \in Opened, WriteReturns(c)
    PROVE  FeedInv'
<1>1. /\ conn \in [Conns -> ClientRows] /\ got \in [Conns -> SUBSET Writes] /\ c \in Conns
      /\ conn[c] \in ClientRows /\ conn[c].writing \subseteq {Pong} \cup Writes
      /\ UNCHANGED <<feed, writes, pushes, missed>>
  BY Shapes DEF FeedInv, PushTypeOK, WriteReturns
<1>2. CASE PumpEnds(c) /\ UNCHANGED got
  BY <1>1, <1>2, StopsKeeps
<1>3. CASE Taken(c)
  <2>1. /\ conn' = [conn EXCEPT ![c] = conn'[c]] /\ conn'[c] \in ClientRows
        /\ conn'[c].queue = conn[c].queue /\ conn'[c].wire = conn[c].wire
        /\ Connected(c)' = Connected(c) /\ clients' = clients
    BY <1>1, <1>3 DEF Taken, Connected, ClientRows
  <2>2. conn[c].writing \ {Pong} \subseteq Writes
    BY <1>1
  <2>3. /\ got' \in [Conns -> SUBSET Writes]
        /\ \A d \in Conns : got[d] \subseteq got'[d]
        /\ conn[c].wire = "up" => conn[c].writing \ {Pong} \subseteq got'[c]
    BY <1>1, <1>3, <2>2 DEF Taken
  <2>4. Connected(c)' => conn[c].wire = "up"
    BY <1>3, <2>1 DEF Taken, Connected
  <2>5. ASSUME Connected(c)', NEW n \in Writes, n \in Waiting(c)
        PROVE  n \in Waiting(c)' \cup got'[c]
    <3>1. n # Pong
      BY PushConstantsOK DEF PushConstantsOK, Writes, Pong
    <3> QED
      BY <2>1, <2>3, <2>4, <2>5, <3>1 DEF Waiting
  <2> QED
    BY <1>1, <2>1, <2>3, <2>5, ConnectionFrame
<1> QED
  BY <1>2, <1>3 DEF WriteReturns

-----------------------------------------------------------------------------
(* FeedInv is inductive: the hub's map holds every connection that works, so *)
(* the copy a broadcast takes does, and what it then sends is queued, shown  *)
(* or excused (hub.go:107-119, 182-199).                                     *)
THEOREM FeedInvariance == PushSpec => []FeedInv
<1>1. PushInit(FeedRows) => FeedInv
  <2> SUFFICES ASSUME PushInit(FeedRows) PROVE FeedInv
    OBVIOUS
  <2> USE PushConstantsOK
  <2>1. PushTypeOK
    BY DEF PushConstantsOK, PushInit, PushTypeOK, ClientRows, Absent, Unwritten
  <2>2. \A c \in Opened : ~Connected(c)
    BY <2>1, Shapes DEF PushInit, Connected, Absent
  <2> QED
    BY <2>1, <2>2 DEF FeedInv, Listed, FeedHasNoGaps
<1>2. FeedInv /\ [PushNext]_pushVars => FeedInv'
  <2> SUFFICES ASSUME FeedInv, [PushNext]_pushVars PROVE FeedInv'
    OBVIOUS
  <2> USE PushConstantsOK
  <2>1. CASE UNCHANGED pushVars
    <3>1. \A c : Connected(c)' = Connected(c) /\ Waiting(c)' = Waiting(c)
      <4>1. conn' = conn
        BY <2>1 DEF pushVars
      <4> QED
        BY <4>1 DEF Connected, Waiting
    <3>2. \A c, n : Covered(c, n)' = Covered(c, n)
      BY <2>1, <3>1 DEF pushVars, Covered, Due, StillToCopy, User
    <3>3. PushTypeOK' /\ Listed'
      BY <2>1, <3>1 DEF pushVars, FeedInv, PushTypeOK, Listed, Opened
    <3> QED
      BY <2>1, <3>1, <3>2, <3>3, GapsFrame DEF FeedInv, pushVars
  <2>2. CASE PushNext
    BY <2>2, WriteKeeps, LookUpKeeps, SnapshotKeeps, PushEndsKeeps, SendKeeps,
       RegisterKeeps, SocketKeeps, PicksKeeps, WriteReturnsKeeps DEF PushNext
  <2> QED
    BY <2>1, <2>2
<1> QED
  BY <1>1, <1>2, PTL DEF PushSpec

(* A connection that works has no gap in its feed, for any number of users,  *)
(* connections and writes and any queue length.                              *)
THEOREM FeedNeverGaps == PushSpec => []FeedHasNoGaps
<1>1. FeedInv => FeedHasNoGaps
  BY DEF FeedInv
<1> QED
  BY <1>1, FeedInvariance, PTL
=============================================================================
