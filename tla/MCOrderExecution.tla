-------------------------- MODULE MCOrderExecution --------------------------
(* Instances of OrderExecution for TLC.                                    *)
EXTENDS OrderExecution, TLC

Good == [broker |-> "zerodha", wire |-> "http", mode |-> "live", enabled |-> TRUE,
         plan |-> "pro", parsed |-> "ok", oauth |-> TRUE, exchange |-> "NSE",
         products |-> {"MIS", "CNC"}, algo |-> "short", required |-> TRUE, fallback |-> "none", slip |-> 2]

Plain == [side |-> "BUY", symbol |-> "stock", sl |-> 0, tp |-> 0, price |-> 0,
          exec |-> "MARKET", fixed |-> 100, signal |-> 0, risk |-> 0, max |-> 0, product |-> "MIS"]

\* An entry sized by risk with a stop, one with a fractional lot and a
\* bracket, one over its cap without an order type, two with a limit price of
\* the signal near some quotes and beyond the stop of others, closes of two
\* products.
Short == [Plain EXCEPT !.side = "SELL", !.fixed = 0, !.risk = 1, !.sl = 2, !.max = 200]
Long == [Plain EXCEPT !.fixed = 0, !.signal = 160, !.sl = 2, !.tp = 3, !.exec = "LIMIT", !.max = 200]
Big == [Plain EXCEPT !.fixed = 250, !.exec = "", !.max = 200]
LongAt == [Long EXCEPT !.price = 700]
ShortAt == [Short EXCEPT !.exec = "LIMIT", !.price = 900]
Close == [Plain EXCEPT !.side = "CLOSE", !.exec = "LIMIT"]
CloseOther == [Plain EXCEPT !.side = "CLOSE", !.product = "CNC", !.tp = 1]
Flatten == [Plain EXCEPT !.side = "CLOSE", !.product = "CNC"]

\* A command and its repetition.
Retry(s, r) == [scene |-> s, key |-> [c \in {1, 2} |-> 1], want |-> [k \in {1, 2} |-> r]]
\* Two commands.
Pair(s, r, q) == [scene |-> s, key |-> [c \in {1, 2} |-> c], want |-> <<r, q>>]

Scene(b, w) == [Good EXCEPT !.broker = b, !.wire = w]
LocalGood == [Good EXCEPT !.wire = "local"]

MCStarts ==
    UNION {{Retry(Scene(b, "http"), r) : r \in {Short, Long, Close}} : b \in Brokers}
    \cup {Pair(Scene(b, "local"), Long, Close) : b \in Brokers}
    \cup {Pair(Scene("zerodha", "local"), LongAt, ShortAt)}
    \cup {Pair(Scene(b, "local"), Close, Flatten) : b \in Indian}
    \cup {Pair(s, Big, CloseOther) : s \in {Scene("dhan", "local"), Scene("zerodha", "local")}}
    \cup {Pair(s, Plain, Big) :
            s \in {[LocalGood EXCEPT !.products = {}], [LocalGood EXCEPT !.enabled = FALSE],
                   [LocalGood EXCEPT !.plan = "free"], [Good EXCEPT !.plan = "free"],
                   [Good EXCEPT !.mode = "mock"], [LocalGood EXCEPT !.oauth = FALSE],
                   [LocalGood EXCEPT !.exchange = ""], [LocalGood EXCEPT !.algo = "long"],
                   [LocalGood EXCEPT !.algo = "none", !.broker = "dhan"],
                   [LocalGood EXCEPT !.parsed = "bad"]}}

MCEquities == {0, 250, 450}
MCPositions == {-200, 200}

\* Five paise, a quote nearer to zero than the stop distance, and one beyond it.
MCQuotes == {5, 100, 1000}
=============================================================================
