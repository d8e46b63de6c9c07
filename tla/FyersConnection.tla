-------------------------- MODULE FyersConnection --------------------------
(***************************************************************************)
(* The platform's one FYERS connection, which feeds paper trading:         *)
(*                                                                         *)
(*   internal/modules/admin/fyers.go                     login, callback, PIN *)
(*   internal/integrations/brokers/fyers/refresh         the background job *)
(*   internal/integrations/brokers/fyers/auth            FYERS's token calls *)
(*   internal/store/fyers_connection.go                  the row            *)
(*   internal/marketdata/fyers/provider.go               the token in use   *)
(*                                                                         *)
(* Only what tells tokens apart is kept: whether a copy is the one the row *)
(* holds, and how long that one lives. The job reads the row, calls FYERS  *)
(* and writes the row in steps; an administrator can log in at any of them. *)
(***************************************************************************)
EXTENDS Naturals

CONSTANTS
    Validity,      \* how long an access token lives (24 hours)
    RefreshBefore, \* how long before its end the job refreshes it (2 hours)
    MaxConnects,   \* bound on administrators' logins
    MaxRestarts,   \* bound on restarts of the process
    MaxFailures    \* bound on ticks that fail: on the row, or on its encryption

ASSUME FyersConstantsOK ==
    /\ Validity \in Nat /\ RefreshBefore \in Nat /\ RefreshBefore < Validity
    /\ {MaxConnects, MaxRestarts, MaxFailures} \subseteq Nat

VARIABLES
    conn,      \* the row: which of access token, refresh token, PIN and connected_by
               \* are there, and the time left to access_token_expires_at
    provider,  \* the token the market data client uses: "none", "row" or "stale"
    job,       \* what the job does next
    seen,      \* the row as the job has read it
    current,   \* the token the job holds is still the row's
    browsers,  \* administrators at FYERS's login page
    told,      \* whoever connected has been told to reconnect since the last token
    connects, restarts, failures

fyersVars == <<conn, provider, job, seen, current, browsers, told, connects, restarts, failures>>

Empty == [token |-> FALSE, refresh |-> FALSE, pin |-> FALSE, by |-> FALSE, left |-> 0]

FyersInit ==
    /\ conn = Empty /\ provider = "none"
    /\ job = "idle" /\ seen = Empty /\ current = FALSE
    /\ browsers = 0 /\ told = FALSE
    /\ connects = 0 /\ restarts = 0 /\ failures = 0

\* fyersConnectionLive, what the administrator is shown as connected.
Connected == conn.token /\ conn.left > 0
Due(row) == row.token /\ row.left <= RefreshBefore

\* Whoever held the row's token before a write holds an old one after it.
Stale(p) == IF p = "row" THEN "stale" ELSE p

\* UpsertFyersTokens: a new access token, the refresh token given or an empty one,
\* connected_by kept when none is given; the PIN stays.
Upserted(refresh, by) ==
    [conn EXCEPT !.token = TRUE, !.left = Validity, !.refresh = refresh, !.by = @ \/ by]

-----------------------------------------------------------------------------
(* The administrator.                                                      *)

FyersConnect ==
    /\ browsers = 0 /\ connects < MaxConnects
    /\ browsers' = 1 /\ connects' = connects + 1
    /\ UNCHANGED <<conn, provider, job, seen, current, told, restarts, failures>>

\* The signed state names the administrator. The exchange or the write may fail; the
\* provider is left to the job's next tick.
FyersCallback ==
    /\ browsers = 1
    /\ browsers' = 0
    /\ \/ UNCHANGED <<conn, provider, current, told>>
       \/ /\ \E refresh \in BOOLEAN : conn' = Upserted(refresh, TRUE)
          /\ provider' = Stale(provider) /\ current' = FALSE
          /\ told' = FALSE
    /\ UNCHANGED <<job, seen, restarts, failures, connects>>

SetPIN ==
    /\ ~conn.pin
    /\ conn' = [conn EXCEPT !.pin = TRUE]
    /\ UNCHANGED <<provider, job, seen, current, browsers, told, restarts, failures, connects>>

-----------------------------------------------------------------------------
(* The job: one goroutine, one tick after the other.                       *)

\* A read or write of the row fails, or its tokens cannot be decrypted or encrypted.
FailTick == failures < MaxFailures /\ failures' = failures + 1

TickLoad ==
    /\ job = "idle"
    /\ \/ /\ seen' = conn /\ current' = conn.token
          /\ job' = IF conn.token THEN "set" ELSE "idle"
          /\ UNCHANGED failures
       \/ FailTick /\ UNCHANGED <<seen, current, job>>
    /\ UNCHANGED <<conn, provider, browsers, told, restarts, connects>>

\* Mutant: only a refresh that fails is worth a mail, not one that cannot be tried.
NotifyOfFailure == told' = (told \/ (seen.by /\ job = "refresh"))

\* notifyReconnect: nobody is told when the row does not say who connected.
Notify == told' = (told \/ seen.by)

\* The token goes to the provider even when it has expired, unless it cannot be decrypted.
TickSet ==
    /\ job = "set"
    /\ \/ provider' = (IF current THEN "row" ELSE "stale") /\ UNCHANGED failures
       \/ FailTick /\ UNCHANGED provider
    /\ IF ~Due(seen) THEN job' = "idle" /\ UNCHANGED told
       ELSE IF seen.refresh /\ seen.pin THEN job' = "refresh" /\ UNCHANGED told
       ELSE job' = "idle" /\ Notify
    /\ UNCHANGED <<conn, seen, current, browsers, restarts, connects>>

\* RefreshAccessToken: FYERS gives a token, or the administrator is told. When the row's
\* refresh token or PIN cannot be decrypted, or the new tokens encrypted, nobody is.
TickRefresh ==
    /\ job = "refresh"
    /\ \/ job' = "store" /\ UNCHANGED <<told, failures>>
       \/ job' = "idle" /\ Notify /\ UNCHANGED failures
       \/ job' = "idle" /\ FailTick /\ UNCHANGED told
    /\ UNCHANGED <<conn, provider, seen, current, browsers, restarts, connects>>

\* The refreshed token is written over whatever the row holds by now.
TickStore ==
    /\ job = "store"
    /\ \/ /\ conn' = Upserted(TRUE, FALSE)
          /\ provider' = Stale(provider) /\ current' = TRUE
          /\ told' = FALSE /\ job' = "provide"
          /\ UNCHANGED failures
       \/ FailTick /\ job' = "idle" /\ UNCHANGED <<conn, provider, current, told>>
    /\ UNCHANGED <<seen, browsers, restarts, connects>>

TickProvide ==
    /\ job = "provide"
    /\ provider' = IF current THEN "row" ELSE "stale"
    /\ job' = "idle"
    /\ UNCHANGED <<conn, seen, current, browsers, told, restarts, failures, connects>>

\* A restart loses the provider's token and the tick in progress; Start ticks at once.
Restart ==
    /\ restarts < MaxRestarts
    /\ restarts' = restarts + 1
    /\ job' = "idle" /\ provider' = "none" /\ current' = FALSE /\ seen' = Empty
    /\ UNCHANGED <<conn, browsers, told, failures, connects>>

Pass ==
    /\ conn.left > 0
    /\ conn' = [conn EXCEPT !.left = @ - 1]
    /\ UNCHANGED <<provider, job, seen, current, browsers, told, restarts, failures, connects>>

JobTick == TickLoad \/ TickSet \/ TickRefresh \/ TickStore \/ TickProvide
FyersNext == JobTick \/ FyersConnect \/ FyersCallback \/ SetPIN \/ Restart \/ Pass

\* The ticker of refresh.go fires for as long as the process runs.
FyersSpec == FyersInit /\ [][FyersNext]_fyersVars /\ WF_fyersVars(JobTick)

-----------------------------------------------------------------------------
(* Properties.                                                             *)

FyersTypeOK ==
    /\ conn \in [token : BOOLEAN, refresh : BOOLEAN, pin : BOOLEAN, by : BOOLEAN, left : 0..Validity]
    /\ provider \in {"none", "row", "stale"}
    /\ job \in {"idle", "set", "refresh", "store", "provide"}

\* The promise of the package comment of refresh.go: a token near its end is replaced,
\* or the administrator who connected is told; a token that is live is the one the
\* provider uses before long, also after a restart and after a login under way of a
\* tick (the callback does not hand its token over).
FeedIsKept ==
    /\ Due(conn) ~> (~Due(conn) \/ told)
    /\ (Connected /\ provider # "row") ~> (~Connected \/ provider = "row")
=============================================================================
