---------------------------- MODULE WebhookConfig ----------------------------
(***************************************************************************)
(* The configuration of one solo live webhook: its row in PostgreSQL, the  *)
(* copies of it in Redis that signal ingestion reads, and everyone who     *)
(* changes it.                                                             *)
(*                                                                         *)
(*   ingestion   internal/modules/signals/handler.go   IngestSignal         *)
(*   owner       internal/modules/webhooks/handler.go  update, rotate,      *)
(*                                                     pause, resume, delete *)
(*   platform    internal/billing/apply_plan.go, internal/modules/invites,  *)
(*               internal/modules/admin/zerodha_settings.go                 *)
(*   cache       internal/store/redis.go                                    *)
(*                                                                         *)
(* The row is abstracted to its status, its token, admin_disabled and a    *)
(* revision that counts every change of the row.                           *)
(***************************************************************************)
EXTENDS Naturals, FiniteSets

CONSTANTS
    Signals,   \* requests that arrive at the webhook's URL
    Owners,    \* concurrent requests of the owner's dashboard
    TTL,       \* webhookTTL
    Delay,     \* longest time a handler spends between its load and its warm
    MaxTime,   \* bound on the clock
    MaxRev,    \* bound on changes of the row
    Ops,       \* what owners do
    Platform,  \* what the platform does
    RedisFails \* whether Redis commands may fail

OwnerOps == {"pause", "resume", "edit", "rotate", "delete"}
PlatformOps == {"pauseAll", "disable", "enable"}

ASSUME ConfigConstantsOK ==
    /\ TTL \in Nat \ {0}
    /\ Delay \in Nat
    /\ MaxTime \in Nat
    /\ MaxRev \in Nat
    /\ Ops \subseteq OwnerOps
    /\ Platform \subseteq PlatformOps
    /\ RedisFails \in BOOLEAN

VARIABLES
    now,         \* the clock
    hook,        \* the row
    changed,     \* when the row last changed
    credOff,     \* the credential is admin_disabled
    sweep,       \* an admin's request that still has to update the webhooks
    cache,       \* cache[t]: the entry under token t
    step,        \* step[s]: where the handler of signal s is
    token,       \* token[s]: the token in its URL
    seen,        \* seen[s]: the row it loaded
    loadedAt,    \* when
    known,       \* known[s]: the newest revision answered before s arrived
    verdict,     \* verdict[s]: what became of s
    ostep,       \* ostep[o]: where the owner's request o is
    read,        \* read[o]: the row it read
    answered     \* the newest revision whose author has been answered

signalVars == <<step, token, seen, loadedAt, known, verdict>>
ownerVars  == <<ostep, read, answered>>
rowVars    == <<hook, changed>>
vars == <<now, rowVars, credOff, sweep, cache, signalVars, ownerVars>>

Tokens == 0..MaxRev
Statuses == {"active", "paused", "deleted"}
Rows == [status : Statuses, token : Tokens, disabled : BOOLEAN,
         rev : 0..MaxRev]
Entries == [until : Nat, row : Rows]

FirstRow == [status |-> "active", token |-> 0, disabled |-> FALSE,
             rev |-> 0]

Alive(t) == cache[t].until > now

Init ==
    /\ now = 0
    /\ hook = FirstRow
    /\ changed = 0
    /\ credOff = FALSE
    /\ sweep = "none"
    /\ cache = [t \in Tokens |-> [until |-> 0, row |-> FirstRow]]
    /\ step = [s \in Signals |-> "unsent"]
    /\ token = [s \in Signals |-> 0]
    /\ seen = [s \in Signals |-> FirstRow]
    /\ loadedAt = [s \in Signals |-> 0]
    /\ known = [s \in Signals |-> 0]
    /\ verdict = [s \in Signals |-> "none"]
    /\ ostep = [o \in Owners |-> "idle"]
    /\ read = [o \in Owners |-> FirstRow]
    /\ answered = 0

-----------------------------------------------------------------------------
(* Ingestion.                                                              *)

\* Mutant: the status of the copy is not looked at.
JudgeBlindly(s, row) ==
    /\ step' = [step EXCEPT ![s] = "done"]
    /\ \E v \in {"accepted", "refused"} : verdict' = [verdict EXCEPT ![s] = v]

\* The checks that follow, all against PostgreSQL, may refuse an active webhook
\* too; only the status comes from the copy.
Judge(s, row) ==
    /\ step' = [step EXCEPT ![s] = "done"]
    /\ \/ row.status = "active" /\ verdict' = [verdict EXCEPT ![s] = "accepted"]
       \/ verdict' = [verdict EXCEPT ![s] = "refused"]

\* The handler's locals end with it.
Forget(s) ==
    /\ seen' = [seen EXCEPT ![s] = FirstRow]
    /\ loadedAt' = [loadedAt EXCEPT ![s] = 0]

Arrive(s) ==
    /\ step[s] = "unsent"
    /\ \E t \in 0..hook.token : token' = [token EXCEPT ![s] = t]
    /\ known' = [known EXCEPT ![s] = answered]
    /\ step' = [step EXCEPT ![s] = "lookup"]
    /\ UNCHANGED <<now, rowVars, credOff, sweep, cache, seen, loadedAt, verdict,
                   ownerVars>>

\* Redis first; a miss or an error falls back to PostgreSQL.
LookupCache(s) ==
    /\ step[s] = "lookup"
    /\ \/ /\ Alive(token[s])
          /\ Judge(s, cache[token[s]].row)
       \/ /\ ~Alive(token[s]) \/ RedisFails
          /\ step' = [step EXCEPT ![s] = "load"]
          /\ verdict' = verdict
    /\ UNCHANGED <<now, rowVars, credOff, sweep, cache, token, seen, loadedAt,
                   known, ownerVars>>

LoadRow(s) ==
    /\ step[s] = "load"
    /\ \/ /\ hook.token = token[s]
          /\ hook.status # "deleted"
          /\ seen' = [seen EXCEPT ![s] = hook]
          /\ loadedAt' = [loadedAt EXCEPT ![s] = now]
          /\ step' = [step EXCEPT ![s] = "warm"]
          /\ verdict' = verdict
       \/ /\ hook.token # token[s] \/ hook.status = "deleted"
          /\ Judge(s, [hook EXCEPT !.status = "deleted"])
          /\ UNCHANGED <<seen, loadedAt>>
    /\ UNCHANGED <<now, rowVars, credOff, sweep, cache, token, known, ownerVars>>

\* Mutant: the entry never expires (SET without a TTL).
WarmForever(s) ==
    /\ step[s] = "warm"
    /\ cache' = [cache EXCEPT ![token[s]] = [until |-> MaxTime + 1, row |-> seen[s]]]
    /\ Judge(s, seen[s])
    /\ Forget(s)
    /\ UNCHANGED <<now, rowVars, credOff, sweep, token, known, ownerVars>>

\* CacheWebhook, its error ignored, then the signal is judged by what was loaded.
Warm(s) ==
    /\ step[s] = "warm"
    /\ \/ cache' = [cache EXCEPT ![token[s]] = [until |-> now + TTL, row |-> seen[s]]]
       \/ RedisFails /\ cache' = cache
    /\ Judge(s, seen[s])
    /\ Forget(s)
    /\ UNCHANGED <<now, rowVars, credOff, sweep, token, known, ownerVars>>

-----------------------------------------------------------------------------
(* Changes.                                                                *)

\* Every UPDATE or DELETE that touches the row.
Change(row) ==
    /\ hook.rev < MaxRev
    /\ hook' = [row EXCEPT !.rev = hook.rev + 1]
    /\ changed' = now

\* The owner's handler reads the row (RequireWebhookAccess) and checks it; a
\* webhook is not resumed while an admin has its execution mode disabled.
OwnerRead(o) ==
    /\ ostep[o] = "idle"
    /\ hook.status # "deleted"
    /\ read' = [read EXCEPT ![o] = hook]
    /\ \E op \in Ops :
          /\ op = "resume" => ~hook.disabled /\ ~credOff
          /\ ostep' = [ostep EXCEPT ![o] = op]
    /\ UNCHANGED <<now, rowVars, credOff, sweep, cache, signalVars, answered>>

\* What the operation writes, leaving the columns it does not name alone.
Written(op) ==
    CASE op = "pause"  -> [hook EXCEPT !.status = "paused"]
      [] op = "resume" -> [hook EXCEPT !.status = "active"]
      [] op = "edit"   -> hook
      [] op = "rotate" -> [hook EXCEPT !.token = @ + 1]
      [] op = "delete" -> [hook EXCEPT !.status = "deleted"]

OwnerWrite(o) ==
    /\ ostep[o] \in OwnerOps
    /\ \/ /\ hook.status # "deleted"
          /\ Change(Written(ostep[o]))
          /\ ostep' = [ostep EXCEPT ![o] = "drop"]
          /\ read' = [read EXCEPT ![o].rev = hook.rev + 1]
       \/ /\ hook.status = "deleted"
          /\ ostep' = [ostep EXCEPT ![o] = "idle"]
          /\ UNCHANGED <<rowVars, read>>
    /\ UNCHANGED <<now, credOff, sweep, cache, signalVars, answered>>

\* InvalidateWebhook with the token the handler read, its error ignored; then
\* the owner is answered.
OwnerDrop(o) ==
    /\ ostep[o] = "drop"
    /\ \/ cache' = [cache EXCEPT ![read[o].token].until = 0]
       \/ RedisFails /\ cache' = cache
    /\ ostep' = [ostep EXCEPT ![o] = "idle"]
    /\ answered' = IF read[o].rev > answered THEN read[o].rev ELSE answered
    /\ read' = [read EXCEPT ![o] = FirstRow]
    /\ UNCHANGED <<now, rowVars, credOff, sweep, signalVars>>

\* PauseAllWebhooksByUser, on a plan downgrade and on joining an organisation:
\* every webhook with a broker credential, whatever its status.
PauseAll ==
    /\ "pauseAll" \in Platform
    /\ hook.status # "deleted"
    /\ Change([hook EXCEPT !.status = "paused"])
    /\ UNCHANGED <<now, credOff, sweep, cache, signalVars, ownerVars>>

\* An admin switches the execution mode of the credential off or on: first the
\* credentials are updated, then the webhooks.
SwitchMode ==
    /\ sweep = "none"
    /\ \/ "disable" \in Platform /\ sweep' = "disable" /\ credOff' = TRUE
       \/ "enable" \in Platform /\ sweep' = "enable" /\ credOff' = FALSE
    /\ UNCHANGED <<now, rowVars, cache, signalVars, ownerVars>>

\* PauseWebhooksByExecutionMode touches active webhooks only,
\* ClearAdminDisabledWebhooks clears the flag and leaves the status.
SweepWebhooks ==
    /\ sweep # "none"
    /\ sweep' = "none"
    /\ \/ /\ sweep = "disable" /\ hook.status = "active"
          /\ Change([hook EXCEPT !.status = "paused", !.disabled = TRUE])
       \/ /\ sweep = "enable" /\ hook.status # "deleted" /\ hook.disabled
          /\ Change([hook EXCEPT !.disabled = FALSE])
       \/ /\ sweep = "disable" => hook.status # "active"
          /\ sweep = "enable" => hook.status = "deleted" \/ ~hook.disabled
          /\ UNCHANGED <<hook, changed>>
    /\ UNCHANGED <<now, credOff, cache, signalVars, ownerVars>>

Tick ==
    /\ now < MaxTime
    /\ \A s \in Signals : step[s] = "warm" => now < loadedAt[s] + Delay
    /\ now' = now + 1
    /\ UNCHANGED <<rowVars, credOff, sweep, cache, signalVars, ownerVars>>

Next ==
    \/ \E s \in Signals : Arrive(s) \/ LookupCache(s) \/ LoadRow(s) \/ Warm(s)
    \/ \E o \in Owners : OwnerRead(o) \/ OwnerWrite(o) \/ OwnerDrop(o)
    \/ PauseAll \/ SwitchMode \/ SweepWebhooks
    \/ Tick

Spec == Init /\ [][Next]_vars

-----------------------------------------------------------------------------
(* Properties.                                                             *)

TypeOK ==
    /\ now \in Nat
    /\ hook \in Rows
    /\ changed \in Nat
    /\ credOff \in BOOLEAN
    /\ sweep \in {"none", "disable", "enable"}
    /\ cache \in [Tokens -> Entries]
    /\ step \in [Signals -> {"unsent", "lookup", "load", "warm", "done"}]
    /\ token \in [Signals -> Tokens]
    /\ seen \in [Signals -> Rows]
    /\ loadedAt \in [Signals -> Nat]
    /\ known \in [Signals -> 0..MaxRev]
    /\ verdict \in [Signals -> {"none", "accepted", "refused"}]
    /\ ostep \in [Owners -> {"idle", "drop"} \cup OwnerOps]
    /\ read \in [Owners -> Rows]
    /\ answered \in 0..MaxRev

\* A copy that no longer agrees with the row is gone one TTL after the change,
\* or after the handler that was loading it at the time has warmed the cache:
\* webhookTTL (redis.go:26) bounds what a missed invalidation can do.
StaleUntilTTL ==
    \A t \in Tokens : cache[t].until > 0 /\ cache[t].row.rev # hook.rev =>
        cache[t].until <= changed + Delay + TTL

\* A webhook that has not been active for a TTL accepts nothing: pauses, deletes
\* and rotations take effect although the cache is never told.
AcceptsWithinTTL ==
    \A s \in Signals : verdict[s] # "accepted" /\ verdict'[s] = "accepted" =>
        \/ hook.status = "active" /\ hook.token = token[s]
        \/ now <= changed + Delay + TTL

AcceptedWithinTTL == [][AcceptsWithinTTL]_vars

\* Once a rotation has been answered, a signal that arrives with the old token
\* is refused (docs/01-product/prd.md:94, FR-WH-6).
OldTokenRefused ==
    [][\A s \in Signals : verdict[s] # "accepted" /\ verdict'[s] = "accepted" =>
          ~(hook.token # token[s] /\ known[s] >= hook.rev)]_vars

\* Once a pause has been answered, a signal that arrives later is refused
\* (docs/05-operations/runbook.md:44).
PauseIsImmediate ==
    [][\A s \in Signals : verdict[s] # "accepted" /\ verdict'[s] = "accepted" =>
          ~(hook.status = "paused" /\ known[s] >= hook.rev)]_vars

\* While an admin has the execution mode disabled no webhook of it is active:
\* "it cannot be resumed until it is re-enabled" (webhooks/handler.go:684).
DisabledStaysOff ==
    credOff /\ sweep = "none" => hook.status # "active"

-----------------------------------------------------------------------------
(* The inductive invariant behind StaleUntilTTL and AcceptedWithinTTL.     *)

\* A copy of the current revision is the row itself, under its own token.
Faithful(row, t) ==
    /\ row.rev <= hook.rev
    /\ row.rev = hook.rev => row = hook /\ t = hook.token

EntriesOK ==
    \A t \in Tokens : /\ cache[t].until <= now + TTL
                      /\ cache[t].until > 0 => Faithful(cache[t].row, t)

\* A handler that is about to warm the cache loaded its copy at most Delay ago,
\* and before the last change if the copy is out of date.
WarmersOK ==
    \A s \in Signals : step[s] = "warm" =>
        /\ loadedAt[s] <= now
        /\ now <= loadedAt[s] + Delay
        /\ Faithful(seen[s], token[s])
        /\ seen[s].rev # hook.rev => loadedAt[s] <= changed

\* The token is renewed at most once per change.
RowOK == changed <= now /\ hook.token <= hook.rev

ConfigInv == TypeOK /\ RowOK /\ EntriesOK /\ WarmersOK /\ StaleUntilTTL
=============================================================================
