------------------------- MODULE BrokerCredentials -------------------------
(***************************************************************************)
(* The broker credentials of one user, and the webhooks on them or on paper: *)
(*                                                                         *)
(*   internal/modules/credentials/handler.go    create, edit, pause, resume, *)
(*                                              delete, connect, status     *)
(*   internal/adapters/zerodha/oauth/callback.go  the return from Kite's login *)
(*   internal/modules/webhooks/handler.go       create, edit, pause, resume, delete *)
(*   internal/modules/shared/handler.go         the limits of the plan       *)
(*   internal/modules/admin/zerodha_settings.go the platform's switches      *)
(*   internal/store/postgres.go                 the two tables               *)
(*                                                                         *)
(* A request reads (its "load" and "count" steps) and then writes what it  *)
(* read; requests interleave. Time counts the parts of Indian days: before *)
(* 05:40, from 05:40 to 06:00, after 06:00. Kite ends every token at 06:00.  *)
(***************************************************************************)
EXTENDS Integers, FiniteSets

CONSTANTS
    Creds,        \* ids of broker_credentials rows
    Hooks,        \* ids of webhooks rows
    Requests,     \* requests of the user that can be in flight together
    Apps,         \* Kite Connect apps (api_key with its secret)
    MaxLogins,    \* bound on logins at Kite
    MaxSwitches,  \* bound on the administrator's requests
    MaxTime,      \* bound on time
    Worlds        \* [ops, served, plan, creds, apps, admin]: the kinds of request
                  \* made and the bound on them, the plan and credentials at the start,
                  \* the apps in use, whether an administrator acts

ASSUME CredentialConstantsOK ==
    /\ Apps # {} /\ IsFiniteSet(Requests) /\ Requests # {}
    /\ {MaxLogins, MaxSwitches, MaxTime} \subseteq Nat
    /\ \A w \in Worlds : w.apps \subseteq Apps /\ w.apps # {} /\ w.served \in Nat

VARIABLES
    world,      \* one of Worlds, fixed
    cred,       \* cred[c]: a row of broker_credentials, or Absent
    hook,       \* hook[h]: a row of webhooks, or Absent
    plan,       \* users.plan
    sweeping,   \* a downgrade has written the plan and not yet paused everything
    enabled,    \* enabled[m]: platform_settings of execution mode m
    admin,      \* what the administrator's request does next
    req,        \* req[r]: what request r has read, and its next step
    logins,     \* logins at Kite whose browser has not come back
    now,        \* the time
    used        \* used[k]: how often k ("requests", "logins", "switches") happened

credentialVars == <<world, cred, hook, plan, sweeping, enabled, admin, req, logins, now, used>>

Absent == [broker |-> "absent", cred |-> "absent"]
NoRequest == [op |-> "idle"]
NoToken == [app |-> "none", at |-> 0]
Never == -1
Switched == {"user_api_oauth", "publisher"}     \* modes with a platform switch

\* The rows of broker_credentials and of webhooks in use.
Stored == {c \in Creds : cred[c] # Absent}
Linked(c) == {h \in Hooks : hook[h].cred = c}
Present == {h \in Hooks : hook[h] # Absent}
Active(h) == hook[h] # Absent /\ hook[h].status = "active"

\* A webhook's destination is a credential or a paper account; each kind has its own cap.
Destinations == Creds \cup {"paper"}
KindOf(row) == IF row.cred = "paper" THEN "paper" ELSE "live"
OfKind(k) == {h \in Present : KindOf(hook[h]) = k}
ActiveOf(k) == {h \in OfKind(k) : Active(h)}
ActiveCreds == {c \in Stored : cred[c].status = "active"}

-----------------------------------------------------------------------------
(* The plan's rules, with the limits scaled down.                          *)

LimitsFor(p) ==
    CASE p = "pro_plus" -> [live |-> TRUE, hooks |-> 2, papers |-> 3, creds |-> 2]
      [] p = "pro"      -> [live |-> TRUE, hooks |-> 1, papers |-> 2, creds |-> 1]
      [] OTHER          -> [live |-> FALSE, hooks |-> 0, papers |-> 1, creds |-> 0]
MaxWebhooks(p, kind) == IF kind = "paper" THEN LimitsFor(p).papers ELSE LimitsFor(p).hooks

\* What the user has at the start the plan allows.
ASSUME StartsWithinPlan == \A w \in Worlds :
    w.creds \subseteq Creds /\ IsFiniteSet(w.creds) /\ Cardinality(w.creds) <= LimitsFor(w.plan).creds

CanUseCredential(p) == LimitsFor(p).live
\* Mutant: one more than the limit.
CanAddInclusive(max, count) == count <= max
CanAdd(max, count) == count < max

\* IsValidBrokerType and NormalizeExecutionMode: the modes a request may ask for.
ModesOf(broker) == IF broker = "zerodha" THEN Switched ELSE {"direct_api"}
Brokers == {"zerodha", "dhan"}

(* Kite's own clock: a token lives until the next 06:00.                   *)
KiteDay(t) == (t + 1) \div 3

\* connected_at is before the last 06:00, which is yesterday's until today's has passed.
ZerodhaTokenStatus(connected, t) ==
    LET date == t \div 3
        lastExpiry == IF t % 3 = 2 THEN 3 * date + 2 ELSE 3 * (date - 1) + 2
    IN  IF connected = Never \/ connected < lastExpiry THEN "expired"
        ELSE IF t % 3 = 1 THEN "expires_soon" ELSE "valid"

-----------------------------------------------------------------------------
NewRow(broker, mode, app) ==
    [broker |-> broker, mode |-> mode, key |-> app, token |-> NoToken,
     connected |-> Never, status |-> "active", auto |-> FALSE, disabled |-> FALSE,
     overtaken |-> FALSE, cred |-> "none"]

CredentialInit ==
    /\ world \in Worlds
    /\ cred = [c \in Creds |-> IF c \in world.creds THEN NewRow("zerodha", "user_api_oauth", CHOOSE a \in world.apps : TRUE)
                               ELSE Absent]
    /\ hook = [h \in Hooks |-> Absent]
    /\ plan = world.plan /\ sweeping = FALSE
    /\ enabled = [m \in Switched |-> TRUE]
    /\ admin = NoRequest
    /\ req = [r \in Requests |-> NoRequest]
    /\ logins = {}
    /\ now = 0
    /\ used = [k \in {"requests", "logins", "switches"} |-> 0]

\* OAuthEnabled and PublisherEnabled: a switch that cannot be read counts as on.
Open(m) == enabled[m] \/ "unreadable" \in world.ops

Use(k, max) == used[k] < max /\ used' = [used EXCEPT ![k] = @ + 1]

\* A request starts with its first reads, the user's plan among them.
Start(r, op, at, on, row) ==
    /\ op \in world.ops /\ req[r] = NoRequest
    /\ Use("requests", world.served)
    /\ req' = [req EXCEPT ![r] = [op |-> op, at |-> at, on |-> on, row |-> row, plan |-> plan]]
At(r, op, at) == req[r].op = op /\ req[r].at = at
Proceed(r, at) == req' = [req EXCEPT ![r].at = at]
Finish(r) == req' = [req EXCEPT ![r] = NoRequest]

\* An id no row and no other request has: uuid.New.
Fresh(id, table) == table[id] = Absent /\ \A r \in Requests : req[r] # NoRequest => req[r].on # id

tables == <<cred, hook>>
platform == <<plan, sweeping, enabled, admin, now>>

-----------------------------------------------------------------------------
(* Create, edit and delete a credential.                                   *)

\* Broker, mode, the mode's switch, the user, raw_creds: all read before the count.
CreateLoad(r, c, m, a) ==
    /\ Fresh(c, cred) /\ Open(m) /\ CanUseCredential(plan)
    /\ Start(r, "create", "count", c, NewRow("zerodha", m, a))
    /\ UNCHANGED <<tables, platform, logins>>

\* EnforceBrokerLimit: every row of the user counts, paused ones too.
CreateCount(r) ==
    /\ At(r, "create", "count")
    /\ IF CanAdd(LimitsFor(req[r].plan).creds, Cardinality(Stored)) THEN Proceed(r, "write") ELSE Finish(r)
    /\ UNCHANGED <<tables, platform, logins, used>>

CreateInsert(r) ==
    /\ At(r, "create", "write")
    /\ cred' = [cred EXCEPT ![req[r].on] = req[r].row]
    /\ Finish(r)
    /\ UNCHANGED <<hook, platform, logins, used>>

\* What one edit asks for: nothing that matters here (label, exchange, products),
\* new keys with or without a token, another mode, another broker.
Edited(row) ==
    {row}
    \cup {[row EXCEPT !.key = a, !.token = NoToken] : a \in world.apps}
    \cup {[row EXCEPT !.key = a, !.token = [app |-> a, at |-> now]] : a \in world.apps}
    \cup {[row EXCEPT !.mode = m] : m \in ModesOf(row.broker)}
    \cup {[row EXCEPT !.broker = b] : b \in Brokers}

\* The whole row is read. A mode switch needs no active webhook, or force=true; that
\* the new mode is switched on is not asked, nor is broker or keys refitted to the other.
EditLoad(r, c) ==
    /\ cred[c] # Absent /\ CanUseCredential(plan)
    /\ \E row \in Edited(cred[c]), force \in BOOLEAN :
          /\ row.mode # cred[c].mode => force \/ ~\E h \in Linked(c) : Active(h)
          /\ Start(r, "edit", "write", c, row)
    /\ UNCHANGED <<tables, platform, logins>>

\* UpdateBrokerCred writes back what was read: broker, keys and mode, never the status,
\* connected_at or the flags.
Rewritten(old, row) ==
    [old EXCEPT !.broker = row.broker, !.key = row.key, !.token = row.token, !.mode = row.mode,
                !.overtaken = @ \/ <<old.key, old.token>> # <<row.key, row.token>>]

EditWrite(r) ==
    /\ At(r, "edit", "write")
    /\ LET c == req[r].on IN
       cred' = IF cred[c] = Absent THEN cred ELSE [cred EXCEPT ![c] = Rewritten(@, req[r].row)]
    /\ Finish(r)
    /\ UNCHANGED <<hook, platform, logins, used>>

DeleteCount(r, c) ==
    /\ cred[c] # Absent /\ Linked(c) = {}
    /\ Start(r, "delete", "write", c, cred[c])
    /\ UNCHANGED <<tables, platform, logins>>

\* webhooks.broker_cred_id references the row: the database refuses what the count missed.
DeleteRow(r) ==
    /\ At(r, "delete", "write")
    /\ LET c == req[r].on IN
       cred' = IF Linked(c) = {} THEN [cred EXCEPT ![c] = Absent] ELSE cred
    /\ Finish(r)
    /\ UNCHANGED <<hook, platform, logins, used>>

-----------------------------------------------------------------------------
(* Pause and resume a credential.                                          *)

PauseCredential(r, c) ==
    /\ cred[c] # Absent
    /\ Start(r, "pause", "write", c, [cred[c] EXCEPT !.status = "paused"])
    /\ UNCHANGED <<tables, platform, logins>>

\* admin_disabled is tested on the row read here.
ResumeLoad(r, c) ==
    /\ cred[c] # Absent /\ ~cred[c].disabled /\ CanUseCredential(plan)
    /\ Start(r, "resume", "count", c, [cred[c] EXCEPT !.status = "active", !.auto = FALSE])
    /\ UNCHANGED <<tables, platform, logins>>

\* EnforceCredentialResumeLimit.
ResumeCount(r) ==
    /\ At(r, "resume", "count")
    /\ IF CanAdd(LimitsFor(req[r].plan).creds, Cardinality(ActiveCreds)) THEN Proceed(r, "write")
       ELSE Finish(r)
    /\ UNCHANGED <<tables, platform, logins, used>>

\* UPDATE status, whatever the row has become; a resume clears auto_paused too.
StatusWrite(r) ==
    /\ At(r, "pause", "write") \/ At(r, "resume", "write")
    /\ LET c == req[r].on IN
       cred' = IF cred[c] = Absent THEN cred
               ELSE [cred EXCEPT ![c] = [@ EXCEPT !.status = req[r].row.status,
                                                  !.auto = @ /\ req[r].op = "pause"]]
    /\ Finish(r)
    /\ UNCHANGED <<hook, platform, logins, used>>

-----------------------------------------------------------------------------
(* Webhooks on a credential or on paper.                                   *)

\* A credential must be there, active and allowed by the plan; paper needs nothing.
Usable(dest) ==
    dest # "paper" => cred[dest] # Absent /\ cred[dest].status = "active" /\ CanUseCredential(plan)

\* The foreign key: a write that names a credential no longer there fails.
Referable(dest) == dest # "paper" => cred[dest] # Absent

NewHook(dest) ==
    [cred |-> dest, status |-> "active", auto |-> FALSE, disabled |-> FALSE, uncounted |-> FALSE]

HookLoad(r, h, dest) ==
    /\ Fresh(h, hook) /\ Usable(dest)
    /\ Start(r, "hook", "count", h, NewHook(dest))
    /\ UNCHANGED <<tables, platform, logins>>

\* EnforceWebhookLimit: every webhook of the kind counts, paused ones too.
HookCount(r) ==
    /\ At(r, "hook", "count")
    /\ LET k == KindOf(req[r].row) IN
       IF CanAdd(MaxWebhooks(req[r].plan, k), Cardinality(OfKind(k))) THEN Proceed(r, "write") ELSE Finish(r)
    /\ UNCHANGED <<tables, platform, logins, used>>

HookInsert(r) ==
    /\ At(r, "hook", "write")
    /\ hook' = IF Referable(req[r].row.cred) THEN [hook EXCEPT ![req[r].on] = req[r].row] ELSE hook
    /\ Finish(r)
    /\ UNCHANGED <<cred, platform, logins, used>>

\* UpdateWebhook: an edit leaves the destination as read, or names another. Nothing is
\* counted, whatever the kinds.
EditHookLoad(r, h) ==
    /\ hook[h] # Absent
    /\ \E dest \in Destinations :
          /\ dest # hook[h].cred => Usable(dest)
          /\ Start(r, "edit hook", "write", h, [hook[h] EXCEPT !.cred = dest])
    /\ UNCHANGED <<tables, platform, logins>>

\* The destination is written and the status is left; an active webhook is now active
\* as one of a kind it may not have been counted in.
Redirected(old, row) ==
    [old EXCEPT !.cred = row.cred, !.uncounted = @ \/ KindOf(old) # KindOf(row)]

EditHookWrite(r) ==
    /\ At(r, "edit hook", "write")
    /\ LET h == req[r].on IN
       hook' = IF hook[h] # Absent /\ Referable(req[r].row.cred)
               THEN [hook EXCEPT ![h] = Redirected(@, req[r].row)] ELSE hook
    /\ Finish(r)
    /\ UNCHANGED <<cred, platform, logins, used>>

\* The webhook's credential, if it has one, must be active; the count and the write come later.
HookResumeLoad(r, h) ==
    /\ hook[h] # Absent /\ ~hook[h].disabled
    /\ LET dest == hook[h].cred IN Usable(dest) /\ (dest # "paper" => ~cred[dest].disabled)
    /\ Start(r, "unpause hook", "count", h, [hook[h] EXCEPT !.status = "active"])
    /\ UNCHANGED <<tables, platform, logins>>

\* EnforceWebhookResumeLimit: the active webhooks of the kind read above.
HookResumeCount(r) ==
    /\ At(r, "unpause hook", "count")
    /\ LET k == KindOf(req[r].row) IN
       IF CanAdd(MaxWebhooks(req[r].plan, k), Cardinality(ActiveOf(k))) THEN Proceed(r, "write") ELSE Finish(r)
    /\ UNCHANGED <<tables, platform, logins, used>>

\* UPDATE status, whatever the webhook has become.
Resumed(old, row) ==
    [old EXCEPT !.status = "active", !.auto = FALSE, !.uncounted = KindOf(old) # KindOf(row)]

HookStatusWrite(r) ==
    /\ At(r, "unpause hook", "write")
    /\ LET h == req[r].on IN
       hook' = IF hook[h] = Absent THEN hook ELSE [hook EXCEPT ![h] = Resumed(@, req[r].row)]
    /\ Finish(r)
    /\ UNCHANGED <<cred, platform, logins, used>>

\* PauseWebhook and DeleteWebhook: one statement each.
HookEnd(h) ==
    /\ "end hook" \in world.ops /\ hook[h] # Absent
    /\ \E gone \in BOOLEAN :
          hook' = [hook EXCEPT ![h] = IF gone THEN Absent ELSE [@ EXCEPT !.status = "paused"]]
    /\ Use("requests", world.served)
    /\ UNCHANGED <<cred, platform, req, logins>>

-----------------------------------------------------------------------------
(* Kite's login.                                                           *)

\* ZerodhaConnect sends the browser to Kite for the app of the stored key.
Connect(c) ==
    /\ "connect" \in world.ops /\ Open("user_api_oauth")
    /\ cred[c] # Absent /\ cred[c].broker = "zerodha" /\ cred[c].mode # "publisher"
    /\ Use("logins", MaxLogins)
    /\ logins' = logins \cup {[cred |-> c, app |-> cred[c].key]}
    /\ UNCHANGED <<tables, platform, req>>

\* The user gives up, or the signed state turns older than 15 minutes.
AbandonLogin(l) ==
    /\ l \in logins
    /\ logins' = logins \ {l}
    /\ UNCHANGED <<tables, platform, req, used>>

\* HandleCallback reads the row as it is by now; the mode is not looked at again.
CallbackLoad(r, l) ==
    /\ l \in logins /\ Open("user_api_oauth") /\ cred[l.cred] # Absent
    /\ Start(r, "connect", l.app, l.cred, cred[l.cred])
    /\ logins' = logins \ {l}
    /\ UNCHANGED <<tables, platform>>

\* ExchangeToken: Kite checks the request token, the key and the secret against one app.
Issues(app, key) == app = key

Issued(row, app) == [row EXCEPT !.token = [app |-> app, at |-> now]]

CallbackExchange(r) ==
    /\ req[r].op = "connect" /\ req[r].at \in Apps
    /\ \/ /\ Issues(req[r].at, req[r].row.key)
          /\ req' = [req EXCEPT ![r] = [@ EXCEPT !.at = "write", !.row = Issued(req[r].row, req[r].at)]]
       \/ Finish(r)
    /\ UNCHANGED <<tables, platform, logins, used>>

\* Mutant: the token alone is written, beside the keys the row has by now.
ReconnectedTokenOnly(old, row) == [old EXCEPT !.token = row.token, !.connected = now]

\* ReconnectZerodhaToken, here or through PutCredentialSession: key, secret and token
\* of the row read at the start, and connected_at = NOW().
Reconnected(old, row) ==
    [old EXCEPT !.key = row.key, !.token = row.token, !.connected = now,
                !.overtaken = KiteDay(row.token.at) # KiteDay(now)]

CallbackWrite(r) ==
    /\ At(r, "connect", "write")
    /\ LET c == req[r].on IN
       cred' = IF cred[c].broker = "zerodha" THEN [cred EXCEPT ![c] = Reconnected(@, req[r].row)] ELSE cred
    /\ Finish(r)
    /\ UNCHANGED <<hook, platform, logins, used>>

Tick ==
    /\ "connect" \in world.ops /\ now < MaxTime
    /\ now' = now + 1
    /\ UNCHANGED <<tables, plan, sweeping, enabled, admin, req, logins, used>>

-----------------------------------------------------------------------------
(* The platform: a downgrade, and the administrator's switches. One        *)
(* administrator, one request at a time.                                   *)

Downgrade(p) ==
    /\ "downgrade" \in world.ops /\ ~sweeping
    /\ <<plan, p>> \in {<<"pro_plus", "pro">>, <<"pro", "free">>, <<"pro_plus", "free">>}
    /\ plan' = p /\ sweeping' = TRUE
    /\ UNCHANGED <<tables, enabled, admin, now, req, logins, used>>

\* PauseAllWebhooksByUser, which leaves paper webhooks, and PauseAllCredentialsByUser.
PauseOwned ==
    /\ sweeping
    /\ hook' = [h \in Hooks |-> IF h \in OfKind("live")
                                THEN [hook[h] EXCEPT !.status = "paused", !.auto = TRUE] ELSE hook[h]]
    /\ cred' = [c \in Creds |-> IF cred[c] = Absent THEN Absent
                                ELSE [cred[c] EXCEPT !.status = "paused", !.auto = TRUE]]
    /\ sweeping' = FALSE
    /\ UNCHANGED <<plan, enabled, admin, now, req, logins, used>>

SetSwitch(m, on) ==
    /\ world.admin /\ admin = NoRequest
    /\ Use("switches", MaxSwitches)
    /\ enabled' = [enabled EXCEPT ![m] = on]
    /\ admin' = [op |-> "sweep", mode |-> m, on |-> on]
    /\ UNCHANGED <<tables, plan, sweeping, now, req, logins>>

OfMode(c, m) == cred[c].broker = "zerodha" /\ cred[c].mode = m

\* ClearAdminDisabledCredentials: the flag goes, the pause stays.
Cleared(m) ==
    [c \in Creds |-> IF cred[c] # Absent /\ OfMode(c, m)
                     THEN [cred[c] EXCEPT !.disabled = FALSE] ELSE cred[c]]

\* PauseCredentialsByExecutionMode: the active ones only.
Disabled(m) ==
    [c \in Creds |-> IF c \in ActiveCreds /\ OfMode(c, m)
                     THEN [cred[c] EXCEPT !.status = "paused", !.disabled = TRUE] ELSE cred[c]]

\* ClearAdminDisabledWebhooks and PauseWebhooksByExecutionMode: those on a credential of the mode.
OnMode(h, m) == h \in OfKind("live") /\ OfMode(hook[h].cred, m)
HooksCleared(m) ==
    [h \in Hooks |-> IF OnMode(h, m) THEN [hook[h] EXCEPT !.disabled = FALSE] ELSE hook[h]]
HooksDisabled(m) ==
    [h \in Hooks |-> IF Active(h) /\ OnMode(h, m)
                     THEN [hook[h] EXCEPT !.status = "paused", !.disabled = TRUE] ELSE hook[h]]

\* The statement on credentials, and the one on webhooks; their errors are ignored.
Sweep(failed) ==
    /\ admin # NoRequest
    /\ cred' = IF failed THEN cred ELSE IF admin.on THEN Cleared(admin.mode) ELSE Disabled(admin.mode)
    /\ hook' = IF failed THEN hook ELSE IF admin.on THEN HooksCleared(admin.mode) ELSE HooksDisabled(admin.mode)
    /\ admin' = NoRequest
    /\ UNCHANGED <<plan, sweeping, enabled, now, req, logins, used>>

-----------------------------------------------------------------------------
CredentialRequest(r) ==
    \/ \E c \in Creds, m \in Switched, a \in world.apps : CreateLoad(r, c, m, a)
    \/ \E c \in Creds : EditLoad(r, c) \/ DeleteCount(r, c) \/ PauseCredential(r, c) \/ ResumeLoad(r, c)
    \/ CreateCount(r) \/ CreateInsert(r) \/ EditWrite(r) \/ DeleteRow(r)
    \/ ResumeCount(r) \/ StatusWrite(r)

HookRequest(r) ==
    \/ \E h \in Hooks, dest \in Destinations : HookLoad(r, h, dest)
    \/ \E h \in Hooks : EditHookLoad(r, h) \/ HookResumeLoad(r, h)
    \/ HookCount(r) \/ HookInsert(r) \/ EditHookWrite(r) \/ HookResumeCount(r) \/ HookStatusWrite(r)

Callback(r) ==
    \/ \E l \in logins : CallbackLoad(r, l)
    \/ CallbackExchange(r) \/ CallbackWrite(r)

Platform ==
    \/ \E p \in {"pro", "free"} : Downgrade(p)
    \/ PauseOwned
    \/ \E m \in Switched, on \in BOOLEAN : SetSwitch(m, on)
    \/ \E failed \in BOOLEAN : Sweep(failed)

Step ==
    \/ \E r \in Requests : CredentialRequest(r) \/ HookRequest(r) \/ Callback(r)
    \/ \E h \in Hooks : HookEnd(h)
    \/ \E c \in Creds : Connect(c)
    \/ \E l \in logins : AbandonLogin(l)
    \/ Tick
    \/ Platform

CredentialNext == Step /\ UNCHANGED world

CredentialSpec == CredentialInit /\ [][CredentialNext]_credentialVars

-----------------------------------------------------------------------------
(* Properties.                                                             *)

Tokens == [app : Apps \cup {"none"}, at : Nat]
CredRows == [broker : Brokers, mode : Switched \cup {"direct_api"}, key : Apps, token : Tokens,
             connected : Int, status : {"active", "paused"}, auto : BOOLEAN, disabled : BOOLEAN,
             overtaken : BOOLEAN, cred : {"none"}]
HookRows == [cred : Destinations, status : {"active", "paused"},
             auto : BOOLEAN, disabled : BOOLEAN, uncounted : BOOLEAN]

\* The rows, and that a webhook's credential exists: the database's foreign key, without
\* which the count before a delete would miss a webhook created meanwhile.
CredentialTypeOK ==
    /\ \A c \in Stored : cred[c] \in CredRows
    /\ \A h \in Present : hook[h] \in HookRows /\ Referable(hook[h].cred)
    /\ plan \in {"pro_plus", "pro", "free"} /\ sweeping \in BOOLEAN
    /\ enabled \in [Switched -> BOOLEAN]

\* What the properties rest on. The tables, and what a request carries from one step to
\* the next: rows whose token is for their key, a new row without a login.
Tables ==
    /\ cred = [c \in Creds |-> cred[c]] /\ req = [r \in Requests |-> req[r]]
    /\ now \in Nat /\ \A l \in logins : l.cred \in Creds
RowFields == {"broker", "mode", "key", "token", "connected", "status", "auto", "disabled", "overtaken", "cred"}
HookFields == {"cred", "status", "auto", "disabled", "uncounted"}
HookTable == hook = [h \in Hooks |-> hook[h]] /\ \A h \in Present : DOMAIN hook[h] = HookFields
Matched(row) ==
    /\ DOMAIN row = RowFields
    /\ row.token.at \in Nat /\ (row.token # NoToken => row.token.app = row.key)
Carries(q) ==
    /\ q = NoRequest \/ DOMAIN q = {"op", "at", "on", "row", "plan"}
    /\ q.op \in {"create", "edit", "connect"} => Matched(q.row)
    /\ q.op = "create" => q.row.connected = Never
    /\ q.op = "pause" => q.row.status = "paused"
    /\ q.op \in {"hook", "unpause hook"} => DOMAIN q.row = HookFields

\* A login that nothing has overtaken was made on the day of its token.
Honest(row) ==
    /\ Matched(row) /\ row.connected \in Int
    /\ row.connected # Never => 0 <= row.connected /\ row.connected <= now
    /\ row.connected # Never /\ ~row.overtaken => KiteDay(row.token.at) = KiteDay(row.connected)

CredentialInv ==
    /\ Tables /\ HookTable
    /\ \A r \in Requests : Carries(req[r])
    /\ \A c \in Stored : Honest(cred[c])

\* A claim may still turn into an active row: it was counted, or counts with a plan
\* the user no longer has.
CredClaims == {r \in Requests : req[r].op \in {"create", "resume"} /\ (req[r].at = "write" \/ req[r].plan # plan)}
HookClaims == {r \in Requests : /\ req[r].op \in {"hook", "unpause hook"} /\ KindOf(req[r].row) = "live"
                                /\ req[r].at = "write" \/ req[r].plan # plan}

\* The active live webhooks that a create or a resume has counted as live.
CountedHooks == {h \in ActiveOf("live") : ~hook[h].uncounted}

\* The limit, or one where the plan allows none, and one for every further request.
Bound(max) == (IF max = 0 THEN 1 ELSE max) + Cardinality(Requests) - 1

CredsWithin == ~sweeping => Cardinality(ActiveCreds) + Cardinality(CredClaims) <= Bound(LimitsFor(plan).creds)
HooksWithin == ~sweeping => Cardinality(CountedHooks) + Cardinality(HookClaims) <= Bound(LimitsFor(plan).hooks)
ClaimsInv == IsFiniteSet(Stored) /\ IsFiniteSet(Present) /\ CredsWithin /\ HooksWithin

\* The limits are counted in one statement and used up in another
\* (EnforceBrokerLimit, EnforceWebhookLimit and the two resume limits of
\* shared/handler.go). However requests and a downgrade interleave, the active credentials, and
\* the live webhooks that a create or a resume made active, exceed the plan by at most one per
\* further request in flight; what is in flight when a downgrade pauses everything can be
\* activated after it. Only webhooks an edit moved over from paper come on top.
ActiveWithinPlan ==
    ~sweeping => /\ Cardinality(ActiveCreds) <= Bound(LimitsFor(plan).creds)
                 /\ Cardinality(CountedHooks) <= Bound(LimitsFor(plan).hooks)

\* The same of every active live webhook, those moved over from paper included.
MovedWithinPlan ==
    ~sweeping => Cardinality(ActiveOf("live")) <= Bound(LimitsFor(plan).hooks)

\* callback.go exchanges and stores with the keys of one read: a stored token was
\* issued to the app whose key is stored beside it, whatever edits came in between.
TokenOfItsApp ==
    \A c \in Stored : cred[c].token # NoToken => cred[c].token.app = cred[c].key

\* The dashboard's status (ZerodhaStatus) is computed from connected_at alone. It says
\* "expired" exactly when Kite has ended the stored token, unless an edit rewrote the
\* keys after the login, or 06:00 came between the exchange and the write.
StatusIsKites ==
    \A c \in Stored :
        cred[c].connected # Never /\ ~cred[c].overtaken =>
            (ZerodhaTokenStatus(cred[c].connected, now) = "expired")
                <=> KiteDay(cred[c].token.at) # KiteDay(now)

\* What a stored login says of itself holds: the app it is for and whether it
\* still works (callback.go:76-104, credentials/handler.go:43-67).
LoginIsHonest == TokenOfItsApp /\ StatusIsKites
=============================================================================
