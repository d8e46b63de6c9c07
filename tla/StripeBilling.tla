---------------------------- MODULE StripeBilling ----------------------------
(***************************************************************************)
(* How one user's plan follows a Stripe subscription, an admin's decisions *)
(* and the resources that depend on it.                                    *)
(*                                                                         *)
(*   events   internal/billing/webhook.go            Handle                *)
(*   plans    internal/billing/apply_plan.go         Apply                 *)
(*   admin    internal/modules/admin/handler.go      AdminSetUserPlan      *)
(*   resumes  internal/modules/{webhooks,credentials}/handler.go           *)
(*                                                                         *)
(* A plan is its rank (planRank): 0 free, 1 paper, 2 pro, 3 pro_plus.  The *)
(* user has one Stripe customer, one live webhook and one credential; the  *)
(* auto_paused flags, which only choose a banner, are left out.            *)
(***************************************************************************)
EXTENDS Naturals, Sequences, FiniteSets

CONSTANTS
    Actors,     \* goroutines that run deliveries and admin requests
    Paid,       \* plans that can be bought
    Grants,     \* plans an admin sets
    MaxEvents,  \* bound on Stripe's events
    MaxGrants,  \* bound on admin requests
    MaxFaults   \* bound on failing statements and crashes

Plans == 0..3

ASSUME BillingConstantsOK ==
    /\ Paid \subseteq Plans \ {0} /\ Grants \subseteq Plans
    /\ MaxEvents \in Nat /\ MaxGrants \in Nat /\ MaxFaults \in Nat

VARIABLES
    sub,       \* the subscription at Stripe: the plan of its price and the plan
               \* in its metadata, 0 for none
    events,    \* what Stripe has emitted; an event's id is its index
    acked,     \* events answered with 200
    recorded,  \* the stripe_webhook_events table
    user,      \* plan, billing_source, whether a subscription id is stored
    running,   \* running[r]: the resource is active
    step,      \* step[a]: what actor a does next
    work,      \* work[a]: the event or admin request it is about
    before,    \* before[a]: the plan it has read
    resume,    \* the owner's resume request: the resource, or "none"
    grants,    \* admin requests so far
    faults,    \* faults so far
    handled,   \* history: events whose effect has been completed
    granted,   \* history: the plan of the last completed admin request
    torn,      \* history: an admin request died between plan and source
    mixed,     \* history: requests have overlapped, or an event was overtaken
    slipped    \* history: a resource has escaped a pause

stripeVars  == <<sub, events, acked>>
actorVars   == <<step, work, before>>
historyVars == <<handled, granted, torn, mixed, slipped>>
vars == <<stripeVars, recorded, user, running, actorVars, resume, grants, faults,
          historyVars>>

Kinds == {"checkout", "updated", "deleted", "notice", "admin"}
Resources == {"webhook", "credential"}
NoWork == [kind |-> "notice", plan |-> 0, id |-> 0]

\* plan.CanUseCredential
LiveAllowed(p) == p >= 2

NoSub == [price |-> 0, tag |-> 0]

\* planFromSubscription: the metadata, which checkout wrote, goes before the price.
PlanOf(s) == IF s.tag # 0 THEN s.tag ELSE s.price

Idle == \A a \in Actors : step[a] = "idle"
Settled == Idle /\ acked = 1..Len(events)

Init ==
    /\ sub = NoSub
    /\ events = << >>
    /\ acked = {}
    /\ recorded = {}
    /\ user = [plan |-> 0, source |-> "free", subscribed |-> FALSE]
    /\ running = [r \in Resources |-> FALSE]
    /\ step = [a \in Actors |-> "idle"]
    /\ work = [a \in Actors |-> NoWork]
    /\ before = [a \in Actors |-> 0]
    /\ resume = "none"
    /\ grants = 0
    /\ faults = 0
    /\ handled = {}
    /\ granted = 0
    /\ torn = FALSE
    /\ mixed = FALSE
    /\ slipped = FALSE

-----------------------------------------------------------------------------
(* Stripe.                                                                 *)

Emit(kind, p) ==
    /\ Len(events) < MaxEvents
    /\ events' = Append(events, [kind |-> kind, plan |-> p])
    /\ UNCHANGED <<acked, recorded, user, running, actorVars, resume, grants, faults,
                   historyVars>>

\* A paid checkout names the plan in the metadata of the subscription.  A change
\* of price in the portal keeps it; an operator may clear it in the dashboard.
Subscribe ==
    /\ sub = NoSub
    /\ \E p \in Paid : sub' = [price |-> p, tag |-> p] /\ Emit("checkout", p)

Switch ==
    /\ sub # NoSub
    /\ \E p \in Paid, t \in {sub.tag, 0} : sub' = [price |-> p, tag |-> t]
    /\ Emit("updated", PlanOf(sub'))

Cancel == sub # NoSub /\ sub' = NoSub /\ Emit("deleted", 0)

\* Events that change nothing: a failed invoice, a subscription that is past due.
Notice == sub # NoSub /\ sub' = sub /\ Emit("notice", 0)

\* A delivery, a retry of one that was not acknowledged, or a duplicate.
Deliver(a) ==
    /\ step[a] = "idle"
    /\ \E e \in 1..Len(events) :
          /\ mixed' = (mixed \/ ~Idle \/ ~(1..(e - 1) \subseteq acked))
          /\ work' = [work EXCEPT ![a] = [kind |-> events[e].kind,
                                          plan |-> events[e].plan, id |-> e]]
    /\ step' = [step EXCEPT ![a] = "exists"]
    /\ UNCHANGED <<stripeVars, recorded, user, running, before, resume, grants, faults,
                   handled, granted, torn, slipped>>

-----------------------------------------------------------------------------
(* WebhookProcessor.Handle.                                                *)

\* The next step; the handler's locals end with it.
Goto(a, s) ==
    /\ step' = [step EXCEPT ![a] = s]
    /\ work' = IF s = "idle" THEN [work EXCEPT ![a] = NoWork] ELSE work

\* The effect of a's event is complete (or it has none).
Effected(a, s) ==
    /\ Goto(a, s)
    /\ handled' = IF s = "record" THEN handled \cup {work[a].id} ELSE handled

\* Mutant: the event is recorded before it is applied.
ExistsRecording(a) ==
    /\ step[a] = "exists"
    /\ \/ /\ work[a].id \in recorded
          /\ acked' = acked \cup {work[a].id}
          /\ Goto(a, "idle")
          /\ UNCHANGED <<handled, recorded>>
       \/ /\ work[a].id \notin recorded
          /\ recorded' = recorded \cup {work[a].id}
          /\ Effected(a, CASE work[a].kind = "notice" -> "record"
                           [] work[a].kind = "checkout" -> "read"
                           [] OTHER -> "find")
          /\ acked' = acked
    /\ UNCHANGED <<sub, events, user, running, before, resume, grants,
                   faults, granted, torn, mixed, slipped>>

\* StripeWebhookEventExists, then the dispatch on the type.
Exists(a) ==
    /\ step[a] = "exists"
    /\ \/ /\ work[a].id \in recorded
          /\ acked' = acked \cup {work[a].id}
          /\ Goto(a, "idle")
          /\ handled' = handled
       \/ /\ work[a].id \notin recorded
          /\ Effected(a, CASE work[a].kind = "notice" -> "record"
                           [] work[a].kind = "checkout" -> "read"
                           [] OTHER -> "find")
          /\ acked' = acked
    /\ UNCHANGED <<sub, events, recorded, user, running, before, resume, grants,
                   faults, granted, torn, mixed, slipped>>

\* Mutant: subscription events are applied whatever the billing source.
FindAnyone(a) ==
    /\ step[a] = "find"
    /\ Effected(a, "read")
    /\ UNCHANGED <<stripeVars, recorded, user, running, before, resume, grants,
                   faults, granted, torn, mixed, slipped>>

\* The user of the customer; subscription events are for Stripe's users only.
Find(a) ==
    /\ step[a] = "find"
    /\ Effected(a, IF user.source = "stripe" THEN "read" ELSE "record")
    /\ UNCHANGED <<stripeVars, recorded, user, running, before, resume, grants,
                   faults, granted, torn, mixed, slipped>>

\* SetUserStripeIDs, ClearUserStripeSubscription.
StoreIds(a) ==
    /\ step[a] = "ids"
    /\ user' = [user EXCEPT !.subscribed = work[a].kind # "deleted"]
    /\ Effected(a, IF work[a].kind = "updated" THEN "record" ELSE "source")
    /\ UNCHANGED <<stripeVars, recorded, running, before, resume, grants, faults,
                   granted, torn, mixed, slipped>>

\* Mutant: a cancelled subscriber remains a Stripe user.
SourceKept(a) ==
    /\ step[a] = "source"
    /\ user' = [user EXCEPT !.source = IF work[a].kind = "admin" THEN "admin" ELSE "stripe"]
    /\ Effected(a, IF work[a].kind = "admin" THEN "idle" ELSE "record")
    /\ granted' = IF work[a].kind = "admin" THEN work[a].plan ELSE granted
    /\ torn' = (torn /\ work[a].kind # "admin")
    /\ UNCHANGED <<stripeVars, recorded, running, before, resume, grants, faults,
                   mixed, slipped>>

\* UpdateUserBillingSource; an admin's request ends with it.
SetSource(a) ==
    /\ step[a] = "source"
    /\ user' = [user EXCEPT !.source = CASE work[a].kind = "checkout" -> "stripe"
                                         [] work[a].kind = "deleted" -> "free"
                                         [] OTHER -> "admin"]
    /\ Effected(a, IF work[a].kind = "admin" THEN "idle" ELSE "record")
    /\ granted' = IF work[a].kind = "admin" THEN work[a].plan ELSE granted
    /\ torn' = (torn /\ work[a].kind # "admin")
    /\ UNCHANGED <<stripeVars, recorded, running, before, resume, grants, faults,
                   mixed, slipped>>

\* RecordStripeWebhookEvent, then 200.
Record(a) ==
    /\ step[a] = "record"
    /\ recorded' = recorded \cup {work[a].id}
    /\ acked' = acked \cup {work[a].id}
    /\ Goto(a, "idle")
    /\ UNCHANGED <<sub, events, user, running, before, resume, grants, faults,
                   historyVars>>

-----------------------------------------------------------------------------
(* AdminSetUserPlan, and Applier.Apply for everyone.                       *)

StartGrant(a) ==
    /\ step[a] = "idle"
    /\ mixed' = (mixed \/ ~Idle)
    /\ grants < MaxGrants
    /\ grants' = grants + 1
    /\ \E p \in Grants : work' = [work EXCEPT ![a] = [kind |-> "admin", plan |-> p, id |-> 0]]
    /\ step' = [step EXCEPT ![a] = "read"]
    /\ UNCHANGED <<stripeVars, recorded, user, running, before, resume, faults, handled,
                   granted, torn, slipped>>

ReadPlan(a) ==
    /\ step[a] = "read"
    /\ before' = [before EXCEPT ![a] = user.plan]
    /\ Goto(a, "plan")
    /\ UNCHANGED <<stripeVars, recorded, user, running, resume, grants, faults,
                   historyVars>>

AfterApply(a) == IF work[a].kind = "admin" THEN "source" ELSE "ids"

\* UpdateUserPlan; whether it is a downgrade was decided on the row read before.
WritePlan(a) ==
    /\ step[a] = "plan"
    /\ user' = [user EXCEPT !.plan = work[a].plan]
    /\ Goto(a, IF work[a].plan < before[a] THEN "webhook" ELSE AfterApply(a))
    /\ before' = [before EXCEPT ![a] = 0]
    /\ slipped' = (slipped \/ user.plan # before[a])
    /\ UNCHANGED <<stripeVars, recorded, running, resume, grants, faults,
                   handled, granted, torn, mixed>>

\* Mutant: credentials are left alone.
PauseWebhooksOnly(a) ==
    /\ step[a] \in Resources
    /\ running' = [running EXCEPT !["webhook"] = FALSE]
    /\ Goto(a, AfterApply(a))
    /\ UNCHANGED <<stripeVars, recorded, user, before, resume, grants, faults,
                   handled, granted, torn, mixed, slipped>>

\* PauseAllWebhooksByUser, then PauseAllCredentialsByUser; errors are ignored.
PauseAll(a) ==
    /\ step[a] \in Resources
    /\ \/ /\ running' = [running EXCEPT ![step[a]] = FALSE]
          /\ UNCHANGED <<faults, slipped>>
       \/ /\ faults < MaxFaults /\ faults' = faults + 1
          /\ slipped' = TRUE
          /\ UNCHANGED running
    /\ Goto(a, IF step[a] = "webhook" THEN "credential" ELSE AfterApply(a))
    /\ UNCHANGED <<stripeVars, recorded, user, before, resume, grants,
                   handled, granted, torn, mixed>>

-----------------------------------------------------------------------------
(* The owner.                                                              *)

\* A live resource is resumed on a plan that allows it, a webhook only if its
\* credential is active.
ReadForResume ==
    /\ resume = "none"
    /\ LiveAllowed(user.plan)
    /\ \E r \in Resources : /\ ~running[r]
                            /\ r = "webhook" => running["credential"]
                            /\ resume' = r
    /\ UNCHANGED <<stripeVars, recorded, user, running, actorVars, grants, faults,
                   historyVars>>

WriteResume ==
    /\ resume # "none"
    /\ running' = [running EXCEPT ![resume] = TRUE]
    /\ resume' = "none"
    /\ slipped' = (slipped \/ ~LiveAllowed(user.plan)
                           \/ \E a \in Actors : step[a] \in Resources)
    /\ UNCHANGED <<stripeVars, recorded, user, actorVars, grants, faults, handled,
                   granted, torn, mixed>>

-----------------------------------------------------------------------------
(* Faults: a statement fails and the delivery is answered 500, or the      *)
(* process dies; Stripe retries, an admin does not.                        *)

Abandon(A) ==
    /\ faults < MaxFaults /\ faults' = faults + 1
    /\ step' = [a \in Actors |-> IF a \in A THEN "idle" ELSE step[a]]
    /\ work' = [a \in Actors |-> IF a \in A THEN NoWork ELSE work[a]]
    /\ before' = [a \in Actors |-> IF a \in A THEN 0 ELSE before[a]]
    /\ torn' = (torn \/ \E a \in A : work[a].kind = "admin"
                                     /\ step[a] \in Resources \cup {"source"})
    /\ slipped' = (slipped \/ \E a \in A : step[a] \in Resources)
    /\ UNCHANGED <<stripeVars, recorded, user, running, grants, handled, granted,
                   mixed>>

Fail(a) == step[a] \notin {"idle"} \cup Resources /\ Abandon({a}) /\ UNCHANGED resume
Crash == ~Idle /\ Abandon(Actors) /\ resume' = "none"

Run(a) == \/ Exists(a) \/ Find(a) \/ ReadPlan(a) \/ WritePlan(a) \/ PauseAll(a)
          \/ StoreIds(a) \/ SetSource(a) \/ Record(a)

Next ==
    \/ Subscribe \/ Switch \/ Cancel \/ Notice
    \/ \E a \in Actors : Deliver(a) \/ StartGrant(a) \/ Run(a) \/ Fail(a)
    \/ ReadForResume \/ WriteResume
    \/ Crash

Spec == Init /\ [][Next]_vars

-----------------------------------------------------------------------------
(* Properties.                                                             *)

Steps == Resources \cup {"idle", "exists", "find", "read", "plan", "ids", "source", "record"}
Works == [kind : Kinds, plan : Plans, id : 0..MaxEvents]

TypeOK ==
    /\ sub \in [price : Plans, tag : Plans]
    /\ events \in Seq([kind : Kinds, plan : Plans]) /\ Len(events) <= MaxEvents
    /\ acked \subseteq 0..MaxEvents /\ recorded \subseteq 0..MaxEvents
    /\ handled \subseteq 0..MaxEvents
    /\ user \in [plan : Plans, source : {"free", "stripe", "admin"}, subscribed : BOOLEAN]
    /\ running \in [Resources -> BOOLEAN]
    /\ step \in [Actors -> Steps] /\ work \in [Actors -> Works]
    /\ before \in [Actors -> Plans]
    /\ resume \in Resources \cup {"none"}
    /\ granted \in Plans /\ {torn, mixed, slipped} \subseteq BOOLEAN

\* While deliveries neither overlap nor overtake one another, the events leave the
\* user with exactly what the subscription at Stripe names, through failures, crashes,
\* retries and replays anywhere in a handler, unless an admin has taken over
\* (webhook.go:43-70: record last, apply again).
InSync ==
    Settled /\ ~mixed /\ ~torn /\ user.source # "admin" =>
        /\ user.plan = PlanOf(sub)
        /\ user.source = IF sub = NoSub THEN "free" ELSE "stripe"
        /\ user.subscribed = (sub # NoSub)

\* Under the same conditions a user whose billing source is admin has the plan an
\* admin gave last (webhook.go:123: only Stripe's users follow Stripe).
AdminOwnsPlan ==
    Settled /\ ~mixed /\ ~torn /\ user.source = "admin" => user.plan = granted

\* Stripe is told 200 only when the event has taken effect, in whatever order and
\* however often deliveries run and whatever fails (webhook.go:68).
AckedIsHandled == acked \subseteq handled

\* After a downgrade no live resource runs, unless a pause was lost or somebody
\* acted on a plan that had changed since it was read.
DowngradePauses ==
    Settled /\ ~LiveAllowed(user.plan) /\ ~slipped => \A r \in Resources : ~running[r]

\* What the last two rest on: an event is recorded, or about to be, only after its
\* effect; and a resource that runs on a plan without live orders is about to be
\* paused by somebody.
RecordedLast ==
    /\ recorded \subseteq handled
    /\ \A a \in Actors : step[a] = "record" => work[a].id \in handled
Pausing(r) == \E a \in Actors : step[a] = "webhook" \/ (step[a] = "credential" /\ r = "credential")
PausedInTime ==
    ~slipped => \A r \in Resources : running[r] => LiveAllowed(user.plan) \/ Pausing(r)

BillingInv == TypeOK /\ RecordedLast /\ AckedIsHandled /\ PausedInTime

\* "Apply updates user plan and pauses or clears auto-paused resources on tier
\* changes" (apply_plan.go:70): every completed downgrade has paused them.
DowngradeAlwaysPauses ==
    Settled /\ ~LiveAllowed(user.plan) => \A r \in Resources : ~running[r]

\* "Duplicate events (Stripe replays) are silently ignored" (docs/00-index/glossary.md:109).
DuplicatesIgnored ==
    [][\A a \in Actors : work[a].id \in recorded /\ step[a] = "plan" =>
          user'.plan = user.plan]_vars

\* "Admin override is not overwritten by Stripe webhook events" (docs/01-product/prd.md:157).
AdminOverrideKept ==
    [][user.source = "admin" /\ user'.plan # user.plan =>
          \E a \in Actors : work[a].kind = "admin" /\ step[a] = "plan" /\ step'[a] # "plan"]_vars

\* "billing_source [...] stripe = webhook owns plan" (docs/plans/stripe-billing.md:102):
\* the plan is the subscription's, in whatever order its events arrive.
PlanFollowsStripe == Settled /\ user.source = "stripe" => user.plan = PlanOf(sub)

\* "customer.subscription.updated: Map price -> plan/tier" (docs/plans/stripe-billing.md:152):
\* whoever changes to another price gets its plan.
PlanFollowsPrice == Settled /\ user.source = "stripe" => user.plan = sub.price
=============================================================================
