----------------------------- MODULE PlanProofs -----------------------------
(* The plan a user has and what it allows. First StripeBilling, for every     *)
(* number of overlapping requests, every set of plans for sale, and every     *)
(* number of events, admin requests and faults; then BrokerCredentials, for   *)
(* every number of credentials, webhooks, requests, switches and logins.      *)
EXTENDS StripeBilling, BrokerCredentials, FiniteSetTheorems, TLAPS

-----------------------------------------------------------------------------
(* Types. *)

LEMMA ElementOfSequence ==
    ASSUME NEW S, NEW q \in Seq(S), NEW i \in 1..Len(q)
    PROVE  q[i] \in S
  OBVIOUS

LEMMA EventsTyped ==
    ASSUME TypeOK, NEW e \in 1..Len(events)
    PROVE  events[e] \in [kind : Kinds, plan : Plans]
<1>1. events \in Seq([kind : Kinds, plan : Plans])
  BY DEF TypeOK
<1> QED
  BY <1>1, ElementOfSequence

LEMMA GotoTypes ==
    ASSUME TypeOK, NEW a \in Actors, NEW s \in Steps, Goto(a, s)
    PROVE  step' \in [Actors -> Steps] /\ work' \in [Actors -> Works]
<1>1. NoWork \in Works
  BY BillingConstantsOK DEF NoWork, Works, Kinds, Plans
<1> QED
  BY <1>1 DEF TypeOK, Goto

LEMMA TypesHold ==
    ASSUME TypeOK, Next
    PROVE  TypeOK'
<1> USE BillingConstantsOK
<1> USE DEF TypeOK, Plans, Kinds, Resources, Steps, Works, stripeVars, actorVars, historyVars
<1>1. ASSUME Subscribe \/ Switch \/ Cancel \/ Notice PROVE TypeOK'
  <2>1. PICK kind \in Kinds, p \in Plans : Emit(kind, p)
    BY <1>1 DEF Subscribe, Switch, Cancel, Notice, PlanOf, NoSub
  <2>2. sub' \in [price : Plans, tag : Plans]
    BY <1>1 DEF Subscribe, Switch, Cancel, Notice, NoSub
  <2>3. events' \in Seq([kind : Kinds, plan : Plans]) /\ Len(events') <= MaxEvents
    BY <2>1 DEF Emit
  <2> QED
    BY <2>1, <2>2, <2>3 DEF Emit
<1>2. ASSUME NEW a \in Actors, Deliver(a) PROVE TypeOK'
  <2>1. PICK e \in 1..Len(events) :
           work' = [work EXCEPT ![a] = [kind |-> events[e].kind, plan |-> events[e].plan, id |-> e]]
    BY <1>2 DEF Deliver
  <2>2. events[e] \in [kind : Kinds, plan : Plans]
    BY <2>1, EventsTyped
  <2> e \in 0..MaxEvents
    OBVIOUS
  <2>3. work' \in [Actors -> Works]
    BY <2>1, <2>2
  <2>4. mixed' \in BOOLEAN
    BY <1>2 DEF Deliver
  <2> QED
    BY <1>2, <2>3, <2>4 DEF Deliver
<1>3. ASSUME NEW a \in Actors, StartGrant(a) PROVE TypeOK'
  BY <1>3 DEF StartGrant
<1>4. ASSUME NEW a \in Actors, Exists(a) PROVE TypeOK'
  <2>1. PICK s \in Steps : Goto(a, s)
    BY <1>4 DEF Exists, Effected
  <2>2. step' \in [Actors -> Steps] /\ work' \in [Actors -> Works]
    BY <2>1, GotoTypes
  <2>3. acked' \subseteq 0..MaxEvents /\ handled' \subseteq 0..MaxEvents
    BY <1>4 DEF Exists, Effected
  <2> QED
    BY <1>4, <2>2, <2>3 DEF Exists
<1>5. ASSUME NEW a \in Actors, Find(a) PROVE TypeOK'
  BY <1>5 DEF Find, Effected, Goto, NoWork
<1>6. ASSUME NEW a \in Actors, ReadPlan(a) PROVE TypeOK'
  BY <1>6 DEF ReadPlan, Goto, NoWork
<1>7. ASSUME NEW a \in Actors, WritePlan(a) PROVE TypeOK'
  <2>1. PICK s \in Steps : Goto(a, s)
    BY <1>7 DEF WritePlan, AfterApply
  <2>2. step' \in [Actors -> Steps] /\ work' \in [Actors -> Works]
    BY <2>1, GotoTypes
  <2>3. slipped' \in BOOLEAN
    BY <1>7 DEF WritePlan
  <2>4. user' \in [plan : Plans, source : {"free", "stripe", "admin"}, subscribed : BOOLEAN]
    <3>1. work[a].plan \in Plans
      OBVIOUS
    <3> QED
      BY <1>7, <3>1 DEF WritePlan
  <2>5. before' \in [Actors -> Plans]
    BY <1>7 DEF WritePlan
  <2> QED
    BY <1>7, <2>2, <2>3, <2>4, <2>5 DEF WritePlan
<1>8. ASSUME NEW a \in Actors, PauseAll(a) PROVE TypeOK'
  BY <1>8 DEF PauseAll, Goto, NoWork, AfterApply
<1>9. ASSUME NEW a \in Actors, StoreIds(a) PROVE TypeOK'
  BY <1>9 DEF StoreIds, Effected, Goto, NoWork
<1>10. ASSUME NEW a \in Actors, SetSource(a) PROVE TypeOK'
  BY <1>10 DEF SetSource, Effected, Goto, NoWork
<1>11. ASSUME NEW a \in Actors, Record(a) PROVE TypeOK'
  <2>1. step' \in [Actors -> Steps] /\ work' \in [Actors -> Works]
    BY <1>11, GotoTypes DEF Record
  <2>2. recorded' \subseteq 0..MaxEvents /\ acked' \subseteq 0..MaxEvents
    BY <1>11 DEF Record
  <2> QED
    BY <1>11, <2>1, <2>2 DEF Record
<1>12. ASSUME ReadForResume PROVE TypeOK'
  BY <1>12 DEF ReadForResume
<1>13. ASSUME WriteResume PROVE TypeOK'
  BY <1>13 DEF WriteResume
<1>14. ASSUME NEW A \in SUBSET Actors, Abandon(A), resume' \in {resume, "none"} PROVE TypeOK'
  BY <1>14 DEF Abandon, NoWork
<1>15. ASSUME NEW a \in Actors, Fail(a) PROVE TypeOK'
  BY <1>14, <1>15 DEF Fail
<1>16. ASSUME Crash PROVE TypeOK'
  BY <1>14, <1>16 DEF Crash
<1> QED
  BY <1>1, <1>2, <1>3, <1>4, <1>5, <1>6, <1>7, <1>8, <1>9, <1>10, <1>11, <1>12, <1>13, <1>14, <1>15, <1>16 DEF Next, Run

-----------------------------------------------------------------------------
(* The event table and the pauses. *)

LEMMA RecordedStaysLast ==
    ASSUME TypeOK, RecordedLast, AckedIsHandled, Next
    PROVE  RecordedLast' /\ AckedIsHandled'
<1> USE DEF TypeOK, Steps, Works, RecordedLast, AckedIsHandled, stripeVars, actorVars, historyVars
<1>1. ASSUME Subscribe \/ Switch \/ Cancel \/ Notice PROVE RecordedLast' /\ AckedIsHandled'
  BY <1>1 DEF Subscribe, Switch, Cancel, Notice, Emit
<1>2. ASSUME NEW a \in Actors, Deliver(a) \/ StartGrant(a) PROVE RecordedLast' /\ AckedIsHandled'
  BY <1>2 DEF Deliver, StartGrant
<1>3. ASSUME NEW a \in Actors, Exists(a) PROVE RecordedLast' /\ AckedIsHandled'
  BY <1>3 DEF Exists, Effected, Goto
<1>4. ASSUME NEW a \in Actors, Find(a) PROVE RecordedLast' /\ AckedIsHandled'
  BY <1>4 DEF Find, Effected, Goto
<1>5. ASSUME NEW a \in Actors, ReadPlan(a) \/ WritePlan(a) \/ PauseAll(a) PROVE RecordedLast' /\ AckedIsHandled'
  BY <1>5 DEF ReadPlan, WritePlan, PauseAll, AfterApply, Goto, Resources
<1>6. ASSUME NEW a \in Actors, StoreIds(a) PROVE RecordedLast' /\ AckedIsHandled'
  BY <1>6 DEF StoreIds, Effected, Goto
<1>7. ASSUME NEW a \in Actors, SetSource(a) PROVE RecordedLast' /\ AckedIsHandled'
  BY <1>7 DEF SetSource, Effected, Goto
<1>8. ASSUME NEW a \in Actors, Record(a) PROVE RecordedLast' /\ AckedIsHandled'
  BY <1>8 DEF Record, Goto
<1>9. ASSUME ReadForResume \/ WriteResume PROVE RecordedLast' /\ AckedIsHandled'
  BY <1>9 DEF ReadForResume, WriteResume
<1>10. ASSUME NEW A \in SUBSET Actors, Abandon(A) PROVE RecordedLast' /\ AckedIsHandled'
  BY <1>10 DEF Abandon
<1> QED
  BY <1>1, <1>2, <1>3, <1>4, <1>5, <1>6, <1>7, <1>8, <1>9, <1>10 DEF Next, Run, Fail, Crash

LEMMA PausesStayInTime ==
    ASSUME TypeOK, PausedInTime, Next
    PROVE  PausedInTime'
<1> USE DEF TypeOK, Steps, Works, Resources, PausedInTime, Pausing, stripeVars, actorVars, historyVars
<1>1. ASSUME Subscribe \/ Switch \/ Cancel \/ Notice PROVE PausedInTime'
  BY <1>1 DEF Subscribe, Switch, Cancel, Notice, Emit
<1>2. ASSUME NEW a \in Actors, Deliver(a) \/ StartGrant(a) PROVE PausedInTime'
  BY <1>2 DEF Deliver, StartGrant
<1>3. ASSUME NEW a \in Actors, Exists(a) PROVE PausedInTime'
  BY <1>3 DEF Exists, Effected, Goto
<1>4. ASSUME NEW a \in Actors, Find(a) \/ ReadPlan(a) PROVE PausedInTime'
  BY <1>4 DEF Find, ReadPlan, Effected, Goto
<1>5. ASSUME NEW a \in Actors, WritePlan(a) PROVE PausedInTime'
  <2> SUFFICES ASSUME ~slipped, user.plan = before[a], NEW r \in Resources, running[r]
               PROVE  LiveAllowed(user'.plan) \/ Pausing(r)'
    BY <1>5 DEF WritePlan
  <2>1. CASE Pausing(r)
    <3>1. PICK b \in Actors : step[b] = "webhook" \/ (step[b] = "credential" /\ r = "credential")
      BY <2>1
    <3>2. step'[b] = step[b]
      BY <1>5, <3>1 DEF WritePlan, Goto
    <3> QED
      BY <3>1, <3>2
  <2>2. CASE LiveAllowed(user.plan) /\ ~LiveAllowed(work[a].plan)
    <3> work[a].plan \in Plans /\ user.plan \in Plans
      OBVIOUS
    <3>1. work[a].plan < before[a]
      BY <2>2 DEF LiveAllowed, Plans
    <3>2. step'[a] = "webhook"
      BY <1>5, <3>1 DEF WritePlan, Goto
    <3> QED
      BY <3>2
  <2>3. CASE LiveAllowed(work[a].plan)
    BY <1>5, <2>3 DEF WritePlan
  <2> QED
    BY <2>1, <2>2, <2>3
<1>6. ASSUME NEW a \in Actors, PauseAll(a) PROVE PausedInTime'
  BY <1>6 DEF PauseAll, AfterApply, Goto
<1>7. ASSUME NEW a \in Actors, StoreIds(a) PROVE PausedInTime'
  BY <1>7 DEF StoreIds, Effected, Goto
<1>8. ASSUME NEW a \in Actors, SetSource(a) PROVE PausedInTime'
  BY <1>8 DEF SetSource, Effected, Goto
<1>9. ASSUME NEW a \in Actors, Record(a) PROVE PausedInTime'
  BY <1>9 DEF Record, Goto
<1>10. ASSUME ReadForResume \/ WriteResume PROVE PausedInTime'
  BY <1>10 DEF ReadForResume, WriteResume
<1>11. ASSUME NEW A \in SUBSET Actors, Abandon(A) PROVE PausedInTime'
  BY <1>11 DEF Abandon
<1> QED
  BY <1>1, <1>2, <1>3, <1>4, <1>5, <1>6, <1>7, <1>8, <1>9, <1>10, <1>11 DEF Next, Run, Fail, Crash

-----------------------------------------------------------------------------
(* The invariant of billing: types, an event is recorded and answered after  *)
(* its effect, a downgrade pauses before it is done (billing/webhook.go,     *)
(* billing/apply_plan.go).                                                   *)
THEOREM BillingInvariance == Spec => []BillingInv
<1>1. Init => BillingInv
  <2>1. ASSUME Init PROVE TypeOK
    <3> USE <2>1, BillingConstantsOK DEF Init
    <3>1. events \in Seq([kind : Kinds, plan : Plans]) /\ Len(events) <= MaxEvents
      OBVIOUS
    <3>2. sub \in [price : Plans, tag : Plans] /\ NoWork \in Works
      BY DEF NoSub, NoWork, Works, Kinds, Plans
    <3>3. user \in [plan : Plans, source : {"free", "stripe", "admin"}, subscribed : BOOLEAN] /\ granted \in Plans
      BY DEF Plans
    <3> QED
      BY <3>1, <3>2, <3>3 DEF TypeOK, Steps, Plans, Resources
  <2> QED
    BY <2>1 DEF Init, BillingInv, RecordedLast, AckedIsHandled, PausedInTime
<1>2. BillingInv /\ [Next]_vars => BillingInv'
  <2> SUFFICES ASSUME BillingInv, [Next]_vars PROVE BillingInv'
    OBVIOUS
  <2>1. CASE Next
    BY <2>1, TypesHold, RecordedStaysLast, PausesStayInTime DEF BillingInv
  <2>2. CASE UNCHANGED vars
    BY <2>2 DEF vars, stripeVars, actorVars, historyVars, BillingInv, TypeOK, RecordedLast, AckedIsHandled,
       PausedInTime, Pausing
  <2> QED
    BY <2>1, <2>2
<1> QED
  BY <1>1, <1>2, PTL DEF Spec

(* Stripe is told 200 only for an event that has taken effect, however many  *)
(* deliveries overlap and whatever fails (billing/webhook.go Handle).        *)
THEOREM AckedEventsTookEffect == Spec => []AckedIsHandled
<1>1. BillingInv => AckedIsHandled
  BY DEF BillingInv
<1> QED
  BY <1>1, BillingInvariance, PTL

(* After a downgrade nothing of what the plan forbids runs, unless a pause   *)
(* was lost or somebody acted on a plan that had changed                     *)
(* (billing/apply_plan.go Apply).                                            *)
THEOREM DowngradesPause == Spec => []DowngradePauses
<1>1. BillingInv => DowngradePauses
  BY DEF BillingInv, PausedInTime, Pausing, DowngradePauses, Settled, Idle
<1> QED
  BY <1>1, BillingInvariance, PTL
-----------------------------------------------------------------------------
(* Following the subscription.  While requests neither overlap nor overtake    *)
(* one another, the acknowledged events are the first k, and what they leave   *)
(* behind is read off a table of marks, one per number of events: the plan,    *)
(* and whether a subscription is alive.                                        *)

Marks == [plan : Plans, alive : BOOLEAN]
Mark(e) == [plan |-> e.plan, alive |-> e.kind # "deleted"]

Table(tl) ==
    /\ tl \in [0..Len(events) -> Marks]
    /\ tl[0] = [plan |-> 0, alive |-> FALSE]
    /\ \A i \in 1..Len(events) :
          /\ events[i].kind \in Kinds \ {"admin"}
          /\ tl[i] = IF events[i].kind = "notice" THEN tl[i - 1] ELSE Mark(events[i])
          /\ events[i].kind = "checkout" <=> ~tl[i - 1].alive
    /\ tl[Len(events)] = [plan |-> PlanOf(sub), alive |-> sub # NoSub]

Matches(m) ==
    /\ user.plan = m.plan
    /\ user.source = IF m.alive THEN "stripe" ELSE "free"
    /\ user.subscribed = m.alive

\* What the user's row is when every event up to the mark has been applied.
Base(m) ==
    /\ user.source = "admin" => user.plan = granted
    /\ user.source # "admin" => Matches(m)

\* What it is while the next event may have been applied in part.
Pending(tl, k) ==
    IF k = Len(events) THEN Base(tl[k])
    ELSE CASE events[k + 1].kind = "checkout" -> TRUE
           [] events[k + 1].kind = "updated" ->
                 user.source # "stripe" => user.source = "admin" /\ user.plan = granted
           [] events[k + 1].kind = "deleted" ->
                 user.source # "stripe" => Base(tl[k + 1])
           [] OTHER -> Base(tl[k])

Applying == Resources \cup {"ids", "source"}

\* An admin's request between the plan and the source.
Halfway(a) == work[a].kind = "admin" /\ step[a] \in Applying

\* A delivery is of an acknowledged event or of the next one, and past "exists" only
\* of the next one.
AtWork(a, k) ==
    /\ step[a] = "exists" => work[a].id <= k + 1
    /\ step[a] \notin {"idle", "exists"} => work[a].id = k + 1
    /\ work[a].id \in 1..Len(events)
    /\ work[a].kind = events[work[a].id].kind /\ work[a].plan = events[work[a].id].plan
    /\ step[a] = "find" => work[a].kind \in {"updated", "deleted"}
    /\ step[a] \in {"read", "plan"} \cup Applying => work[a].kind # "notice"
    /\ step[a] = "source" => work[a].kind # "updated"

\* How far its effect has come.
Effect(a, tl, k) ==
    /\ step[a] \in {"read", "plan"} \cup Applying /\ work[a].kind # "checkout" =>
          user.source = "stripe"
    /\ step[a] \in Applying => user.plan = work[a].plan
    /\ step[a] = "source" => user.subscribed = (work[a].kind # "deleted")
    /\ step[a] = "record" => Base(tl[k + 1])

Follows(tl, k) ==
    /\ acked = 1..k /\ recorded = 1..k
    /\ Table(tl)
    /\ \A a, b \in Actors : step[a] # "idle" /\ step[b] # "idle" => a = b
    /\ \A a \in Actors : step[a] # "idle" =>
          IF work[a].kind = "admin" THEN step[a] \in {"read", "plan", "source"} \cup Resources
          ELSE AtWork(a, k)
    /\ \A a \in Actors : Halfway(a) => user.plan = work[a].plan
    /\ ~torn => /\ (\A a \in Actors : ~Halfway(a)) => Pending(tl, k)
                /\ \A a \in Actors : step[a] # "idle" /\ work[a].kind # "admin" => Effect(a, tl, k)

FollowsInv == ~mixed => \E k \in 0..Len(events), tl \in [0..Len(events) -> Marks] : Follows(tl, k)

\* The rows of the table, for the steps that read it.
LEMMA TableRows ==
    ASSUME TypeOK, NEW tl, Table(tl), NEW i \in 1..Len(events)
    PROVE  /\ tl[i] \in Marks /\ tl[i - 1] \in Marks
           /\ events[i] \in [kind : Kinds, plan : Plans] /\ events[i].kind # "admin"
           /\ tl[i] = IF events[i].kind = "notice" THEN tl[i - 1] ELSE Mark(events[i])
           /\ events[i].kind = "checkout" <=> ~tl[i - 1].alive
<1>1. Len(events) \in Nat
  BY DEF TypeOK
<1>2. i \in 0..Len(events) /\ i - 1 \in 0..Len(events)
  BY <1>1
<1> QED
  BY <1>2, EventsTyped DEF Table

\* Once an event has taken effect the next may be applied.
LEMMA BaseIsPending ==
    ASSUME TypeOK, NEW tl, Table(tl), NEW k \in 0..Len(events), Base(tl[k])
    PROVE  Pending(tl, k)
<1>1. CASE k = Len(events)
  BY <1>1 DEF Pending
<1>2. CASE k # Len(events)
  <2>1. k + 1 \in 1..Len(events) /\ (k + 1) - 1 = k
    BY <1>2 DEF TypeOK
  <2>2. events[k + 1].kind = "checkout" <=> ~tl[k].alive
    BY <2>1, TableRows
  <2> QED
    BY <1>2, <2>2 DEF Pending, Base, Matches
<1> QED
  BY <1>1, <1>2

\* A delivery that is under way stands alone.
LEMMA Alone ==
    ASSUME NEW tl, NEW k, Follows(tl, k), NEW a \in Actors, step[a] # "idle",
           NEW b \in Actors, b # a
    PROVE  step[b] = "idle"
  BY DEF Follows

\* A step of a at the same k: what has to be shown of a, of the row and of nobody else.
LEMMA ActorStepFollows ==
    ASSUME TypeOK, NEW k \in 0..Len(events), NEW tl, Follows(tl, k), NEW a \in Actors,
           \A b \in Actors : b # a => step[b] = "idle" /\ step'[b] = "idle",
           UNCHANGED <<sub, events, acked, recorded>>,
           step'[a] # "idle" =>
               IF work'[a].kind = "admin" THEN step'[a] \in {"read", "plan", "source"} \cup Resources
               ELSE AtWork(a, k)',
           Halfway(a)' => user'.plan = work'[a].plan,
           ~torn' /\ ~Halfway(a)' => Pending(tl, k)',
           ~torn' /\ step'[a] # "idle" /\ work'[a].kind # "admin" => Effect(a, tl, k)'
    PROVE  Follows(tl, k)'
<1>1. Table(tl)'
  BY DEF Follows, Table, PlanOf, Mark
<1>2. \A b \in Actors : Halfway(b)' => b = a
  BY DEF Halfway, Applying, Resources
<1>3. \A b, c \in Actors : step'[b] # "idle" /\ step'[c] # "idle" => b = c
  OBVIOUS
<1>4. acked' = 1..k /\ recorded' = 1..k
  BY DEF Follows
<1>5. \A b \in Actors : Halfway(b)' => user'.plan = work'[b].plan
  BY <1>2
<1>6. \A b \in Actors : step'[b] # "idle" =>
          IF work'[b].kind = "admin" THEN step'[b] \in {"read", "plan", "source"} \cup Resources
          ELSE AtWork(b, k)'
  OBVIOUS
<1>7. ~torn' => /\ (\A b \in Actors : ~Halfway(b)') => Pending(tl, k)'
                /\ \A b \in Actors : step'[b] # "idle" /\ work'[b].kind # "admin" => Effect(b, tl, k)'
  OBVIOUS
<1> QED
  BY <1>1, <1>3, <1>4, <1>5, <1>6, <1>7 DEF Follows

\* Stripe emits an event: the table grows by a row.
LEMMA EmitFollows ==
    ASSUME TypeOK, TypeOK', NEW k \in 0..Len(events), NEW tl, Follows(tl, k),
           Subscribe \/ Switch \/ Cancel \/ Notice
    PROVE  /\ k \in 0..Len(events')
           /\ \E t \in [0..Len(events') -> Marks] : Follows(t, k)'
<1> DEFINE n == Len(events)
           m == [plan |-> PlanOf(sub'), alive |-> sub' # NoSub]
           grown == [i \in 0..(n + 1) |-> IF i <= n THEN tl[i] ELSE m]
<1>1. PICK kind \in Kinds \ {"admin"}, p \in Plans :
         /\ Emit(kind, p)
         /\ kind = "checkout" <=> sub = NoSub
         /\ m = IF kind = "notice" THEN [plan |-> PlanOf(sub), alive |-> sub # NoSub]
                ELSE Mark([kind |-> kind, plan |-> p])
  <2> USE DEF TypeOK, Plans, Kinds, PlanOf, NoSub, Mark
  <2>1. CASE Subscribe
    <3>1. PICK p \in Paid : sub' = [price |-> p, tag |-> p] /\ Emit("checkout", p)
      BY <2>1 DEF Subscribe
    <3>2. p \in Plans /\ p # 0
      BY BillingConstantsOK
    <3> QED
      BY <2>1, <3>1, <3>2 DEF Subscribe
  <2>2. CASE Switch
    <3>1. PICK p \in Paid, x \in {sub.tag, 0} : sub' = [price |-> p, tag |-> x]
      BY <2>2 DEF Switch
    <3>2. p \in Plans /\ p # 0
      BY BillingConstantsOK
    <3>3. Emit("updated", PlanOf(sub')) /\ sub # NoSub /\ sub' # NoSub /\ PlanOf(sub') \in Plans
      BY <2>2, <3>1, <3>2 DEF Switch
    <3>4. m = Mark([kind |-> "updated", plan |-> PlanOf(sub')])
      BY <3>3
    <3> QED
      BY <3>3, <3>4
  <2>3. CASE Cancel
    BY <2>3 DEF Cancel
  <2>4. CASE Notice
    BY <2>4 DEF Notice
  <2> QED
    BY <2>1, <2>2, <2>3, <2>4
<1>2. n \in Nat /\ Len(events') = n + 1 /\ events' = Append(events, [kind |-> kind, plan |-> p])
  BY <1>1 DEF Emit, TypeOK
<1>3. /\ events'[n + 1] = [kind |-> kind, plan |-> p]
      /\ \A i \in 1..n : events'[i] = events[i]
  BY <1>2 DEF TypeOK
<1>4. Table(tl)
  BY DEF Follows
<1>5. tl[n] = [plan |-> PlanOf(sub), alive |-> sub # NoSub]
  BY <1>4 DEF Table
<1>alive. tl[n].alive <=> sub # NoSub
  <2> DEFINE r == [plan |-> PlanOf(sub), alive |-> sub # NoSub]
  <2>1. r.alive = (sub # NoSub)
    OBVIOUS
  <2>2. tl[n] = r
    BY <1>5
  <2> HIDE DEF r
  <2> QED
    BY <2>1, <2>2
<1>6. m \in Marks
  BY <1>1, <1>4, <1>5, <1>2 DEF Marks, Mark, Table
<1>t. PICK t : t = grown
  OBVIOUS
<1>7. t \in [0..Len(events') -> Marks]
  BY <1>2, <1>4, <1>6, <1>t DEF Table
<1>8. /\ t[n + 1] = m /\ t[n] = tl[n] /\ t[0] = tl[0]
      /\ \A i \in 0..n : t[i] = tl[i]
  BY <1>2, <1>t
<1>9. \A i \in 1..n : i - 1 \in 0..n /\ i \in 0..n
  BY <1>2
<1> HIDE DEF grown, m
<1>10. Table(t)'
  <2>1. t[0] = [plan |-> 0, alive |-> FALSE]
    BY <1>4, <1>8 DEF Table
  <2>2. t[n + 1] = [plan |-> PlanOf(sub'), alive |-> sub' # NoSub]
    BY <1>8 DEF m
  <2>3. ASSUME NEW i \in 1..n
        PROVE  /\ events'[i].kind \in Kinds \ {"admin"}
               /\ t[i] = IF events'[i].kind = "notice" THEN t[i - 1] ELSE Mark(events'[i])
               /\ events'[i].kind = "checkout" <=> ~t[i - 1].alive
    BY <1>3, <1>4, <1>8, <1>9 DEF Table
  <2>4. /\ events'[n + 1].kind \in Kinds \ {"admin"}
        /\ t[n + 1] = IF events'[n + 1].kind = "notice" THEN t[n] ELSE Mark(events'[n + 1])
        /\ events'[n + 1].kind = "checkout" <=> ~t[n].alive
    BY <1>1, <1>3, <1>5, <1>8, <1>alive
  <2>5. \A i \in 1..(n + 1) : i \in 1..n \/ (i = n + 1 /\ i - 1 = n)
    BY <1>2
  <2>6. ASSUME NEW i \in 1..(n + 1)
        PROVE  /\ events'[i].kind \in Kinds \ {"admin"}
               /\ t[i] = IF events'[i].kind = "notice" THEN t[i - 1] ELSE Mark(events'[i])
               /\ events'[i].kind = "checkout" <=> ~t[i - 1].alive
    BY <2>3, <2>4, <2>5
  <2> QED
    BY <1>2, <1>7, <2>1, <2>2, <2>6 DEF Table, Mark
<1>11. UNCHANGED <<acked, recorded, user, step, work, granted, torn>>
  BY <1>1 DEF Emit, actorVars, historyVars
<1>12. ASSUME Base(tl[k]) PROVE Pending(t, k)'
  <2>1. CASE k = n
    <3>1. events'[k + 1].kind = "checkout" <=> ~t[k].alive
      BY <1>1, <1>3, <1>8, <1>alive, <2>1
    <3>2. k # Len(events')
      BY <1>2, <2>1
    <3>3. Base(t[k])'
      BY <1>8, <1>11, <1>12 DEF Base, Matches
    <3> QED
      BY <1>11, <3>1, <3>2, <3>3 DEF Pending, Base, Matches
  <2>2. CASE k # n
    <3>1. Pending(tl, k)
      BY <1>4, <1>12, BaseIsPending
    <3>2. k + 1 \in 1..n /\ k # Len(events') /\ k # Len(events)
      BY <1>2, <2>2
    <3>3. t[k] = tl[k] /\ t[k + 1] = tl[k + 1] /\ events'[k + 1] = events[k + 1]
      BY <1>3, <1>8, <1>9, <3>2
    <3> QED
      BY <1>11, <3>1, <3>2, <3>3 DEF Pending, Base, Matches
  <2> QED
    BY <2>1, <2>2
<1>13. ASSUME Pending(tl, k) PROVE Pending(t, k)'
  <2>1. CASE k = n
    BY <1>12, <1>13, <2>1 DEF Pending
  <2>2. CASE k # n
    <3>1. k + 1 \in 1..n /\ k # Len(events') /\ k # Len(events)
      BY <1>2, <2>2
    <3>2. t[k] = tl[k] /\ t[k + 1] = tl[k + 1] /\ events'[k + 1] = events[k + 1]
      BY <1>3, <1>8, <1>9, <3>1
    <3> QED
      BY <1>11, <1>13, <3>1, <3>2 DEF Pending, Base, Matches
  <2> QED
    BY <2>1, <2>2
<1>14. ASSUME NEW a \in Actors, AtWork(a, k) PROVE AtWork(a, k)'
  BY <1>2, <1>3, <1>11, <1>14 DEF AtWork
<1>15. ASSUME NEW a \in Actors, step[a] # "idle", work[a].kind # "admin", AtWork(a, k), Effect(a, tl, k)
       PROVE  Effect(a, t, k)'
  <2>1. CASE step[a] = "record"
    <3>1. k + 1 \in 0..n
      BY <1>15, <1>2, <2>1 DEF AtWork
    <3>2. t[k + 1] = tl[k + 1]
      BY <1>8, <3>1
    <3> QED
      BY <1>11, <1>15, <2>1, <3>2 DEF Effect, Base, Matches, Applying, Resources
  <2>2. CASE step[a] # "record"
    BY <1>11, <1>15, <2>2 DEF Effect
  <2> QED
    BY <2>1, <2>2
<1>16. Follows(t, k)'
  <2>1. \A a \in Actors : Halfway(a)' <=> Halfway(a)
    BY <1>11 DEF Halfway
  <2>2. acked' = 1..k /\ recorded' = 1..k
    BY <1>11 DEF Follows
  <2>3. \A a, b \in Actors : step'[a] # "idle" /\ step'[b] # "idle" => a = b
    BY <1>11 DEF Follows
  <2>4. \A a \in Actors : step'[a] # "idle" =>
          IF work'[a].kind = "admin" THEN step'[a] \in {"read", "plan", "source"} \cup Resources
          ELSE AtWork(a, k)'
    BY <1>11, <1>14 DEF Follows
  <2>5. \A a \in Actors : Halfway(a)' => user'.plan = work'[a].plan
    BY <1>11, <2>1 DEF Follows
  <2>6. ~torn' /\ (\A a \in Actors : ~Halfway(a)') => Pending(t, k)'
    BY <1>11, <1>13, <2>1 DEF Follows
  <2>7. ASSUME ~torn', NEW a \in Actors, step'[a] # "idle", work'[a].kind # "admin"
        PROVE  Effect(a, t, k)'
    BY <1>11, <1>15, <2>7 DEF Follows
  <2> QED
    BY <1>10, <2>2, <2>3, <2>4, <2>5, <2>6, <2>7 DEF Follows
<1>17. k \in 0..Len(events')
  BY <1>2
<1> QED
  BY <1>7, <1>16, <1>17

\* A request that starts alone: of an acknowledged event, of the next one, or an admin's.
LEMMA StartFollows ==
    ASSUME TypeOK, TypeOK', NEW k \in 0..Len(events), NEW tl, Follows(tl, k), NEW a \in Actors,
           Deliver(a) \/ StartGrant(a), ~mixed'
    PROVE  Follows(tl, k)'
<1> USE DEF TypeOK, stripeVars, actorVars, historyVars
<1>1. /\ Idle /\ \A b \in Actors : step'[b] = IF b = a THEN step'[a] ELSE "idle"
      /\ UNCHANGED <<sub, events, acked, recorded, user, granted, torn>>
  BY DEF Deliver, StartGrant, Idle
<1>2. /\ \A b \in Actors : ~Halfway(b)
      /\ ~Halfway(a)'
  BY <1>1 DEF Halfway, Applying, Resources, Idle, Deliver, StartGrant
<1>3. ~torn' => Pending(tl, k)'
  <2>1. ~torn => Pending(tl, k)
    BY <1>2 DEF Follows
  <2> QED
    BY <1>1, <2>1 DEF Pending, Base, Matches
<1>4. CASE StartGrant(a)
  <2>1. step'[a] = "read" /\ work'[a].kind = "admin"
    BY <1>4 DEF StartGrant, Works
  <2> QED
    BY <1>1, <1>2, <1>3, <2>1, ActorStepFollows DEF Idle
<1>5. CASE Deliver(a)
  <2>1. PICK e \in 1..Len(events) :
           /\ 1..(e - 1) \subseteq acked
           /\ work' = [work EXCEPT ![a] = [kind |-> events[e].kind, plan |-> events[e].plan, id |-> e]]
    BY <1>5 DEF Deliver
  <2>2. work'[a] = [kind |-> events[e].kind, plan |-> events[e].plan, id |-> e] /\ step'[a] = "exists"
    BY <1>5, <2>1 DEF Deliver
  <2>3. e <= k + 1
    <3>1. 1..(e - 1) \subseteq 1..k
      BY <2>1 DEF Follows
    <3>2. e > 1 => e - 1 \in 1..(e - 1)
      OBVIOUS
    <3>3. k \in Nat /\ e \in Nat
      OBVIOUS
    <3>4. e > 1 => e - 1 \in 1..k
      BY <3>1, <3>2
    <3> QED
      BY <3>3, <3>4
  <2>4. events[e].kind # "admin"
    BY TableRows DEF Follows
  <2>5. AtWork(a, k)'
    BY <1>1, <2>2, <2>3 DEF AtWork, Applying, Resources
  <2>6. Effect(a, tl, k)'
    BY <2>2 DEF Effect, Applying, Resources
  <2> QED
    BY <1>1, <1>2, <1>3, <2>2, <2>4, <2>5, <2>6, ActorStepFollows DEF Idle
<1> QED
  BY <1>4, <1>5

\* The steps of one request move nobody else.
LEMMA OneMoves ==
    ASSUME TypeOK, NEW k, NEW tl, Follows(tl, k), NEW a \in Actors, Run(a)
    PROVE  \A b \in Actors : b # a => step[b] = "idle" /\ step'[b] = "idle"
<1>1. step[a] # "idle"
  BY DEF Run, Exists, Find, ReadPlan, WritePlan, PauseAll, StoreIds, SetSource, Record, Resources
<1>2. \E s : Goto(a, s)
  BY DEF Run, Exists, Find, ReadPlan, WritePlan, PauseAll, StoreIds, SetSource, Record, Effected
<1> QED
  BY <1>1, <1>2, Alone DEF Goto, TypeOK

\* The row of the event that is next, for its own delivery.
LEMMA NextRow ==
    ASSUME TypeOK, NEW k \in 0..Len(events), NEW tl, Follows(tl, k), NEW a \in Actors,
           step[a] \notin {"idle", "exists"}, work[a].kind # "admin"
    PROVE  /\ AtWork(a, k) /\ k # Len(events)
           /\ k + 1 \in 1..Len(events) /\ (k + 1) - 1 = k
           /\ work[a].kind = events[k + 1].kind /\ work[a].plan = events[k + 1].plan
           /\ work[a].id = k + 1
           /\ tl[k + 1] = IF work[a].kind = "notice" THEN tl[k]
                          ELSE [plan |-> work[a].plan, alive |-> work[a].kind # "deleted"]
           /\ work[a].kind = "checkout" <=> ~tl[k].alive
<1>1. AtWork(a, k) /\ Table(tl)
  BY DEF Follows
<1>2. k \in Nat /\ Len(events) \in Nat /\ work[a].id = k + 1 /\ k + 1 \in 1..Len(events)
  BY <1>1 DEF AtWork, TypeOK
<1>3. (k + 1) - 1 = k /\ k # Len(events)
  BY <1>2
<1>4. /\ tl[k + 1] = IF events[k + 1].kind = "notice" THEN tl[k] ELSE Mark(events[k + 1])
      /\ events[k + 1].kind = "checkout" <=> ~tl[k].alive
  BY <1>1, <1>2, <1>3, TableRows
<1> QED
  BY <1>1, <1>2, <1>3, <1>4 DEF AtWork, Mark

LEMMA ExistsFollows ==
    ASSUME TypeOK, TypeOK', NEW k \in 0..Len(events), NEW tl, Follows(tl, k), NEW a \in Actors, Exists(a)
    PROVE  Follows(tl, k)'
<1> USE DEF TypeOK, stripeVars, actorVars, historyVars
<1>1. \A b \in Actors : b # a => step[b] = "idle" /\ step'[b] = "idle"
  BY OneMoves DEF Run
<1>2. UNCHANGED <<sub, events, recorded, user, granted, torn>>
  BY DEF Exists
<1>3. work[a].kind # "admin" /\ AtWork(a, k) /\ acked = 1..k /\ recorded = 1..k
  BY DEF Exists, Follows, Resources
<1>4. acked' = acked
  BY <1>3 DEF Exists
<1>5. ~Halfway(a) /\ \A b \in Actors : ~Halfway(b)
  BY <1>1, <1>3 DEF Halfway, Applying, Resources
<1>6. ~torn' => Pending(tl, k)' /\ Pending(tl, k)
  <2>1. ~torn => Pending(tl, k)
    BY <1>5 DEF Follows
  <2> QED
    BY <1>2, <2>1 DEF Pending, Base, Matches
<1>7. CASE step'[a] = "idle"
  BY <1>1, <1>2, <1>4, <1>6, <1>7, ActorStepFollows DEF Halfway, Applying, Resources
<1>8. CASE step'[a] # "idle"
  <2>1. /\ work[a].id \notin recorded /\ work' = work
        /\ step'[a] = CASE work[a].kind = "notice" -> "record"
                        [] work[a].kind = "checkout" -> "read"
                        [] OTHER -> "find"
    BY <1>8 DEF Exists, Effected, Goto
  <2>2. work[a].id = k + 1 /\ k + 1 \in 1..Len(events) /\ k # Len(events)
    BY <1>3, <2>1 DEF AtWork, Exists
  <2>3. AtWork(a, k)' /\ work'[a].kind # "admin" /\ ~Halfway(a)'
    BY <1>2, <1>3, <2>1, <2>2 DEF AtWork, Exists, Applying, Resources, Works, Kinds, Halfway
  <2>4. ASSUME ~torn' PROVE Effect(a, tl, k)'
    <3>1. CASE work[a].kind = "notice"
      <4>1. tl[k + 1] = tl[k] /\ Base(tl[k])
        <5>1. events[k + 1].kind = "notice" /\ (k + 1) - 1 = k
          BY <1>3, <2>2, <3>1 DEF AtWork
        <5>2. tl[k + 1] = tl[k]
          BY <2>2, <5>1 DEF Follows, Table
        <5> QED
          BY <1>6, <2>2, <2>4, <5>1, <5>2 DEF Pending
      <4> QED
        BY <1>2, <2>1, <3>1, <4>1 DEF Effect, Applying, Resources, Base, Matches
    <3>2. CASE work[a].kind = "checkout"
      BY <2>1, <3>2 DEF Effect, Applying, Resources
    <3>3. CASE work[a].kind \notin {"notice", "checkout"}
      BY <2>1, <3>3 DEF Effect, Applying, Resources
    <3> QED
      BY <3>1, <3>2, <3>3
  <2> QED
    BY <1>1, <1>2, <1>4, <1>6, <2>3, <2>4, ActorStepFollows
<1> QED
  BY <1>7, <1>8

LEMMA FindFollows ==
    ASSUME TypeOK, TypeOK', NEW k \in 0..Len(events), NEW tl, Follows(tl, k), NEW a \in Actors, Find(a)
    PROVE  Follows(tl, k)'
<1> USE DEF TypeOK, stripeVars, actorVars, historyVars
<1>1. \A b \in Actors : b # a => step[b] = "idle" /\ step'[b] = "idle"
  BY OneMoves DEF Run
<1>2. UNCHANGED <<sub, events, acked, recorded, user, granted, torn>>
  BY DEF Find
<1>3. work[a].kind # "admin"
  BY DEF Find, Follows, Resources
<1>4. \A b \in Actors : ~Halfway(b)
  BY <1>1, <1>3 DEF Halfway, Applying, Resources
<1>5. ~torn' => Pending(tl, k)' /\ Pending(tl, k)
  <2>1. ~torn => Pending(tl, k)
    BY <1>4 DEF Follows
  <2> QED
    BY <1>2, <2>1 DEF Pending, Base, Matches
<1>6. /\ work' = work /\ work[a].kind \in {"updated", "deleted"}
      /\ step'[a] = IF user.source = "stripe" THEN "read" ELSE "record"
  BY <1>3, NextRow DEF Find, Effected, Goto, AtWork
<1>7. AtWork(a, k)' /\ ~Halfway(a)'
  <2>1. AtWork(a, k) /\ work[a].id = k + 1
    BY <1>3, NextRow DEF Find
  <2>2. step'[a] \in {"read", "record"}
    BY <1>6
  <2> QED
    BY <1>2, <1>3, <1>6, <2>1, <2>2 DEF AtWork, Applying, Resources, Halfway
<1>8. ASSUME ~torn' PROVE Effect(a, tl, k)'
  <2>1. CASE user.source = "stripe"
    BY <1>2, <1>6, <2>1 DEF Effect, Applying, Resources
  <2>2. CASE user.source # "stripe"
    <3>1. k # Len(events) /\ events[k + 1].kind \in {"updated", "deleted"}
      BY <1>3, <1>6, NextRow DEF Find
    <3>2. Base(tl[k + 1])
      BY <1>5, <1>8, <2>2, <3>1 DEF Pending, Base
    <3> QED
      BY <1>2, <1>6, <2>2, <3>2 DEF Effect, Applying, Resources, Base, Matches
  <2> QED
    BY <2>1, <2>2
<1> QED
  BY <1>1, <1>2, <1>5, <1>6, <1>7, <1>8, ActorStepFollows

LEMMA ReadPlanFollows ==
    ASSUME TypeOK, TypeOK', NEW k \in 0..Len(events), NEW tl, Follows(tl, k), NEW a \in Actors, ReadPlan(a)
    PROVE  Follows(tl, k)'
<1> USE DEF TypeOK, stripeVars, actorVars, historyVars
<1>1. \A b \in Actors : b # a => step[b] = "idle" /\ step'[b] = "idle"
  BY OneMoves DEF Run
<1>2. UNCHANGED <<sub, events, acked, recorded, user, granted, torn>> /\ step[a] = "read"
  BY DEF ReadPlan
<1>3. work' = work /\ step'[a] = "plan"
  BY DEF ReadPlan, Goto
<1>4. \A b \in Actors : ~Halfway(b)
  BY <1>1, <1>2 DEF Halfway, Applying, Resources
<1>5. ~torn' => Pending(tl, k)'
  <2>1. ~torn => Pending(tl, k)
    BY <1>4 DEF Follows
  <2> QED
    BY <1>2, <2>1 DEF Pending, Base, Matches
<1>6. CASE work[a].kind = "admin"
  BY <1>1, <1>2, <1>3, <1>5, <1>6, ActorStepFollows DEF Halfway, Applying, Resources
<1>7. CASE work[a].kind # "admin"
  <2>1. AtWork(a, k) /\ (~torn => Effect(a, tl, k))
    BY <1>2, <1>7 DEF Follows
  <2>2. AtWork(a, k)'
    BY <1>2, <1>3, <2>1 DEF AtWork, Applying, Resources
  <2>3. ~torn' => Effect(a, tl, k)'
    BY <1>2, <1>3, <2>1 DEF Effect, Applying, Resources
  <2>4. ~Halfway(a)'
    BY <1>3, <1>7 DEF Halfway
  <2> QED
    BY <1>1, <1>2, <1>3, <1>5, <1>7, <2>2, <2>3, <2>4, ActorStepFollows
<1> QED
  BY <1>6, <1>7

\* Somebody who applies the next event leaves it pending.
LEMMA ApplyingIsPending ==
    ASSUME TypeOK, NEW k \in 0..Len(events), NEW tl, Follows(tl, k), NEW a \in Actors,
           step[a] \in {"read", "plan"} \cup Applying, work[a].kind # "admin", ~torn,
           user'.source = user.source \/ work[a].kind = "checkout", UNCHANGED events
    PROVE  Pending(tl, k)'
<1>1. /\ work[a].kind \in {"checkout", "updated", "deleted"}
      /\ k # Len(events) /\ events[k + 1].kind = work[a].kind
  <2>1. step[a] \notin {"idle", "exists"}
    BY DEF Applying, Resources
  <2>2. AtWork(a, k)
    BY <2>1, NextRow
  <2> QED
    BY <2>1, <2>2, NextRow DEF AtWork, TypeOK, Works, Kinds
<1>2. Effect(a, tl, k)
  BY DEF Follows, Applying, Resources
<1> QED
  BY <1>1, <1>2 DEF Pending, Effect

LEMMA WritePlanFollows ==
    ASSUME TypeOK, TypeOK', NEW k \in 0..Len(events), NEW tl, Follows(tl, k), NEW a \in Actors, WritePlan(a)
    PROVE  Follows(tl, k)'
<1> USE DEF TypeOK, stripeVars, actorVars, historyVars
<1>1. \A b \in Actors : b # a => step[b] = "idle" /\ step'[b] = "idle"
  BY OneMoves DEF Run
<1>2. UNCHANGED <<sub, events, acked, recorded, granted, torn>> /\ step[a] = "plan"
  BY DEF WritePlan
<1>3. work' = work /\ step'[a] \in Resources \cup {AfterApply(a)} /\ step'[a] # "idle"
  BY DEF WritePlan, Goto, AfterApply, Resources
<1>4. user' = [user EXCEPT !.plan = work[a].plan]
  BY DEF WritePlan
<1>5. user'.plan = work[a].plan /\ user'.source = user.source /\ user'.subscribed = user.subscribed
  BY <1>4
<1>6. CASE work[a].kind = "admin"
  <2>1. step'[a] \in Resources \cup {"source"} /\ Halfway(a)'
    BY <1>3, <1>6 DEF AfterApply, Halfway, Applying
  <2> QED
    BY <1>1, <1>2, <1>3, <1>5, <1>6, <2>1, ActorStepFollows
<1>7. CASE work[a].kind # "admin"
  <2>1. AtWork(a, k) /\ (~torn => Effect(a, tl, k))
    BY <1>2, <1>7 DEF Follows
  <2>2. step'[a] \in Resources \cup {"ids"}
    BY <1>3, <1>7 DEF AfterApply
  <2>3. AtWork(a, k)'
    BY <1>2, <1>3, <2>1, <2>2 DEF AtWork, Applying, Resources
  <2>4. ~torn' => Effect(a, tl, k)'
    BY <1>2, <1>3, <1>5, <2>1, <2>2 DEF Effect, Applying, Resources
  <2>5. ~Halfway(a)'
    BY <1>3, <1>7 DEF Halfway
  <2>6. ~torn' => Pending(tl, k)'
    BY <1>2, <1>5, <1>7, ApplyingIsPending DEF Applying
  <2> QED
    BY <1>1, <1>2, <1>3, <1>7, <2>3, <2>4, <2>5, <2>6, ActorStepFollows
<1> QED
  BY <1>6, <1>7

LEMMA PauseAllFollows ==
    ASSUME TypeOK, TypeOK', NEW k \in 0..Len(events), NEW tl, Follows(tl, k), NEW a \in Actors, PauseAll(a)
    PROVE  Follows(tl, k)'
<1> USE DEF TypeOK, stripeVars, actorVars, historyVars
<1>1. \A b \in Actors : b # a => step[b] = "idle" /\ step'[b] = "idle"
  BY OneMoves DEF Run
<1>2. UNCHANGED <<sub, events, acked, recorded, user, granted, torn>> /\ step[a] \in Resources
  BY DEF PauseAll
<1>3. work' = work /\ step'[a] \in {"credential", AfterApply(a)} /\ step'[a] # "idle"
  BY DEF PauseAll, Goto, AfterApply, Resources
<1>6. CASE work[a].kind = "admin"
  <2>1. step'[a] \in Resources \cup {"source"} /\ Halfway(a)' /\ Halfway(a)
    BY <1>2, <1>3, <1>6 DEF AfterApply, Halfway, Applying, Resources
  <2>2. user'.plan = work'[a].plan
    BY <1>2, <1>3, <2>1 DEF Follows
  <2> QED
    BY <1>1, <1>2, <1>3, <1>6, <2>1, <2>2, ActorStepFollows
<1>7. CASE work[a].kind # "admin"
  <2>1. AtWork(a, k) /\ (~torn => Effect(a, tl, k))
    BY <1>2, <1>7 DEF Follows, Resources
  <2>2. step'[a] \in {"credential", "ids"}
    BY <1>3, <1>7 DEF AfterApply
  <2>3. AtWork(a, k)'
    BY <1>2, <1>3, <2>1, <2>2 DEF AtWork, Applying, Resources
  <2>4. ~torn' => Effect(a, tl, k)'
    BY <1>2, <1>3, <2>1, <2>2 DEF Effect, Applying, Resources
  <2>5. ~Halfway(a)'
    BY <1>3, <1>7 DEF Halfway
  <2>6. ~torn' => Pending(tl, k)'
    BY <1>2, <1>7, ApplyingIsPending DEF Applying
  <2> QED
    BY <1>1, <1>2, <1>3, <1>7, <2>3, <2>4, <2>5, <2>6, ActorStepFollows
<1> QED
  BY <1>6, <1>7

LEMMA StoreIdsFollows ==
    ASSUME TypeOK, TypeOK', NEW k \in 0..Len(events), NEW tl, Follows(tl, k), NEW a \in Actors, StoreIds(a)
    PROVE  Follows(tl, k)'
<1> USE DEF TypeOK, stripeVars, actorVars, historyVars
<1>1. \A b \in Actors : b # a => step[b] = "idle" /\ step'[b] = "idle"
  BY OneMoves DEF Run
<1>2. UNCHANGED <<sub, events, acked, recorded, granted, torn>> /\ step[a] = "ids"
  BY DEF StoreIds
<1>3. work' = work /\ step'[a] = IF work[a].kind = "updated" THEN "record" ELSE "source"
  BY DEF StoreIds, Effected, Goto
<1>4. user' = [user EXCEPT !.subscribed = work[a].kind # "deleted"]
  BY DEF StoreIds
<1>5. user'.plan = user.plan /\ user'.source = user.source /\ user'.subscribed = (work[a].kind # "deleted")
  BY <1>4
<1>6. work[a].kind # "admin"
  BY <1>2 DEF Follows, Resources
<1>7. AtWork(a, k) /\ (~torn => Effect(a, tl, k))
  BY <1>2, <1>6 DEF Follows
<1>8. AtWork(a, k)' /\ ~Halfway(a)'
  <2>1. work[a].kind # "notice"
    BY <1>2, <1>7 DEF AtWork, Applying
  <2> QED
    BY <1>2, <1>3, <1>6, <1>7, <2>1 DEF AtWork, Applying, Resources, Halfway
<1>9. ASSUME ~torn' PROVE Effect(a, tl, k)'
  <2>1. CASE work[a].kind = "updated"
    <3>1. tl[k + 1] = [plan |-> work[a].plan, alive |-> work[a].kind # "deleted"]
      BY <1>2, <1>6, <2>1, NextRow
    <3>2. tl[k + 1].plan = work[a].plan /\ tl[k + 1].alive
      <4> DEFINE r == [plan |-> work[a].plan, alive |-> work[a].kind # "deleted"]
      <4>1. r.plan = work[a].plan /\ r.alive = (work[a].kind # "deleted")
        OBVIOUS
      <4>2. tl[k + 1] = r
        BY <3>1
      <4> HIDE DEF r
      <4> QED
        BY <2>1, <4>1, <4>2
    <3>3. user.source = "stripe" /\ user.plan = work[a].plan
      BY <1>2, <1>7, <1>9, <2>1 DEF Effect, Applying
    <3>4. Base(tl[k + 1])'
      BY <1>5, <2>1, <3>2, <3>3 DEF Base, Matches
    <3> QED
      BY <1>3, <2>1, <3>4 DEF Effect, Applying, Resources
  <2>2. CASE work[a].kind # "updated"
    BY <1>2, <1>3, <1>5, <1>7, <1>9, <2>2 DEF Effect, Applying, Resources
  <2> QED
    BY <2>1, <2>2
<1>10. ~torn' => Pending(tl, k)'
  BY <1>2, <1>5, <1>6, ApplyingIsPending DEF Applying
<1> QED
  BY <1>1, <1>2, <1>3, <1>6, <1>8, <1>9, <1>10, ActorStepFollows

LEMMA SetSourceFollows ==
    ASSUME TypeOK, TypeOK', NEW k \in 0..Len(events), NEW tl, Follows(tl, k), NEW a \in Actors, SetSource(a)
    PROVE  Follows(tl, k)'
<1>10. work[a].kind # "admin" /\ step[a] = "source" =>
          /\ k # Len(events) /\ events[k + 1].kind = work[a].kind
          /\ work[a].kind # "notice" => tl[k + 1] = [plan |-> work[a].plan, alive |-> work[a].kind # "deleted"]
  BY NextRow
<1> USE DEF TypeOK, stripeVars, actorVars, historyVars
<1>1. \A b \in Actors : b # a => step[b] = "idle" /\ step'[b] = "idle"
  BY OneMoves DEF Run
<1>2. UNCHANGED <<sub, events, acked, recorded>> /\ step[a] = "source"
  BY DEF SetSource
<1>3. step'[a] = IF work[a].kind = "admin" THEN "idle" ELSE "record"
  BY DEF SetSource, Effected, Goto
<1>4. user' = [user EXCEPT !.source = CASE work[a].kind = "checkout" -> "stripe"
                                        [] work[a].kind = "deleted" -> "free"
                                        [] OTHER -> "admin"]
  BY DEF SetSource
<1>5. user'.plan = user.plan /\ user'.subscribed = user.subscribed
  BY <1>4
<1>6. CASE work[a].kind = "admin"
  <2>1. Halfway(a) /\ ~Halfway(a)'
    BY <1>2, <1>3, <1>6 DEF Halfway, Applying, Resources
  <2>2. user'.source = "admin" /\ user'.plan = granted'
    BY <1>4, <1>5, <1>6, <2>1 DEF SetSource, Follows
  <2>3. Pending(tl, k)'
    BY <1>2, <2>2 DEF Pending, Base
  <2> QED
    BY <1>1, <1>2, <1>3, <1>6, <2>1, <2>3, ActorStepFollows
<1>7. CASE work[a].kind # "admin"
  <2>1. AtWork(a, k) /\ (~torn => Effect(a, tl, k))
    BY <1>2, <1>7 DEF Follows
  <2>2. work' = work /\ torn' = torn /\ granted' = granted /\ work[a].kind \in {"checkout", "deleted"}
    BY <1>2, <1>3, <1>7, <2>1 DEF SetSource, Effected, Goto, AtWork, Applying, Works, Kinds
  <2>3. AtWork(a, k)' /\ ~Halfway(a)'
    BY <1>2, <1>3, <1>7, <2>1, <2>2 DEF AtWork, Applying, Resources, Halfway
  <2>4. ASSUME ~torn' PROVE Base(tl[k + 1])'
    <3> DEFINE r == [plan |-> work[a].plan, alive |-> work[a].kind # "deleted"]
    <3>1. r.plan = work[a].plan /\ r.alive = (work[a].kind # "deleted")
      OBVIOUS
    <3>2. tl[k + 1] = r
      BY <1>2, <1>7, <1>10, <2>2
    <3> HIDE DEF r
    <3>3. user.plan = work[a].plan /\ user.subscribed = (work[a].kind # "deleted")
      BY <1>2, <2>1, <2>2, <2>4 DEF Effect, Applying
    <3>4. user'.source = IF work[a].kind # "deleted" THEN "stripe" ELSE "free"
      BY <1>4, <2>2
    <3>5. user'.plan = r.plan /\ user'.subscribed = r.alive /\ user'.source = IF r.alive THEN "stripe" ELSE "free"
      BY <1>5, <3>1, <3>3, <3>4
    <3> QED
      BY <3>2, <3>5 DEF Base, Matches
  <2>5. ASSUME ~torn' PROVE Effect(a, tl, k)'
    BY <1>3, <1>7, <2>4, <2>5 DEF Effect, Applying, Resources
  <2>6. ASSUME ~torn' PROVE Pending(tl, k)'
    <3>1. k # Len(events) /\ events[k + 1].kind = work[a].kind
      BY <1>2, <1>7, <1>10
    <3> QED
      BY <1>2, <2>2, <2>4, <2>6, <3>1 DEF Pending
  <2> QED
    BY <1>1, <1>2, <1>3, <1>7, <2>2, <2>3, <2>5, <2>6, ActorStepFollows
<1> QED
  BY <1>6, <1>7

\* The event is recorded and answered: the acknowledged ones are the first k + 1.
LEMMA RecordFollows ==
    ASSUME TypeOK, TypeOK', NEW k \in 0..Len(events), NEW tl, Follows(tl, k), NEW a \in Actors, Record(a)
    PROVE  k + 1 \in 0..Len(events) /\ Follows(tl, k + 1)'
<1> USE DEF stripeVars, actorVars, historyVars
<1>1. \A b \in Actors : b # a => step[b] = "idle" /\ step'[b] = "idle"
  BY OneMoves DEF Run
<1>2. UNCHANGED <<sub, events, user, granted, torn>> /\ step[a] = "record" /\ step'[a] = "idle"
  BY DEF Record, Goto, TypeOK
<1>3. work[a].kind # "admin"
  BY <1>2 DEF Follows, Resources
<1>4. AtWork(a, k) /\ (~torn => Effect(a, tl, k)) /\ Table(tl)
  BY <1>2, <1>3 DEF Follows
<1>5. k + 1 \in 0..Len(events) /\ work[a].id = k + 1 /\ k \in Nat
  <2>1. k + 1 \in 1..Len(events) /\ work[a].id = k + 1
    BY <1>2, <1>3, NextRow
  <2>2. Len(events) \in Nat
    BY DEF TypeOK
  <2> QED
    BY <2>1, <2>2
<1>6. acked' = 1..(k + 1) /\ recorded' = 1..(k + 1)
  <2>1. 1..(k + 1) = (1..k) \cup {k + 1}
    BY <1>5
  <2> QED
    BY <1>5, <2>1 DEF Record, Follows
<1>7. ASSUME ~torn PROVE Pending(tl, k + 1)
  BY <1>2, <1>4, <1>5, <1>7, BaseIsPending DEF Effect
<1>8. ~torn' => Pending(tl, k + 1)'
  BY <1>2, <1>7 DEF Pending, Base, Matches
<1>9. \A b \in Actors : step'[b] = "idle" /\ ~Halfway(b)'
  BY <1>1, <1>2 DEF Halfway, Applying, Resources
<1>10. Table(tl)'
  BY <1>2, <1>4 DEF Table, PlanOf
<1> QED
  BY <1>5, <1>6, <1>8, <1>9, <1>10 DEF Follows

\* A failed statement or a crash leaves the next event pending.
LEMMA AbandonFollows ==
    ASSUME TypeOK, TypeOK', NEW k \in 0..Len(events), NEW tl, Follows(tl, k), NEW A \in SUBSET Actors, Abandon(A)
    PROVE  Follows(tl, k)'
<1> USE DEF TypeOK, stripeVars, actorVars, historyVars
<1>1. UNCHANGED <<sub, events, acked, recorded, user, granted>>
  BY DEF Abandon
<1>2. \A b \in Actors : \/ b \in A /\ step'[b] = "idle"
                        \/ b \notin A /\ step'[b] = step[b] /\ work'[b] = work[b]
  BY DEF Abandon
<1>3. \A b \in Actors : Halfway(b)' <=> Halfway(b) /\ b \notin A
  BY <1>2 DEF Halfway, Applying, Resources
<1>4. Table(tl)'
  BY <1>1 DEF Follows, Table, PlanOf
<1>5. \A b, c \in Actors : step'[b] # "idle" /\ step'[c] # "idle" => b = c
  BY <1>2 DEF Follows
<1>6. ASSUME NEW b \in Actors, step'[b] # "idle", work'[b].kind # "admin" PROVE AtWork(b, k)'
  <2>1. AtWork(b, k)
    BY <1>2, <1>6 DEF Follows
  <2> QED
    BY <1>1, <1>2, <1>6, <2>1 DEF AtWork
<1>7. ASSUME NEW b \in Actors, step'[b] # "idle", work'[b].kind = "admin"
      PROVE  step'[b] \in {"read", "plan", "source"} \cup Resources
  BY <1>2, <1>7 DEF Follows
<1>8. \A b \in Actors : Halfway(b)' => user'.plan = work'[b].plan
  BY <1>1, <1>2, <1>3 DEF Follows
<1>9. ASSUME ~torn' PROVE ~torn /\ \A b \in A : ~Halfway(b)
  <2>1. ~(torn \/ \E a \in A : work[a].kind = "admin" /\ step[a] \in Resources \cup {"source"})
    BY <1>9, Zenon DEF Abandon
  <2>2. \A b \in Actors : work[b].kind = "admin" /\ step[b] # "idle" => step[b] # "ids"
    BY DEF Follows, Resources
  <2> QED
    BY <2>1, <2>2 DEF Halfway, Applying
<1>10. ASSUME ~torn', \A b \in Actors : ~Halfway(b)' PROVE Pending(tl, k)'
  <2>1. Pending(tl, k)
    BY <1>3, <1>9, <1>10 DEF Follows
  <2> QED
    BY <1>1, <2>1 DEF Pending, Base, Matches
<1>11. ASSUME ~torn', NEW b \in Actors, step'[b] # "idle", work'[b].kind # "admin"
       PROVE  Effect(b, tl, k)'
  <2>1. Effect(b, tl, k)
    BY <1>2, <1>9, <1>11 DEF Follows
  <2> QED
    BY <1>1, <1>2, <1>11, <2>1 DEF Effect, Base, Matches
<1>12. acked' = 1..k /\ recorded' = 1..k
  BY <1>1 DEF Follows
<1>13. \A b \in Actors : step'[b] # "idle" =>
          IF work'[b].kind = "admin" THEN step'[b] \in {"read", "plan", "source"} \cup Resources
          ELSE AtWork(b, k)'
  BY <1>6, <1>7
<1>14. ~torn' => /\ (\A b \in Actors : ~Halfway(b)') => Pending(tl, k)'
                 /\ \A b \in Actors : step'[b] # "idle" /\ work'[b].kind # "admin" => Effect(b, tl, k)'
  BY <1>10, <1>11
<1> QED
  BY <1>4, <1>5, <1>8, <1>12, <1>13, <1>14 DEF Follows

LEMMA FollowsHolds ==
    ASSUME TypeOK, TypeOK', FollowsInv, Next
    PROVE  FollowsInv'
<1> SUFFICES ASSUME ~mixed'
             PROVE  \E k \in 0..Len(events'), tl \in [0..Len(events') -> Marks] : Follows(tl, k)'
  BY DEF FollowsInv
<1>1. ~mixed
  BY DEF TypeOK, Next, Run, Subscribe, Switch, Cancel, Notice, Emit, Deliver, StartGrant, Exists, Find, ReadPlan,
     WritePlan, PauseAll, StoreIds, SetSource, Record, Fail, Crash, Abandon, ReadForResume, WriteResume, historyVars
<1>2. PICK k \in 0..Len(events), tl \in [0..Len(events) -> Marks] : Follows(tl, k)
  BY <1>1 DEF FollowsInv
<1>3. CASE Subscribe \/ Switch \/ Cancel \/ Notice
  BY <1>2, <1>3, EmitFollows
<1>4. CASE ~(Subscribe \/ Switch \/ Cancel \/ Notice)
  <2>1. events' = events
    BY <1>4 DEF Next, Run, Deliver, StartGrant, Exists, Find, ReadPlan, WritePlan, PauseAll, StoreIds, SetSource,
       Record, Fail, Crash, Abandon, ReadForResume, WriteResume, stripeVars
  <2>2. ASSUME NEW a \in Actors, Deliver(a) \/ StartGrant(a) PROVE Follows(tl, k)'
    BY <1>2, <2>2, StartFollows
  <2>3. ASSUME NEW a \in Actors, Run(a), ~Record(a) PROVE Follows(tl, k)'
    BY <1>2, <2>3, ExistsFollows, FindFollows, ReadPlanFollows, WritePlanFollows, PauseAllFollows,
       StoreIdsFollows, SetSourceFollows DEF Run
  <2>4. ASSUME NEW a \in Actors, Record(a) PROVE k + 1 \in 0..Len(events) /\ Follows(tl, k + 1)'
    BY <1>2, <2>4, RecordFollows
  <2>5. ASSUME NEW a \in Actors, Fail(a) PROVE Follows(tl, k)'
    BY <1>2, <2>5, AbandonFollows DEF Fail
  <2>6. ASSUME Crash PROVE Follows(tl, k)'
    BY <1>2, <2>6, AbandonFollows DEF Crash
  <2>7. ASSUME ReadForResume \/ WriteResume PROVE Follows(tl, k)'
    <3>1. UNCHANGED <<sub, events, acked, recorded, user, step, work, granted, torn>>
      BY <2>7 DEF ReadForResume, WriteResume, stripeVars, actorVars, historyVars
    <3> QED
      BY <1>2, <3>1 DEF Follows, Table, PlanOf, AtWork, Effect, Halfway, Pending, Base, Matches
  <2>8. CASE \E a \in Actors : Record(a)
    BY <2>1, <2>4, <2>8
  <2>9. CASE ~\E a \in Actors : Record(a)
    <3>1. Follows(tl, k)'
      BY <1>4, <2>2, <2>3, <2>5, <2>6, <2>7, <2>9 DEF Next
    <3> QED
      BY <1>2, <2>1, <3>1
  <2> QED
    BY <2>8, <2>9
<1> QED
  BY <1>3, <1>4

SyncInv == TypeOK /\ FollowsInv

(* While requests do not overlap, the user's row is what the acknowledged    *)
(* events make of it, up to the one handler at work and how far it has come, *)
(* or one that died there (billing/webhook.go Handle, apply_plan.go Apply).  *)
THEOREM SyncInvariance == Spec => []SyncInv
<1>1. Init /\ TypeOK => FollowsInv
  <2> SUFFICES ASSUME Init, TypeOK PROVE FollowsInv
    OBVIOUS
  <2> DEFINE tl == [i \in 0..Len(events) |-> [plan |-> 0, alive |-> FALSE]]
  <2>1. Len(events) = 0 /\ 0 \in 0..Len(events)
    BY DEF Init
  <2>2. tl \in [0..Len(events) -> Marks] /\ tl[0] = [plan |-> 0, alive |-> FALSE]
    BY <2>1 DEF Marks, Plans
  <2>3. PlanOf(sub) = 0 /\ sub = NoSub
    BY DEF Init, PlanOf, NoSub
  <2>4. Table(tl)
    <3>1. tl[Len(events)] = [plan |-> PlanOf(sub), alive |-> sub # NoSub]
      BY <2>1, <2>2, <2>3
    <3> HIDE DEF tl
    <3> QED
      BY <2>1, <2>2, <3>1, 1..0 = {} DEF Table
  <2> HIDE DEF tl
  <2>5. Base(tl[0])
    <3>1. tl[0].plan = 0 /\ tl[0].alive = FALSE
      BY <2>2
    <3> QED
      BY <3>1 DEF Init, Base, Matches
  <2>6. Pending(tl, 0)
    BY <2>1, <2>5 DEF Pending
  <2>7. acked = 1..0 /\ recorded = 1..0
    BY DEF Init
  <2>8. \A a \in Actors : step[a] = "idle" /\ ~Halfway(a)
    BY DEF Init, Halfway, Applying, Resources
  <2>9. Follows(tl, 0)
    BY <2>4, <2>6, <2>7, <2>8 DEF Follows
  <2> QED
    BY <2>1, <2>2, <2>9 DEF FollowsInv
<1>2. TypeOK /\ TypeOK' /\ FollowsInv /\ [Next]_vars => FollowsInv'
  <2> SUFFICES ASSUME TypeOK, TypeOK', FollowsInv, [Next]_vars PROVE FollowsInv'
    OBVIOUS
  <2>1. CASE Next
    BY <2>1, FollowsHolds
  <2>2. CASE UNCHANGED vars
    <3> SUFFICES ASSUME ~mixed'
                 PROVE  \E k \in 0..Len(events'), tl \in [0..Len(events') -> Marks] : Follows(tl, k)'
      BY DEF FollowsInv
    <3>1. UNCHANGED <<sub, events, acked, recorded, user, step, work, granted, torn, mixed>>
      BY <2>2 DEF vars, stripeVars, actorVars, historyVars
    <3>2. PICK k \in 0..Len(events), tl \in [0..Len(events) -> Marks] : Follows(tl, k)
      BY <3>1 DEF FollowsInv
    <3>3. Follows(tl, k)'
      BY <3>1, <3>2 DEF Follows, Table, PlanOf, AtWork, Effect, Halfway, Pending, Base, Matches
    <3> QED
      BY <3>1, <3>2, <3>3
  <2> QED
    BY <2>1, <2>2
<1>3. BillingInv => TypeOK
  BY DEF BillingInv
<1> QED
  BY <1>1, <1>2, <1>3, BillingInvariance, PTL DEF Spec, SyncInv

\* When everything is settled the row is the last mark.
LEMMA SettledIsBase ==
    ASSUME SyncInv, Settled, ~mixed, ~torn
    PROVE  /\ user.source = "admin" => user.plan = granted
           /\ user.source # "admin" =>
                 /\ user.plan = PlanOf(sub)
                 /\ user.source = IF sub = NoSub THEN "free" ELSE "stripe"
                 /\ user.subscribed = (sub # NoSub)
<1> DEFINE n == Len(events)
           r == [plan |-> PlanOf(sub), alive |-> sub # NoSub]
<1>1. PICK k \in 0..n, tl \in [0..n -> Marks] : Follows(tl, k)
  BY DEF SyncInv, FollowsInv
<1>2. n \in Nat /\ 1..k = 1..n
  BY <1>1 DEF SyncInv, TypeOK, Follows, Settled
<1>3. k = n
  <2>1. n > 0 => n \in 1..n
    BY <1>2
  <2>2. n > 0 => n <= k
    BY <1>2, <2>1
  <2> QED
    BY <1>2, <2>2
<1>4. Pending(tl, k)
  BY <1>1 DEF Follows, Settled, Idle, Halfway, Applying, Resources
<1>5. Base(r)
  BY <1>1, <1>3, <1>4 DEF Pending, Follows, Table
<1>6. r.plan = PlanOf(sub) /\ r.alive = (sub # NoSub)
  OBVIOUS
<1> HIDE DEF r
<1> QED
  BY <1>5, <1>6 DEF Base, Matches

(* While requests do not overlap, the user has exactly what the subscription *)
(* names once every event is acknowledged, whatever failed, crashed or was   *)
(* replayed on the way, unless an admin has taken over (billing/webhook.go   *)
(* Handle: recorded last, applied again).                                    *)
THEOREM UserStaysInSync == Spec => []InSync
<1>1. SyncInv => InSync
  BY SettledIsBase DEF InSync
<1> QED
  BY <1>1, SyncInvariance, PTL

(* And a user an admin has taken over keeps the plan the admin gave, through *)
(* every event that arrives afterwards (billing/webhook.go: only Stripe's    *)
(* users follow Stripe).                                                     *)
THEOREM AdminKeepsThePlan == Spec => []AdminOwnsPlan
<1>1. SyncInv => AdminOwnsPlan
  BY SettledIsBase DEF AdminOwnsPlan
<1> QED
  BY <1>1, SyncInvariance, PTL

-----------------------------------------------------------------------------
(* Broker credentials from here on.                                           *)

-----------------------------------------------------------------------------
(* Kite's day and the status the dashboard shows. *)

LEMMA StatusFollowsKite ==
    ASSUME NEW a \in Nat, NEW t \in Nat, a <= t
    PROVE  ZerodhaTokenStatus(a, t) = "expired" <=> KiteDay(a) # KiteDay(t)
<1>1. PICK q \in Nat, m \in 0..2 : t = 3 * q + m /\ t \div 3 = q /\ t % 3 = m
  OBVIOUS
<1>2. a # Never
  BY DEF Never
<1>3. CASE m = 2
  <2>1. (t + 1) \div 3 = q + 1
    BY <1>1, <1>3
  <2>2. (a + 1) \div 3 = q + 1 <=> a >= 3 * q + 2
    BY <1>1, <1>3
  <2> QED
    BY <1>1, <1>2, <1>3, <2>1, <2>2 DEF ZerodhaTokenStatus, KiteDay
<1>4. CASE m # 2
  <2>1. (t + 1) \div 3 = q
    BY <1>1, <1>4
  <2>2. (a + 1) \div 3 = q <=> a >= 3 * (q - 1) + 2
    BY <1>1, <1>4
  <2> QED
    BY <1>1, <1>2, <1>4, <2>1, <2>2 DEF ZerodhaTokenStatus, KiteDay
<1> QED
  BY <1>3, <1>4

-----------------------------------------------------------------------------
(* Rows of credentials. *)

LEMMA NewRowMatches ==
    ASSUME NEW b, NEW m, NEW a
    PROVE  Matched(NewRow(b, m, a)) /\ NewRow(b, m, a).connected = Never
  BY DEF NewRow, Matched, RowFields, NoToken

LEMMA EditMatches ==
    ASSUME now \in Nat, NEW old, Matched(old), NEW row \in Edited(old)
    PROVE  Matched(row)
<1>1. CASE row = old
  BY <1>1
<1>2. ASSUME NEW a \in world.apps, row = [old EXCEPT !.key = a, !.token = NoToken]
      PROVE  Matched(row)
  BY <1>2 DEF Matched, RowFields, NoToken
<1>3. ASSUME NEW a \in world.apps, row = [old EXCEPT !.key = a, !.token = [app |-> a, at |-> now]]
      PROVE  Matched(row)
  BY <1>3 DEF Matched, RowFields
<1>4. ASSUME NEW m \in ModesOf(old.broker), row = [old EXCEPT !.mode = m]
      PROVE  Matched(row)
  BY <1>4 DEF Matched, RowFields
<1>5. ASSUME NEW b \in Brokers, row = [old EXCEPT !.broker = b]
      PROVE  Matched(row)
  BY <1>5 DEF Matched, RowFields
<1> QED
  BY <1>1, <1>2, <1>3, <1>4, <1>5 DEF Edited

\* The parts of a row that a status, a flag or a switch changes say nothing of its login.
LEMMA FlagsAreFree ==
    ASSUME NEW old, Honest(old), NEW row, DOMAIN row = RowFields,
           row.key = old.key, row.token = old.token, row.connected = old.connected, row.overtaken = old.overtaken
    PROVE  Honest(row)
  BY DEF Honest, Matched

LEMMA RewrittenIsHonest ==
    ASSUME NEW old, Honest(old), NEW row, Matched(row)
    PROVE  Honest(Rewritten(old, row)) /\ Rewritten(old, row).status = old.status
<1>1. PICK new : new = Rewritten(old, row)
  OBVIOUS
<1>2. /\ DOMAIN new = RowFields /\ new.key = row.key /\ new.token = row.token /\ new.connected = old.connected
      /\ new.status = old.status
      /\ new.overtaken = (old.overtaken \/ <<old.key, old.token>> # <<row.key, row.token>>)
  BY <1>1 DEF Rewritten, Honest, Matched, RowFields
<1>3. ~new.overtaken => ~old.overtaken /\ old.token = row.token
  BY <1>2
<1>4. Honest(new)
  BY <1>2, <1>3 DEF Honest, Matched
<1> QED
  BY <1>1, <1>2, <1>4

LEMMA ReconnectedIsHonest ==
    ASSUME now \in Nat, NEW old, Honest(old), NEW row, Matched(row)
    PROVE  Honest(Reconnected(old, row)) /\ Reconnected(old, row).status = old.status
<1>1. PICK new : new = Reconnected(old, row)
  OBVIOUS
<1>2. /\ DOMAIN new = RowFields /\ new.key = row.key /\ new.token = row.token /\ new.connected = now
      /\ new.status = old.status
      /\ new.overtaken = (KiteDay(row.token.at) # KiteDay(now))
  BY <1>1 DEF Reconnected, Honest, Matched, RowFields
<1>3. ~new.overtaken => KiteDay(new.token.at) = KiteDay(now)
  BY <1>2
<1>4. now \in Int /\ 0 <= now
  OBVIOUS
<1>5. Honest(new)
  BY <1>2, <1>3, <1>4 DEF Honest, Matched
<1> QED
  BY <1>1, <1>2, <1>5

LEMMA IssuedMatches ==
    ASSUME now \in Nat, NEW row, Matched(row), NEW app, Issues(app, row.key)
    PROVE  Matched(Issued(row, app))
  BY DEF Matched, Issues, Issued, RowFields

LEMMA HonestStays ==
    ASSUME now \in Nat, now' \in Nat, now <= now', NEW row, Honest(row)
    PROVE  Honest(row)'
  BY DEF Honest

-----------------------------------------------------------------------------
(* The steps of a request. *)

\* Request r has gone on and carries what it may; the others stand still.
Moved(r) ==
    /\ req' = [x \in Requests |-> req'[x]] /\ \A x \in Requests \ {r} : req'[x] = req[x]
    /\ Carries(req'[r])

LEMMA Starts ==
    ASSUME CredentialInv, NEW r \in Requests, NEW op, NEW at, NEW on, NEW row, Start(r, op, at, on, row),
           op \in {"create", "edit", "connect"} => Matched(row),
           op = "create" => row.connected = Never, op = "pause" => row.status = "paused",
           op \in {"hook", "unpause hook"} => DOMAIN row = HookFields
    PROVE  Moved(r)
<1>1. PICK q : q = [op |-> op, at |-> at, on |-> on, row |-> row, plan |-> plan]
  OBVIOUS
<1>2. req' = [req EXCEPT ![r] = q]
  BY <1>1 DEF Start
<1>3. Carries(q)
  BY <1>1 DEF Carries
<1> QED
  BY <1>2, <1>3 DEF Moved, CredentialInv, Tables

LEMMA Proceeds ==
    ASSUME CredentialInv, NEW r \in Requests, NEW at, Proceed(r, at)
    PROVE  Moved(r)
<1>1. PICK q : q = [req[r] EXCEPT !.at = at]
  OBVIOUS
<1>2. req' = [req EXCEPT ![r] = q]
  BY <1>1 DEF Proceed
<1>3. req[r] = NoRequest \/ DOMAIN req[r] = {"op", "at", "on", "row", "plan"}
  BY DEF CredentialInv, Carries
<1>4. CASE req[r] = NoRequest
  <2>1. q = NoRequest
    BY <1>1, <1>4 DEF NoRequest
  <2> QED
    BY <1>2, <1>4, <2>1 DEF Moved, CredentialInv, Tables, Carries
<1>5. CASE DOMAIN req[r] = {"op", "at", "on", "row", "plan"}
  <2>1. DOMAIN q = DOMAIN req[r] /\ q.op = req[r].op /\ q.row = req[r].row
    BY <1>1, <1>5
  <2>2. Carries(q)
    BY <1>5, <2>1 DEF CredentialInv, Carries
  <2> QED
    BY <1>2, <2>2 DEF Moved, CredentialInv, Tables
<1> QED
  BY <1>3, <1>4, <1>5

LEMMA Finishes ==
    ASSUME CredentialInv, NEW r \in Requests, Finish(r)
    PROVE  Moved(r) /\ req'[r] = NoRequest
<1>1. Carries(NoRequest)
  BY DEF Carries, NoRequest
<1> QED
  BY <1>1 DEF Finish, Moved, CredentialInv, Tables

LEMMA HooksStay ==
    ASSUME CredentialInv, UNCHANGED hook
    PROVE  HookTable'
  BY DEF CredentialInv, HookTable, Present

LEMMA RowsKept ==
    ASSUME CredentialInv, now' \in Nat, now <= now',
           req' = [r \in Requests |-> req'[r]], \A r \in Requests : req'[r] = req[r] \/ Carries(req'[r]),
           cred' = [c \in Creds |-> cred'[c]], HookTable',
           \A c \in Creds : cred'[c] = cred[c] \/ cred'[c] = Absent \/ Honest(cred'[c]),
           \A l \in logins' : l.cred \in Creds
    PROVE  CredentialInv'
<1>1. Tables'
  BY DEF Tables
<1>2. ASSUME NEW r \in Requests PROVE Carries(req[r])'
  BY DEF CredentialInv, Carries
<1>3. ASSUME NEW c \in Creds, cred'[c] # Absent PROVE Honest(cred[c])'
  <2>1. PICK row : row = cred'[c]
    OBVIOUS
  <2>2. Honest(row)
    BY <1>3, <2>1 DEF CredentialInv, Stored
  <2>3. Honest(row)'
    BY <2>2, HonestStays DEF CredentialInv, Tables
  <2> QED
    BY <2>1, <2>3
<1> QED
  BY <1>1, <1>2, <1>3 DEF CredentialInv, Stored

\* A request has gone on; of the tables one row may have changed.
LEMMA RequestKeeps ==
    ASSUME CredentialInv, NEW r \in Requests, Moved(r), UNCHANGED <<now, logins>>,
           HookTable',
           \/ cred' = cred
           \/ \E c, row : cred' = [cred EXCEPT ![c] = row] /\ (c \in Creds => row = Absent \/ Honest(row))
    PROVE  CredentialInv'
<1>1. cred' = [c \in Creds |-> cred'[c]] /\ \A c \in Creds : cred'[c] = cred[c] \/ cred'[c] = Absent \/ Honest(cred'[c])
  <2>1. CASE cred' = cred
    BY <2>1 DEF CredentialInv, Tables
  <2>2. CASE cred' # cred
    <3>1. PICK c, row : cred' = [cred EXCEPT ![c] = row] /\ (c \in Creds => row = Absent \/ Honest(row))
      BY <2>2
    <3> QED
      BY <3>1 DEF CredentialInv, Tables
  <2> QED
    BY <2>1, <2>2
<1> QED
  BY <1>1, RowsKept DEF CredentialInv, Tables, Moved

-----------------------------------------------------------------------------
(* The requests. *)

LEMMA CredentialStarts ==
    ASSUME CredentialInv, NEW r \in Requests, NEW c \in Creds,
           \/ \E m \in Switched, a \in world.apps : CreateLoad(r, c, m, a)
           \/ EditLoad(r, c) \/ DeleteCount(r, c) \/ PauseCredential(r, c) \/ ResumeLoad(r, c)
    PROVE  CredentialInv'
<1>1. UNCHANGED <<cred, hook, now, logins>>
  BY DEF CreateLoad, EditLoad, DeleteCount, PauseCredential, ResumeLoad, tables, platform
<1>2. Moved(r)
  <2>1. ASSUME NEW m \in Switched, NEW a \in world.apps, CreateLoad(r, c, m, a) PROVE Moved(r)
    BY <2>1, Starts, NewRowMatches DEF CreateLoad
  <2>2. ASSUME EditLoad(r, c) PROVE Moved(r)
    <3>1. Matched(cred[c])
      BY <2>2 DEF EditLoad, CredentialInv, Stored, Honest
    <3>2. PICK row \in Edited(cred[c]) : Start(r, "edit", "write", c, row)
      BY <2>2 DEF EditLoad
    <3>3. Matched(row)
      BY <3>1, EditMatches DEF CredentialInv, Tables
    <3> QED
      BY <3>2, <3>3, Starts
  <2>3. ASSUME DeleteCount(r, c) PROVE Moved(r)
    BY <2>3, Starts DEF DeleteCount
  <2>4. ASSUME PauseCredential(r, c) PROVE Moved(r)
    <3>1. DOMAIN cred[c] = RowFields
      BY <2>4 DEF PauseCredential, CredentialInv, Stored, Honest, Matched
    <3>2. PICK row : row = [cred[c] EXCEPT !.status = "paused"]
      OBVIOUS
    <3>3. row.status = "paused"
      BY <3>1, <3>2 DEF RowFields
    <3> QED
      BY <2>4, <3>2, <3>3, Starts DEF PauseCredential
  <2>5. ASSUME ResumeLoad(r, c) PROVE Moved(r)
    <3>1. PICK row : Start(r, "resume", "count", c, row)
      BY <2>5 DEF ResumeLoad
    <3> QED
      BY <3>1, Starts
  <2> QED
    BY <2>1, <2>2, <2>3, <2>4, <2>5
<1> QED
  BY <1>1, <1>2, RequestKeeps, HooksStay DEF CredentialInv, Tables

LEMMA CredentialCounts ==
    ASSUME CredentialInv, NEW r \in Requests, CreateCount(r) \/ ResumeCount(r)
    PROVE  CredentialInv'
<1>1. UNCHANGED <<cred, hook, now, logins>>
  BY DEF CreateCount, ResumeCount, tables, platform
<1>2. Moved(r)
  BY Proceeds, Finishes DEF CreateCount, ResumeCount
<1> QED
  BY <1>1, <1>2, RequestKeeps, HooksStay DEF CredentialInv, Tables

\* A row read by id is one of the table or none.
LEMMA StoredIsHonest ==
    ASSUME CredentialInv, NEW c \in Creds, cred[c] # Absent
    PROVE  Honest(cred[c])
  BY DEF CredentialInv, Stored

LEMMA CredentialWrites ==
    ASSUME CredentialInv, NEW r \in Requests, CreateInsert(r) \/ EditWrite(r) \/ DeleteRow(r) \/ StatusWrite(r)
    PROVE  CredentialInv'
<1>1. UNCHANGED <<hook, now, logins>> /\ Moved(r)
  BY Finishes DEF CreateInsert, EditWrite, DeleteRow, StatusWrite, platform
<1>2. PICK c : c = req[r].on
  OBVIOUS
<1>3. \/ cred' = cred
      \/ \E row : cred' = [cred EXCEPT ![c] = row] /\ (c \in Creds => row = Absent \/ Honest(row))
  <2>1. CASE CreateInsert(r)
    <3>1. Matched(req[r].row) /\ req[r].row.connected = Never
      BY <2>1 DEF CreateInsert, At, CredentialInv, Carries
    <3>2. Honest(req[r].row)
      BY <3>1 DEF Honest, Never
    <3> QED
      BY <1>2, <2>1, <3>2 DEF CreateInsert
  <2>2. CASE EditWrite(r)
    <3>1. Matched(req[r].row)
      BY <2>2 DEF EditWrite, At, CredentialInv, Carries
    <3>2. \/ cred' = cred
          \/ cred[c] # Absent /\ cred' = [cred EXCEPT ![c] = Rewritten(cred[c], req[r].row)]
      BY <1>2, <2>2 DEF EditWrite
    <3>3. cred[c] # Absent /\ c \in Creds => Honest(Rewritten(cred[c], req[r].row))
      BY <3>1, StoredIsHonest, RewrittenIsHonest
    <3> QED
      BY <3>2, <3>3
  <2>3. CASE DeleteRow(r)
    BY <1>2, <2>3 DEF DeleteRow
  <2>4. CASE StatusWrite(r)
    <3>1. PICK s, a : \/ cred' = cred
                      \/ cred[c] # Absent /\ cred' = [cred EXCEPT ![c] = [@ EXCEPT !.status = s, !.auto = a]]
      BY <1>2, <2>4 DEF StatusWrite
    <3>2. PICK row : row = [cred[c] EXCEPT !.status = s, !.auto = a]
      OBVIOUS
    <3>3. cred[c] # Absent /\ c \in Creds => Honest(row)
      <4> SUFFICES ASSUME cred[c] # Absent, c \in Creds PROVE Honest(row)
        OBVIOUS
      <4>1. Honest(cred[c])
        BY StoredIsHonest
      <4>2. /\ DOMAIN row = RowFields /\ row.key = cred[c].key /\ row.token = cred[c].token
            /\ row.connected = cred[c].connected /\ row.overtaken = cred[c].overtaken
        BY <3>2, <4>1 DEF Honest, Matched, RowFields
      <4> QED
        BY <4>1, <4>2, FlagsAreFree
    <3> QED
      BY <3>1, <3>2, <3>3
  <2> QED
    BY <2>1, <2>2, <2>3, <2>4
<1> QED
  BY <1>1, <1>3, RequestKeeps, HooksStay DEF CredentialInv, Tables

LEMMA HookRequests ==
    ASSUME CredentialInv, NEW r \in Requests, HookRequest(r)
    PROVE  CredentialInv'
<1>1. UNCHANGED <<cred, now, logins>>
  BY DEF HookRequest, HookLoad, HookCount, HookInsert, EditHookLoad, EditHookWrite, HookResumeLoad, HookResumeCount,
         HookStatusWrite, platform, tables
<1>2. HookTable'
  <2>1. PICK h : h = req[r].on
    OBVIOUS
  <2>2. CASE UNCHANGED hook
    BY <2>2, HooksStay
  <2>3. CASE At(r, "hook", "write") /\ hook' = [hook EXCEPT ![h] = req[r].row]
    <3>1. DOMAIN req[r].row = HookFields
      BY <2>3 DEF At, CredentialInv, Carries
    <3> QED
      BY <2>3, <3>1 DEF CredentialInv, HookTable, Present
  <2>4. CASE hook[h] # Absent /\ \E row : DOMAIN row = DOMAIN hook[h] /\ hook' = [hook EXCEPT ![h] = row]
    BY <2>4 DEF CredentialInv, HookTable, Present
  <2>5. \A new, old : /\ new = Redirected(old, req[r].row) => DOMAIN new = DOMAIN old
                      /\ new = Resumed(old, req[r].row) => DOMAIN new = DOMAIN old
    BY DEF Redirected, Resumed
  <2>6. CASE EditHookWrite(r)
    <3>1. \/ hook' = hook
          \/ hook[h] # Absent /\ hook' = [hook EXCEPT ![h] = Redirected(hook[h], req[r].row)]
      BY <2>1, <2>6 DEF EditHookWrite
    <3> QED
      BY <2>2, <2>4, <2>5, <3>1
  <2>7. CASE HookStatusWrite(r)
    <3>1. \/ hook' = hook
          \/ hook[h] # Absent /\ hook' = [hook EXCEPT ![h] = Resumed(hook[h], req[r].row)]
      BY <2>1, <2>7 DEF HookStatusWrite
    <3> QED
      BY <2>2, <2>4, <2>5, <3>1
  <2>8. CASE HookInsert(r)
    BY <2>1, <2>2, <2>3, <2>8 DEF HookInsert
  <2> QED
    BY <2>2, <2>6, <2>7, <2>8 DEF HookRequest, HookLoad, HookCount, EditHookLoad, HookResumeLoad, HookResumeCount, tables
<1>3. Moved(r)
  <2>1. ASSUME NEW h \in Hooks, NEW dest \in Destinations, HookLoad(r, h, dest) PROVE Moved(r)
    <3>1. PICK row : row = NewHook(dest)
      OBVIOUS
    <3>2. DOMAIN row = HookFields
      BY <3>1 DEF HookFields, NewHook
    <3> QED
      BY <2>1, <3>1, <3>2, Starts DEF HookLoad
  <2>2. ASSUME NEW h \in Hooks, HookResumeLoad(r, h) PROVE Moved(r)
    <3>1. PICK row : row = [hook[h] EXCEPT !.status = "active"]
      OBVIOUS
    <3>2. DOMAIN row = HookFields
      BY <2>2, <3>1 DEF HookResumeLoad, CredentialInv, HookTable, Present
    <3> QED
      BY <2>2, <3>1, <3>2, Starts DEF HookResumeLoad
  <2>3. ASSUME NEW h \in Hooks, EditHookLoad(r, h) PROVE Moved(r)
    <3>1. PICK row : Start(r, "edit hook", "write", h, row)
      BY <2>3 DEF EditHookLoad
    <3> QED
      BY <3>1, Starts
  <2>4. HookCount(r) \/ HookInsert(r) \/ EditHookWrite(r) \/ HookResumeCount(r) \/ HookStatusWrite(r) => Moved(r)
    BY Proceeds, Finishes DEF HookCount, HookInsert, EditHookWrite, HookResumeCount, HookStatusWrite
  <2> QED
    BY <2>1, <2>2, <2>3, <2>4 DEF HookRequest
<1> QED
  BY <1>1, <1>2, <1>3, RequestKeeps

LEMMA CallbackRequests ==
    ASSUME CredentialInv, NEW r \in Requests, Callback(r)
    PROVE  CredentialInv'
<1>1. ASSUME NEW l \in logins, CallbackLoad(r, l) PROVE CredentialInv'
  <2>1. l.cred \in Creds /\ Honest(cred[l.cred])
    BY <1>1, StoredIsHonest DEF CallbackLoad, CredentialInv, Tables
  <2>2. Moved(r)
    BY <1>1, <2>1, Starts DEF CallbackLoad, Honest
  <2>3. UNCHANGED <<cred, hook, now>> /\ logins' \subseteq logins
    BY <1>1 DEF CallbackLoad, tables, platform
  <2> QED
    BY <2>2, <2>3, RowsKept, HooksStay DEF CredentialInv, Tables, Moved
<1>2. ASSUME CallbackExchange(r) PROVE CredentialInv'
  <2>1. UNCHANGED <<cred, hook, now, logins>>
    BY <1>2 DEF CallbackExchange, tables, platform
  <2>2. CASE Finish(r)
    BY <2>1, <2>2, Finishes, RequestKeeps, HooksStay DEF CredentialInv, Tables
  <2>3. CASE /\ Issues(req[r].at, req[r].row.key)
             /\ req' = [req EXCEPT ![r] = [@ EXCEPT !.at = "write", !.row = Issued(req[r].row, req[r].at)]]
    <3>1. req[r].op = "connect" /\ Matched(req[r].row)
      BY <1>2 DEF CallbackExchange, CredentialInv, Carries
    <3>2. DOMAIN req[r] = {"op", "at", "on", "row", "plan"}
      <4>1. Carries(req[r])
        BY DEF CredentialInv
      <4>2. req[r] # NoRequest
        BY <3>1 DEF NoRequest
      <4> QED
        BY <4>1, <4>2 DEF Carries
    <3>3. PICK row : row = Issued(req[r].row, req[r].at)
      OBVIOUS
    <3>4. Matched(row)
      BY <2>3, <3>1, <3>3, IssuedMatches DEF CredentialInv, Tables
    <3>5. PICK q : q = [req[r] EXCEPT !.at = "write", !.row = row]
      OBVIOUS
    <3>6. req' = [req EXCEPT ![r] = q]
      BY <2>3, <3>3, <3>5
    <3>7. Carries(q)
      BY <3>1, <3>2, <3>4, <3>5 DEF Carries
    <3>8. Moved(r)
      BY <3>6, <3>7 DEF Moved, CredentialInv, Tables
    <3> QED
      BY <2>1, <3>8, RequestKeeps, HooksStay DEF CredentialInv, Tables
  <2> QED
    BY <1>2, <2>2, <2>3 DEF CallbackExchange
<1>3. ASSUME CallbackWrite(r) PROVE CredentialInv'
  <2>1. UNCHANGED <<hook, now, logins>> /\ Moved(r)
    BY <1>3, Finishes DEF CallbackWrite, platform
  <2>2. PICK c : c = req[r].on
    OBVIOUS
  <2>3. Matched(req[r].row)
    BY <1>3 DEF CallbackWrite, At, CredentialInv, Carries
  <2>4. \/ cred' = cred
        \/ cred[c].broker = "zerodha" /\ cred' = [cred EXCEPT ![c] = Reconnected(cred[c], req[r].row)]
    BY <1>3, <2>2 DEF CallbackWrite
  <2>5. cred[c].broker = "zerodha" => cred[c] # Absent
    BY DEF Absent
  <2>6. cred[c] # Absent /\ c \in Creds => Honest(Reconnected(cred[c], req[r].row))
    BY <2>3, StoredIsHonest, ReconnectedIsHonest DEF CredentialInv, Tables
  <2> QED
    BY <2>1, <2>4, <2>5, <2>6, RequestKeeps, HooksStay DEF CredentialInv, Tables
<1> QED
  BY <1>1, <1>2, <1>3 DEF Callback

\* The platform, the browser and time: no request goes on.
LEMMA PlatformKeeps ==
    ASSUME CredentialInv, Platform
    PROVE  CredentialInv'
<1>1. UNCHANGED <<req, now, logins>>
  BY DEF Platform, Downgrade, PauseOwned, SetSwitch, Sweep, tables
<1>2. HookTable'
  <2>1. CASE UNCHANGED hook
    BY <2>1, HooksStay
  <2>2. CASE PauseOwned
    <3>1. ASSUME NEW h \in Hooks, hook'[h] # Absent PROVE DOMAIN hook'[h] = HookFields
      <4>1. /\ hook[h] # Absent
            /\ hook'[h] = hook[h] \/ hook'[h] = [hook[h] EXCEPT !.status = "paused", !.auto = TRUE]
        BY <2>2, <3>1 DEF PauseOwned, OfKind, Present
      <4> QED
        BY <4>1 DEF CredentialInv, HookTable, Present
    <3> QED
      BY <2>2, <3>1 DEF PauseOwned, HookTable, Present
  <2>3. ASSUME NEW m, hook' = HooksCleared(m) \/ hook' = HooksDisabled(m) PROVE HookTable'
    <3>1. ASSUME NEW h \in Hooks, hook'[h] # Absent PROVE DOMAIN hook'[h] = HookFields
      <4>1. /\ hook[h] # Absent
            /\ \/ hook'[h] = hook[h]
               \/ hook'[h] = [hook[h] EXCEPT !.disabled = FALSE]
               \/ hook'[h] = [hook[h] EXCEPT !.status = "paused", !.disabled = TRUE]
        BY <2>3, <3>1 DEF HooksCleared, HooksDisabled, OnMode, OfKind, Present
      <4> QED
        BY <4>1 DEF CredentialInv, HookTable, Present
    <3> QED
      BY <2>3, <3>1 DEF HooksCleared, HooksDisabled, HookTable, Present
  <2> QED
    BY <2>1, <2>2, <2>3 DEF Platform, Downgrade, SetSwitch, PauseOwned, Sweep, tables
<1> DEFINE rows == /\ cred' = [c \in Creds |-> cred'[c]]
                   /\ \A c \in Creds : cred'[c] = cred[c] \/ cred'[c] = Absent \/ Honest(cred'[c])
<1>3. rows
  <2>1. ASSUME NEW c \in Creds, cred[c] # Absent, NEW s, NEW b, NEW row,
               row \in {[cred[c] EXCEPT !.status = s, !.auto = b], [cred[c] EXCEPT !.disabled = b],
                        [cred[c] EXCEPT !.status = s, !.disabled = b]}
        PROVE  Honest(row)
    <3>1. Honest(cred[c])
      BY <2>1, StoredIsHonest
    <3>2. /\ DOMAIN row = RowFields /\ row.key = cred[c].key /\ row.token = cred[c].token
          /\ row.connected = cred[c].connected /\ row.overtaken = cred[c].overtaken
      BY <2>1, <3>1 DEF Honest, Matched, RowFields
    <3> QED
      BY <3>1, <3>2, FlagsAreFree
  <2>2. CASE PauseOwned
    <3>1. cred' = [c \in Creds |-> IF cred[c] = Absent THEN Absent
                                   ELSE [cred[c] EXCEPT !.status = "paused", !.auto = TRUE]]
      BY <2>2 DEF PauseOwned
    <3> QED
      BY <2>1, <3>1
  <2>3. ASSUME NEW m, cred' = Cleared(m) PROVE rows
    <3>1. ASSUME NEW c \in Creds PROVE cred'[c] = cred[c] \/ Honest(cred'[c])
      <4>1. cred'[c] = cred[c] \/ (cred[c] # Absent /\ cred'[c] = [cred[c] EXCEPT !.disabled = FALSE])
        BY <2>3 DEF Cleared
      <4> QED
        BY <2>1, <4>1
    <3> QED
      BY <2>3, <3>1 DEF Cleared
  <2>4. ASSUME NEW m, cred' = Disabled(m) PROVE rows
    <3>1. ASSUME NEW c \in Creds PROVE cred'[c] = cred[c] \/ Honest(cred'[c])
      <4>1. \/ cred'[c] = cred[c]
            \/ cred[c] # Absent /\ cred'[c] = [cred[c] EXCEPT !.status = "paused", !.disabled = TRUE]
        BY <2>4 DEF Disabled, ActiveCreds, Stored
      <4>2. PICK row : row = [cred[c] EXCEPT !.status = "paused", !.disabled = TRUE]
        OBVIOUS
      <4>3. cred[c] # Absent => Honest(row)
        BY <2>1, <4>2
      <4> QED
        BY <4>1, <4>2, <4>3
    <3> QED
      BY <2>4, <3>1 DEF Disabled
  <2>5. CASE \E failed \in BOOLEAN : Sweep(failed)
    <3>1. cred' = cred \/ \E m : cred' = Cleared(m) \/ cred' = Disabled(m)
      BY <2>5 DEF Sweep
    <3> QED
      BY <2>3, <2>4, <3>1 DEF CredentialInv, Tables
  <2>6. CASE UNCHANGED cred
    BY <2>6 DEF CredentialInv, Tables
  <2> QED
    BY <2>2, <2>5, <2>6 DEF Platform, Downgrade, SetSwitch, tables
<1> QED
  BY <1>1, <1>2, <1>3, RowsKept DEF CredentialInv, Tables

LEMMA OthersKeep ==
    ASSUME CredentialInv,
           \/ \E h \in Hooks : HookEnd(h)
           \/ \E c \in Creds : Connect(c)
           \/ \E l \in logins : AbandonLogin(l)
           \/ Tick
    PROVE  CredentialInv'
<1>1. UNCHANGED <<cred, req>> /\ (now' = now \/ now' = now + 1)
  BY DEF HookEnd, Connect, AbandonLogin, Tick, tables, platform
<1>2. HookTable'
  <2>1. UNCHANGED hook \/ \E h \in Hooks : HookEnd(h)
    BY DEF Connect, AbandonLogin, Tick, tables
  <2>2. ASSUME NEW h \in Hooks, HookEnd(h) PROVE HookTable'
    <3>1. PICK row : hook[h] # Absent /\ hook' = [hook EXCEPT ![h] = row] /\ row \in {Absent, [hook[h] EXCEPT !.status = "paused"]}
      BY <2>2 DEF HookEnd
    <3>2. row = Absent \/ DOMAIN row = HookFields
      BY <3>1 DEF CredentialInv, HookTable, Present
    <3> QED
      BY <3>1, <3>2 DEF CredentialInv, HookTable, Present
  <2> QED
    BY <2>1, <2>2, HooksStay
<1>3. \A l \in logins' : l.cred \in Creds
  <2>1. ASSUME NEW c \in Creds, Connect(c) PROVE <1>3
    <3>1. logins' = logins \cup {[cred |-> c, app |-> cred[c].key]}
      BY <2>1 DEF Connect
    <3> QED
      BY <3>1 DEF CredentialInv, Tables
  <2>2. ASSUME \/ \E h \in Hooks : HookEnd(h)
               \/ \E l \in logins : AbandonLogin(l)
               \/ Tick
        PROVE  logins' \subseteq logins
    BY <2>2 DEF HookEnd, AbandonLogin, Tick
  <2> QED
    BY <2>1, <2>2 DEF CredentialInv, Tables
<1> QED
  <2>1. now \in Nat
    BY DEF CredentialInv, Tables
  <2>2. now' \in Nat /\ now <= now'
    BY <1>1, <2>1
  <2> QED
    BY <1>1, <1>2, <1>3, <2>2, RowsKept DEF CredentialInv, Tables

LEMMA CredentialsKept ==
    ASSUME CredentialInv, [CredentialNext]_credentialVars
    PROVE  CredentialInv'
<1>1. CASE UNCHANGED credentialVars
  BY <1>1, RowsKept, HooksStay DEF credentialVars, CredentialInv, Tables
<1>2. ASSUME NEW r \in Requests, CredentialRequest(r) PROVE CredentialInv'
  BY <1>2, CredentialStarts, CredentialCounts, CredentialWrites DEF CredentialRequest
<1> QED
  BY <1>1, <1>2, HookRequests, CallbackRequests, PlatformKeeps, OthersKeep DEF CredentialNext, Step

(* What a credential's row and the requests that carry one say of its login, *)
(* through every interleaving of edits, logins, status changes and sweeps    *)
(* (credentials/handler.go, zerodha/oauth/callback.go).                      *)
THEOREM CredentialInvariance == CredentialSpec => []CredentialInv
<1>1. ASSUME CredentialInit PROVE CredentialInv
  <2> USE <1>1 DEF CredentialInit
  <2>1. Tables /\ HookTable
    BY DEF Tables, HookTable, Present
  <2>2. ASSUME NEW r \in Requests PROVE Carries(req[r])
    BY DEF Carries, NoRequest
  <2>3. ASSUME NEW c \in Stored PROVE Honest(cred[c])
    <3>1. \E b, m, a : cred[c] = NewRow(b, m, a)
      BY DEF Stored
    <3>2. cred[c].connected = Never /\ Matched(cred[c])
      BY <3>1, NewRowMatches
    <3> QED
      BY <3>2 DEF Honest, Never
  <2> QED
    BY <2>1, <2>2, <2>3 DEF CredentialInv
<1> QED
  BY <1>1, CredentialsKept, PTL DEF CredentialSpec

(* A stored token was issued to the app whose key is stored beside it, and   *)
(* the dashboard says "expired" exactly when Kite has ended it, unless keys  *)
(* were edited after the login or 06:00 came inside it (callback.go:76-104,  *)
(* credentials/handler.go:43-67).                                            *)
THEOREM LoginsAreHonest == CredentialSpec => []LoginIsHonest
<1>1. ASSUME CredentialInv PROVE LoginIsHonest
  <2>1. \A c \in Stored : Honest(cred[c])
    BY <1>1 DEF CredentialInv
  <2>2. TokenOfItsApp
    BY <2>1 DEF TokenOfItsApp, Honest, Matched
  <2>3. ASSUME NEW c \in Stored, cred[c].connected # Never, ~cred[c].overtaken
        PROVE  ZerodhaTokenStatus(cred[c].connected, now) = "expired" <=> KiteDay(cred[c].token.at) # KiteDay(now)
    <3>1. PICK a : a = cred[c].connected
      OBVIOUS
    <3>2. a \in Nat /\ a <= now /\ now \in Nat /\ KiteDay(cred[c].token.at) = KiteDay(a)
      BY <1>1, <2>1, <2>3, <3>1 DEF Honest, CredentialInv, Tables
    <3>3. ZerodhaTokenStatus(a, now) = "expired" <=> KiteDay(a) # KiteDay(now)
      BY <3>2, StatusFollowsKite
    <3> QED
      BY <3>1, <3>2, <3>3
  <2>4. StatusIsKites
    BY <2>3 DEF StatusIsKites
  <2> QED
    BY <2>2, <2>4 DEF LoginIsHonest
<1> QED
  BY <1>1, CredentialInvariance, PTL

-----------------------------------------------------------------------------
(* Counting what is active and what may still become active. *)

LEMMA SumStays ==
    ASSUME NEW A, NEW P, NEW A2, NEW P2, NEW b \in Int, IsFiniteSet(A), IsFiniteSet(P),
           Cardinality(A) + Cardinality(P) <= b, A2 \subseteq A, P2 \subseteq P
    PROVE  Cardinality(A2) + Cardinality(P2) <= b
<1>1. /\ Cardinality(A) \in Nat /\ Cardinality(P) \in Nat /\ IsFiniteSet(A2) /\ IsFiniteSet(P2)
      /\ Cardinality(A2) <= Cardinality(A) /\ Cardinality(P2) <= Cardinality(P)
  BY FS_CardinalityType, FS_Subset
<1>2. Cardinality(A2) \in Nat /\ Cardinality(P2) \in Nat
  BY <1>1, FS_CardinalityType
<1> QED
  BY <1>1, <1>2

\* A claim becomes a row.
LEMMA SumTrades ==
    ASSUME NEW A, NEW P, NEW A2, NEW P2, NEW b \in Int, IsFiniteSet(A), IsFiniteSet(P),
           Cardinality(A) + Cardinality(P) <= b,
           \E x : A2 \subseteq A \cup {x}, \E r \in P : P2 \subseteq P \ {r}
    PROVE  Cardinality(A2) + Cardinality(P2) <= b
<1>1. PICK x : A2 \subseteq A \cup {x}
  OBVIOUS
<1>2. PICK r \in P : P2 \subseteq P \ {r}
  OBVIOUS
<1>3. /\ IsFiniteSet(A \cup {x}) /\ Cardinality(A) \in Nat
      /\ Cardinality(A \cup {x}) <= Cardinality(A) + 1
  <2>1. /\ IsFiniteSet(A \cup {x}) /\ Cardinality(A) \in Nat
        /\ Cardinality(A \cup {x}) = IF x \in A THEN Cardinality(A) ELSE Cardinality(A) + 1
    BY FS_AddElement, FS_CardinalityType
  <2> QED
    BY <2>1
<1>4. IsFiniteSet(P \ {r}) /\ Cardinality(P) \in Nat /\ Cardinality(P \ {r}) = Cardinality(P) - 1
  BY FS_RemoveElement, FS_CardinalityType
<1>5. Cardinality(A \cup {x}) \in Nat
  BY <1>3, FS_CardinalityType
<1>6. Cardinality(A \cup {x}) + Cardinality(P \ {r}) <= b
  BY <1>3, <1>4, <1>5
<1> QED
  BY <1>3, <1>4, <1>6, <1>1, <1>2, SumStays

\* Whoever counts below the limit claims one of the rows left, and so may all the others.
LEMMA SumCounts ==
    ASSUME NEW A, NEW P2, NEW max \in Nat, IsFiniteSet(A), P2 \subseteq Requests,
           Cardinality(A) < max \/ A = {}
    PROVE  /\ Cardinality(A) + Cardinality(P2) <= Bound(max) /\ Bound(max) \in Int
<1>1. Cardinality(A) \in Nat /\ Cardinality(Requests) \in Nat /\ IsFiniteSet(P2) /\ Cardinality(P2) <= Cardinality(Requests)
  BY CredentialConstantsOK, FS_CardinalityType, FS_Subset
<1>2. Cardinality(P2) \in Nat
  BY <1>1, FS_CardinalityType
<1>3. A = {} => Cardinality(A) = 0
  BY FS_EmptySet
<1> QED
  BY <1>1, <1>2, <1>3 DEF Bound

LEMMA Limits ==
    ASSUME NEW p
    PROVE  LimitsFor(p).creds \in Nat /\ LimitsFor(p).hooks \in Nat
  BY DEF LimitsFor

LEMMA BoundIsInteger ==
    ASSUME NEW max \in Nat
    PROVE  Bound(max) \in Int
  BY CredentialConstantsOK, FS_CardinalityType DEF Bound

LEMMA FiniteSets ==
    ASSUME ClaimsInv
    PROVE  IsFiniteSet(ActiveCreds) /\ IsFiniteSet(CountedHooks) /\ IsFiniteSet(CredClaims) /\ IsFiniteSet(HookClaims)
<1>1. ActiveCreds \subseteq Stored /\ CountedHooks \subseteq Present
  BY DEF ActiveCreds, CountedHooks, ActiveOf, OfKind
<1>2. CredClaims \subseteq Requests /\ HookClaims \subseteq Requests
  BY DEF CredClaims, HookClaims
<1> QED
  BY <1>1, <1>2, CredentialConstantsOK, FS_Subset DEF ClaimsInv

\* The ways a step may move one of the two sums.
CredsFall == ActiveCreds' \subseteq ActiveCreds /\ CredClaims' \subseteq CredClaims
CredsTrade == /\ \E c : ActiveCreds' \subseteq ActiveCreds \cup {c}
              /\ \E r \in CredClaims : CredClaims' \subseteq CredClaims \ {r}
CredsCount == ActiveCreds' = ActiveCreds /\ Cardinality(ActiveCreds) < LimitsFor(plan).creds
HooksFall == CountedHooks' \subseteq CountedHooks /\ HookClaims' \subseteq HookClaims
HooksTrade == /\ \E h : CountedHooks' \subseteq CountedHooks \cup {h}
              /\ \E r \in HookClaims : HookClaims' \subseteq HookClaims \ {r}
HooksCount == CountedHooks' = CountedHooks /\ Cardinality(CountedHooks) < LimitsFor(plan).hooks

LEMMA SumsKept ==
    ASSUME ClaimsInv, UNCHANGED <<plan, sweeping>>, IsFiniteSet(Stored'), IsFiniteSet(Present'),
           CredsFall \/ CredsTrade \/ CredsCount, HooksFall \/ HooksTrade \/ HooksCount
    PROVE  ClaimsInv'
<1> DEFINE bc == Bound(LimitsFor(plan).creds)
           bh == Bound(LimitsFor(plan).hooks)
<1>1. bc \in Int /\ bh \in Int
  BY Limits, BoundIsInteger
<1>2. bc' = bc /\ bh' = bh
  BY DEF Bound
<1>3. CredClaims' \subseteq Requests /\ HookClaims' \subseteq Requests
  BY DEF CredClaims, HookClaims
<1>4. CredsWithin'
  <2> SUFFICES ASSUME ~sweeping PROVE Cardinality(ActiveCreds') + Cardinality(CredClaims') <= bc
    BY <1>2 DEF CredsWithin
  <2>1. Cardinality(ActiveCreds) + Cardinality(CredClaims) <= bc
    BY DEF ClaimsInv, CredsWithin
  <2> HIDE DEF bc
  <2>2. CASE CredsFall
    BY <1>1, <2>1, <2>2, FiniteSets, SumStays DEF CredsFall
  <2>3. CASE CredsTrade
    BY <1>1, <2>1, <2>3, FiniteSets, SumTrades DEF CredsTrade
  <2>4. CASE CredsCount
    BY <1>3, <2>4, Limits, FiniteSets, SumCounts DEF CredsCount, bc
  <2> QED
    BY <2>2, <2>3, <2>4
<1>5. HooksWithin'
  <2> SUFFICES ASSUME ~sweeping PROVE Cardinality(CountedHooks') + Cardinality(HookClaims') <= bh
    BY <1>2 DEF HooksWithin
  <2>1. Cardinality(CountedHooks) + Cardinality(HookClaims) <= bh
    BY DEF ClaimsInv, HooksWithin
  <2> HIDE DEF bh
  <2>2. CASE HooksFall
    BY <1>1, <2>1, <2>2, FiniteSets, SumStays DEF HooksFall
  <2>3. CASE HooksTrade
    BY <1>1, <2>1, <2>3, FiniteSets, SumTrades DEF HooksTrade
  <2>4. CASE HooksCount
    BY <1>3, <2>4, Limits, FiniteSets, SumCounts DEF HooksCount, bh
  <2> QED
    BY <2>2, <2>3, <2>4
<1> QED
  BY <1>4, <1>5 DEF ClaimsInv

\* A step of request r leaves the claims of the others.
LEMMA OwnClaims ==
    ASSUME NEW r \in Requests, Moved(r), UNCHANGED plan
    PROVE  CredClaims' \subseteq CredClaims \cup {r} /\ HookClaims' \subseteq HookClaims \cup {r}
  BY DEF Moved, CredClaims, HookClaims

LEMMA FinishClaims ==
    ASSUME CredentialInv, NEW r \in Requests, Finish(r), UNCHANGED plan
    PROVE  CredClaims' \subseteq CredClaims \ {r} /\ HookClaims' \subseteq HookClaims \ {r}
<1>1. Moved(r) /\ req'[r].op = "idle"
  BY Finishes DEF NoRequest
<1>2. r \notin CredClaims' /\ r \notin HookClaims'
  BY <1>1 DEF CredClaims, HookClaims
<1> QED
  BY <1>1, <1>2, OwnClaims

LEMMA StartClaims ==
    ASSUME CredentialInv, NEW r \in Requests, NEW op, NEW at, NEW on, NEW row, Start(r, op, at, on, row), UNCHANGED plan,
           Moved(r), at # "write" \/ op \notin {"create", "resume", "hook", "unpause hook"}
    PROVE  CredClaims' \subseteq CredClaims /\ HookClaims' \subseteq HookClaims
<1>1. PICK q : q = [op |-> op, at |-> at, on |-> on, row |-> row, plan |-> plan]
  OBVIOUS
<1>2. req'[r] = q
  BY <1>1 DEF Start, CredentialInv, Tables
<1>3. q.op = op /\ q.at = at /\ q.plan = plan
  BY <1>1
<1>4. r \notin CredClaims' /\ r \notin HookClaims'
  BY <1>2, <1>3 DEF CredClaims, HookClaims
<1> QED
  BY <1>4, OwnClaims

\* A request that has counted claims a row, unless it claimed one already.
LEMMA ProceedClaims ==
    ASSUME CredentialInv, NEW r \in Requests, NEW at, Proceed(r, at), UNCHANGED plan
    PROVE  /\ req[r].op \notin {"create", "resume"} \/ req[r].plan # plan => CredClaims' \subseteq CredClaims
           /\ req[r].op \notin {"hook", "unpause hook"} \/ KindOf(req[r].row) # "live" \/ req[r].plan # plan
              => HookClaims' \subseteq HookClaims
<1>1. PICK q : q = [req[r] EXCEPT !.at = at]
  OBVIOUS
<1>2. req'[r] = q /\ Moved(r)
  BY <1>1, Proceeds DEF Proceed, CredentialInv, Tables
<1>3. req[r] = NoRequest \/ DOMAIN req[r] = {"op", "at", "on", "row", "plan"}
  BY DEF CredentialInv, Carries
<1>4. q.op = req[r].op /\ (req[r] # NoRequest => q.row = req[r].row)
  BY <1>1, <1>3 DEF NoRequest
<1>5. req[r].op \notin {"create", "resume"} => r \notin CredClaims'
  BY <1>2, <1>4 DEF CredClaims
<1>6. req[r].op \notin {"hook", "unpause hook"} \/ KindOf(req[r].row) # "live" => r \notin HookClaims'
  <2>1. NoRequest.op = "idle"
    BY DEF NoRequest
  <2>2. q.op \in {"hook", "unpause hook"} => q.row = req[r].row
    BY <1>4, <2>1
  <2> QED
    BY <1>2, <1>4, <2>2 DEF HookClaims, KindOf
<1>7. req[r].plan # plan /\ req[r].op \in {"create", "resume"} => r \in CredClaims
  BY DEF CredClaims
<1>8. req[r].plan # plan /\ req[r].op \in {"hook", "unpause hook"} /\ KindOf(req[r].row) = "live"
      => r \in HookClaims
  BY DEF HookClaims
<1> QED
  BY <1>2, <1>5, <1>6, <1>7, <1>8, OwnClaims

\* A row that counts as an active live webhook.
Counts(row) == row # Absent /\ row.status = "active" /\ KindOf(row) = "live" /\ ~row.uncounted

LEMMA CountedRows ==
    CountedHooks = {h \in Hooks : Counts(hook[h])}
  BY DEF CountedHooks, ActiveOf, OfKind, Present, Active, Counts

LEMMA SameRows ==
    ASSUME UNCHANGED <<cred, hook>>
    PROVE  Stored' = Stored /\ ActiveCreds' = ActiveCreds /\ Present' = Present /\ CountedHooks' = CountedHooks
  BY DEF Stored, ActiveCreds, Present, CountedHooks, ActiveOf, OfKind, Active

LEMMA OneCredential ==
    ASSUME CredentialInv, NEW c, NEW row, cred' = [cred EXCEPT ![c] = row]
    PROVE  /\ Stored' \subseteq Stored \cup {c} /\ ActiveCreds' \subseteq ActiveCreds \cup {c}
           /\ row = Absent \/ (cred[c] # Absent /\ row.status \in {cred[c].status, "paused"})
              => Stored' \subseteq Stored /\ ActiveCreds' \subseteq ActiveCreds
<1>1. \A x \in Creds : cred'[x] = IF x = c THEN row ELSE cred[x]
  BY DEF CredentialInv, Tables
<1> QED
  BY <1>1 DEF Stored, ActiveCreds

LEMMA OneHook ==
    ASSUME CredentialInv, NEW h, NEW row, hook' = [hook EXCEPT ![h] = row]
    PROVE  /\ Present' \subseteq Present \cup {h} /\ CountedHooks' \subseteq CountedHooks \cup {h}
           /\ (hook[h] = Absent => row = Absent) => Present' \subseteq Present
           /\ (Counts(row) => Counts(hook[h])) => CountedHooks' \subseteq CountedHooks
<1>1. \A x \in Hooks : hook'[x] = IF x = h THEN row ELSE hook[x]
  BY DEF CredentialInv, HookTable
<1>2. CountedHooks' = {x \in Hooks : Counts(hook'[x])}
  BY DEF CountedHooks, ActiveOf, OfKind, Present, Active, Counts
<1> QED
  BY <1>1, <1>2, CountedRows DEF Present

LEMMA StillFinite ==
    ASSUME NEW S, IsFiniteSet(S), NEW c, NEW T, T \subseteq S \cup {c}
    PROVE  IsFiniteSet(T)
  BY FS_AddElement, FS_Subset

\* A load: nothing is claimed yet.
LEMMA StartsCount ==
    ASSUME CredentialInv, CredentialInv', ClaimsInv, NEW r \in Requests, UNCHANGED <<tables, platform>>,
           NEW op, NEW at, NEW on, NEW row, Start(r, op, at, on, row),
           at # "write" \/ op \notin {"create", "resume", "hook", "unpause hook"}
    PROVE  ClaimsInv'
<1>1. UNCHANGED <<cred, hook, plan, sweeping>>
  BY DEF tables, platform
<1>2. Moved(r)
  <2>1. Carries(req[r])'
    BY DEF CredentialInv
  <2>2. Carries(req'[r])
    BY <2>1 DEF Carries
  <2> QED
    BY <2>2 DEF Moved, Start, CredentialInv, Tables
<1>3. CredsFall /\ HooksFall
  BY <1>1, <1>2, SameRows, StartClaims DEF CredsFall, HooksFall
<1> QED
  BY <1>1, <1>3, SameRows, SumsKept DEF ClaimsInv

LEMMA LoadsCount ==
    ASSUME CredentialInv, CredentialInv', ClaimsInv, NEW r \in Requests,
           \/ \E c \in Creds, m \in Switched, a \in world.apps : CreateLoad(r, c, m, a)
           \/ \E c \in Creds : EditLoad(r, c) \/ DeleteCount(r, c) \/ PauseCredential(r, c) \/ ResumeLoad(r, c)
           \/ \E h \in Hooks, dest \in Destinations : HookLoad(r, h, dest)
           \/ \E h \in Hooks : EditHookLoad(r, h) \/ HookResumeLoad(r, h)
           \/ \E l \in logins : CallbackLoad(r, l)
    PROVE  ClaimsInv'
<1>1. ASSUME NEW c \in Creds, NEW m \in Switched, NEW a \in world.apps, CreateLoad(r, c, m, a)
      PROVE  ClaimsInv'
  BY <1>1, StartsCount DEF CreateLoad
<1>2. ASSUME NEW c \in Creds, EditLoad(r, c) PROVE ClaimsInv'
  <2>1. PICK row : Start(r, "edit", "write", c, row)
    BY <1>2 DEF EditLoad
  <2> QED
    BY <1>2, <2>1, StartsCount DEF EditLoad
<1>3. ASSUME NEW c \in Creds, DeleteCount(r, c) \/ PauseCredential(r, c) \/ ResumeLoad(r, c) PROVE ClaimsInv'
  BY <1>3, StartsCount DEF DeleteCount, PauseCredential, ResumeLoad
<1>4. ASSUME NEW h \in Hooks, NEW dest \in Destinations, HookLoad(r, h, dest) PROVE ClaimsInv'
  BY <1>4, StartsCount DEF HookLoad
<1>5. ASSUME NEW h \in Hooks, HookResumeLoad(r, h) PROVE ClaimsInv'
  BY <1>5, StartsCount DEF HookResumeLoad
<1>6. ASSUME NEW l \in logins, CallbackLoad(r, l) PROVE ClaimsInv'
  <2>1. Start(r, "connect", l.app, l.cred, cred[l.cred]) /\ UNCHANGED <<tables, platform>>
    BY <1>6 DEF CallbackLoad
  <2> QED
    BY <2>1, StartsCount
<1>7. ASSUME NEW h \in Hooks, EditHookLoad(r, h) PROVE ClaimsInv'
  <2>1. PICK row : Start(r, "edit hook", "write", h, row)
    BY <1>7 DEF EditHookLoad
  <2> QED
    BY <1>7, <2>1, StartsCount DEF EditHookLoad
<1> QED
  BY <1>1, <1>2, <1>3, <1>4, <1>5, <1>6, <1>7

LEMMA CountsCount ==
    ASSUME CredentialInv, ClaimsInv, NEW r \in Requests,
           CreateCount(r) \/ ResumeCount(r) \/ HookCount(r) \/ HookResumeCount(r)
    PROVE  ClaimsInv'
<1>1. UNCHANGED <<cred, hook, plan, sweeping>>
  BY DEF CreateCount, ResumeCount, HookCount, HookResumeCount, tables, platform
<1>2. /\ Stored' = Stored /\ ActiveCreds' = ActiveCreds /\ Present' = Present /\ CountedHooks' = CountedHooks
  BY <1>1, SameRows
<1>3. CASE Finish(r)
  BY <1>1, <1>2, <1>3, FinishClaims, SumsKept DEF CredsFall, HooksFall, ClaimsInv
<1>4. CASE /\ Proceed(r, "write") /\ req[r].op \in {"create", "resume"}
           /\ Cardinality(ActiveCreds) < LimitsFor(req[r].plan).creds
  <2>1. HooksFall
    BY <1>1, <1>2, <1>4, ProceedClaims DEF HooksFall
  <2>2. CredsFall \/ CredsCount
    BY <1>1, <1>2, <1>4, ProceedClaims DEF CredsFall, CredsCount
  <2> QED
    BY <1>1, <1>2, <2>1, <2>2, SumsKept DEF ClaimsInv
<1>5. CASE /\ Proceed(r, "write") /\ req[r].op \in {"hook", "unpause hook"} /\ KindOf(req[r].row) = "live"
           /\ Cardinality(CountedHooks) < LimitsFor(req[r].plan).hooks
  <2>1. CredsFall
    BY <1>1, <1>2, <1>5, ProceedClaims DEF CredsFall
  <2>2. HooksFall \/ HooksCount
    BY <1>1, <1>2, <1>5, ProceedClaims DEF HooksFall, HooksCount
  <2> QED
    BY <1>1, <1>2, <2>1, <2>2, SumsKept DEF ClaimsInv
<1>6. CASE /\ Proceed(r, "write") /\ req[r].op \in {"hook", "unpause hook"} /\ KindOf(req[r].row) # "live"
  BY <1>1, <1>2, <1>6, ProceedClaims, SumsKept DEF CredsFall, HooksFall, ClaimsInv
<1>7. \/ Finish(r)
      \/ /\ Proceed(r, "write") /\ req[r].op \in {"create", "resume"}
         /\ Cardinality(ActiveCreds) < LimitsFor(req[r].plan).creds
      \/ /\ Proceed(r, "write") /\ req[r].op \in {"hook", "unpause hook"}
         /\ KindOf(req[r].row) = "live" => Cardinality(CountedHooks) < LimitsFor(req[r].plan).hooks
  <2> DEFINE live == ActiveOf("live")
             all == OfKind("live")
  <2>1. /\ Cardinality(ActiveCreds) <= Cardinality(Stored)
        /\ Cardinality(CountedHooks) <= Cardinality(live) /\ Cardinality(CountedHooks) <= Cardinality(all)
        /\ {Cardinality(ActiveCreds), Cardinality(Stored), Cardinality(CountedHooks), Cardinality(live),
            Cardinality(all)} \subseteq Nat
    <3>1. ActiveCreds \subseteq Stored /\ CountedHooks \subseteq live /\ live \subseteq all /\ all \subseteq Present
      BY DEF ActiveCreds, CountedHooks, ActiveOf, OfKind
    <3>2. IsFiniteSet(Stored) /\ IsFiniteSet(live) /\ IsFiniteSet(all)
      BY <3>1, FS_Subset DEF ClaimsInv
    <3> HIDE DEF live, all
    <3> QED
      BY <3>1, <3>2, FiniteSets, FS_Subset, FS_CardinalityType
  <2>2. LimitsFor(req[r].plan).creds \in Nat /\ LimitsFor(req[r].plan).hooks \in Nat
    BY Limits
  <2>7. \A m \in Nat : Cardinality(live) < m => Cardinality(CountedHooks) < m
    BY <2>1
  <2>3. CASE CreateCount(r)
    BY <2>1, <2>2, <2>3 DEF CreateCount, At, CanAdd
  <2>4. CASE ResumeCount(r)
    BY <2>1, <2>2, <2>4 DEF ResumeCount, At, CanAdd
  <2>5. CASE HookCount(r)
    <3>1. CASE KindOf(req[r].row) = "live"
      <4>1. MaxWebhooks(req[r].plan, "live") = LimitsFor(req[r].plan).hooks
        BY DEF MaxWebhooks
      <4> QED
        BY <2>1, <2>2, <2>5, <3>1, <4>1 DEF HookCount, At, CanAdd
    <3>2. CASE KindOf(req[r].row) # "live"
      BY <2>5, <3>2 DEF HookCount, At
    <3> QED
      BY <3>1, <3>2
  <2>6. CASE HookResumeCount(r)
    <3>1. CASE KindOf(req[r].row) = "live"
      <4>1. MaxWebhooks(req[r].plan, "live") = LimitsFor(req[r].plan).hooks
        BY DEF MaxWebhooks
      <4> QED
        <5>1. \/ Finish(r)
              \/ Proceed(r, "write") /\ Cardinality(live) < LimitsFor(req[r].plan).hooks
          BY <2>6, <3>1, <4>1 DEF HookResumeCount, CanAdd
        <5>2. req[r].op = "unpause hook"
          BY <2>6 DEF HookResumeCount, At
        <5> QED
          BY <2>2, <2>7, <5>1, <5>2
    <3>2. CASE KindOf(req[r].row) # "live"
      BY <2>6, <3>2 DEF HookResumeCount, At
    <3> QED
      BY <3>1, <3>2
  <2> QED
    BY <2>3, <2>4, <2>5, <2>6
<1> QED
  BY <1>3, <1>4, <1>5, <1>6, <1>7

LEMMA CredentialWritesCount ==
    ASSUME CredentialInv, ClaimsInv, NEW r \in Requests,
           CreateInsert(r) \/ EditWrite(r) \/ DeleteRow(r) \/ StatusWrite(r) \/ CallbackWrite(r)
    PROVE  ClaimsInv'
<1>1. UNCHANGED <<hook, plan, sweeping>> /\ Finish(r)
  BY DEF CreateInsert, EditWrite, DeleteRow, StatusWrite, CallbackWrite, platform
<1>2. Present' = Present /\ CountedHooks' = CountedHooks
  BY <1>1 DEF Present, CountedHooks, ActiveOf, OfKind, Active
<1>3. CredClaims' \subseteq CredClaims \ {r} /\ HooksFall
  BY <1>1, <1>2, FinishClaims DEF HooksFall
<1>4. PICK c : c = req[r].on
  OBVIOUS
<1>5. \/ cred' = cred
      \/ r \in CredClaims /\ \E row : cred' = [cred EXCEPT ![c] = row]
      \/ \E row : /\ cred' = [cred EXCEPT ![c] = row]
                  /\ c \in Creds => row = Absent \/ (cred[c] # Absent /\ row.status \in {cred[c].status, "paused"})
  <2>1. CASE CreateInsert(r)
    <3>1. r \in CredClaims
      BY <2>1 DEF CreateInsert, At, CredClaims
    <3> QED
      BY <1>4, <2>1, <3>1 DEF CreateInsert
  <2>2. CASE EditWrite(r)
    <3>1. Matched(req[r].row)
      BY <2>2 DEF EditWrite, At, CredentialInv, Carries
    <3>2. \/ cred' = cred
          \/ cred[c] # Absent /\ cred' = [cred EXCEPT ![c] = Rewritten(cred[c], req[r].row)]
      BY <1>4, <2>2 DEF EditWrite
    <3>3. cred[c] # Absent /\ c \in Creds => Rewritten(cred[c], req[r].row).status = cred[c].status
      BY <3>1, StoredIsHonest, RewrittenIsHonest
    <3> QED
      BY <3>2, <3>3
  <2>3. CASE DeleteRow(r)
    BY <1>4, <2>3 DEF DeleteRow
  <2>4. CASE StatusWrite(r) /\ req[r].op = "resume"
    <3>1. r \in CredClaims
      BY <2>4 DEF StatusWrite, At, CredClaims
    <3> QED
      BY <1>4, <2>4, <3>1 DEF StatusWrite
  <2>5. CASE StatusWrite(r) /\ req[r].op = "pause"
    <3>1. req[r].row.status = "paused"
      BY <2>5 DEF CredentialInv, Carries
    <3>2. PICK a : \/ cred' = cred
                   \/ cred[c] # Absent /\ cred' = [cred EXCEPT ![c] = [@ EXCEPT !.status = "paused", !.auto = a]]
      BY <1>4, <2>5, <3>1 DEF StatusWrite
    <3>3. PICK row : row = [cred[c] EXCEPT !.status = "paused", !.auto = a]
      OBVIOUS
    <3>4. c \in Creds /\ cred[c] # Absent => row.status = "paused"
      BY <3>3, StoredIsHonest DEF Honest, Matched, RowFields
    <3> QED
      BY <3>2, <3>3, <3>4
  <2>6. CASE CallbackWrite(r)
    <3>1. Matched(req[r].row)
      BY <2>6 DEF CallbackWrite, At, CredentialInv, Carries
    <3>2. \/ cred' = cred
          \/ cred[c].broker = "zerodha" /\ cred' = [cred EXCEPT ![c] = Reconnected(cred[c], req[r].row)]
      BY <1>4, <2>6 DEF CallbackWrite
    <3>3. cred[c].broker = "zerodha" => cred[c] # Absent
      BY DEF Absent
    <3>4. cred[c] # Absent /\ c \in Creds => Reconnected(cred[c], req[r].row).status = cred[c].status
      BY <3>1, StoredIsHonest, ReconnectedIsHonest DEF CredentialInv, Tables
    <3> QED
      BY <3>2, <3>3, <3>4
  <2> QED
    BY <2>1, <2>2, <2>3, <2>4, <2>5, <2>6 DEF StatusWrite, At
<1>6. CASE cred' = cred
  <2>1. Stored' = Stored /\ ActiveCreds' = ActiveCreds
    BY <1>1, <1>6, SameRows
  <2> QED
    BY <1>1, <1>2, <1>3, <2>1, SumsKept DEF CredsFall, ClaimsInv
<1>7. CASE r \in CredClaims /\ \E row : cred' = [cred EXCEPT ![c] = row]
  <2>1. Stored' \subseteq Stored \cup {c} /\ ActiveCreds' \subseteq ActiveCreds \cup {c}
    BY <1>7, OneCredential
  <2>2. IsFiniteSet(Stored')
    BY <2>1, StillFinite DEF ClaimsInv
  <2>3. CredsTrade
    BY <1>3, <1>7, <2>1 DEF CredsTrade
  <2> QED
    BY <1>1, <1>2, <1>3, <2>2, <2>3, SumsKept DEF ClaimsInv
<1>8. ASSUME NEW row, cred' = [cred EXCEPT ![c] = row],
             c \in Creds => row = Absent \/ (cred[c] # Absent /\ row.status \in {cred[c].status, "paused"})
      PROVE  ClaimsInv'
  <2>1. Stored' \subseteq Stored /\ ActiveCreds' \subseteq ActiveCreds
    <3>1. CASE c \in Creds
      BY <1>8, <3>1, OneCredential
    <3>2. CASE c \notin Creds
      <4>1. cred' = cred
        BY <1>8, <3>2 DEF CredentialInv, Tables
      <4> QED
        BY <1>1, <4>1, SameRows
    <3> QED
      BY <3>1, <3>2
  <2>2. IsFiniteSet(Stored')
    BY <2>1, FS_Subset DEF ClaimsInv
  <2> QED
    BY <1>1, <1>2, <1>3, <2>1, <2>2, SumsKept DEF CredsFall, ClaimsInv
<1> QED
  BY <1>5, <1>6, <1>7, <1>8

\* What an edit or a resume makes of a webhook: an edit makes none count, and a resume
\* only one whose kind was counted.
LEMMA WrittenHooks ==
    ASSUME NEW old, DOMAIN old = HookFields, NEW row
    PROVE  /\ Counts(Redirected(old, row)) /\ old # Absent => Counts(old)
           /\ Counts(Resumed(old, row)) => KindOf(row) = "live"
<1>1. PICK new : new = Redirected(old, row)
  OBVIOUS
<1>2. new.status = old.status /\ new.cred = row.cred /\ new.uncounted = (old.uncounted \/ KindOf(old) # KindOf(row))
  BY <1>1 DEF Redirected, HookFields
<1>3. KindOf(new) = KindOf(row)
  BY <1>2 DEF KindOf
<1>4. Counts(new) /\ old # Absent => Counts(old)
  BY <1>2, <1>3 DEF Counts
<1>5. PICK res : res = Resumed(old, row)
  OBVIOUS
<1>6. res.cred = old.cred /\ res.uncounted = (KindOf(old) # KindOf(row))
  BY <1>5 DEF Resumed, HookFields
<1>7. KindOf(res) = KindOf(old)
  BY <1>6 DEF KindOf
<1>8. Counts(res) => KindOf(row) = "live"
  BY <1>6, <1>7 DEF Counts
<1> QED
  BY <1>1, <1>4, <1>5, <1>8

LEMMA HookWritesCount ==
    ASSUME CredentialInv, ClaimsInv, NEW r \in Requests, HookInsert(r) \/ EditHookWrite(r) \/ HookStatusWrite(r)
    PROVE  ClaimsInv'
<1>1. UNCHANGED <<cred, plan, sweeping>> /\ Finish(r)
  BY DEF HookInsert, EditHookWrite, HookStatusWrite, platform
<1>2. Stored' = Stored /\ ActiveCreds' = ActiveCreds
  BY <1>1 DEF Stored, ActiveCreds
<1>3. CredsFall /\ HookClaims' \subseteq HookClaims \ {r}
  BY <1>1, <1>2, FinishClaims DEF CredsFall
<1>4. PICK h : h = req[r].on
  OBVIOUS
<1>5. CASE hook' = hook
  BY <1>1, <1>2, <1>3, <1>5, SameRows, SumsKept DEF HooksFall, ClaimsInv
<1>6. ASSUME NEW row, hook' = [hook EXCEPT ![h] = row], r \in HookClaims \/ ~Counts(row) \/ Counts(hook[h])
      PROVE  ClaimsInv'
  <2>1. Present' \subseteq Present \cup {h} /\ CountedHooks' \subseteq CountedHooks \cup {h}
    BY <1>6, OneHook
  <2>2. HooksFall \/ HooksTrade
    BY <1>3, <1>6, <2>1, OneHook DEF HooksFall, HooksTrade
  <2>3. IsFiniteSet(Present')
    BY <2>1, StillFinite DEF ClaimsInv
  <2> QED
    BY <1>1, <1>2, <1>3, <2>2, <2>3, SumsKept DEF ClaimsInv
<1>7. CASE HookInsert(r)
  <2>1. Counts(req[r].row) => r \in HookClaims
    BY <1>7 DEF HookInsert, At, HookClaims, Counts
  <2> QED
    BY <1>4, <1>5, <1>6, <1>7, <2>1 DEF HookInsert
<1>8. CASE h \notin Hooks
  <2>1. hook' = hook \/ \E row : hook' = [hook EXCEPT ![h] = row]
    BY <1>4 DEF HookInsert, EditHookWrite, HookStatusWrite
  <2>2. hook' = hook
    BY <1>8, <2>1 DEF CredentialInv, HookTable
  <2> QED
    BY <1>5, <2>2
<1>9. CASE EditHookWrite(r) /\ h \in Hooks
  <2>1. \/ hook' = hook
        \/ hook[h] # Absent /\ hook' = [hook EXCEPT ![h] = Redirected(hook[h], req[r].row)]
    BY <1>4, <1>9 DEF EditHookWrite
  <2>2. hook[h] # Absent /\ Counts(Redirected(hook[h], req[r].row)) => Counts(hook[h])
    BY <1>9, WrittenHooks DEF CredentialInv, HookTable, Present
  <2> QED
    BY <1>5, <1>6, <2>1, <2>2
<1>10. CASE HookStatusWrite(r) /\ h \in Hooks
  <2>1. \/ hook' = hook
        \/ hook[h] # Absent /\ hook' = [hook EXCEPT ![h] = Resumed(hook[h], req[r].row)]
    BY <1>4, <1>10 DEF HookStatusWrite
  <2>2. hook[h] # Absent /\ Counts(Resumed(hook[h], req[r].row)) => KindOf(req[r].row) = "live"
    BY <1>10, WrittenHooks DEF CredentialInv, HookTable, Present
  <2>3. KindOf(req[r].row) = "live" => r \in HookClaims
    BY <1>10 DEF HookStatusWrite, At, HookClaims
  <2> QED
    BY <1>5, <1>6, <2>1, <2>2, <2>3
<1> QED
  BY <1>7, <1>8, <1>9, <1>10

\* A token exchanged, a login begun or given up, time, a switch: nothing is counted.
LEMMA SameClaims ==
    ASSUME ClaimsInv, UNCHANGED <<cred, hook, plan, sweeping>>,
           CredClaims' \subseteq CredClaims, HookClaims' \subseteq HookClaims
    PROVE  ClaimsInv'
<1>1. CredsFall /\ HooksFall
  BY SameRows DEF CredsFall, HooksFall
<1> QED
  BY <1>1, SameRows, SumsKept DEF ClaimsInv

LEMMA QuietClaims ==
    ASSUME UNCHANGED <<req, plan>>
    PROVE  CredClaims' = CredClaims /\ HookClaims' = HookClaims
  BY DEF CredClaims, HookClaims

LEMMA ExchangeCounts ==
    ASSUME CredentialInv, CredentialInv', ClaimsInv, NEW r \in Requests, CallbackExchange(r)
    PROVE  ClaimsInv'
<1>1. UNCHANGED <<cred, hook, plan, sweeping>>
  BY DEF CallbackExchange, tables, platform
<1>2. CASE Finish(r)
  BY <1>1, <1>2, FinishClaims, SameClaims
<1>3. ASSUME NEW row, req' = [req EXCEPT ![r] = [@ EXCEPT !.at = "write", !.row = row]], req[r].op = "connect"
      PROVE  ClaimsInv'
  <2>1. req'[r].op = "connect"
    <3>1. Carries(req[r]) /\ req[r] # NoRequest
      BY <1>3 DEF CredentialInv, NoRequest
    <3>2. DOMAIN req[r] = {"op", "at", "on", "row", "plan"}
      BY <3>1 DEF Carries
    <3> QED
      BY <1>3, <3>2 DEF CredentialInv, Tables
  <2>2. r \notin CredClaims' /\ r \notin HookClaims'
    BY <2>1 DEF CredClaims, HookClaims
  <2>3. CredClaims' \subseteq CredClaims /\ HookClaims' \subseteq HookClaims
    BY <1>1, <1>3, <2>2 DEF CredClaims, HookClaims, CredentialInv, Tables
  <2> QED
    BY <1>1, <2>3, SameClaims
<1> QED
  BY <1>2, <1>3 DEF CallbackExchange

LEMMA HookEndCounts ==
    ASSUME CredentialInv, ClaimsInv, NEW h \in Hooks, HookEnd(h)
    PROVE  ClaimsInv'
<1>1. UNCHANGED <<cred, req, plan, sweeping>>
  BY DEF HookEnd, platform
<1>2. PICK row : /\ hook[h] # Absent /\ hook' = [hook EXCEPT ![h] = row]
                 /\ row \in {Absent, [hook[h] EXCEPT !.status = "paused"]}
  BY DEF HookEnd
<1>3. ~Counts(row)
  BY <1>2 DEF CredentialInv, HookTable, HookFields, Present, Counts
<1>4. Present' \subseteq Present /\ CountedHooks' \subseteq CountedHooks
  BY <1>2, <1>3, OneHook
<1>5. Stored' = Stored /\ ActiveCreds' = ActiveCreds
  BY <1>1 DEF Stored, ActiveCreds
<1>6. CredsFall /\ HooksFall
  BY <1>1, <1>4, <1>5, QuietClaims DEF CredsFall, HooksFall
<1>7. IsFiniteSet(Present')
  BY <1>4, FS_Subset DEF ClaimsInv
<1> QED
  BY <1>1, <1>5, <1>6, <1>7, SumsKept DEF ClaimsInv

LEMMA SweepCounts ==
    ASSUME CredentialInv, ClaimsInv, NEW failed \in BOOLEAN, Sweep(failed)
    PROVE  ClaimsInv'
<1>1. UNCHANGED <<req, plan, sweeping>>
  BY DEF Sweep
<1>2. ASSUME NEW c \in Creds
      PROVE  /\ cred'[c] = Absent <=> cred[c] = Absent
             /\ cred'[c] # Absent => cred'[c].status \in {cred[c].status, "paused"}
  <2>1. \/ cred'[c] = cred[c]
        \/ cred[c] # Absent /\ cred'[c] = [cred[c] EXCEPT !.disabled = FALSE]
        \/ cred[c] # Absent /\ cred'[c] = [cred[c] EXCEPT !.status = "paused", !.disabled = TRUE]
    <3>1. CASE cred' = cred
      BY <3>1
    <3>2. CASE cred' = Cleared(admin.mode)
      BY <3>2 DEF Cleared
    <3>3. CASE cred' = Disabled(admin.mode)
      BY <3>3 DEF Disabled, ActiveCreds, Stored
    <3> QED
      BY <3>1, <3>2, <3>3 DEF Sweep
  <2>2. cred[c] # Absent => DOMAIN cred[c] = RowFields
    BY StoredIsHonest DEF Honest, Matched
  <2> QED
    BY <2>1, <2>2 DEF RowFields, Absent
<1>3. ASSUME NEW h \in Hooks
      PROVE  (hook'[h] = Absent <=> hook[h] = Absent) /\ (Counts(hook'[h]) => Counts(hook[h]))
  <2>1. \/ hook'[h] = hook[h]
        \/ hook[h] # Absent /\ hook'[h] = [hook[h] EXCEPT !.disabled = FALSE]
        \/ hook[h] # Absent /\ hook'[h] = [hook[h] EXCEPT !.status = "paused", !.disabled = TRUE]
    BY DEF Sweep, HooksCleared, HooksDisabled, OnMode, OfKind, Present
  <2>2. hook[h] # Absent => DOMAIN hook[h] = HookFields
    BY DEF CredentialInv, HookTable, Present
  <2>3. CASE hook[h] # Absent /\ hook'[h] = [hook[h] EXCEPT !.disabled = FALSE]
    BY <2>2, <2>3 DEF HookFields, Absent, Counts, KindOf
  <2>4. CASE hook[h] # Absent /\ hook'[h] = [hook[h] EXCEPT !.status = "paused", !.disabled = TRUE]
    BY <2>2, <2>4 DEF HookFields, Absent, Counts
  <2> QED
    BY <2>1, <2>3, <2>4
<1>4. Stored' = Stored /\ ActiveCreds' \subseteq ActiveCreds
  BY <1>2 DEF Stored, ActiveCreds
<1>5. Present' = Present /\ CountedHooks' \subseteq CountedHooks
  <2>1. CountedHooks' = {h \in Hooks : Counts(hook'[h])}
    BY DEF CountedHooks, ActiveOf, OfKind, Present, Active, Counts
  <2> QED
    BY <1>3, <2>1, CountedRows DEF Present
<1>6. CredsFall /\ HooksFall
  BY <1>1, <1>4, <1>5, QuietClaims DEF CredsFall, HooksFall
<1> QED
  BY <1>1, <1>4, <1>5, <1>6, SumsKept DEF ClaimsInv

\* A downgrade pauses everything; only what is in flight can be activated after it.
LEMMA DowngradeCounts ==
    ASSUME CredentialInv, ClaimsInv, (\E p \in {"pro", "free"} : Downgrade(p)) \/ PauseOwned
    PROVE  ClaimsInv'
<1>1. CASE \E p \in {"pro", "free"} : Downgrade(p)
  <2>1. sweeping' = TRUE /\ UNCHANGED <<cred, hook>>
    BY <1>1 DEF Downgrade, tables
  <2> QED
    BY <2>1, SameRows DEF ClaimsInv, CredsWithin, HooksWithin
<1>2. CASE PauseOwned
  <2>1. ASSUME NEW c \in Creds
        PROVE  cred'[c] = Absent \/ (cred[c] # Absent /\ cred'[c].status = "paused")
    <3>1. \/ cred'[c] = Absent
          \/ cred[c] # Absent /\ cred'[c] = [cred[c] EXCEPT !.status = "paused", !.auto = TRUE]
      BY <1>2 DEF PauseOwned
    <3> QED
      BY <3>1, StoredIsHonest DEF Honest, Matched, RowFields
  <2>2. ASSUME NEW h \in Hooks
        PROVE  (hook'[h] = Absent <=> hook[h] = Absent) /\ ~Counts(hook'[h])
    <3>1. CASE h \in OfKind("live")
      <4>1. hook[h] # Absent /\ hook'[h] = [hook[h] EXCEPT !.status = "paused", !.auto = TRUE]
        BY <1>2, <3>1 DEF PauseOwned, OfKind, Present
      <4>2. DOMAIN hook[h] = HookFields
        BY <4>1 DEF CredentialInv, HookTable, Present
      <4> QED
        BY <4>1, <4>2 DEF HookFields, Counts, Absent
    <3>2. CASE h \notin OfKind("live")
      BY <1>2, <3>2 DEF PauseOwned, OfKind, Present, Counts
    <3> QED
      BY <3>1, <3>2
  <2>3. Stored' \subseteq Stored /\ ActiveCreds' = {}
    BY <2>1 DEF Stored, ActiveCreds
  <2>4. Present' \subseteq Present /\ CountedHooks' = {}
    <3>1. CountedHooks' = {h \in Hooks : Counts(hook'[h])}
      BY DEF CountedHooks, ActiveOf, OfKind, Present, Active, Counts
    <3> QED
      BY <2>2, <3>1 DEF Present
  <2>5. IsFiniteSet(Stored') /\ IsFiniteSet(Present')
    BY <2>3, <2>4, FS_Subset DEF ClaimsInv
  <2>6. CredClaims' \subseteq Requests /\ HookClaims' \subseteq Requests
    BY DEF CredClaims, HookClaims
  <2>7. PICK mc \in Nat, mh \in Nat : mc = LimitsFor(plan').creds /\ mh = LimitsFor(plan').hooks
    BY Limits
  <2>8. /\ Cardinality(ActiveCreds') + Cardinality(CredClaims') <= Bound(mc)
        /\ Cardinality(CountedHooks') + Cardinality(HookClaims') <= Bound(mh)
    BY <2>3, <2>4, <2>6, FS_EmptySet, SumCounts
  <2>9. Bound(mc)' = Bound(mc) /\ Bound(mh)' = Bound(mh)
    BY DEF Bound
  <2>10. CredsWithin' /\ HooksWithin'
    BY <2>7, <2>8, <2>9 DEF CredsWithin, HooksWithin, Bound
  <2> QED
    BY <2>5, <2>10 DEF ClaimsInv
<1> QED
  BY <1>1, <1>2

LEMMA ClaimsKept ==
    ASSUME CredentialInv, CredentialInv', ClaimsInv, [CredentialNext]_credentialVars
    PROVE  ClaimsInv'
<1>1. ASSUME NEW r \in Requests, CredentialRequest(r) PROVE ClaimsInv'
  BY <1>1, LoadsCount, CountsCount, CredentialWritesCount DEF CredentialRequest
<1>2. ASSUME NEW r \in Requests, HookRequest(r) PROVE ClaimsInv'
  BY <1>2, LoadsCount, CountsCount, HookWritesCount DEF HookRequest
<1>3. ASSUME NEW r \in Requests, Callback(r) PROVE ClaimsInv'
  BY <1>3, LoadsCount, ExchangeCounts, CredentialWritesCount DEF Callback
<1>4. ASSUME \/ \E c \in Creds : Connect(c)
             \/ \E l \in logins : AbandonLogin(l)
             \/ Tick
             \/ \E m \in Switched, on \in BOOLEAN : SetSwitch(m, on)
             \/ UNCHANGED credentialVars
      PROVE  ClaimsInv'
  <2>1. UNCHANGED <<cred, hook, req, plan, sweeping>>
    BY <1>4 DEF Connect, AbandonLogin, Tick, SetSwitch, credentialVars, tables, platform
  <2> QED
    BY <2>1, QuietClaims, SameClaims
<1> QED
  BY <1>1, <1>2, <1>3, <1>4, HookEndCounts, SweepCounts, DowngradeCounts DEF CredentialNext, Step, Platform

(* The active rows and the requests that may still activate one, together,   *)
(* stay within the plan's limit and one for every further request            *)
(* (shared/handler.go, EnforceBrokerLimit to EnforceWebhookResumeLimit).     *)
THEOREM ClaimsInvariance == CredentialSpec => [](CredentialInv /\ ClaimsInv)
<1>1. ASSUME CredentialInit PROVE ClaimsInv
  <2> USE <1>1 DEF CredentialInit
  <2>1. PICK w \in Worlds : w = world
    OBVIOUS
  <2>2. Stored \subseteq w.creds /\ Present = {} /\ CredClaims = {} /\ HookClaims = {} /\ plan = w.plan
    BY <2>1 DEF Stored, Present, CredClaims, HookClaims, NoRequest
  <2>3. IsFiniteSet(w.creds) /\ Cardinality(w.creds) <= LimitsFor(w.plan).creds
    BY StartsWithinPlan
  <2>4. ActiveCreds \subseteq w.creds /\ CountedHooks = {}
    BY <2>2 DEF ActiveCreds, CountedHooks, ActiveOf, OfKind
  <2>5. IsFiniteSet(Stored) /\ IsFiniteSet(Present)
    BY <2>2, <2>3, FS_Subset, FS_EmptySet
  <2>6. /\ Cardinality(Requests) \in Nat /\ Cardinality(Requests) # 0
        /\ LimitsFor(plan).creds \in Nat /\ LimitsFor(plan).hooks \in Nat
    BY CredentialConstantsOK, FS_CardinalityType, FS_EmptySet, Limits
  <2>7. Cardinality(CredClaims) = 0 /\ Cardinality(HookClaims) = 0 /\ Cardinality(CountedHooks) = 0
    BY <2>2, <2>4, FS_EmptySet
  <2>8. Cardinality(ActiveCreds) <= LimitsFor(plan).creds /\ Cardinality(ActiveCreds) \in Nat
    <3>1. IsFiniteSet(ActiveCreds) /\ Cardinality(ActiveCreds) <= Cardinality(w.creds)
      BY <2>3, <2>4, FS_Subset
    <3>2. Cardinality(ActiveCreds) \in Nat /\ Cardinality(w.creds) \in Nat
      BY <2>3, <3>1, FS_CardinalityType
    <3> QED
      BY <2>2, <2>3, <2>6, <3>1, <3>2
  <2>9. CredsWithin /\ HooksWithin
    BY <2>6, <2>7, <2>8 DEF CredsWithin, HooksWithin, Bound
  <2> QED
    BY <2>5, <2>9 DEF ClaimsInv
<1>2. CredentialInv /\ CredentialInv' /\ ClaimsInv /\ [CredentialNext]_credentialVars => ClaimsInv'
  BY ClaimsKept
<1> QED
  BY <1>1, <1>2, CredentialInvariance, PTL DEF CredentialSpec

(* However requests and a downgrade interleave, the active credentials, and  *)
(* the live webhooks that a create or a resume made active, exceed the plan  *)
(* by at most one per further request in flight; webhooks that an edit moved *)
(* over from paper are not counted by the code (webhooks/handler.go:577-602) *)
(* and come on top.                                                          *)
THEOREM PlansAreKept == CredentialSpec => []ActiveWithinPlan
<1>1. ASSUME ClaimsInv PROVE ActiveWithinPlan
  <2>1. /\ {Cardinality(ActiveCreds), Cardinality(CredClaims), Cardinality(CountedHooks), Cardinality(HookClaims)} \subseteq Nat
        /\ Bound(LimitsFor(plan).creds) \in Int /\ Bound(LimitsFor(plan).hooks) \in Int
    BY <1>1, FiniteSets, FS_CardinalityType, Limits, BoundIsInteger
  <2> QED
    BY <1>1, <2>1 DEF ClaimsInv, CredsWithin, HooksWithin, ActiveWithinPlan
<1> QED
  BY <1>1, ClaimsInvariance, PTL

=============================================================================
