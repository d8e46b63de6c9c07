--------------------------- MODULE SignalPipeline ---------------------------
(***************************************************************************)
(* The path of one webhook's order signals through the gateway process:    *)
(*                                                                         *)
(*   HTTP handler   internal/modules/signals/handler.go   processOrderSignal *)
(*   worker queue   internal/platform/queue/queue.go      Enqueue, worker,   *)
(*                                                        process, Stop      *)
(*   Redis          internal/store/redis.go               dedup claims       *)
(*   PostgreSQL     internal/store/postgres.go            the trades table   *)
(*   process        internal/app/app.go                   Run (shutdown)     *)
(*                                                                         *)
(* Every delivery of a signal is a request with its own handler goroutine; *)
(* a fixed pool of workers drains the in-memory queue.  Each step below is *)
(* one call that leaves the goroutine (Redis, PostgreSQL, the broker) or   *)
(* one operation on the channel, so the steps of all goroutines interleave. *)
(*                                                                         *)
(* Abstracted: the payload is the dedup key it hashes to (KeyOf); every    *)
(* check that reads state of other components (token, plan, compliance,    *)
(* guard rules, rate limits) is a nondeterministic pass or rejection; the  *)
(* three live outcomes submitted, filled and pending_confirmation are one  *)
(* status, "placed", because nothing here tells them apart.                *)
(***************************************************************************)
EXTENDS Naturals, Sequences, FiniteSets

CONSTANTS
    Reqs,        \* deliveries of a signal; the request id is also the trade id
    NoReq,       \* the job of a worker that has none
    Keys,        \* dedup keys (idempotency.SignalKey of the payload)
    KeyOf,       \* KeyOf[r]: the key of the payload delivered by r
    Workers,     \* worker goroutines (WORKER_COUNT)
    QueueCap,    \* capacity of the jobs channel (QUEUE_BUFFER)
    Window,      \* dedup_window_sec of the webhook, 0 = dedup disabled
    MaxTime,     \* bound on the clock
    MaxRestarts, \* bound on process restarts
    Faults       \* which environment faults may happen

FaultKinds == {"redis",      \* a Redis command fails, applied or not
               "store",      \* a PostgreSQL statement fails, applied or not
               "deadline",   \* execution outlasts the 10 s context of the job
               "lostreply",  \* the order is placed but the call returns an error
               "stall",      \* a handler is descheduled for a whole window
               "crash"}      \* the process dies, or shutdown is forced

ASSUME ConstantsOK ==
    /\ NoReq \notin Reqs
    /\ KeyOf \in [Reqs -> Keys]
    /\ QueueCap \in Nat \ {0}
    /\ Window \in Nat
    /\ MaxTime \in Nat
    /\ MaxRestarts \in Nat
    /\ Faults \subseteq FaultKinds

VARIABLES
    now,        \* the clock Redis expiry and created_at are read from
    proc,       \* the gateway process
    restarts,   \* how often it was restarted
    handler,    \* handler[r]: the next step of r's handler goroutine
    answer,     \* answer[r]: the HTTP answer the handler has settled on
    claim,      \* claim[k]: when the dedup key of k expires in Redis
    claimedAt,  \* claimedAt[r]: when r's handler tried to claim its key
    queue,      \* the jobs channel
    step,       \* step[w]: the next step of worker w
    job,        \* job[w]: the request w is processing
    outcome,    \* outcome[w]: trade.Status in the worker's memory
    row,        \* row[r]: status of the trades row with id r
    stamp,      \* stamp[r]: created_at of the trade built for r
    orders      \* orders[r]: orders the broker has received for r

handlerVars == <<handler, answer, claimedAt>>
workerVars  == <<step, job, outcome>>
tableVars   == <<row, stamp>>
procVars    == <<now, proc, restarts>>
vars == <<procVars, handlerVars, claim, queue, workerVars, tableVars, orders>>

HandlerSteps == {"unsent", "claim", "enqueue", "release", "audit",
                 "replied", "gone"}
Answers      == {"none", "202", "409", "503", "refused"}
WorkerSteps  == {"idle", "lookup", "insert", "gate", "execute", "settle",
                 "expired", "audit"}
ActiveStatus == {"queued", "placed"}
FinalStatus  == {"rejected", "placed"}
RowStatus    == {"none"} \cup ActiveStatus \cup FinalStatus

\* A handler goroutine that is running.
InHandler(r) == handler[r] \in {"claim", "enqueue", "release", "audit"}

\* The job of r is in the channel.
InQueue(r) == \E i \in 1..Len(queue) : queue[i] = r

\* The job of r is being processed.
AtWorker(r) == \E w \in Workers : step[w] # "idle" /\ job[w] = r

Init ==
    /\ now = 0
    /\ proc = "up"
    /\ restarts = 0
    /\ handler = [r \in Reqs |-> "unsent"]
    /\ answer = [r \in Reqs |-> "none"]
    /\ claim = [k \in Keys |-> 0]
    /\ claimedAt = [r \in Reqs |-> 0]
    /\ queue = << >>
    /\ step = [w \in Workers |-> "idle"]
    /\ job = [w \in Workers |-> NoReq]
    /\ outcome = [w \in Workers |-> "rejected"]
    /\ row = [r \in Reqs |-> "none"]
    /\ stamp = [r \in Reqs |-> 0]
    /\ orders = [r \in Reqs |-> 0]

-----------------------------------------------------------------------------
(* The HTTP handler.                                                       *)

\* A gateway check refuses the signal: the refusal is audited, then answered.
Refuse(r, code) ==
    /\ handler' = [handler EXCEPT ![r] = "audit"]
    /\ answer' = [answer EXCEPT ![r] = code]

\* IngestSignal / processOrderSignal up to the dedup claim: the webhook is
\* resolved and every gateway check passes, or one of them refuses.
Deliver(r) ==
    /\ proc = "up"
    /\ handler[r] = "unsent"
    /\ \/ /\ handler' = [handler EXCEPT
                            ![r] = IF Window > 0 THEN "claim" ELSE "enqueue"]
          /\ answer' = answer
       \/ Refuse(r, "refused")
    /\ UNCHANGED <<procVars, claim, claimedAt, queue, workerVars, tableVars,
                   orders>>

Claimed(k) == claim[k] > now

\* Mutant: the key expires after a second whatever the window.
SetClaimBriefly(k) ==
    claim' = IF Claimed(k) THEN claim ELSE [claim EXCEPT ![k] = now + 1]

\* SET NX EX on the dedup key.
SetClaim(k) ==
    claim' = IF Claimed(k) THEN claim ELSE [claim EXCEPT ![k] = now + Window]

\* TryClaimSignalDedup: claimed, taken, or a Redis error, which the handler
\* logs and ignores although the command may have been applied.
Claim(r) ==
    /\ handler[r] = "claim"
    /\ claimedAt' = [claimedAt EXCEPT ![r] = now]
    /\ \/ /\ ~Claimed(KeyOf[r])
          /\ SetClaim(KeyOf[r])
          /\ handler' = [handler EXCEPT ![r] = "enqueue"]
          /\ answer' = answer
       \/ /\ Claimed(KeyOf[r])
          /\ Refuse(r, "409")
          /\ claim' = claim
       \/ /\ "redis" \in Faults
          /\ SetClaim(KeyOf[r]) \/ claim' = claim
          /\ handler' = [handler EXCEPT ![r] = "enqueue"]
          /\ answer' = answer
    /\ UNCHANGED <<procVars, queue, workerVars, tableVars, orders>>

\* Sending on a channel with room, and what a handler does about a full one.
EnqueueOr(r, cap, answerFull, stepFull) ==
    /\ handler[r] = "enqueue"
    /\ \/ /\ Len(queue) < cap
          /\ queue' = Append(queue, r)
          /\ handler' = [handler EXCEPT ![r] = "replied"]
          /\ answer' = [answer EXCEPT ![r] = "202"]
       \/ /\ Len(queue) >= cap
          /\ handler' = [handler EXCEPT ![r] = stepFull]
          /\ answer' = [answer EXCEPT ![r] = answerFull]
          /\ queue' = queue
    /\ UNCHANGED <<procVars, claim, claimedAt, workerVars, tableVars, orders>>

\* Mutant: a refused signal keeps its dedup key.
EnqueueKeepingKey(r) == EnqueueOr(r, QueueCap, "503", "audit")

\* Queue.Enqueue, non-blocking; a full channel refuses the signal, after the
\* dedup key has been released.
Enqueue(r) ==
    EnqueueOr(r, QueueCap, "503", IF Window > 0 THEN "release" ELSE "audit")

\* ReleaseSignalDedup: DEL of the key, whoever set it; an error is ignored.
Release(r) ==
    /\ handler[r] = "release"
    /\ \/ claim' = [claim EXCEPT ![KeyOf[r]] = 0]
       \/ "redis" \in Faults /\ claim' = claim
    /\ handler' = [handler EXCEPT ![r] = "audit"]
    /\ UNCHANGED <<procVars, answer, claimedAt, queue, workerVars, tableVars,
                   orders>>

\* insertGatewayRejectedTrade, then the answer is sent.
AuditRefusal(r) ==
    /\ handler[r] = "audit"
    /\ \/ row' = [row EXCEPT ![r] = "rejected"]
       \/ "store" \in Faults /\ row' = row
    /\ handler' = [handler EXCEPT ![r] = "replied"]
    /\ UNCHANGED <<procVars, answer, claimedAt, claim, queue, workerVars, stamp,
                   orders>>

-----------------------------------------------------------------------------
(* A worker.                                                               *)

Goto(w, s) == step' = [step EXCEPT ![w] = s]

\* Stop with trade.Status = "rejected" and write it at step s.
RejectAt(w, s) ==
    /\ Goto(w, s)
    /\ outcome' = [outcome EXCEPT ![w] = "rejected"]

Done(w) ==
    /\ Goto(w, "idle")
    /\ job' = [job EXCEPT ![w] = NoReq]

\* Mutant: workers stop receiving at shutdown.
TakeWhileUp(w) ==
    /\ proc = "up" /\ step[w] = "idle" /\ queue # << >>
    /\ job' = [job EXCEPT ![w] = Head(queue)]
    /\ queue' = Tail(queue)
    /\ stamp' = [stamp EXCEPT ![Head(queue)] = now]
    /\ Goto(w, "lookup")
    /\ UNCHANGED <<procVars, handlerVars, claim, outcome, row, orders>>

\* Receive a job and re-validate it against the guard rules; the trade is
\* built with created_at = now.
Take(w) ==
    /\ proc # "down"
    /\ step[w] = "idle"
    /\ queue # << >>
    /\ job' = [job EXCEPT ![w] = Head(queue)]
    /\ queue' = Tail(queue)
    /\ stamp' = [stamp EXCEPT ![Head(queue)] = now]
    /\ \/ /\ Goto(w, IF Window > 0 THEN "lookup" ELSE "insert")
          /\ outcome' = outcome
       \/ RejectAt(w, "audit")
    /\ UNCHANGED <<procVars, handlerVars, claim, row, orders>>

\* HasActiveTradeWithSignalKey.
ActiveDuplicate(r) ==
    \E q \in Reqs : /\ KeyOf[q] = KeyOf[r]
                    /\ row[q] \in ActiveStatus
                    /\ stamp[q] + Window > now

\* The re-check of the dedup window; a failing lookup lets the job through.
Lookup(w) ==
    /\ step[w] = "lookup"
    /\ \/ /\ ActiveDuplicate(job[w])
          /\ RejectAt(w, "audit")
       \/ /\ ~ActiveDuplicate(job[w]) \/ "store" \in Faults
          /\ Goto(w, "insert")
          /\ outcome' = outcome
    /\ UNCHANGED <<procVars, handlerVars, claim, queue, job, tableVars, orders>>

\* Mutant: a failed insert is logged and the order goes out all the same.
InsertBestEffort(w) ==
    /\ step[w] = "insert"
    /\ \/ row' = [row EXCEPT ![job[w]] = "queued"]
       \/ "store" \in Faults /\ row' = row
    /\ Goto(w, "gate")
    /\ UNCHANGED <<procVars, handlerVars, claim, queue, job, outcome, stamp, orders>>

\* InsertTrade with status queued must succeed before anything is executed.
Insert(w) ==
    /\ step[w] = "insert"
    /\ \/ /\ row' = [row EXCEPT ![job[w]] = "queued"]
          /\ Goto(w, "gate")
          /\ outcome' = outcome
       \/ /\ "store" \in Faults
          /\ row' = row \/ row' = [row EXCEPT ![job[w]] = "queued"]
          /\ RejectAt(w, "audit")
    /\ UNCHANGED <<procVars, handlerVars, claim, queue, job, stamp, orders>>

\* Mutant: a gate refuses the signal and returns without finalizing the trade.
GateForgetting(w) ==
    /\ step[w] = "gate"
    /\ \/ Goto(w, "execute") /\ job' = job
       \/ Done(w)
    /\ UNCHANGED <<procVars, handlerVars, claim, queue, outcome, tableVars, orders>>

\* User, compliance, plan rate limit and destination checks.
Gate(w) ==
    /\ step[w] = "gate"
    /\ \/ Goto(w, "execute") /\ outcome' = outcome
       \/ RejectAt(w, "settle")
    /\ UNCHANGED <<procVars, handlerVars, claim, queue, job, tableVars, orders>>

\* Mutant: the status is taken over although the broker reported an error.
ExecuteUnchecked(w) ==
    /\ step[w] = "execute"
    /\ orders' \in {orders, [orders EXCEPT ![job[w]] = @ + 1]}
    /\ Goto(w, "settle")
    /\ outcome' = [outcome EXCEPT ![w] = "placed"]
    /\ UNCHANGED <<procVars, handlerVars, claim, queue, job, tableVars>>

\* orchestrator.ExecuteLive / processPaperOrder: the order is placed or not,
\* and the worker learns it, does not learn it, or runs out of its context.
Execute(w) ==
    /\ step[w] = "execute"
    /\ \/ /\ orders' = [orders EXCEPT ![job[w]] = @ + 1]
          /\ Goto(w, "settle")
          /\ outcome' = [outcome EXCEPT ![w] = "placed"]
       \/ /\ orders' = orders
          /\ RejectAt(w, "settle")
       \/ /\ "lostreply" \in Faults
          /\ orders' = [orders EXCEPT ![job[w]] = @ + 1]
          /\ RejectAt(w, "settle")
       \/ /\ "deadline" \in Faults
          /\ orders' = orders \/ orders' = [orders EXCEPT ![job[w]] = @ + 1]
          /\ RejectAt(w, "expired")
    /\ UNCHANGED <<procVars, handlerVars, claim, queue, job, tableVars>>

\* finalizeTrade: FinalizeTrade, and PersistTradeAudit when that fails, both
\* under the job's context; when both fail the row stays as it is.
Settle(w) ==
    /\ step[w] \in {"settle", "expired"}
    /\ \/ /\ step[w] = "settle"
          /\ row' = [row EXCEPT ![job[w]] = outcome[w]]
       \/ /\ step[w] = "expired" \/ "store" \in Faults
          /\ row' = row
    /\ Done(w)
    /\ UNCHANGED <<procVars, handlerVars, claim, queue, outcome, stamp, orders>>

\* persistTrade: insert the rejected row, or overwrite the one with that id.
AuditRejection(w) ==
    /\ step[w] = "audit"
    /\ \/ row' = [row EXCEPT ![job[w]] = "rejected"]
       \/ "store" \in Faults /\ row' = row
    /\ Done(w)
    /\ UNCHANGED <<procVars, handlerVars, claim, queue, outcome, stamp, orders>>

-----------------------------------------------------------------------------
(* The process and the clock.                                              *)

\* SIGTERM: the HTTP server stops accepting and waits for its handlers.
BeginShutdown ==
    /\ proc = "up"
    /\ proc' = "stopping"
    /\ UNCHANGED <<now, restarts, handlerVars, claim, queue, workerVars,
                   tableVars, orders>>

\* Mutant: the channel is closed under running handlers.
CloseQueueEarly ==
    /\ proc = "stopping"
    /\ proc' = "draining"
    /\ UNCHANGED <<now, restarts, handlerVars, claim, queue, workerVars,
                   tableVars, orders>>

\* Queue.Stop closes the channel once the server has shut down ...
CloseQueue ==
    /\ proc = "stopping"
    /\ \A r \in Reqs : ~InHandler(r)
    /\ proc' = "draining"
    /\ UNCHANGED <<now, restarts, handlerVars, claim, queue, workerVars,
                   tableVars, orders>>

\* ... and waits until the workers have drained it.
Exit ==
    /\ proc = "draining"
    /\ queue = << >>
    /\ \A w \in Workers : step[w] = "idle"
    /\ proc' = "down"
    /\ UNCHANGED <<now, restarts, handlerVars, claim, queue, workerVars,
                   tableVars, orders>>

\* The process dies, or the server misses its 10 s shutdown deadline and
\* log.Fatalf exits without running the deferred Queue.Stop: everything in
\* memory is lost, Redis and PostgreSQL keep what they have.
Crash ==
    /\ "crash" \in Faults
    /\ proc # "down"
    /\ proc' = "down"
    /\ queue' = << >>
    /\ handler' = [r \in Reqs |-> IF InHandler(r) THEN "gone" ELSE handler[r]]
    /\ step' = [w \in Workers |-> "idle"]
    /\ job' = [w \in Workers |-> NoReq]
    /\ UNCHANGED <<now, restarts, answer, claim, claimedAt, outcome, tableVars,
                   orders>>

Restart ==
    /\ proc = "down"
    /\ restarts < MaxRestarts
    /\ proc' = "up"
    /\ restarts' = restarts + 1
    /\ UNCHANGED <<now, handlerVars, claim, queue, workerVars, tableVars,
                   orders>>

\* Nothing blocks between SET NX and the end of Enqueue / DEL, so unless the
\* goroutine is stalled its claim is still alive there.
Prompt(r) == handler[r] \in {"enqueue", "release"} =>
                claimedAt[r] + Window > now + 1

Tick ==
    /\ now < MaxTime
    /\ "stall" \in Faults \/ Window = 0 \/ \A r \in Reqs : Prompt(r)
    /\ now' = now + 1
    /\ UNCHANGED <<proc, restarts, handlerVars, claim, queue, workerVars,
                   tableVars, orders>>

-----------------------------------------------------------------------------
HandlerNext(r) == \/ Deliver(r) \/ Claim(r) \/ Enqueue(r) \/ Release(r)
                  \/ AuditRefusal(r)

\* A running worker never stops for good: every call it makes returns.
WorkerNext(w) == \/ Take(w) \/ Lookup(w) \/ Insert(w) \/ Gate(w) \/ Execute(w)
                 \/ Settle(w) \/ AuditRejection(w)

ProcNext == BeginShutdown \/ CloseQueue \/ Exit \/ Crash \/ Restart

Next == \/ \E r \in Reqs : HandlerNext(r)
        \/ \E w \in Workers : WorkerNext(w)
        \/ ProcNext
        \/ Tick

Spec == Init /\ [][Next]_vars

\* The Go scheduler runs every runnable goroutine, every Redis, SQL and broker
\* call has a timeout, and app.Run goes on once it can.  Nothing makes a sender
\* deliver, the operator restart, or a fault happen.
HandlerStep(r) == Claim(r) \/ Enqueue(r) \/ Release(r) \/ AuditRefusal(r)

Fairness ==
    /\ \A r \in Reqs : WF_vars(HandlerStep(r))
    /\ \A w \in Workers : WF_vars(WorkerNext(w))
    /\ WF_vars(CloseQueue)
    /\ WF_vars(Exit)

FairSpec == Spec /\ Fairness

-----------------------------------------------------------------------------
(* Properties.                                                             *)

TypeOK ==
    /\ now \in Nat
    /\ proc \in {"up", "stopping", "draining", "down"}
    /\ restarts \in Nat
    /\ handler \in [Reqs -> HandlerSteps]
    /\ answer \in [Reqs -> Answers]
    /\ claim \in [Keys -> Nat]
    /\ claimedAt \in [Reqs -> Nat]
    /\ queue \in Seq(Reqs) /\ Len(queue) <= QueueCap
    /\ step \in [Workers -> WorkerSteps]
    /\ job \in [Workers -> Reqs \cup {NoReq}]
    /\ outcome \in [Workers -> FinalStatus]
    /\ row \in [Reqs -> RowStatus]
    /\ stamp \in [Reqs -> Nat]
    /\ orders \in [Reqs -> Nat]

\* A broker order exists only for a signal that was accepted, at most once per
\* accepted signal, and never without a trades row: the reason InsertTrade
\* "must succeed before we place any real broker/paper order" (queue.go:314).
OrderAccountedFor ==
    \A r \in Reqs : orders[r] > 0 =>
        orders[r] = 1 /\ answer[r] = "202" /\ row[r] # "none"

\* q claimed its key when the window of r's claim was over.
Apart(r, q) == claimedAt[r] + Window <= claimedAt[q]

\* Two deliveries of one payload whose claims are less than a window apart never
\* both reach the broker: the purpose of TryClaimSignalDedup at ingest and of
\* HasActiveTradeWithSignalKey in the worker.
NoDoubleOrder ==
    \A r, q \in Reqs :
        /\ r # q
        /\ KeyOf[r] = KeyOf[q]
        /\ orders[r] > 0
        /\ orders[q] > 0
        => Apart(r, q) \/ Apart(q, r)

\* q claimed its key within the window and for good reason: its handler still has
\* to enqueue or release, or it was accepted and its job is alive or left a row.
Original(q) ==
    /\ now < claimedAt[q] + Window
    /\ \/ handler[q] \in {"enqueue", "release"}
       \/ /\ answer[q] = "202"
          /\ InQueue(q) \/ AtWorker(q) \/ row[q] # "none"

\* A delivery is only refused as a duplicate (409) when there is an original: a
\* claim left behind by a refused or lost signal would swallow its retries.
DuplicateHasOriginal ==
    [][\A r \in Reqs : answer[r] # "409" /\ answer'[r] = "409" =>
          \E q \in Reqs \ {r} : KeyOf[q] = KeyOf[r] /\ Original(q)]_vars

\* Once its worker is done with it, an accepted signal's row says how it ended:
\* no row is left at queued, and none is missing.
DoneIsSettled ==
    \A r \in Reqs : answer[r] = "202" /\ ~InQueue(r) /\ ~AtWorker(r) =>
        row[r] \in FinalStatus

\* Nobody sends on the channel once it is closed (that would panic): a handler
\* that may still enqueue keeps Queue.Stop from running.
NoSendOnClosed ==
    proc \in {"draining", "down"} => \A r \in Reqs : ~InHandler(r)

\* A graceful shutdown loses nothing: when the process is down every signal it
\* accepted has been settled.
DrainedBeforeDown ==
    proc = "down" => \A r \in Reqs : answer[r] = "202" => row[r] \in FinalStatus

\* A final status is never overwritten, and a row never disappears.
RowsKept ==
    \A r \in Reqs : /\ row[r] \in FinalStatus => row'[r] = row[r]
                    /\ row[r] # "none" => row'[r] # "none"

RowsAreFinal == [][RowsKept]_vars

\* Every accepted signal is eventually settled.
AcceptedIsSettled ==
    \A r \in Reqs : answer[r] = "202" ~> row[r] \in FinalStatus

\* A shutdown that has begun completes: the handlers end, then the workers
\* drain the channel (app.Run, Queue.Stop).
ShutdownCompletes ==
    proc = "stopping" ~> proc = "down"

-----------------------------------------------------------------------------
(* The inductive invariant behind OrderAccountedFor, NoSendOnClosed,       *)
(* RowsAreFinal and KeepsContract.                                         *)

\* A handler that has not enqueued yet has left no trace, and only an accepted
\* signal can have an order.
HandlersOK ==
    \A r \in Reqs :
        /\ handler[r] \in {"unsent", "claim", "enqueue"} => answer[r] = "none"
        /\ handler[r] \in {"release", "audit"} => answer[r] \notin {"none", "202"}
        /\ answer[r] = "none" => row[r] = "none"
        /\ answer[r] # "202" => orders[r] = 0 /\ row[r] \in {"none", "rejected"}

\* Jobs in the channel are distinct, accepted and untouched.
QueueOK ==
    /\ \A i \in 1..Len(queue) : /\ answer[queue[i]] = "202"
                                /\ row[queue[i]] = "none"
                                /\ orders[queue[i]] = 0
    /\ \A i, j \in 1..Len(queue) : queue[i] = queue[j] => i = j

\* What the step of worker w says of its job.
JobOK(w) ==
    /\ job[w] \in Reqs
    /\ answer[job[w]] = "202"
    /\ ~InQueue(job[w])
    /\ step[w] \in {"lookup", "insert"} => row[job[w]] = "none"
    /\ step[w] \in {"gate", "execute", "settle", "expired"} => row[job[w]] = "queued"
    /\ step[w] = "audit" => row[job[w]] \in {"none", "queued"}
    /\ step[w] \in {"settle", "expired"} => orders[job[w]] \in {0, 1}
    /\ step[w] \notin {"settle", "expired"} => orders[job[w]] = 0
    /\ step[w] = "settle" /\ outcome[w] = "placed" => orders[job[w]] = 1

\* No job is at two workers.
WorkersOK ==
    /\ \A w \in Workers : step[w] # "idle" => JobOK(w)
    /\ \A w, v \in Workers :
           step[w] # "idle" /\ step[v] # "idle" /\ job[w] = job[v] => w = v

PipelineInv ==
    /\ TypeOK
    /\ HandlersOK
    /\ QueueOK
    /\ WorkersOK
    /\ OrderAccountedFor
    /\ NoSendOnClosed

-----------------------------------------------------------------------------
(* Why claims separate duplicates while Redis answers and no goroutine     *)
(* stalls: the invariant behind NoDoubleOrder.                             *)

\* r passed the dedup claim and has not given it back.
Holds(r) == handler[r] \in {"enqueue", "release"} \/ answer[r] = "202"

\* The key of a holder is in Redis for the whole window, and until its handler
\* has enqueued or released the window is not over.
ClaimsAlive ==
    \A r \in Reqs : Holds(r) =>
        /\ claimedAt[r] <= now
        /\ handler[r] \in {"enqueue", "release"} => now < claimedAt[r] + Window
        /\ now < claimedAt[r] + Window => claim[KeyOf[r]] = claimedAt[r] + Window

ClaimsApart ==
    \A r, q \in Reqs : r # q /\ KeyOf[r] = KeyOf[q] /\ Holds(r) /\ Holds(q) =>
        Apart(r, q) \/ Apart(q, r)

DedupInv == ClaimsAlive /\ ClaimsApart

-----------------------------------------------------------------------------
(* Why a claim always has an original while Redis answers, no statement is *)
(* lost and the process does not die: the invariant behind                 *)
(* DuplicateHasOriginal.                                                   *)

\* Who set a live key still holds it.
KeysHeld ==
    \A k \in Keys : Claimed(k) =>
        \E q \in Reqs : /\ KeyOf[q] = k
                        /\ Holds(q)
                        /\ claimedAt[q] <= now
                        /\ claim[k] = claimedAt[q] + Window

\* An accepted signal is in the channel, at a worker or on record.
AcceptedLeaveTraces ==
    \A r \in Reqs : answer[r] = "202" => InQueue(r) \/ AtWorker(r) \/ row[r] # "none"

OriginalInv == KeysHeld /\ AcceptedLeaveTraces

-----------------------------------------------------------------------------
(* Refinement.                                                             *)

\* How far r has come, read off its answer and its trades row.
Stage(r) ==
    CASE answer[r] = "none" -> "pending"
      [] answer[r] = "202" /\ row[r] = "none" -> "accepted"
      [] answer[r] = "202" /\ row[r] = "queued" -> "recorded"
      [] answer[r] = "202" /\ row[r] \in FinalStatus -> row[r]
      [] OTHER -> "refused"

Contract == INSTANCE OrderContract
                WITH Signals <- Reqs,
                     stage <- [r \in Reqs |-> Stage(r)],
                     placed <- orders

\* The pipeline keeps the contract of OrderContract under every fault.
KeepsContract == Contract!Spec
=============================================================================
