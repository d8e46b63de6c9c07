------------------------ MODULE SignalPipelineProofs ------------------------
(***************************************************************************)
(* SignalPipeline for every number of requests, keys and workers, every    *)
(* queue capacity, window and bound, and every set of faults.              *)
(***************************************************************************)
EXTENDS SignalPipeline, TLAPS

-----------------------------------------------------------------------------
(* The channel.                                                            *)

\* Sending puts the new job behind the ones already there.
LEMMA AppendFacts ==
    ASSUME NEW S, NEW q \in Seq(S), NEW x \in S
    PROVE  /\ Append(q, x) \in Seq(S)
           /\ Len(Append(q, x)) = Len(q) + 1
           /\ \A i \in 1..Len(q) : Append(q, x)[i] = q[i]
           /\ Append(q, x)[Len(q) + 1] = x
  OBVIOUS

\* Receiving removes the first job and moves the others up by one.
LEMMA TailFacts ==
    ASSUME NEW S, NEW q \in Seq(S), q # << >>
    PROVE  /\ Head(q) \in S
           /\ Head(q) = q[1]
           /\ 1 \in 1..Len(q)
           /\ Tail(q) \in Seq(S)
           /\ Len(Tail(q)) = Len(q) - 1
           /\ \A i \in 1..Len(Tail(q)) : i + 1 \in 1..Len(q) /\ Tail(q)[i] = q[i + 1]
  OBVIOUS

-----------------------------------------------------------------------------
(* Type correctness.                                                       *)

\* Overwriting one entry of a function keeps its type.
LEMMA UpdateType ==
    ASSUME NEW S, NEW T, NEW f \in [S -> T], NEW x \in S, NEW v \in T
    PROVE  [f EXCEPT ![x] = v] \in [S -> T]
  OBVIOUS

\* A claim keeps the expiry times in Redis well typed.
LEMMA SetClaimType ==
    ASSUME TypeOK, NEW k \in Keys
    PROVE  SetClaim(k) => claim' \in [Keys -> Nat]
<1>1. now + Window \in Nat
  BY ConstantsOK DEF ConstantsOK, TypeOK
<1> QED
  BY <1>1, UpdateType DEF SetClaim, TypeOK

\* The initial state is well typed.
LEMMA InitType == ASSUME Init PROVE TypeOK
  BY ConstantsOK DEF Init, TypeOK, HandlerSteps, Answers, WorkerSteps,
     FinalStatus, RowStatus, ActiveStatus

\* Enqueue sends a request, and only while the channel has room.
LEMMA EnqueueType ==
    ASSUME TypeOK, NEW r \in Reqs, Enqueue(r)
    PROVE  queue' \in Seq(Reqs) /\ Len(queue') <= QueueCap
<1>1. queue \in Seq(Reqs) /\ Len(queue) <= QueueCap /\ Len(queue) \in Nat
  BY DEF TypeOK
<1>2. \/ queue' = queue
      \/ queue' = Append(queue, r) /\ Len(queue) < QueueCap
  BY DEF Enqueue, EnqueueOr
<1>3. QueueCap \in Nat
  BY ConstantsOK DEF ConstantsOK
<1> QED
  BY <1>1, <1>2, <1>3, AppendFacts

\* Every step of a handler goroutine keeps the types.
LEMMA HandlerType ==
    ASSUME TypeOK, NEW r \in Reqs, HandlerNext(r)
    PROVE  TypeOK'
<1> USE ConstantsOK DEF ConstantsOK, TypeOK, HandlerSteps, Answers, RowStatus, ActiveStatus,
        FinalStatus, procVars, handlerVars, workerVars, tableVars
<1>1. CASE Deliver(r)
  BY <1>1 DEF Deliver, Refuse
<1>2. CASE Claim(r)
  <2>1. claim' \in [Keys -> Nat]
    BY <1>2, SetClaimType DEF Claim
  <2> QED
    BY <1>2, <2>1 DEF Claim, Refuse
<1>3. CASE Enqueue(r)
  <2>1. queue' \in Seq(Reqs) /\ Len(queue') <= QueueCap
    BY <1>3, EnqueueType
  <2> QED
    BY <1>3, <2>1 DEF Enqueue, EnqueueOr
<1>4. CASE Release(r)
  <2>1. claim' \in [Keys -> Nat]
    BY <1>4, UpdateType, KeyOf[r] \in Keys, 0 \in Nat DEF Release
  <2> QED
    BY <1>4, <2>1 DEF Release
<1>5. CASE AuditRefusal(r)
  BY <1>5 DEF AuditRefusal
<1> QED
  BY <1>1, <1>2, <1>3, <1>4, <1>5 DEF HandlerNext

\* Every step of a worker keeps the types.
LEMMA WorkerType ==
    ASSUME TypeOK, NEW w \in Workers, WorkerNext(w)
    PROVE  TypeOK'
<1> USE ConstantsOK DEF ConstantsOK, TypeOK, WorkerSteps, RowStatus, ActiveStatus,
        FinalStatus, procVars, handlerVars, workerVars, tableVars
<1>1. CASE Take(w)
  <2>1. /\ Head(queue) \in Reqs
        /\ queue' \in Seq(Reqs)
        /\ Len(queue') <= QueueCap
    BY <1>1, TailFacts DEF Take
  <2>2. /\ job' \in [Workers -> Reqs \cup {NoReq}]
        /\ stamp' \in [Reqs -> Nat]
    BY <1>1, <2>1, UpdateType DEF Take
  <2> QED
    BY <1>1, <2>1, <2>2 DEF Take, Goto, RejectAt
<1>2. CASE Lookup(w)
  BY <1>2 DEF Lookup, Goto, RejectAt
<1>3. CASE Insert(w)
  BY <1>3 DEF Insert, Goto, RejectAt
<1>4. CASE Gate(w)
  BY <1>4 DEF Gate, Goto, RejectAt
<1>5. CASE Execute(w)
  <2>1. orders' \in [Reqs -> Nat]
    BY <1>5 DEF Execute
  <2> QED
    BY <1>5, <2>1 DEF Execute, Goto, RejectAt
<1>6. CASE Settle(w)
  BY <1>6 DEF Settle, Done, Goto
<1>7. CASE AuditRejection(w)
  BY <1>7 DEF AuditRejection, Done, Goto
<1> QED
  BY <1>1, <1>2, <1>3, <1>4, <1>5, <1>6, <1>7 DEF WorkerNext

\* Shutdown, crash, restart and the clock keep the types.
LEMMA ProcType ==
    ASSUME TypeOK, ProcNext \/ Tick
    PROVE  TypeOK'
<1> USE DEF TypeOK, procVars, handlerVars, workerVars, tableVars
<1>1. CASE Crash
  <2>1. handler' \in [Reqs -> HandlerSteps]
    BY <1>1 DEF Crash, HandlerSteps
  <2>2. queue' \in Seq(Reqs) /\ Len(queue') <= QueueCap
    BY <1>1, ConstantsOK DEF Crash, ConstantsOK
  <2> QED
    BY <1>1, <2>1, <2>2 DEF Crash, WorkerSteps
<1>2. CASE BeginShutdown \/ CloseQueue \/ Exit \/ Restart \/ Tick
  BY <1>2 DEF BeginShutdown, CloseQueue, Exit, Restart, Tick
<1> QED
  BY <1>1, <1>2 DEF ProcNext

\* The variables keep their types: statuses, answers and steps are among those
\* the code knows, and the channel only ever holds requests.
THEOREM TypeCorrect == Spec => []TypeOK
<1>1. Init => TypeOK
  BY InitType
<1>2. TypeOK /\ [Next]_vars => TypeOK'
  <2> SUFFICES ASSUME TypeOK, [Next]_vars PROVE TypeOK'
    OBVIOUS
  <2>1. CASE UNCHANGED vars
    BY <2>1 DEF TypeOK, vars, procVars, handlerVars, workerVars, tableVars
  <2> QED
    BY <2>1, HandlerType, WorkerType, ProcType DEF Next
<1> QED
  BY <1>1, <1>2, PTL DEF Spec

-----------------------------------------------------------------------------
(* The inductive invariant.                                                *)

\* Nothing has happened in the initial state.
LEMMA InitInv == ASSUME Init PROVE PipelineInv
<1>1. TypeOK
  BY InitType
<1>2. HandlersOK /\ OrderAccountedFor /\ NoSendOnClosed
  BY DEF Init, HandlersOK, OrderAccountedFor, NoSendOnClosed
<1>3. QueueOK
  BY DEF Init, QueueOK
<1>4. WorkersOK
  BY DEF Init, WorkersOK
<1> QED
  BY <1>1, <1>2, <1>3, <1>4 DEF PipelineInv

\* A step that leaves the channel, the workers and what is known of accepted
\* signals alone disturbs neither queued nor running jobs.
LEMMA Frame ==
    ASSUME PipelineInv,
           UNCHANGED <<queue, workerVars, orders>>,
           \A q \in Reqs : answer[q] = "202" =>
                             answer'[q] = "202" /\ row'[q] = row[q]
    PROVE  QueueOK' /\ WorkersOK'
<1>1. \A i \in 1..Len(queue) : queue[i] \in Reqs
  BY DEF PipelineInv, TypeOK
<1>2. QueueOK'
  BY <1>1 DEF PipelineInv, QueueOK
<1>3. \A w \in Workers : JobOK(w) => JobOK(w)'
  BY DEF JobOK, InQueue, workerVars
<1>4. WorkersOK'
  BY <1>3 DEF PipelineInv, WorkersOK, workerVars
<1> QED
  BY <1>2, <1>4

\* A handler's step that does not send on the channel.
LEMMA HandlerInv ==
    ASSUME PipelineInv, NEW r \in Reqs,
           Deliver(r) \/ Claim(r) \/ Release(r) \/ AuditRefusal(r)
    PROVE  HandlersOK' /\ QueueOK' /\ WorkersOK' /\ OrderAccountedFor'
           /\ NoSendOnClosed'
<1> USE DEF PipelineInv
<1>0. /\ handler \in [Reqs -> HandlerSteps]
      /\ answer \in [Reqs -> Answers]
      /\ row \in [Reqs -> RowStatus]
  BY DEF TypeOK
<1>1. /\ UNCHANGED <<queue, workerVars, orders>>
      /\ proc' = proc
  BY DEF Deliver, Claim, Release, AuditRefusal, workerVars, procVars
<1>2. handler[r] # "replied" /\ answer[r] # "202"
  BY DEF Deliver, Claim, Release, AuditRefusal, HandlersOK
<1>3. \A q \in Reqs : q # r => /\ handler'[q] = handler[q]
                               /\ answer'[q] = answer[q]
                               /\ row'[q] = row[q]
  BY <1>0 DEF Deliver, Claim, Release, AuditRefusal, Refuse, tableVars
<1>4. answer'[r] # "202"
  BY <1>0, <1>2 DEF Deliver, Claim, Release, AuditRefusal, Refuse
<1>5. QueueOK' /\ WorkersOK'
  BY <1>1, <1>2, <1>3, Frame
<1>6. /\ handler'[r] \in {"unsent", "claim", "enqueue"} => answer'[r] = "none"
      /\ handler'[r] \in {"release", "audit"} => answer'[r] \notin {"none", "202"}
      /\ answer'[r] = "none" => row'[r] = "none"
      /\ row'[r] \in {"none", "rejected"}
  BY <1>0, <1>2 DEF Deliver, Claim, Release, AuditRefusal, Refuse, HandlersOK, tableVars
<1>7. HandlersOK'
  BY <1>1, <1>2, <1>3, <1>6 DEF HandlersOK
<1>8. OrderAccountedFor'
  BY <1>1, <1>2, <1>3 DEF OrderAccountedFor, HandlersOK
<1>9. \A q \in Reqs : InHandler(q)' => InHandler(q) \/ proc = "up"
  BY <1>3 DEF InHandler, Deliver, Claim, Release, AuditRefusal
<1>10. NoSendOnClosed'
  BY <1>1, <1>9 DEF NoSendOnClosed
<1> QED
  BY <1>5, <1>7, <1>8, <1>10

\* Enqueue sends r, which is not in the channel and at no worker yet.
LEMMA EnqueueInv ==
    ASSUME PipelineInv, NEW r \in Reqs, Enqueue(r)
    PROVE  HandlersOK' /\ QueueOK' /\ WorkersOK' /\ OrderAccountedFor'
           /\ NoSendOnClosed'
<1> USE DEF PipelineInv
<1>0. /\ handler \in [Reqs -> HandlerSteps]
      /\ answer \in [Reqs -> Answers]
      /\ queue \in Seq(Reqs)
  BY DEF TypeOK
<1>1. /\ handler[r] = "enqueue"
      /\ answer[r] = "none"
      /\ row[r] = "none"
      /\ orders[r] = 0
  BY DEF Enqueue, EnqueueOr, HandlersOK, TypeOK
<1>2. UNCHANGED <<proc, workerVars, row, orders>>
  BY DEF Enqueue, EnqueueOr, procVars, workerVars, tableVars
<1>3. \A q \in Reqs : q # r => handler'[q] = handler[q] /\ answer'[q] = answer[q]
  BY <1>0 DEF Enqueue, EnqueueOr
<1>4. HandlersOK'
  BY <1>0, <1>1, <1>2, <1>3 DEF Enqueue, EnqueueOr, HandlersOK
<1>5. OrderAccountedFor'
  BY <1>1, <1>2, <1>3 DEF OrderAccountedFor
<1>6. NoSendOnClosed'
  BY <1>1, <1>2, <1>3 DEF NoSendOnClosed, InHandler
<1>7. CASE queue' = queue
  BY <1>1, <1>2, <1>3, <1>4, <1>5, <1>6, <1>7, Frame DEF workerVars
<1>8. CASE queue' = Append(queue, r) /\ answer'[r] = "202"
  <2>1. /\ Len(queue') = Len(queue) + 1
        /\ \A i \in 1..Len(queue) : queue'[i] = queue[i]
        /\ queue'[Len(queue) + 1] = r
        /\ Len(queue) \in Nat
    BY <1>0, <1>8, AppendFacts
  <2>2. \A i \in 1..Len(queue') :
            \/ i \in 1..Len(queue) /\ queue'[i] = queue[i]
            \/ i = Len(queue) + 1 /\ queue'[i] = r
    BY <2>1
  <2>3. \A i \in 1..Len(queue) : queue[i] \in Reqs /\ queue[i] # r
    BY <1>0, <1>1 DEF QueueOK
  <2>4. QueueOK'
    <3>1. \A i \in 1..Len(queue') : /\ answer'[queue'[i]] = "202"
                                   /\ row'[queue'[i]] = "none"
                                   /\ orders'[queue'[i]] = 0
      BY <1>1, <1>2, <1>3, <1>8, <2>2, <2>3 DEF QueueOK
    <3>2. \A i, j \in 1..Len(queue') : queue'[i] = queue'[j] => i = j
      BY <2>2, <2>3 DEF QueueOK
    <3> QED
      BY <3>1, <3>2 DEF QueueOK
  <2>5. ASSUME NEW w \in Workers, step[w] # "idle"
        PROVE  JobOK(w)'
    <3>1. JobOK(w) /\ job[w] # r
      BY <1>1, <2>5 DEF WorkersOK, JobOK
    <3>2. ~InQueue(job[w])'
      BY <1>2, <2>2, <3>1 DEF JobOK, InQueue, workerVars
    <3> QED
      BY <1>2, <1>3, <3>1, <3>2 DEF JobOK, workerVars
  <2>6. WorkersOK'
    BY <1>2, <2>5 DEF WorkersOK, workerVars
  <2> QED
    BY <1>4, <1>5, <1>6, <2>4, <2>6
<1> QED
  BY <1>0, <1>7, <1>8 DEF Enqueue, EnqueueOr

\* What a worker does between receiving a job and finishing it concerns its own
\* job only.
LEMMA WorkerFrame ==
    ASSUME PipelineInv, NEW w \in Workers, step[w] # "idle",
           UNCHANGED <<handlerVars, proc, queue>>,
           \A v \in Workers : v # w => /\ step'[v] = step[v]
                                       /\ job'[v] = job[v]
                                       /\ outcome'[v] = outcome[v],
           \A q \in Reqs : q # job[w] => row'[q] = row[q] /\ orders'[q] = orders[q],
           step'[w] # "idle" => job'[w] = job[w] /\ JobOK(w)',
           orders'[job[w]] > 0 => orders'[job[w]] = 1 /\ row'[job[w]] # "none"
    PROVE  HandlersOK' /\ QueueOK' /\ WorkersOK' /\ OrderAccountedFor'
           /\ NoSendOnClosed'
<1> USE DEF PipelineInv, handlerVars
<1>1. JobOK(w)
  BY DEF WorkersOK
<1>2. HandlersOK'
  BY <1>1 DEF HandlersOK, JobOK
<1>3. OrderAccountedFor'
  BY <1>1 DEF OrderAccountedFor, JobOK
<1>4. NoSendOnClosed'
  BY DEF NoSendOnClosed, InHandler
<1>5. QueueOK'
  <2>1. \A i \in 1..Len(queue) : queue[i] \in Reqs /\ queue[i] # job[w]
    BY <1>1 DEF TypeOK, JobOK, InQueue
  <2> QED
    BY <2>1 DEF QueueOK
<1>6. ASSUME NEW v \in Workers, v # w, step[v] # "idle"
      PROVE  JobOK(v)'
  <2>1. JobOK(v) /\ job[v] # job[w]
    BY <1>6 DEF WorkersOK
  <2> QED
    BY <1>6, <2>1 DEF JobOK, InQueue
<1>7. WorkersOK'
  BY <1>6 DEF WorkersOK
<1> QED
  BY <1>2, <1>3, <1>4, <1>5, <1>7

\* Receiving a job moves it from the channel to the worker.
LEMMA TakeInv ==
    ASSUME PipelineInv, NEW w \in Workers, Take(w)
    PROVE  HandlersOK' /\ QueueOK' /\ WorkersOK' /\ OrderAccountedFor'
           /\ NoSendOnClosed'
<1> USE DEF PipelineInv
<1>0. /\ queue \in Seq(Reqs)
      /\ queue # << >>
      /\ step \in [Workers -> WorkerSteps]
      /\ job \in [Workers -> Reqs \cup {NoReq}]
  BY DEF TypeOK, Take
<1> PICK r \in Reqs : r = Head(queue)
  BY <1>0, TailFacts
<1>1. /\ r \in Reqs
      /\ r = queue[1]
      /\ 1 \in 1..Len(queue)
      /\ Len(Tail(queue)) = Len(queue) - 1
      /\ \A i \in 1..Len(Tail(queue)) :
             i + 1 \in 1..Len(queue) /\ Tail(queue)[i] = queue[i + 1]
  BY <1>0, TailFacts
<1>2. UNCHANGED <<handler, answer, proc, row, orders>> /\ queue' = Tail(queue)
  BY DEF Take, handlerVars, procVars
<1>3. /\ job'[w] = r
      /\ step'[w] \in {"lookup", "insert", "audit"}
      /\ \A v \in Workers : v # w => /\ step'[v] = step[v]
                                     /\ job'[v] = job[v]
                                     /\ outcome'[v] = outcome[v]
  <2>1. outcome \in [Workers -> FinalStatus]
    BY DEF TypeOK
  <2> QED
    BY <1>0, <2>1 DEF Take, Goto, RejectAt
<1>4. HandlersOK' /\ OrderAccountedFor' /\ NoSendOnClosed'
  BY <1>2 DEF HandlersOK, OrderAccountedFor, NoSendOnClosed, InHandler
<1>5. \A i, j \in 1..Len(Tail(queue)) : i + 1 = j + 1 => i = j
  OBVIOUS
<1>6. QueueOK'
  BY <1>1, <1>2, <1>5 DEF QueueOK
<1>7. \A i \in 1..Len(Tail(queue)) : Tail(queue)[i] # r
  <2>1. ASSUME NEW i \in 1..Len(Tail(queue))
        PROVE  i + 1 # 1
    OBVIOUS
  <2> QED
    BY <1>1, <2>1 DEF QueueOK
<1>8. JobOK(w)'
  <2>1. answer[r] = "202" /\ row[r] = "none" /\ orders[r] = 0
    BY <1>1 DEF QueueOK
  <2>2. ~InQueue(r)'
    BY <1>2, <1>7 DEF InQueue
  <2> QED
    BY <1>1, <1>2, <1>3, <2>1, <2>2 DEF JobOK, InQueue
<1>9. ASSUME NEW v \in Workers, v # w, step[v] # "idle"
      PROVE  JobOK(v)' /\ job[v] # r
  <2>1. JobOK(v)
    BY <1>9 DEF WorkersOK
  <2> PICK q \in Reqs : q = job[v]
    BY <2>1 DEF JobOK
  <2>2. ~InQueue(q)
    BY <2>1 DEF JobOK
  <2>3. q # r /\ ~InQueue(q)'
    BY <1>1, <1>2, <2>2 DEF InQueue
  <2>4. job'[v] = q /\ step'[v] = step[v] /\ outcome'[v] = outcome[v]
    BY <1>3, <1>9
  <2> QED
    BY <1>2, <2>1, <2>3, <2>4 DEF JobOK
<1>10. WorkersOK'
  BY <1>3, <1>8, <1>9 DEF WorkersOK
<1> QED
  BY <1>4, <1>6, <1>10

\* A worker's step after it has received its job: whatever it writes, to memory,
\* to the trades table or to the broker, fits the step it goes to.
LEMMA WorkerInv ==
    ASSUME PipelineInv, NEW w \in Workers, WorkerNext(w), ~Take(w)
    PROVE  HandlersOK' /\ QueueOK' /\ WorkersOK' /\ OrderAccountedFor'
           /\ NoSendOnClosed'
<1> USE DEF PipelineInv
<1>0. /\ step \in [Workers -> WorkerSteps]
      /\ job \in [Workers -> Reqs \cup {NoReq}]
      /\ outcome \in [Workers -> FinalStatus]
      /\ row \in [Reqs -> RowStatus]
      /\ orders \in [Reqs -> Nat]
  BY DEF TypeOK
<1>1. step[w] # "idle"
  BY DEF WorkerNext, Lookup, Insert, Gate, Execute, Settle, AuditRejection
<1> PICK r \in Reqs : r = job[w]
  BY <1>1 DEF WorkersOK, JobOK
<1>2. /\ answer[r] = "202"
      /\ ~InQueue(r)
      /\ step[w] \in {"lookup", "insert"} => row[r] = "none"
      /\ step[w] \in {"gate", "execute", "settle", "expired"} => row[r] = "queued"
      /\ step[w] = "audit" => row[r] \in {"none", "queued"}
      /\ step[w] \in {"settle", "expired"} => orders[r] \in {0, 1}
      /\ step[w] \notin {"settle", "expired"} => orders[r] = 0
      /\ step[w] = "settle" /\ outcome[w] = "placed" => orders[r] = 1
  BY <1>1 DEF WorkersOK, JobOK
<1>3. UNCHANGED <<handlerVars, proc, queue>>
  BY DEF WorkerNext, Lookup, Insert, Gate, Execute, Settle, AuditRejection,
     procVars, handlerVars
<1>4. \A v \in Workers : v # w => /\ step'[v] = step[v]
                                /\ job'[v] = job[v]
                                /\ outcome'[v] = outcome[v]
  BY <1>0 DEF WorkerNext, Lookup, Insert, Gate, Execute, Settle,
     AuditRejection, Goto, RejectAt, Done
<1>5. \A q \in Reqs : q # r => row'[q] = row[q] /\ orders'[q] = orders[q]
  BY <1>0 DEF WorkerNext, Lookup, Insert, Gate, Execute, Settle,
     AuditRejection, tableVars
<1>6. answer' = answer /\ ~InQueue(r)'
  BY <1>2, <1>3 DEF InQueue, handlerVars
<1> DEFINE Fits == /\ step'[w] # "idle" => job'[w] = r /\ JobOK(w)'
                   /\ orders'[r] > 0 => orders'[r] = 1 /\ row'[r] # "none"
<1>7. ASSUME Lookup(w) PROVE Fits
  <2>1. /\ UNCHANGED <<job, row, orders>>
        /\ step[w] = "lookup"
        /\ step'[w] \in {"insert", "audit"}
    BY <1>0, <1>7 DEF Lookup, Goto, RejectAt, tableVars
  <2> QED
    BY <1>2, <1>6, <2>1 DEF JobOK
<1>8. ASSUME Insert(w) PROVE Fits
  <2>1. /\ UNCHANGED <<job, orders>>
        /\ step[w] = "insert"
        /\ \/ step'[w] = "gate" /\ row'[r] = "queued"
           \/ step'[w] = "audit" /\ row'[r] \in {row[r], "queued"}
    BY <1>0, <1>8 DEF Insert, Goto, RejectAt
  <2> QED
    BY <1>2, <1>6, <2>1 DEF JobOK
<1>9. ASSUME Gate(w) PROVE Fits
  <2>1. /\ UNCHANGED <<job, row, orders>>
        /\ step[w] = "gate"
        /\ \/ step'[w] = "execute"
           \/ step'[w] = "settle" /\ outcome'[w] = "rejected"
    BY <1>0, <1>9 DEF Gate, Goto, RejectAt, tableVars
  <2> QED
    BY <1>2, <1>6, <2>1 DEF JobOK
<1>10. ASSUME Execute(w) PROVE Fits
  <2>1. /\ UNCHANGED <<job, row>>
        /\ step[w] = "execute"
        /\ step'[w] \in {"settle", "expired"}
        /\ orders'[r] \in {orders[r], orders[r] + 1}
        /\ outcome'[w] = "placed" => orders'[r] = orders[r] + 1
    BY <1>0, <1>10 DEF Execute, Goto, RejectAt, tableVars
  <2> QED
    BY <1>2, <1>6, <2>1 DEF JobOK
<1>11. ASSUME Settle(w) PROVE Fits
  <2>1. /\ orders' = orders
        /\ step'[w] = "idle"
        /\ step[w] \in {"settle", "expired"}
        /\ row'[r] \in {row[r], outcome[w]}
    BY <1>0, <1>11 DEF Settle, Goto, Done
  <2> QED
    BY <1>0, <1>2, <2>1 DEF FinalStatus
<1>12. ASSUME AuditRejection(w) PROVE Fits
  <2>1. /\ orders' = orders
        /\ step[w] = "audit"
        /\ step'[w] = "idle"
    BY <1>0, <1>12 DEF AuditRejection, Goto, Done
  <2> QED
    BY <1>2, <2>1
<1>13. Fits
  BY <1>7, <1>8, <1>9, <1>10, <1>11, <1>12 DEF WorkerNext
<1> QED
  BY <1>1, <1>3, <1>4, <1>5, <1>13, WorkerFrame

\* Shutdown, crash, restart and the clock.
LEMMA ProcInv ==
    ASSUME PipelineInv, ProcNext \/ Tick
    PROVE  HandlersOK' /\ QueueOK' /\ WorkersOK' /\ OrderAccountedFor'
           /\ NoSendOnClosed'
<1> USE DEF PipelineInv
<1>1. CASE Crash
  <2>1. handler \in [Reqs -> HandlerSteps]
    BY DEF TypeOK
  <2>2. /\ UNCHANGED <<answer, row, orders>>
        /\ queue' = << >>
        /\ handler' = [r \in Reqs |-> IF InHandler(r) THEN "gone" ELSE handler[r]]
        /\ step' = [w \in Workers |-> "idle"]
    BY <1>1 DEF Crash, tableVars
  <2>3. HandlersOK' /\ OrderAccountedFor'
    BY <2>1, <2>2 DEF HandlersOK, OrderAccountedFor
  <2>4. NoSendOnClosed'
    BY <2>1, <2>2 DEF NoSendOnClosed, InHandler
  <2>5. QueueOK' /\ WorkersOK'
    BY <2>2 DEF QueueOK, WorkersOK
  <2> QED
    BY <2>3, <2>4, <2>5
<1>2. CASE BeginShutdown \/ CloseQueue \/ Exit \/ Restart \/ Tick
  <2>1. UNCHANGED <<handlerVars, queue, workerVars, row, orders>>
    BY <1>2 DEF BeginShutdown, CloseQueue, Exit, Restart, Tick, tableVars
  <2>2. HandlersOK' /\ OrderAccountedFor'
    BY <2>1 DEF HandlersOK, OrderAccountedFor, handlerVars
  <2>3. QueueOK' /\ WorkersOK'
    BY <2>1, Frame DEF handlerVars, workerVars
  <2>4. NoSendOnClosed'
    BY <1>2, <2>1 DEF BeginShutdown, CloseQueue, Exit, Restart, Tick,
       NoSendOnClosed, InHandler, handlerVars
  <2> QED
    BY <2>2, <2>3, <2>4
<1> QED
  BY <1>1, <1>2 DEF ProcNext

\* A stuttering step.
LEMMA StutterInv ==
    ASSUME PipelineInv, UNCHANGED vars
    PROVE  PipelineInv'
<1>1. TypeOK'
  BY DEF PipelineInv, TypeOK, vars, procVars, handlerVars, workerVars, tableVars
<1>2. QueueOK' /\ WorkersOK'
  BY Frame DEF vars, handlerVars, tableVars
<1>3. HandlersOK' /\ OrderAccountedFor' /\ NoSendOnClosed'
  BY DEF PipelineInv, HandlersOK, OrderAccountedFor, NoSendOnClosed, InHandler,
     vars, procVars, handlerVars, tableVars
<1> QED
  BY <1>1, <1>2, <1>3 DEF PipelineInv

\* Every step preserves the inductive invariant.
LEMMA NextInv ==
    ASSUME PipelineInv, [Next]_vars
    PROVE  PipelineInv'
<1>1. ASSUME NEW r \in Reqs, HandlerNext(r) PROVE PipelineInv'
  BY <1>1, HandlerType, HandlerInv, EnqueueInv DEF PipelineInv, HandlerNext
<1>2. ASSUME NEW w \in Workers, WorkerNext(w) PROVE PipelineInv'
  BY <1>2, WorkerType, TakeInv, WorkerInv DEF PipelineInv
<1>3. CASE ProcNext \/ Tick
  BY <1>3, ProcType, ProcInv DEF PipelineInv
<1>4. CASE UNCHANGED vars
  BY <1>4, StutterInv
<1> QED
  BY <1>1, <1>2, <1>3, <1>4 DEF Next

\* The inductive invariant holds under every fault.
THEOREM Invariance == Spec => []PipelineInv
<1>1. Init => PipelineInv
  BY InitInv
<1>2. PipelineInv /\ [Next]_vars => PipelineInv'
  BY NextInv
<1> QED
  BY <1>1, <1>2, PTL DEF Spec

\* No fault makes the gateway order twice for a request, order for one it has
\* not accepted, or order without a trades row to account for it.
THEOREM OrdersAreAccountedFor == Spec => []OrderAccountedFor
<1>1. PipelineInv => OrderAccountedFor
  BY DEF PipelineInv
<1> QED
  BY <1>1, Invariance, PTL

\* No handler is left that could send on the channel once Queue.Stop closed it.
THEOREM NeverSendsOnClosed == Spec => []NoSendOnClosed
<1>1. PipelineInv => NoSendOnClosed
  BY DEF PipelineInv
<1> QED
  BY <1>1, Invariance, PTL

-----------------------------------------------------------------------------
(* The trades table.                                                       *)

\* A row with a final status is never rewritten and no row disappears: the
\* statements that write a row find it at none or queued.
THEOREM RowsStayFinal == Spec => RowsAreFinal
<1> USE DEF RowsKept
<1>1. ASSUME PipelineInv, [Next]_vars PROVE RowsKept
  <2>0. row \in [Reqs -> RowStatus] /\ outcome \in [Workers -> FinalStatus]
    BY <1>1 DEF PipelineInv, TypeOK
  <2>1. CASE row' = row
    BY <2>1
  <2>2. ASSUME NEW r \in Reqs, AuditRefusal(r) PROVE RowsKept
    <3>1. row[r] \in {"none", "rejected"}
      BY <1>1, <2>2 DEF PipelineInv, HandlersOK, AuditRefusal
    <3>2. row' = row \/ row' = [row EXCEPT ![r] = "rejected"]
      BY <2>2 DEF AuditRefusal
    <3> QED
      BY <2>0, <3>1, <3>2 DEF FinalStatus
  <2>3. ASSUME NEW w \in Workers, Insert(w) \/ Settle(w) \/ AuditRejection(w)
        PROVE  RowsKept
    <3>1. step[w] # "idle"
      BY <2>3 DEF Insert, Settle, AuditRejection
    <3> PICK r \in Reqs : r = job[w]
      BY <1>1, <3>1 DEF PipelineInv, WorkersOK, JobOK
    <3>2. row[r] \in {"none", "queued"}
      BY <1>1, <2>3 DEF PipelineInv, WorkersOK, JobOK, Insert, Settle, AuditRejection
    <3>3. \/ row' = row
          \/ \E s \in FinalStatus \cup {"queued"} : row' = [row EXCEPT ![r] = s]
      BY <2>0, <2>3 DEF Insert, Settle, AuditRejection, FinalStatus
    <3> QED
      BY <2>0, <3>2, <3>3 DEF FinalStatus
  <2>4. ASSUME NEW w \in Workers, Take(w) \/ Lookup(w) \/ Gate(w) \/ Execute(w)
        PROVE  row' = row
    BY <2>4 DEF Take, Lookup, Gate, Execute, tableVars
  <2>5. ASSUME NEW r \in Reqs, Deliver(r) \/ Claim(r) \/ Enqueue(r) \/ Release(r)
        PROVE  row' = row
    BY <2>5 DEF Deliver, Claim, Enqueue, EnqueueOr, Release, tableVars
  <2>6. ASSUME ProcNext \/ Tick PROVE row' = row
    BY <2>6 DEF ProcNext, BeginShutdown, CloseQueue, Exit, Crash, Restart, Tick,
       tableVars
  <2>7. ASSUME UNCHANGED vars PROVE row' = row
    BY <2>7 DEF vars, tableVars
  <2> QED
    BY <1>1, <2>1, <2>2, <2>3, <2>4, <2>5, <2>6, <2>7 DEF Next, HandlerNext,
       WorkerNext
<1>2. PipelineInv /\ [Next]_vars => [RowsKept]_vars
  BY <1>1
<1> QED
  BY <1>2, Invariance, PTL DEF Spec, RowsAreFinal

-----------------------------------------------------------------------------
(* The contract.                                                           *)

\* Nothing has been answered, so every signal is pending.
LEMMA ContractInit == ASSUME Init PROVE Contract!Init
  BY DEF Init, Contract!Init, Stage

\* A step that moves no signal to another stage and places no order stutters.
LEMMA ContractStutter ==
    ASSUME \A q \in Reqs : Stage(q)' = Stage(q),
           orders' = orders
    PROVE  UNCHANGED Contract!contractVars
  BY DEF Contract!contractVars

\* A step that takes one signal from one stage to another and places no order.
LEMMA ContractMove ==
    ASSUME NEW r \in Reqs, NEW from, NEW to,
           \A q \in Reqs : q # r => Stage(q)' = Stage(q),
           Stage(r) = from,
           Stage(r)' = to,
           orders' = orders
    PROVE  Contract!Move(r, from, to)
  BY DEF Contract!Move

\* A step that concerns one signal leaves the others in their stage.
LEMMA OthersStay ==
    ASSUME NEW r \in Reqs,
           \A q \in Reqs : q # r => answer'[q] = answer[q] /\ row'[q] = row[q]
    PROVE  \A q \in Reqs : q # r => Stage(q)' = Stage(q)
  BY DEF Stage

\* A handler accepts or declines its signal, or does nothing the contract sees.
LEMMA HandlerRefines ==
    ASSUME PipelineInv, NEW r \in Reqs, HandlerNext(r)
    PROVE  Contract!Next \/ UNCHANGED Contract!contractVars
<1> USE DEF PipelineInv
<1>0. /\ handler \in [Reqs -> HandlerSteps]
      /\ answer \in [Reqs -> Answers]
      /\ row \in [Reqs -> RowStatus]
  BY DEF TypeOK
<1>1. /\ orders' = orders
      /\ \A q \in Reqs : q # r => answer'[q] = answer[q] /\ row'[q] = row[q]
  BY <1>0 DEF HandlerNext, Deliver, Claim, Enqueue, EnqueueOr, Release, AuditRefusal, Refuse,
     tableVars
<1>2. \A q \in Reqs : q # r => Stage(q)' = Stage(q)
  BY <1>1, OthersStay
<1>3. CASE Stage(r)' = Stage(r)
  BY <1>1, <1>2, <1>3, ContractStutter
<1>4. CASE Stage(r) = "pending" /\ Stage(r)' = "refused"
  BY <1>1, <1>2, <1>4, ContractMove DEF Contract!Next, Contract!Decline
<1>5. CASE Stage(r) = "pending" /\ Stage(r)' = "accepted"
  BY <1>1, <1>2, <1>5, ContractMove DEF Contract!Next, Contract!Accept
<1>6. CASE Deliver(r) \/ Claim(r) \/ Enqueue(r)
  <2>1. /\ answer[r] = "none"
        /\ row[r] = "none"
        /\ row'[r] = row[r]
        /\ answer'[r] \in {"none", "refused", "409", "503", "202"}
    BY <1>0, <1>6 DEF Deliver, Claim, Enqueue, EnqueueOr, Refuse, HandlersOK, tableVars
  <2>2. Stage(r) = "pending"
    BY <2>1 DEF Stage
  <2>3. Stage(r)' \in {"pending", "refused", "accepted"}
    <3>1. row'[r] = "none"
      BY <2>1
    <3>2. answer'[r] = "none" => Stage(r)' = "pending"
      BY <2>1 DEF Stage
    <3>3. answer'[r] = "202" => Stage(r)' = "accepted"
      BY <3>1 DEF Stage, FinalStatus
    <3>4. answer'[r] \notin {"none", "202"} => Stage(r)' = "refused"
      BY DEF Stage
    <3> QED
      BY <2>1, <3>2, <3>3, <3>4
  <2> QED
    BY <1>3, <1>4, <1>5, <2>2, <2>3
<1>7. CASE Release(r) \/ AuditRefusal(r)
  <2>1. /\ answer[r] \notin {"none", "202"}
        /\ answer'[r] = answer[r]
    BY <1>7 DEF Release, AuditRefusal, HandlersOK
  <2>2. Stage(r)' = Stage(r)
    BY <2>1 DEF Stage
  <2> QED
    BY <1>3, <2>2
<1> QED
  BY <1>6, <1>7 DEF HandlerNext

\* A worker records its signal, orders for it, closes it, or does nothing the
\* contract sees.
LEMMA WorkerRefines ==
    ASSUME PipelineInv, NEW w \in Workers, WorkerNext(w)
    PROVE  Contract!Next \/ UNCHANGED Contract!contractVars
<1> USE DEF PipelineInv
<1> DEFINE Goal == Contract!Next \/ UNCHANGED Contract!contractVars
<1>0. /\ job \in [Workers -> Reqs \cup {NoReq}]
      /\ outcome \in [Workers -> FinalStatus]
      /\ row \in [Reqs -> RowStatus]
      /\ orders \in [Reqs -> Nat]
  BY DEF TypeOK
<1>1. CASE Take(w) \/ Lookup(w) \/ Gate(w)
  <2>1. UNCHANGED <<answer, row, orders>>
    BY <1>1 DEF Take, Lookup, Gate, handlerVars, tableVars
  <2>2. \A q \in Reqs : Stage(q)' = Stage(q)
    BY <2>1 DEF Stage
  <2> QED
    BY <2>1, <2>2, ContractStutter
<1>2. ASSUME Insert(w) \/ Execute(w) \/ Settle(w) \/ AuditRejection(w)
      PROVE  Goal
  <2>1. step[w] # "idle"
    BY <1>2 DEF Insert, Execute, Settle, AuditRejection
  <2> PICK r \in Reqs : r = job[w]
    BY <2>1 DEF WorkersOK, JobOK
  <2>2. /\ answer[r] = "202"
        /\ step[w] = "insert" => row[r] = "none"
        /\ step[w] \in {"execute", "settle", "expired"} => row[r] = "queued"
        /\ step[w] = "audit" => row[r] \in {"none", "queued"}
        /\ step[w] = "execute" => orders[r] = 0
        /\ step[w] = "settle" /\ outcome[w] = "placed" => orders[r] = 1
    BY <2>1 DEF WorkersOK, JobOK
  <2>3. /\ answer' = answer
        /\ \A q \in Reqs : q # r => row'[q] = row[q]
    BY <1>0, <1>2 DEF Insert, Execute, Settle, AuditRejection, handlerVars,
       tableVars
  <2>4. \A q \in Reqs : q # r => Stage(q)' = Stage(q)
    BY <2>3, OthersStay
  <2>5. /\ row[r] = "none" => Stage(r) = "accepted"
        /\ row[r] = "queued" => Stage(r) = "recorded"
    BY <2>2 DEF Stage, FinalStatus
  <2>6. /\ row'[r] = row[r] => Stage(r)' = Stage(r)
        /\ row'[r] = "queued" => Stage(r)' = "recorded"
        /\ row'[r] = "rejected" => Stage(r)' = "rejected"
        /\ row'[r] = "placed" => Stage(r)' = "placed"
    BY <2>2, <2>3 DEF Stage, FinalStatus
  <2>7. CASE row'[r] = row[r] /\ orders' = orders
    BY <2>4, <2>6, <2>7, ContractStutter
  <2>8. CASE Insert(w)
    <3>1. step[w] = "insert" /\ orders' = orders /\ row'[r] \in {row[r], "queued"}
      BY <1>0, <2>8 DEF Insert
    <3>2. ASSUME row'[r] = "queued" PROVE Contract!Record(r)
      BY <2>2, <2>4, <2>5, <2>6, <3>1, <3>2, ContractMove DEF Contract!Record
    <3> QED
      BY <2>7, <3>1, <3>2 DEF Contract!Next
  <2>9. CASE Execute(w)
    <3>1. step[w] = "execute" /\ row' = row
      BY <2>9 DEF Execute, tableVars
    <3>2. \/ orders' = orders
          \/ orders' = [orders EXCEPT ![r] = 1]
      BY <1>0, <2>2, <2>9 DEF Execute
    <3>3. \A q \in Reqs : Stage(q)' = Stage(q)
      BY <2>3, <3>1 DEF Stage
    <3>4. ASSUME orders' = [orders EXCEPT ![r] = 1] PROVE Contract!Order(r)
      BY <2>2, <2>5, <3>1, <3>3, <3>4 DEF Contract!Order
    <3> QED
      BY <2>7, <3>1, <3>2, <3>4 DEF Contract!Next
  <2>10. CASE Settle(w)
    <3>1. /\ step[w] \in {"settle", "expired"}
          /\ orders' = orders
          /\ row'[r] = row[r] \/ (step[w] = "settle" /\ row'[r] = outcome[w])
          /\ outcome[w] \in {"rejected", "placed"}
      BY <1>0, <2>10 DEF Settle, FinalStatus
    <3>2. ASSUME row'[r] = "rejected" PROVE Contract!Reject(r)
      BY <2>2, <2>4, <2>5, <2>6, <3>1, <3>2, ContractMove DEF Contract!Reject
    <3>3. ASSUME step[w] = "settle", row'[r] = outcome[w], outcome[w] = "placed"
          PROVE  Contract!Fulfil(r)
      BY <2>2, <2>4, <2>5, <2>6, <3>1, <3>3, ContractMove DEF Contract!Fulfil
    <3> QED
      BY <2>7, <3>1, <3>2, <3>3 DEF Contract!Next
  <2>11. CASE AuditRejection(w)
    <3>1. /\ step[w] = "audit"
          /\ orders' = orders
          /\ row'[r] \in {row[r], "rejected"}
      BY <1>0, <2>11 DEF AuditRejection
    <3>2. ASSUME row'[r] = "rejected" PROVE Contract!Reject(r)
      BY <2>2, <2>4, <2>5, <2>6, <3>1, <3>2, ContractMove DEF Contract!Reject
    <3> QED
      BY <2>7, <3>1, <3>2 DEF Contract!Next
  <2> QED
    BY <1>2, <2>8, <2>9, <2>10, <2>11
<1> QED
  BY <1>1, <1>2 DEF WorkerNext

\* The whole path implements OrderContract under every fault: a signal is
\* accepted or refused once, recorded before its one order, and placed only if
\* that order exists.
THEOREM PipelineKeepsContract == Spec => KeepsContract
<1>1. Init => Contract!Init
  BY ContractInit
<1>2. PipelineInv /\ [Next]_vars => [Contract!Next]_(Contract!contractVars)
  <2> SUFFICES ASSUME PipelineInv, [Next]_vars
               PROVE  Contract!Next \/ UNCHANGED Contract!contractVars
    OBVIOUS
  <2>1. ASSUME (ProcNext \/ Tick) \/ UNCHANGED vars
        PROVE  UNCHANGED Contract!contractVars
    <3>1. UNCHANGED <<answer, row, orders>>
      BY <2>1 DEF ProcNext, BeginShutdown, CloseQueue, Exit, Crash, Restart, Tick,
         vars, handlerVars, tableVars
    <3>2. \A q \in Reqs : Stage(q)' = Stage(q)
      BY <3>1 DEF Stage
    <3> QED
      BY <3>1, <3>2, ContractStutter
  <2> QED
    BY <2>1, HandlerRefines, WorkerRefines DEF Next
<1> QED
  BY <1>1, <1>2, Invariance, PTL DEF Spec, KeepsContract, Contract!Spec

-----------------------------------------------------------------------------
(* Deduplication.                                                          *)

\* No command to Redis fails and no handler sleeps through its own window.
Dependable == Faults \cap {"redis", "stall"} = {}

\* A step that neither makes a holder nor touches claims and the clock.
LEMMA ClaimsFrame ==
    ASSUME DedupInv,
           UNCHANGED <<now, claim>>,
           \A q \in Reqs : Holds(q)' => /\ Holds(q)
                                        /\ claimedAt'[q] = claimedAt[q]
                                        /\ handler'[q] \in {"enqueue", "release"} =>
                                              handler[q] \in {"enqueue", "release"}
    PROVE  DedupInv'
<1>1. ClaimsAlive'
  BY DEF DedupInv, ClaimsAlive
<1>2. ClaimsApart'
  BY DEF DedupInv, ClaimsApart, Apart
<1> QED
  BY <1>1, <1>2 DEF DedupInv

\* A successful claim finds every earlier window of its key over.
LEMMA ClaimKeepsDedup ==
    ASSUME PipelineInv, DedupInv, Dependable, Window > 0, NEW r \in Reqs, Claim(r)
    PROVE  DedupInv'
<1> USE ConstantsOK DEF ConstantsOK, PipelineInv
<1>0. /\ handler \in [Reqs -> HandlerSteps]
      /\ answer \in [Reqs -> Answers]
      /\ claimedAt \in [Reqs -> Nat]
      /\ claim \in [Keys -> Nat]
      /\ now \in Nat
  BY DEF TypeOK
<1>1. /\ answer[r] = "none"
      /\ now' = now
      /\ claimedAt'[r] = now
      /\ \A q \in Reqs : q # r => /\ handler'[q] = handler[q]
                                  /\ answer'[q] = answer[q]
                                  /\ claimedAt'[q] = claimedAt[q]
  BY <1>0 DEF Claim, Refuse, HandlersOK, procVars
<1>2. CASE Claimed(KeyOf[r])
  <2>1. claim' = claim /\ handler'[r] = "audit" /\ answer'[r] = "409"
    BY <1>0, <1>2 DEF Claim, Refuse, Dependable
  <2>2. ~Holds(r)'
    BY <2>1 DEF Holds
  <2> QED
    BY <1>1, <2>1, <2>2, ClaimsFrame DEF Holds
<1>3. CASE ~Claimed(KeyOf[r])
  <2>1. /\ claim' = [claim EXCEPT ![KeyOf[r]] = now + Window]
        /\ handler'[r] = "enqueue"
    BY <1>0, <1>3 DEF Claim, SetClaim, Dependable
  <2>2. \A q \in Reqs : q # r => (Holds(q)' <=> Holds(q))
    BY <1>1 DEF Holds
  <2>3. ASSUME NEW q \in Reqs, q # r, Holds(q), KeyOf[q] = KeyOf[r]
        PROVE  claimedAt[q] + Window <= now
    <3>1. ~(now < claimedAt[q] + Window)
      BY <1>0, <1>3, <2>3 DEF Claimed, DedupInv, ClaimsAlive
    <3> QED
      BY <1>0, <3>1
  <2>4. ClaimsAlive'
    <3>1. ASSUME NEW q \in Reqs, q # r, Holds(q)'
          PROVE  /\ claimedAt'[q] <= now'
                 /\ handler'[q] \in {"enqueue", "release"} =>
                       now' < claimedAt'[q] + Window
                 /\ now' < claimedAt'[q] + Window =>
                       claim'[KeyOf[q]] = claimedAt'[q] + Window
      <4>1. Holds(q)
        BY <2>2, <3>1
      <4>2. CASE KeyOf[q] = KeyOf[r]
        BY <1>0, <1>1, <2>3, <3>1, <4>1, <4>2 DEF DedupInv, ClaimsAlive
      <4>3. CASE KeyOf[q] # KeyOf[r]
        BY <1>0, <1>1, <2>1, <3>1, <4>1, <4>3 DEF DedupInv, ClaimsAlive
      <4> QED
        BY <4>2, <4>3
    <3>2. /\ claimedAt'[r] <= now'
          /\ now' < claimedAt'[r] + Window
          /\ claim'[KeyOf[r]] = claimedAt'[r] + Window
      BY <1>0, <1>1, <2>1
    <3> QED
      BY <3>1, <3>2 DEF ClaimsAlive
  <2>5. ClaimsApart'
    <3>1. ASSUME NEW q \in Reqs, q # r, Holds(q)', KeyOf[q] = KeyOf[r]
          PROVE  Apart(q, r)'
      BY <1>1, <2>2, <2>3, <3>1 DEF Apart
    <3>2. ASSUME NEW q \in Reqs, NEW p \in Reqs, p # q, q # r, p # r,
                 KeyOf[p] = KeyOf[q], Holds(p)', Holds(q)'
          PROVE  Apart(p, q)' \/ Apart(q, p)'
      BY <1>1, <2>2, <3>2 DEF Apart, DedupInv, ClaimsApart
    <3> QED
      BY <3>1, <3>2 DEF ClaimsApart
  <2> QED
    BY <2>4, <2>5 DEF DedupInv
<1> QED
  BY <1>2, <1>3

\* A handler gives back its own claim only: no other holder's window is open.
LEMMA ReleaseKeepsDedup ==
    ASSUME PipelineInv, DedupInv, Window > 0, NEW r \in Reqs, Release(r)
    PROVE  DedupInv'
<1> USE ConstantsOK DEF ConstantsOK, PipelineInv
<1>0. /\ handler \in [Reqs -> HandlerSteps]
      /\ claimedAt \in [Reqs -> Nat]
      /\ claim \in [Keys -> Nat]
      /\ now \in Nat
  BY DEF TypeOK
<1>1. /\ handler[r] = "release"
      /\ handler' = [handler EXCEPT ![r] = "audit"]
      /\ UNCHANGED <<now, answer, claimedAt>>
      /\ answer[r] # "202"
  BY DEF Release, HandlersOK, procVars
<1>2. Holds(r) /\ ~Holds(r)'
  BY <1>0, <1>1 DEF Holds
<1>3. \A q \in Reqs : q # r => (Holds(q)' <=> Holds(q)) /\ handler'[q] = handler[q]
  BY <1>0, <1>1 DEF Holds
<1>4. ClaimsApart'
  BY <1>1, <1>2, <1>3 DEF DedupInv, ClaimsApart, Apart
<1>5. ASSUME NEW q \in Reqs, q # r, Holds(q), now < claimedAt[q] + Window
      PROVE  KeyOf[q] # KeyOf[r]
  <2>1. SUFFICES ASSUME KeyOf[q] = KeyOf[r] PROVE FALSE
    OBVIOUS
  <2>2. claimedAt[q] + Window = claimedAt[r] + Window
    BY <1>1, <1>2, <1>5, <2>1 DEF DedupInv, ClaimsAlive
  <2>3. Apart(r, q) \/ Apart(q, r)
    BY <1>2, <1>5, <2>1 DEF DedupInv, ClaimsApart
  <2> QED
    BY <1>0, <2>2, <2>3 DEF Apart
<1>6. \A k \in Keys : k # KeyOf[r] => claim'[k] = claim[k]
  BY <1>0 DEF Release
<1>7. ClaimsAlive'
  BY <1>0, <1>1, <1>2, <1>3, <1>5, <1>6 DEF DedupInv, ClaimsAlive
<1> QED
  BY <1>4, <1>7 DEF DedupInv

\* Time passes only while no handler sits on an ending claim.
LEMMA TickKeepsDedup ==
    ASSUME PipelineInv, DedupInv, Dependable, Window > 0, Tick
    PROVE  DedupInv'
<1> USE ConstantsOK DEF ConstantsOK, PipelineInv
<1>0. claimedAt \in [Reqs -> Nat] /\ now \in Nat
  BY DEF TypeOK
<1>1. /\ now' = now + 1
      /\ UNCHANGED <<handler, answer, claim, claimedAt>>
      /\ \A r \in Reqs : Prompt(r)
  BY DEF Tick, Dependable, handlerVars
<1>2. ClaimsApart'
  BY <1>1 DEF DedupInv, ClaimsApart, Apart, Holds
<1>3. ClaimsAlive'
  BY <1>0, <1>1 DEF DedupInv, ClaimsAlive, Holds, Prompt
<1> QED
  BY <1>2, <1>3 DEF DedupInv

\* Every step keeps the claims of holders alive and apart.
LEMMA NextDedup ==
    ASSUME PipelineInv, DedupInv, Dependable, Window > 0, [Next]_vars
    PROVE  DedupInv'
<1> USE DEF PipelineInv
<1>0. /\ handler \in [Reqs -> HandlerSteps]
      /\ answer \in [Reqs -> Answers]
  BY DEF TypeOK
<1>1. ASSUME NEW r \in Reqs, Deliver(r) \/ Enqueue(r) \/ AuditRefusal(r)
      PROVE  DedupInv'
  <2>1. UNCHANGED <<now, claim, claimedAt>>
    BY <1>1 DEF Deliver, Enqueue, EnqueueOr, AuditRefusal, procVars
  <2>2. \A q \in Reqs : Holds(q)' =>
            /\ Holds(q)
            /\ handler'[q] \in {"enqueue", "release"} =>
                  handler[q] \in {"enqueue", "release"}
    BY <1>0, <1>1, ConstantsOK DEF Deliver, Enqueue, EnqueueOr, AuditRefusal, Refuse, Holds,
       ConstantsOK
  <2> QED
    BY <2>1, <2>2, ClaimsFrame
<1>2. ASSUME NEW r \in Reqs, Claim(r) PROVE DedupInv'
  BY <1>2, ClaimKeepsDedup
<1>3. ASSUME NEW r \in Reqs, Release(r) PROVE DedupInv'
  BY <1>3, ReleaseKeepsDedup
<1>4. CASE Tick
  BY <1>4, TickKeepsDedup
<1>5. CASE Crash
  <2>1. /\ UNCHANGED <<now, claim, claimedAt, answer>>
        /\ handler' = [r \in Reqs |-> IF InHandler(r) THEN "gone" ELSE handler[r]]
    BY <1>5 DEF Crash
  <2>2. \A q \in Reqs : Holds(q)' => Holds(q) /\ handler'[q] \notin {"enqueue", "release"}
    BY <2>1 DEF Holds, InHandler
  <2> QED
    BY <2>1, <2>2, ClaimsFrame
<1>6. ASSUME UNCHANGED <<now, claim, handlerVars>> PROVE DedupInv'
  BY <1>6, ClaimsFrame DEF handlerVars, Holds
<1>7. ASSUME NEW w \in Workers, WorkerNext(w) PROVE UNCHANGED <<now, claim, handlerVars>>
  BY <1>7 DEF WorkerNext, Take, Lookup, Insert, Gate, Execute, Settle, AuditRejection,
     procVars
<1>8. ASSUME BeginShutdown \/ CloseQueue \/ Exit \/ Restart
      PROVE  UNCHANGED <<now, claim, handlerVars>>
  BY <1>8 DEF BeginShutdown, CloseQueue, Exit, Restart
<1>9. ASSUME UNCHANGED vars PROVE UNCHANGED <<now, claim, handlerVars>>
  BY <1>9 DEF vars, procVars
<1> QED
  BY <1>1, <1>2, <1>3, <1>4, <1>5, <1>6, <1>7, <1>8, <1>9 DEF Next, HandlerNext,
     ProcNext

\* With a dependable Redis and prompt handlers, two deliveries of one payload
\* reach the broker only if their claims are a whole window apart: crashes,
\* failing statements, lost broker replies and expired contexts do not matter.
THEOREM DedupSeparatesOrders == ASSUME Dependable PROVE Spec => []NoDoubleOrder
<1> USE Dependable
<1>1. CASE Window > 0
  <2>1. Init => DedupInv
    BY DEF Init, DedupInv, ClaimsAlive, ClaimsApart, Holds
  <2>2. PipelineInv /\ DedupInv /\ [Next]_vars => DedupInv'
    BY <1>1, NextDedup
  <2>3. PipelineInv /\ DedupInv => NoDoubleOrder
    BY DEF PipelineInv, DedupInv, OrderAccountedFor, NoDoubleOrder, ClaimsApart, Holds
  <2> QED
    BY <2>1, <2>2, <2>3, Invariance, PTL DEF Spec
<1>2. CASE Window = 0
  <2>1. PipelineInv => NoDoubleOrder
    BY <1>2 DEF PipelineInv, TypeOK, NoDoubleOrder, Apart
  <2> QED
    BY <2>1, Invariance, PTL
<1> QED
  BY <1>1, <1>2, ConstantsOK DEF ConstantsOK

-----------------------------------------------------------------------------
(* A refusal as a duplicate has an original.                               *)

\* No command to Redis and no statement fails, and the process does not die.
NothingLost == Faults \cap {"redis", "store", "crash"} = {}

\* A step that takes no key from anybody, however much time passes.
LEMMA KeysFrame ==
    ASSUME PipelineInv, KeysHeld, now' \in Nat, now <= now', claim' = claim,
           \A q \in Reqs : Holds(q) => Holds(q)' /\ claimedAt'[q] = claimedAt[q]
    PROVE  KeysHeld'
<1> SUFFICES ASSUME NEW k \in Keys, Claimed(k)'
             PROVE  (\E q \in Reqs : /\ KeyOf[q] = k
                                     /\ Holds(q)
                                     /\ claimedAt[q] <= now
                                     /\ claim[k] = claimedAt[q] + Window)'
  BY DEF KeysHeld
<1>0. now \in Nat /\ claim \in [Keys -> Nat] /\ claimedAt \in [Reqs -> Nat]
  BY DEF PipelineInv, TypeOK
<1>1. Claimed(k)
  BY <1>0 DEF Claimed
<1>2. PICK q \in Reqs : KeyOf[q] = k /\ Holds(q) /\ claimedAt[q] <= now
                        /\ claim[k] = claimedAt[q] + Window
  BY <1>1 DEF KeysHeld
<1> QED
  BY <1>0, <1>2

\* A claim is set by a request that held nothing before.
LEMMA ClaimKeepsKeys ==
    ASSUME PipelineInv, KeysHeld, NothingLost, NEW r \in Reqs, Claim(r)
    PROVE  KeysHeld'
<1> USE ConstantsOK DEF ConstantsOK, PipelineInv
<1>0. /\ handler \in [Reqs -> HandlerSteps]
      /\ answer \in [Reqs -> Answers]
      /\ claimedAt \in [Reqs -> Nat]
      /\ claim \in [Keys -> Nat]
      /\ now \in Nat
  BY DEF TypeOK
<1>1. /\ ~Holds(r)
      /\ now' = now
      /\ claimedAt'[r] = now
      /\ \A q \in Reqs : q # r => /\ Holds(q)' <=> Holds(q)
                                  /\ claimedAt'[q] = claimedAt[q]
  BY <1>0 DEF Claim, Refuse, HandlersOK, procVars, Holds
<1>2. CASE Claimed(KeyOf[r])
  <2>1. claim' = claim
    BY <1>2 DEF Claim, NothingLost
  <2> QED
    BY <1>0, <1>1, <2>1, KeysFrame
<1>3. CASE ~Claimed(KeyOf[r])
  <2>1. /\ claim' = [claim EXCEPT ![KeyOf[r]] = now + Window]
        /\ Holds(r)'
    BY <1>0, <1>3 DEF Claim, SetClaim, NothingLost, Holds
  <2> SUFFICES ASSUME NEW k \in Keys, Claimed(k)'
               PROVE  (\E q \in Reqs : /\ KeyOf[q] = k
                                       /\ Holds(q)
                                       /\ claimedAt[q] <= now
                                       /\ claim[k] = claimedAt[q] + Window)'
    BY DEF KeysHeld
  <2>2. CASE k = KeyOf[r]
    BY <1>0, <1>1, <2>1, <2>2
  <2>3. CASE k # KeyOf[r]
    <3>1. claim'[k] = claim[k]
      BY <1>0, <2>1, <2>3
    <3>2. Claimed(k)
      BY <1>1, <3>1 DEF Claimed
    <3>3. PICK q \in Reqs : KeyOf[q] = k /\ Holds(q) /\ claimedAt[q] <= now
                            /\ claim[k] = claimedAt[q] + Window
      BY <3>2 DEF KeysHeld
    <3> QED
      BY <1>1, <2>3, <3>1, <3>3
  <2> QED
    BY <2>2, <2>3
<1> QED
  BY <1>2, <1>3

\* A released key is nobody's.
LEMMA ReleaseKeepsKeys ==
    ASSUME PipelineInv, KeysHeld, NothingLost, NEW r \in Reqs, Release(r)
    PROVE  KeysHeld'
<1> USE ConstantsOK DEF ConstantsOK, PipelineInv
<1>0. /\ handler \in [Reqs -> HandlerSteps]
      /\ claim \in [Keys -> Nat]
      /\ now \in Nat
  BY DEF TypeOK
<1>1. /\ claim' = [claim EXCEPT ![KeyOf[r]] = 0]
      /\ UNCHANGED <<now, claimedAt>>
      /\ \A q \in Reqs : q # r => (Holds(q)' <=> Holds(q))
  BY <1>0 DEF Release, procVars, Holds, NothingLost
<1> SUFFICES ASSUME NEW k \in Keys, Claimed(k)'
             PROVE  (\E q \in Reqs : /\ KeyOf[q] = k
                                     /\ Holds(q)
                                     /\ claimedAt[q] <= now
                                     /\ claim[k] = claimedAt[q] + Window)'
  BY DEF KeysHeld
<1>2. k # KeyOf[r] /\ claim'[k] = claim[k]
  BY <1>0, <1>1 DEF Claimed
<1>3. PICK q \in Reqs : KeyOf[q] = k /\ Holds(q) /\ claimedAt[q] <= now
                        /\ claim[k] = claimedAt[q] + Window
  BY <1>1, <1>2 DEF KeysHeld, Claimed
<1> QED
  BY <1>1, <1>2, <1>3

\* A step that lets no accepted job go.
LEMMA TracesFrame ==
    ASSUME AcceptedLeaveTraces, UNCHANGED <<queue, step, job>>,
           \A q \in Reqs : /\ answer'[q] = "202" => answer[q] = "202"
                           /\ row[q] # "none" => row'[q] # "none"
    PROVE  AcceptedLeaveTraces'
  BY DEF AcceptedLeaveTraces, InQueue, AtWorker

\* What is accepted is in the channel.
LEMMA EnqueueKeepsTraces ==
    ASSUME PipelineInv, AcceptedLeaveTraces, NEW r \in Reqs, Enqueue(r)
    PROVE  AcceptedLeaveTraces'
<1> USE ConstantsOK DEF ConstantsOK, PipelineInv
<1>0. queue \in Seq(Reqs) /\ answer \in [Reqs -> Answers]
  BY DEF TypeOK
<1>1. UNCHANGED <<row, step, job>>
  BY DEF Enqueue, EnqueueOr, workerVars, tableVars
<1>2. CASE queue' = Append(queue, r) /\ answer' = [answer EXCEPT ![r] = "202"]
  <2>0. /\ Len(queue) \in Nat
        /\ Len(queue') = Len(queue) + 1
        /\ \A i \in 1..Len(queue) : queue'[i] = queue[i]
        /\ queue'[Len(queue) + 1] = r
    BY <1>0, <1>2, AppendFacts
  <2>1. InQueue(r)'
    <3>1. Len(queue) + 1 \in 1..Len(queue')
      BY <2>0
    <3> QED
      BY <2>0, <3>1 DEF InQueue
  <2>2. ASSUME NEW q \in Reqs, InQueue(q) PROVE InQueue(q)'
    <3>1. PICK i \in 1..Len(queue) : queue[i] = q
      BY <2>2 DEF InQueue
    <3>2. i \in 1..Len(queue') /\ queue'[i] = q
      BY <2>0, <3>1
    <3> QED
      BY <3>2 DEF InQueue
  <2> QED
    BY <1>0, <1>1, <1>2, <2>1, <2>2 DEF AcceptedLeaveTraces, AtWorker
<1>3. CASE queue' = queue /\ answer' = [answer EXCEPT ![r] = "503"]
  BY <1>0, <1>1, <1>3, TracesFrame
<1> QED
  BY <1>2, <1>3 DEF Enqueue, EnqueueOr

\* What leaves the channel is at a worker.
LEMMA TakeKeepsTraces ==
    ASSUME PipelineInv, AcceptedLeaveTraces, NEW w \in Workers, Take(w)
    PROVE  AcceptedLeaveTraces'
<1> USE DEF PipelineInv
<1>0. /\ queue \in Seq(Reqs) /\ queue # << >> /\ queue' = Tail(queue)
      /\ step \in [Workers -> WorkerSteps] /\ job \in [Workers -> Reqs \cup {NoReq}]
      /\ UNCHANGED <<answer, row>>
      /\ step[w] = "idle" /\ step'[w] # "idle" /\ job'[w] = Head(queue)
      /\ \A v \in Workers : v # w => step'[v] = step[v] /\ job'[v] = job[v]
  BY DEF TypeOK, Take, Goto, RejectAt, handlerVars
<1>1. ASSUME NEW q \in Reqs, InQueue(q), q # Head(queue) PROVE InQueue(q)'
  <2>1. PICK i \in 1..Len(queue) : queue[i] = q
    BY <1>1 DEF InQueue
  <2>2. i # 1
    BY <1>0, <1>1, <2>1, TailFacts
  <2>3. i - 1 \in 1..Len(Tail(queue)) /\ Tail(queue)[i - 1] = queue[i]
    BY <1>0, <2>1, <2>2, TailFacts
  <2> QED
    BY <1>0, <2>1, <2>3 DEF InQueue
<1>2. ASSUME NEW q \in Reqs, AtWorker(q) PROVE AtWorker(q)'
  <2>1. PICK v \in Workers : step[v] # "idle" /\ job[v] = q
    BY <1>2 DEF AtWorker
  <2>2. step'[v] # "idle" /\ job'[v] = q
    BY <1>0, <2>1
  <2> QED
    BY <2>2 DEF AtWorker
<1>3. ASSUME NEW q \in Reqs, q = Head(queue) PROVE AtWorker(q)'
  <2>1. step'[w] # "idle" /\ job'[w] = q
    BY <1>0, <1>3
  <2> QED
    BY <2>1 DEF AtWorker
<1> SUFFICES ASSUME NEW q \in Reqs, answer'[q] = "202"
             PROVE  InQueue(q)' \/ AtWorker(q)' \/ row'[q] # "none"
  BY DEF AcceptedLeaveTraces
<1>4. InQueue(q) \/ AtWorker(q) \/ row[q] # "none"
  BY <1>0 DEF AcceptedLeaveTraces
<1> QED
  BY <1>0, <1>1, <1>2, <1>3, <1>4

\* A worker lets a job go with a row.
LEMMA WorkKeepsTraces ==
    ASSUME PipelineInv, AcceptedLeaveTraces, NothingLost, NEW w \in Workers, WorkerNext(w), ~Take(w)
    PROVE  AcceptedLeaveTraces'
<1> USE DEF PipelineInv
<1>0. /\ step \in [Workers -> WorkerSteps] /\ job \in [Workers -> Reqs \cup {NoReq}]
      /\ row \in [Reqs -> RowStatus] /\ outcome \in [Workers -> FinalStatus]
  BY DEF TypeOK
<1>1. step[w] # "idle" /\ UNCHANGED <<queue, answer>>
  BY DEF WorkerNext, Lookup, Insert, Gate, Execute, Settle, AuditRejection, handlerVars
<1>2. job[w] \in Reqs
  BY <1>1 DEF WorkersOK, JobOK
<1>3. \A v \in Workers : v # w => step'[v] = step[v] /\ job'[v] = job[v]
  BY <1>0 DEF WorkerNext, Lookup, Insert, Gate, Execute, Settle, AuditRejection, Goto, RejectAt,
     Done, tableVars
<1>4. \A q \in Reqs : row[q] # "none" => row'[q] # "none"
  BY <1>0, <1>2 DEF WorkerNext, Lookup, Insert, Gate, Execute, Settle, AuditRejection,
     tableVars, FinalStatus
<1>5. \/ step'[w] # "idle" /\ job'[w] = job[w]
      \/ row'[job[w]] # "none"
  <2>1. CASE Lookup(w) \/ Insert(w) \/ Gate(w) \/ Execute(w)
    BY <1>0, <2>1 DEF Lookup, Insert, Gate, Execute, Goto, RejectAt
  <2>2. CASE Settle(w)
    BY <1>0, <1>1, <1>4, <2>2 DEF Settle, WorkersOK, JobOK
  <2>3. CASE AuditRejection(w)
    BY <1>0, <1>2, <2>3 DEF AuditRejection, NothingLost
  <2> QED
    BY <2>1, <2>2, <2>3 DEF WorkerNext
<1>6. ASSUME NEW q \in Reqs, AtWorker(q) PROVE AtWorker(q)' \/ row'[q] # "none"
  BY <1>3, <1>5, <1>6 DEF AtWorker
<1> QED
  BY <1>1, <1>4, <1>6 DEF AcceptedLeaveTraces, InQueue

\* Every step leaves live keys with a holder and accepted signals with a trace.
LEMMA NextOriginal ==
    ASSUME PipelineInv, OriginalInv, NothingLost, [Next]_vars
    PROVE  OriginalInv'
<1> USE DEF PipelineInv, OriginalInv
<1>0. /\ handler \in [Reqs -> HandlerSteps]
      /\ answer \in [Reqs -> Answers]
      /\ row \in [Reqs -> RowStatus]
      /\ now \in Nat
  BY DEF TypeOK
<1>1. ASSUME NEW r \in Reqs, Deliver(r) \/ AuditRefusal(r) PROVE OriginalInv'
  <2>1. UNCHANGED <<now, claim, claimedAt, queue, step, job>>
    BY <1>1 DEF Deliver, AuditRefusal, procVars, workerVars
  <2>2. \A q \in Reqs : Holds(q) => Holds(q)'
    BY <1>0, <1>1 DEF Deliver, AuditRefusal, Refuse, Holds, HandlersOK
  <2>3. \A q \in Reqs : /\ answer'[q] = "202" => answer[q] = "202"
                        /\ row[q] # "none" => row'[q] # "none"
    BY <1>0, <1>1 DEF Deliver, AuditRefusal, Refuse, tableVars
  <2> QED
    BY <1>0, <2>1, <2>2, <2>3, KeysFrame, TracesFrame
<1>2. ASSUME NEW r \in Reqs, Claim(r) PROVE OriginalInv'
  <2>1. UNCHANGED <<queue, step, job, row>>
    BY <1>2 DEF Claim, workerVars, tableVars
  <2>2. \A q \in Reqs : answer'[q] = "202" => answer[q] = "202"
    BY <1>0, <1>2 DEF Claim, Refuse
  <2> QED
    BY <1>2, <2>1, <2>2, ClaimKeepsKeys, TracesFrame
<1>3. ASSUME NEW r \in Reqs, Enqueue(r) PROVE OriginalInv'
  <2>1. UNCHANGED <<now, claim, claimedAt>>
    BY <1>3 DEF Enqueue, EnqueueOr, procVars
  <2>2. KeysHeld'
    <3>1. CASE Window > 0
      <4>1. \A q \in Reqs : Holds(q) => Holds(q)'
        BY <1>0, <1>3, <3>1 DEF Enqueue, EnqueueOr, Holds
      <4> QED
        BY <1>0, <2>1, <4>1, KeysFrame
    <3>2. CASE Window = 0
      <4>1. claim \in [Keys -> Nat] /\ claimedAt \in [Reqs -> Nat]
        BY DEF TypeOK
      <4>2. \A k \in Keys : ~Claimed(k)
        BY <1>0, <3>2, <4>1 DEF KeysHeld, Claimed
      <4> QED
        BY <2>1, <4>2 DEF KeysHeld, Claimed
    <3> QED
      BY <3>1, <3>2, ConstantsOK DEF ConstantsOK
  <2> QED
    BY <1>3, <2>2, EnqueueKeepsTraces
<1>4. ASSUME NEW r \in Reqs, Release(r) PROVE OriginalInv'
  <2>1. UNCHANGED <<queue, step, job, row, answer>>
    BY <1>4 DEF Release, workerVars, tableVars
  <2> QED
    BY <1>4, <2>1, ReleaseKeepsKeys, TracesFrame
<1>5. ASSUME NEW w \in Workers, WorkerNext(w) PROVE OriginalInv'
  <2>1. UNCHANGED <<now, claim, handlerVars>>
    BY <1>5 DEF WorkerNext, Take, Lookup, Insert, Gate, Execute, Settle, AuditRejection,
       procVars
  <2>2. KeysHeld'
    BY <1>0, <2>1, KeysFrame DEF handlerVars, Holds
  <2> QED
    BY <1>5, <2>2, TakeKeepsTraces, WorkKeepsTraces
<1>6. ASSUME now' \in {now, now + 1},
             UNCHANGED <<claim, handlerVars, queue, step, job, row>>
      PROVE  OriginalInv'
  <2>1. now' \in Nat /\ now <= now'
    BY <1>0, <1>6
  <2> QED
    BY <1>6, <2>1, KeysFrame, TracesFrame DEF handlerVars, Holds
<1>7. ASSUME Tick \/ BeginShutdown \/ CloseQueue \/ Exit \/ Restart \/ UNCHANGED vars
      PROVE  /\ now' \in {now, now + 1}
             /\ UNCHANGED <<claim, handlerVars, queue, step, job, row>>
  BY <1>7 DEF Tick, BeginShutdown, CloseQueue, Exit, Restart, vars, procVars, workerVars,
     tableVars
<1>8. ~Crash
  BY DEF Crash, NothingLost
<1> QED
  BY <1>1, <1>2, <1>3, <1>4, <1>5, <1>6, <1>7, <1>8 DEF Next, HandlerNext, ProcNext

\* Only a claim refuses a delivery as a duplicate, and it finds who holds the key.
LEMMA RefusedForOriginal ==
    ASSUME PipelineInv, OriginalInv, NothingLost, [Next]_vars,
           NEW r \in Reqs, answer[r] # "409", answer'[r] = "409"
    PROVE  \E q \in Reqs \ {r} : KeyOf[q] = KeyOf[r] /\ Original(q)
<1> USE ConstantsOK DEF ConstantsOK, PipelineInv
<1>0. /\ handler \in [Reqs -> HandlerSteps]
      /\ answer \in [Reqs -> Answers]
      /\ claimedAt \in [Reqs -> Nat]
      /\ claim \in [Keys -> Nat]
      /\ now \in Nat
  BY DEF TypeOK
<1>1. Claim(r)
  <2>1. ASSUME NEW p \in Reqs, HandlerNext(p) PROVE Claim(r)
    BY <1>0, <2>1 DEF HandlerNext, Deliver, Refuse, Claim, Enqueue, EnqueueOr, Release, AuditRefusal
  <2>2. ASSUME NEW w \in Workers, WorkerNext(w) PROVE answer' = answer
    BY <2>2 DEF WorkerNext, Take, Lookup, Insert, Gate, Execute, Settle, AuditRejection,
       handlerVars
  <2>3. ASSUME ProcNext \/ Tick \/ UNCHANGED vars PROVE answer' = answer
    BY <2>3 DEF ProcNext, BeginShutdown, CloseQueue, Exit, Crash, Restart, Tick, vars,
       handlerVars
  <2> QED
    BY <2>1, <2>2, <2>3 DEF Next
<1>2. Claimed(KeyOf[r]) /\ ~Holds(r)
  BY <1>0, <1>1 DEF Claim, Refuse, HandlersOK, Holds, NothingLost
<1>3. PICK q \in Reqs : /\ KeyOf[q] = KeyOf[r]
                        /\ Holds(q)
                        /\ claim[KeyOf[r]] = claimedAt[q] + Window
  BY <1>2 DEF OriginalInv, KeysHeld
<1>4. now < claimedAt[q] + Window
  BY <1>0, <1>2, <1>3 DEF Claimed
<1> QED
  BY <1>2, <1>3, <1>4 DEF Original, Holds, OriginalInv, AcceptedLeaveTraces

\* While Redis and PostgreSQL answer and the process does not die, a delivery is
\* refused as a duplicate only for another of the same payload that claimed its key
\* within the window and is on its way or on record: a refused signal has given its
\* key back. Stalled handlers, lost replies and expired contexts do not matter.
THEOREM DuplicatesHaveOriginals == ASSUME NothingLost PROVE Spec => DuplicateHasOriginal
<1> USE NothingLost
<1>1. Init => OriginalInv
  BY DEF Init, OriginalInv, KeysHeld, Claimed, AcceptedLeaveTraces
<1>2. PipelineInv /\ OriginalInv /\ [Next]_vars => OriginalInv'
  BY NextOriginal
<1>3. ASSUME PipelineInv, OriginalInv, [Next]_vars
      PROVE  [\A r \in Reqs : answer[r] # "409" /\ answer'[r] = "409" =>
                 \E q \in Reqs \ {r} : KeyOf[q] = KeyOf[r] /\ Original(q)]_vars
  BY <1>3, RefusedForOriginal
<1> QED
  BY <1>1, <1>2, <1>3, Invariance, PTL DEF Spec, DuplicateHasOriginal
=============================================================================
