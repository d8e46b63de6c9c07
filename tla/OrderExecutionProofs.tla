------------------------ MODULE OrderExecutionProofs ------------------------
(* OrderExecution for every number of commands and keys, every deployment,   *)
(* request and broker, and every number and kind of faults.                  *)
EXTENDS OrderExecution, SequenceTheorems, FiniteSetTheorems, TLAPS

-----------------------------------------------------------------------------
(* The steps of an execution, as far as they concern its key and its order. *)

Working == {"admit", "size", "mock", "call"}

\* The execution comes to an outcome of its own, or goes on without one.
Concludes(c) ==
    /\ pc' = [pc EXCEPT ![c] = IF Http THEN "store" ELSE "reply"]
    /\ \E o : o # None /\ o.by = c /\ outcome' = [outcome EXCEPT ![c] = o]
GoesOn(c) ==
    /\ \E s \in Working : (s = "mock" => ~Live) /\ pc' = [pc EXCEPT ![c] = s]
    /\ outcome' = outcome

Refused(c) ==
    Concludes(c) /\ \E code : outcome' = [outcome EXCEPT ![c] = Rejected(c, code)]
Mocked(c) ==
    Concludes(c) /\ pc[c] = "mock" /\ outcome' = [outcome EXCEPT ![c] = Submitted(c)]
Answered(c) ==
    \/ outcome' = [outcome EXCEPT ![c] = Submitted(c)]
    \/ \E code \in Unsure : outcome' = [outcome EXCEPT ![c] = Rejected(c, code)]

\* Between the look-up of the key and the store, without an order.
Worked(c) ==
    /\ pc[c] \in Working
    /\ Refused(c) \/ Mocked(c) \/ GoesOn(c)
    /\ UNCHANGED <<scene, key, want, heard, cached, excused, book>>

\* The broker has taken the order.
Ordered(c) ==
    /\ pc[c] = "call"
    /\ Concludes(c) /\ Answered(c)
    /\ \E o : "by" \in DOMAIN o /\ o.by = c /\ book' = Append(book, o)
    /\ UNCHANGED <<scene, key, want, heard, cached, excused>>

LEMMA FailRefuses ==
    ASSUME NEW c \in Cmds, NEW code, Fail(c, code)
    PROVE  Refused(c)
<1>1. Rejected(c, code) # None /\ Rejected(c, code).by = c
  BY DEF Rejected, None
<1> QED
  BY <1>1 DEF Fail, Finish, Goto, Concludes, Refused

LEMMA SubmittedConcludes ==
    ASSUME NEW c \in Cmds, Finish(c, Submitted(c))
    PROVE  Concludes(c)
<1>1. Submitted(c) # None /\ Submitted(c).by = c
  BY DEF Submitted, None
<1> QED
  BY <1>1 DEF Finish, Goto, Concludes

\* The codes of a POST whose answer is missing leave the order open.
LEMMA LostIsUnsure ==
    ASSUME NEW b, NEW side, NEW k \in {"lost", "garbled", "busy"}
    PROVE  ErrorCode(b, side, k) \in Unsure
  BY DEF ErrorCode, MapKiteErrorCode, AngelErrorCode, MapDhanErrorCode, MT5CloseCode, MapHTTPErrorCode, Unsure

LEMMA StayGoesOn ==
    ASSUME NEW c \in Cmds, pc \in [Cmds -> Steps], pc[c] = "call", UNCHANGED <<pc, outcome>>
    PROVE  GoesOn(c)
<1>1. pc' = [pc EXCEPT ![c] = pc[c]]
  OBVIOUS
<1> QED
  BY <1>1 DEF GoesOn, Working

LEMMA AdmitWorks ==
    ASSUME NEW c \in Cmds, Admit(c)
    PROVE  Worked(c)
<1>1. pc[c] \in Working /\ UNCHANGED <<scene, key, want, heard, cached, excused, book>>
  BY DEF Admit, brokerVars, Working
<1>2. CASE Fail(c, "internal") \/ Fail(c, "rate_limited") \/ Fail(c, AccessCode(scene))
  BY <1>1, <1>2, FailRefuses DEF Worked
<1>3. CASE Goto(c, "size") /\ UNCHANGED outcome
  BY <1>1, <1>3 DEF Goto, GoesOn, Working, Worked
<1> QED
  BY <1>2, <1>3 DEF Admit

LEMMA SizeWorks ==
    ASSUME NEW c \in Cmds, Size(c)
    PROVE  Worked(c)
<1>1. pc[c] \in Working /\ UNCHANGED <<scene, key, want, heard, cached, excused, book>>
  BY DEF Size, storeVars, brokerVars, Working
<1>2. CASE Fail(c, "internal") \/ Fail(c, BuildCode(scene, Req(c))) \/ Fail(c, AlgoCode(scene))
  BY <1>1, <1>2, FailRefuses DEF Worked
<1>3. CASE Goto(c, IF Live THEN "call" ELSE "mock") /\ UNCHANGED outcome
  BY <1>1, <1>3 DEF Goto, GoesOn, Working, Worked
<1> QED
  BY <1>2, <1>3 DEF Size, Plan

LEMMA MockWorks ==
    ASSUME NEW c \in Cmds, Mock(c)
    PROVE  Worked(c)
  BY SubmittedConcludes DEF Mock, Finish, Mocked, storeVars, brokerVars, Working, Worked

LEMMA CallFailsWorks ==
    ASSUME NEW c \in Cmds, NEW call, pc \in [Cmds -> Steps], pc[c] = "call", CallFails(c, call)
    PROVE  Refused(c) \/ GoesOn(c)
<1>1. PICK k, kind : \/ UNCHANGED <<pc, outcome>>
                    \/ Fail(c, ErrorCode(scene.broker, Req(c).side, kind))
  BY DEF CallFails
<1> QED
  BY <1>1, FailRefuses, StayGoesOn

LEMMA InstrumentWorks ==
    ASSUME Tables, NEW c \in Cmds, Instrument(c)
    PROVE  Worked(c)
<1>1. /\ pc \in [Cmds -> Steps] /\ pc[c] = "call" /\ pc[c] \in Working
      /\ UNCHANGED <<scene, key, want, heard, cached, excused, book>>
  BY DEF Tables, Instrument, Calling, brokerVars, Working
<1>2. CASE UNCHANGED <<pc, outcome>>
  BY <1>1, <1>2, StayGoesOn DEF Worked
<1>3. CASE Fail(c, "invalid_symbol") \/ Fail(c, "internal")
  BY <1>1, <1>3, FailRefuses DEF Worked
<1>4. CASE CallFails(c, "instrument")
  BY <1>1, <1>4, CallFailsWorks DEF Worked
<1> QED
  BY <1>2, <1>3, <1>4 DEF Instrument

LEMMA QuoteWorks ==
    ASSUME Tables, NEW c \in Cmds, Quote(c)
    PROVE  Worked(c)
<1>1. /\ pc \in [Cmds -> Steps] /\ pc[c] = "call" /\ pc[c] \in Working
      /\ UNCHANGED <<scene, key, want, heard, cached, excused, book>>
  BY DEF Tables, Quote, Calling, storeVars, brokerVars, Working
<1>2. CASE UNCHANGED <<pc, outcome>>
  BY <1>1, <1>2, StayGoesOn DEF Worked
<1>3. ASSUME NEW code, Fail(c, code) PROVE Worked(c)
  BY <1>1, <1>3, FailRefuses DEF Worked
<1>4. CASE CallFails(c, "quote")
  BY <1>1, <1>4, CallFailsWorks DEF Worked
<1> QED
  BY <1>2, <1>3, <1>4 DEF Quote

LEMMA PositionWorks ==
    ASSUME Tables, NEW c \in Cmds, Position(c)
    PROVE  Worked(c)
<1>1. /\ pc \in [Cmds -> Steps] /\ pc[c] = "call" /\ pc[c] \in Working
      /\ UNCHANGED <<scene, key, want, heard, cached, excused, book>>
  BY DEF Tables, Position, Calling, storeVars, brokerVars, Working
<1>2. CASE UNCHANGED <<pc, outcome>>
  BY <1>1, <1>2, StayGoesOn DEF Worked
<1>3. CASE Fail(c, "no_position")
  BY <1>1, <1>3, FailRefuses DEF Worked
<1>4. CASE CallFails(c, "position")
  BY <1>1, <1>4, CallFailsWorks DEF Worked
<1> QED
  BY <1>2, <1>3, <1>4 DEF Position

LEMMA RefuseWorks ==
    ASSUME NEW c \in Cmds, Refuse(c)
    PROVE  Worked(c)
  BY FailRefuses DEF Refuse, Calling, storeVars, brokerVars, Working, Worked

\* The POST is never repeated by the client itself.
LEMMA SendWorks ==
    ASSUME NEW c \in Cmds, Send(c)
    PROVE  Worked(c) \/ Ordered(c)
<1>1. pc[c] = "call" /\ UNCHANGED <<scene, key, want, heard, cached, excused>>
  BY DEF Send, Calling, storeVars
<1>2. ASSUME Accept(c) PROVE \E o : "by" \in DOMAIN o /\ o.by = c /\ book' = Append(book, o)
  <2>1. OrderOf(c).by = c /\ "by" \in DOMAIN OrderOf(c)
    BY DEF OrderOf
  <2>2. LET o == [OrderOf(c) EXCEPT !.state = "filled"] IN o.by = c /\ "by" \in DOMAIN o
    BY DEF OrderOf
  <2>3. \/ book' = Append(book, OrderOf(c))
        \/ book' = Append(book, [OrderOf(c) EXCEPT !.state = "filled"])
    BY <1>2 DEF Accept
  <2> QED
    BY <2>1, <2>2, <2>3
<1>3. CASE Accept(c) /\ Finish(c, Submitted(c))
  <2>1. Concludes(c) /\ Answered(c)
    BY <1>3, SubmittedConcludes DEF Finish, Answered
  <2> QED
    BY <1>1, <1>2, <1>3, <2>1 DEF Ordered
<1>4. ASSUME NEW code, Fail(c, code), UNCHANGED brokerVars
      PROVE  Worked(c)
  BY <1>1, <1>4, FailRefuses DEF Worked, Working, brokerVars
<1>5. ASSUME NEW k \in {"lost", "garbled", "busy"}, Fail(c, ErrorCode(scene.broker, Req(c).side, k)), Accept(c)
      PROVE  Ordered(c)
  <2>1. Concludes(c)
    BY <1>5, FailRefuses DEF Refused
  <2>2. Answered(c)
    BY <1>5, LostIsUnsure DEF Answered, Fail, Finish
  <2> QED
    BY <1>1, <1>2, <1>5, <2>1, <2>2 DEF Ordered
<1>6. \A k : ~ShouldRetry("POST", k)
  BY DEF ShouldRetry, IsIdempotent
<1> QED
  BY <1>3, <1>4, <1>5, <1>6 DEF Send

-----------------------------------------------------------------------------
(* The broker's book. *)

LEMMA Lists ==
    ASSUME NEW b, NEW n \in Nat, b = [i \in 1..n |-> b[i]], NEW S, \A i \in 1..n : b[i] \in S
    PROVE  b \in Seq(S) /\ Len(b) = n /\ DOMAIN b = 1..n
<1>1. b \in [1..n -> S]
  OBVIOUS
<1>2. b \in Seq(S)
  BY <1>1, SeqDef
<1> QED
  BY <1>1, <1>2

LEMMA EmptyRange == 1..0 = {}
  OBVIOUS

LEMMA BookedDomain ==
    ASSUME Booked
    PROVE  DOMAIN book = 1..Len(book)
  BY DEF Booked

LEMMA AppendedBook ==
    ASSUME Booked, NEW o, "by" \in DOMAIN o, book' = Append(book, o)
    PROVE  /\ Booked'
           /\ Len(book') = Len(book) + 1 /\ book'[Len(book) + 1] = o
           /\ \A i \in 1..Len(book) : book'[i] = book[i]
<1> DEFINE S == {book[i] : i \in 1..Len(book)} \cup {o}
<1>1. book \in Seq(S) /\ Len(book) \in Nat /\ o \in S
  BY Lists DEF Booked
<1> HIDE DEF S
<1>2. /\ book' \in Seq(S) /\ Len(book') = Len(book) + 1 /\ book'[Len(book) + 1] = o
      /\ \A i \in 1..Len(book) : book'[i] = book[i]
  BY <1>1
<1>3. \A i \in 1..Len(book') : "by" \in DOMAIN book'[i]
  BY <1>1, <1>2 DEF Booked
<1>4. book' = [i \in 1..Len(book') |-> book'[i]]
  <2>1. book' \in [1..Len(book') -> S]
    BY <1>2, LenProperties
  <2> QED
    BY <2>1
<1> QED
  BY <1>1, <1>2, <1>3, <1>4 DEF Booked

\* A filled order is still its command's.
LEMMA FilledBook ==
    ASSUME Booked, NEW i \in DOMAIN book, Fill(i)
    PROVE  /\ Booked' /\ Len(book') = Len(book)
           /\ \A j \in 1..Len(book) : book'[j].by = book[j].by
<1>1. book' = [j \in 1..Len(book) |-> book'[j]]
  BY DEF Fill, Booked
<1>2. \A j \in 1..Len(book) : "by" \in DOMAIN book'[j] /\ book'[j].by = book[j].by
  BY DEF Fill, Booked
<1>3. Len(book') = Len(book)
  BY <1>1, Lists DEF Booked
<1> QED
  BY <1>1, <1>2, <1>3 DEF Booked

\* What a step does to the owners of the book's orders.
HasOrder(c) == \E i \in 1..Len(book) : book[i].by = c
OwnersKept ==
    /\ Len(book') = Len(book)
    /\ \A i \in 1..Len(book) : book'[i].by = book[i].by
OwnerAdded(c) ==
    /\ Len(book') = Len(book) + 1 /\ book'[Len(book) + 1].by = c
    /\ \A i \in 1..Len(book) : book'[i].by = book[i].by

LEMMA OrdersAreOwned ==
    ASSUME Booked, NEW c
    PROVE  OrdersOf(c) # {} <=> HasOrder(c)
  BY BookedDomain DEF OrdersOf, HasOrder

\* Every step is one of these; only Ordered puts an order into the book.
Remaining ==
    /\ UNCHANGED <<scene, key, pc, outcome, heard>>
    /\ \/ UNCHANGED <<cached, excused>>
       \/ \E k \in Keys : Forget(k)

LEMMA StepCases ==
    ASSUME Tables, Booked, Next
    PROVE  /\ Booked'
           /\ \/ \E c \in Cmds : Ordered(c) /\ OwnerAdded(c)
              \/ /\ OwnersKept
                 /\ \/ \E c \in Cmds : \/ Worked(c) \/ Submit(c) \/ Lookup(c) \/ Store(c)
                                      \/ Reply(c) \/ GiveUp(c) \/ Crash(c)
                    \/ Remaining
<1>1. ASSUME book' = book PROVE Booked' /\ OwnersKept
  BY <1>1 DEF Booked, OwnersKept
<1>2. ASSUME NEW c \in Cmds, Ordered(c) PROVE Booked' /\ OwnerAdded(c)
  <2>1. PICK o : "by" \in DOMAIN o /\ o.by = c /\ book' = Append(book, o)
    BY <1>2 DEF Ordered
  <2> QED
    BY <2>1, AppendedBook DEF OwnerAdded
<1>3. ASSUME NEW c \in Cmds,
             Submit(c) \/ Lookup(c) \/ Store(c) \/ Reply(c) \/ GiveUp(c) \/ Crash(c)
      PROVE  book' = book
  BY <1>3 DEF Submit, Lookup, Store, Reply, GiveUp, Crash, brokerVars
<1>4. ASSUME NEW c \in Cmds, Worked(c) PROVE book' = book
  BY <1>4 DEF Worked
<1>5. ASSUME NEW c \in Cmds, Step(c)
      PROVE  Submit(c) \/ Lookup(c) \/ Store(c) \/ Reply(c) \/ Worked(c) \/ Ordered(c)
  BY <1>5, AdmitWorks, SizeWorks, MockWorks, InstrumentWorks, QuoteWorks, PositionWorks, RefuseWorks, SendWorks
  DEF Step
<1>6. ASSUME NEW i \in DOMAIN book, Fill(i) PROVE Booked' /\ OwnersKept /\ Remaining
  BY <1>6, FilledBook DEF OwnersKept, Fill, Remaining, localVars, storeVars
<1>7. ASSUME Second \/ \E k \in Keys : Forget(k) PROVE book' = book /\ Remaining
  BY <1>7 DEF Second, Forget, Remaining, localVars, brokerVars
<1> QED
  BY <1>1, <1>2, <1>3, <1>4, <1>5, <1>6, <1>7 DEF Next

LEMMA TablesStay ==
    ASSUME Tables, Booked, Next
    PROVE  Tables'
<1> USE DEF Tables, Http, Steps
<1>1. ASSUME NEW c \in Cmds, Worked(c) \/ Ordered(c) PROVE Tables'
  BY <1>1 DEF Worked, Ordered, Concludes, Refused, Mocked, GoesOn, Working
<1>2. ASSUME NEW c \in Cmds, Submit(c) PROVE Tables'
  BY <1>2 DEF Submit, Goto, storeVars
<1>3. ASSUME NEW c \in Cmds, Lookup(c) PROVE Tables'
  BY <1>3 DEF Lookup, Goto
<1>4. ASSUME NEW c \in Cmds, Store(c) \/ Reply(c) PROVE Tables'
  BY <1>4 DEF Store, Reply, Goto, storeVars
<1>5. ASSUME NEW c \in Cmds, GiveUp(c) \/ Crash(c) PROVE Tables'
  BY <1>5 DEF GiveUp, Crash, Goto, storeVars
<1>6. ASSUME Remaining PROVE Tables'
  BY <1>6 DEF Remaining, Forget
<1> QED
  BY <1>1, <1>2, <1>3, <1>4, <1>5, <1>6, StepCases

-----------------------------------------------------------------------------
(* The parts of the invariant. *)

\* Orders are added for a command that had none, by the step that concludes it.
LEMMA OrdersChange ==
    ASSUME Tables, Booked, Next
    PROVE  /\ Booked'
           /\ \/ OwnersKept /\ \A c \in Cmds : HasOrder(c)' <=> HasOrder(c)
              \/ \E d \in Cmds : /\ Ordered(d) /\ OwnerAdded(d) /\ HasOrder(d)'
                                 /\ \A c \in Cmds \ {d} : HasOrder(c)' <=> HasOrder(c)
<1>1. ASSUME OwnersKept PROVE \A c \in Cmds : HasOrder(c)' <=> HasOrder(c)
  BY <1>1 DEF OwnersKept, HasOrder
<1>2. ASSUME NEW d \in Cmds, OwnerAdded(d)
      PROVE  HasOrder(d)' /\ \A c \in Cmds \ {d} : HasOrder(c)' <=> HasOrder(c)
  BY <1>2 DEF OwnerAdded, HasOrder, Booked
<1> QED
  BY <1>1, <1>2, StepCases

LEMMA OneOrderStays ==
    ASSUME Tables, Booked, OneOrderEach, Next
    PROVE  OneOrderEach'
<1>1. Booked' /\ Tables'
  BY OrdersChange, TablesStay
<1>2. \A c \in Cmds : HasOrder(c) => pc[c] \in {"store", "reply", "done"} /\ outcome[c].by = c
  BY OrdersAreOwned DEF OneOrderEach
<1>3. \A i, j \in 1..Len(book') : book'[i].by = book'[j].by => i = j
  <2>1. CASE OwnersKept
    BY <2>1, BookedDomain DEF OwnersKept, OneOrderEach
  <2>2. ASSUME NEW d \in Cmds, Ordered(d), OwnerAdded(d)
        PROVE  \A i, j \in 1..Len(book') : book'[i].by = book'[j].by => i = j
    <3>1. ~HasOrder(d)
      BY <1>2, <2>2 DEF Ordered
    <3> QED
      BY <2>2, <3>1, BookedDomain DEF OwnerAdded, HasOrder, OneOrderEach, Booked
  <2> QED
    BY <2>1, <2>2, OrdersChange
<1>4. ASSUME NEW c \in Cmds, HasOrder(c)'
      PROVE  pc'[c] \in {"store", "reply", "done"} /\ outcome'[c].by = c
  <2>1. CASE HasOrder(c)
    <3>1. pc[c] \in {"store", "reply", "done"} /\ outcome[c].by = c
      BY <1>2, <2>1
    <3>2. ASSUME NEW d \in Cmds,
                 \/ Worked(d) \/ Ordered(d) \/ Submit(d) \/ Lookup(d) \/ Store(d)
                 \/ Reply(d) \/ GiveUp(d) \/ Crash(d)
          PROVE  pc'[c] \in {"store", "reply", "done"} /\ outcome'[c] = outcome[c]
      BY <3>1, <3>2 DEF Tables, Worked, Ordered, Concludes, Refused, Mocked, GoesOn, Working, Submit, Lookup, Store, Reply, GiveUp,
         Crash, Goto, Busy
    <3>3. CASE Remaining
      BY <3>1, <3>3 DEF Remaining
    <3> QED
      BY <3>1, <3>2, <3>3, StepCases
  <2>2. CASE ~HasOrder(c)
    <3>1. Ordered(c)
      BY <1>4, <2>2, OrdersChange
    <3> QED
      BY <3>1 DEF Ordered, Concludes, Tables
  <2> QED
    BY <2>1, <2>2
<1>5. \A c \in Cmds : (OrdersOf(c) # {})' <=> HasOrder(c)'
  BY <1>1, BookedDomain DEF OrdersOf, HasOrder, Booked
<1> QED
  BY <1>1, <1>3, <1>4, <1>5 DEF OneOrderEach, Booked

LEMMA RecordStays ==
    ASSUME Tables, Booked, RecordHolds, HeardOutcome, Next
    PROVE  RecordHolds'
<1>1. Tables' /\ Booked' /\ scene' = scene /\ key' = key
  <2>1. ASSUME NEW c \in Cmds,
               \/ Worked(c) \/ Ordered(c) \/ Submit(c) \/ Lookup(c) \/ Store(c)
               \/ Reply(c) \/ GiveUp(c) \/ Crash(c)
        PROVE  scene' = scene /\ key' = key
    BY <2>1 DEF Worked, Ordered, Submit, Lookup, Store, Reply, GiveUp, Crash
  <2> QED
    BY <2>1, StepCases, TablesStay DEF Remaining
<1> SUFFICES ASSUME Http, NEW c \in Cmds, key[c] \notin excused'
             PROVE  /\ Busy(c)' => /\ cached'[key[c]] = None
                                   /\ \A d \in Cmds : key[d] = key[c] /\ Busy(d)' => d = c
                    /\ GatewayCode(scene) = "ok" /\ pc'[c] \in {"reply", "done"} =>
                          cached'[key[c]] = outcome'[c] /\ outcome'[c] # None
  BY <1>1 DEF RecordHolds, Http
<1>2. key[c] \notin excused /\ RecordHolds
  <2>1. ASSUME NEW d \in Cmds,
               \/ Worked(d) \/ Ordered(d) \/ Submit(d) \/ Lookup(d) \/ Store(d)
               \/ Reply(d) \/ GiveUp(d) \/ Crash(d)
        PROVE  excused \subseteq excused'
    BY <2>1 DEF Worked, Ordered, Submit, Lookup, Store, Reply, GiveUp, Crash, storeVars
  <2> QED
    BY <2>1, StepCases DEF Remaining, Forget
<1> USE <1>1, <1>2 DEF Tables, Busy, Steps
<1> DEFINE Goal == /\ Busy(c)' => /\ cached'[key[c]] = None
                                  /\ \A d \in Cmds : key[d] = key[c] /\ Busy(d)' => d = c
                   /\ GatewayCode(scene) = "ok" /\ pc'[c] \in {"reply", "done"} =>
                          cached'[key[c]] = outcome'[c] /\ outcome'[c] # None
<1>3. ASSUME NEW d \in Cmds, Worked(d) \/ Ordered(d) PROVE Goal
  <2>1. /\ pc[d] \in Working /\ cached' = cached /\ excused' = excused
        /\ \E s \in Working \cup {"store"} : pc' = [pc EXCEPT ![d] = s]
        /\ \A e \in Cmds \ {d} : outcome'[e] = outcome[e]
    BY <1>3 DEF Worked, Ordered, Concludes, Refused, Mocked, GoesOn, Working
  <2> QED
    BY <2>1 DEF RecordHolds, Working
<1>4. ASSUME NEW d \in Cmds, Submit(d) PROVE Goal
  BY <1>4 DEF Submit, Goto, storeVars, RecordHolds
<1>5. ASSUME NEW d \in Cmds, Lookup(d) PROVE Goal
  BY <1>5 DEF Lookup, Goto, RecordHolds
<1>6. ASSUME NEW d \in Cmds, Store(d) PROVE Goal
  <2>1. /\ pc[d] = "store" /\ pc' = [pc EXCEPT ![d] = "reply"] /\ outcome' = outcome
        /\ outcome[d] # None
    BY <1>6 DEF Store, Goto, HeardOutcome
  <2>2. CASE key[d] # key[c]
    <3>1. cached'[key[c]] = cached[key[c]]
      BY <1>6, <2>2 DEF Store
    <3> QED
      BY <2>1, <2>2, <3>1 DEF RecordHolds
  <2>3. CASE key[d] = key[c]
    <3>1. cached' = [cached EXCEPT ![key[d]] = outcome[d]]
      BY <1>6, <2>3 DEF Store
    <3>2. cached'[key[c]] = outcome[d]
      BY <2>3, <3>1
    <3>3. cached[key[c]] = None /\ \A e \in Cmds : key[e] = key[c] /\ Busy(e) => e = d
      BY <2>1, <2>3 DEF RecordHolds
    <3>4. c = d \/ ~Busy(c)
      BY <3>3
    <3>5. c # d => ~(GatewayCode(scene) = "ok" /\ pc[c] \in {"reply", "done"})
      BY <3>3 DEF RecordHolds
    <3> QED
      BY <2>1, <3>2, <3>4, <3>5
  <2> QED
    BY <2>2, <2>3
<1>7. ASSUME NEW d \in Cmds, Reply(d) \/ GiveUp(d) PROVE Goal
  BY <1>7 DEF Reply, GiveUp, Goto, storeVars, RecordHolds
<1>8. ASSUME NEW d \in Cmds, Crash(d) PROVE Goal
  BY <1>8 DEF Crash, Goto, RecordHolds
<1>9. ASSUME Remaining PROVE Goal
  BY <1>9 DEF Remaining, Forget, RecordHolds
<1> QED
  BY <1>3, <1>4, <1>5, <1>6, <1>7, <1>8, <1>9, StepCases

LEMMA RefusedStays ==
    ASSUME Tables, Booked, RefusedAtGateway, Next
    PROVE  RefusedAtGateway'
<1>1. Tables' /\ Booked'
  BY StepCases, TablesStay
<1>2. ASSUME NEW d \in Cmds,
             \/ Worked(d) \/ Ordered(d) \/ Submit(d) \/ Lookup(d) \/ Store(d)
             \/ Reply(d) \/ GiveUp(d) \/ Crash(d)
      PROVE  scene' = scene
  BY <1>2 DEF Worked, Ordered, Submit, Lookup, Store, Reply, GiveUp, Crash
<1>3. scene' = scene
  BY <1>2, StepCases DEF Remaining
<1> SUFFICES ASSUME Http, GatewayCode(scene) # "ok", NEW c \in Cmds
             PROVE  /\ pc'[c] \in {"idle", "reply", "done"} /\ OrdersOf(c)' = {}
                    /\ pc'[c] # "idle" => outcome'[c] = Rejected(c, GatewayCode(scene))
  BY <1>3 DEF RefusedAtGateway, Http, Rejected
<1>4. \A d \in Cmds : ~HasOrder(d)
  BY OrdersAreOwned DEF RefusedAtGateway
<1>5. \A d \in Cmds : /\ pc[d] \in {"idle", "reply", "done"}
                      /\ pc[d] # "idle" => outcome[d] = Rejected(d, GatewayCode(scene))
  BY DEF RefusedAtGateway
<1>6. \A d \in Cmds : ~(Worked(d) \/ Ordered(d) \/ Lookup(d) \/ Store(d) \/ Crash(d))
  BY <1>5 DEF Worked, Ordered, Working, Lookup, Store, Crash, Busy
<1>7. OrdersOf(c)' = {}
  <2>1. ~HasOrder(c)'
    BY <1>4, <1>6, OrdersChange
  <2> QED
    BY <1>1, <2>1, BookedDomain DEF OrdersOf, HasOrder, Booked
<1> DEFINE Goal == /\ pc'[c] \in {"idle", "reply", "done"}
                   /\ pc'[c] # "idle" => outcome'[c] = Rejected(c, GatewayCode(scene))
<1>8. ASSUME NEW d \in Cmds, Submit(d) PROVE Goal
  <2>1. pc' = [pc EXCEPT ![d] = "reply"] /\ outcome' = [outcome EXCEPT ![d] = Rejected(d, GatewayCode(scene))]
    BY <1>8 DEF Submit, Goto
  <2>2. CASE d = c
    BY <2>1, <2>2 DEF Tables
  <2>3. CASE d # c
    BY <1>5, <2>1, <2>3 DEF Tables
  <2> QED
    BY <2>2, <2>3
<1>9. ASSUME NEW d \in Cmds, Reply(d) PROVE Goal
  <2>1. pc[d] = "reply" /\ pc' = [pc EXCEPT ![d] = "done"] /\ outcome' = outcome
    BY <1>9 DEF Reply, Goto
  <2> QED
    BY <1>5, <2>1 DEF Tables
<1>10. ASSUME NEW d \in Cmds, GiveUp(d) PROVE Goal
  <2>1. pc' = pc /\ outcome' = outcome
    BY <1>10 DEF GiveUp
  <2> QED
    BY <1>5, <2>1
<1>11. ASSUME Remaining PROVE Goal
  <2>1. pc' = pc /\ outcome' = outcome
    BY <1>11 DEF Remaining
  <2> QED
    BY <1>5, <2>1
<1> QED
  BY <1>6, <1>7, <1>8, <1>9, <1>10, <1>11, StepCases

LEMMA HeardStays ==
    ASSUME Tables, Booked, HeardOutcome, Next
    PROVE  HeardOutcome'
<1> SUFFICES ASSUME NEW c \in Cmds
             PROVE  /\ heard'[c] # None /\ heard'[c].code # "broker_unreachable" =>
                          pc'[c] = "done" /\ heard'[c] = OutcomeToResult(outcome'[c])
                    /\ pc'[c] = "store" => outcome'[c] # None
  BY DEF HeardOutcome, OutcomeToResult, None
<1> DEFINE Goal == /\ heard'[c] # None /\ heard'[c].code # "broker_unreachable" =>
                         pc'[c] = "done" /\ heard'[c] = OutcomeToResult(outcome'[c])
                   /\ pc'[c] = "store" => outcome'[c] # None
<1>1. /\ heard[c] # None /\ heard[c].code # "broker_unreachable" =>
            pc[c] = "done" /\ heard[c] = OutcomeToResult(outcome[c])
      /\ pc[c] = "store" => outcome[c] # None
  BY DEF HeardOutcome
<1>2. ASSUME NEW d \in Cmds, Worked(d) \/ Ordered(d) PROVE Goal
  <2>1. /\ pc[d] \in Working /\ heard' = heard
        /\ \/ /\ \E s \in Working : pc' = [pc EXCEPT ![d] = s]
              /\ outcome' = outcome
           \/ /\ pc' = [pc EXCEPT ![d] = IF Http THEN "store" ELSE "reply"]
              /\ \E o : o # None /\ outcome' = [outcome EXCEPT ![d] = o]
    BY <1>2 DEF Worked, Ordered, Concludes, Refused, Mocked, GoesOn, Working
  <2>2. CASE d # c
    <3>1. pc'[c] = pc[c] /\ outcome'[c] = outcome[c] /\ heard'[c] = heard[c]
      BY <2>1, <2>2 DEF Tables
    <3> QED
      BY <1>1, <3>1
  <2>3. CASE d = c
    <3>1. heard'[c] = heard[c] /\ pc[c] # "done" /\ (pc'[c] = "store" => outcome'[c] # None)
      BY <2>1, <2>3 DEF Tables, Working
    <3> QED
      BY <1>1, <3>1
  <2> QED
    BY <2>2, <2>3
<1>3. ASSUME NEW d \in Cmds, Submit(d) \/ Lookup(d) \/ Store(d) PROVE Goal
  <2>1. /\ pc[d] # "done" /\ heard' = heard
        /\ \A e \in Cmds : e # d => pc'[e] = pc[e] /\ outcome'[e] = outcome[e]
        /\ pc'[d] # "store"
    BY <1>3 DEF Submit, Lookup, Store, Goto, Tables
  <2> QED
    BY <1>1, <2>1
<1>4. ASSUME NEW d \in Cmds, Reply(d) PROVE Goal
  <2>1. /\ pc' = [pc EXCEPT ![d] = "done"] /\ outcome' = outcome /\ pc[d] = "reply"
        /\ heard' = [heard EXCEPT ![d] = IF @ = None THEN OutcomeToResult(outcome[d]) ELSE @]
    BY <1>4 DEF Reply, Goto
  <2> QED
    BY <1>1, <2>1 DEF Tables
<1>5. ASSUME NEW d \in Cmds, GiveUp(d) PROVE Goal
  <2>1. /\ pc' = pc /\ outcome' = outcome
        /\ heard' = [heard EXCEPT ![d] = Rejected(d, "broker_unreachable")]
    BY <1>5 DEF GiveUp
  <2> QED
    BY <1>1, <2>1 DEF Tables, Rejected
<1>6. ASSUME NEW d \in Cmds, Crash(d) PROVE Goal
  <2>1. /\ pc[d] # "done" /\ pc' = [pc EXCEPT ![d] = "done"] /\ outcome' = outcome
        /\ heard' = [heard EXCEPT ![d] = IF @ = None THEN Rejected(d, "broker_unreachable") ELSE @]
    BY <1>6 DEF Crash, Goto, Busy
  <2> QED
    BY <1>1, <2>1 DEF Tables, Rejected
<1>7. ASSUME Remaining PROVE Goal
  BY <1>1, <1>7 DEF Remaining
<1> QED
  BY <1>2, <1>3, <1>4, <1>5, <1>6, <1>7, StepCases

\* What a step does to a command that is past its POST, and to any order.
LEMMA Progress ==
    ASSUME Tables, Booked, OneOrderEach, Next
    PROVE  /\ scene' = scene
           /\ \A e \in Cmds : HasOrder(e) => HasOrder(e)'
           /\ \A e \in Cmds : pc[e] \in {"store", "reply", "done"} =>
                 pc'[e] \in {"store", "reply", "done"} /\ (HasOrder(e)' => HasOrder(e))
<1>1. ASSUME NEW d \in Cmds,
             \/ Worked(d) \/ Ordered(d) \/ Submit(d) \/ Lookup(d) \/ Store(d)
             \/ Reply(d) \/ GiveUp(d) \/ Crash(d)
      PROVE  /\ scene' = scene
             /\ \A e \in Cmds : pc[e] \in {"store", "reply", "done"} => pc'[e] \in {"store", "reply", "done"}
  BY <1>1 DEF Tables, Worked, Ordered, Concludes, Refused, Mocked, GoesOn, Working, Submit, Lookup, Store, Reply, GiveUp,
     Crash, Goto, Busy
<1>2. /\ scene' = scene
      /\ \A e \in Cmds : pc[e] \in {"store", "reply", "done"} => pc'[e] \in {"store", "reply", "done"}
  <2>1. CASE Remaining
    BY <2>1 DEF Remaining
  <2> QED
    BY <1>1, <2>1, StepCases
<1>3. \A e \in Cmds : HasOrder(e) => HasOrder(e)'
  BY OrdersChange
<1>4. \A e \in Cmds : pc[e] \in {"store", "reply", "done"} /\ HasOrder(e)' => HasOrder(e)
  <2>1. \A d \in Cmds : Ordered(d) => pc[d] = "call"
    BY DEF Ordered
  <2> QED
    BY <2>1, OrdersChange
<1> QED
  BY <1>2, <1>3, <1>4

\* SaysTrue before and after a step, in terms of the owners.
TrueNow(a) ==
    /\ a = [status |-> a.status, code |-> a.code, by |-> a.by]
    /\ a.status = "submitted" /\ Live => a.by \in Cmds /\ HasOrder(a.by)
    /\ a.status = "rejected" /\ a.code \notin Unsure =>
          a.by \in Cmds /\ pc[a.by] \in {"store", "reply", "done"} /\ ~HasOrder(a.by)
OwnedNext(x) == \E i \in 1..Len(book') : book'[i].by = x
TrueNext(a) ==
    /\ a = [status |-> a.status, code |-> a.code, by |-> a.by]
    /\ a.status = "submitted" /\ Live => a.by \in Cmds /\ OwnedNext(a.by)
    /\ a.status = "rejected" /\ a.code \notin Unsure =>
          a.by \in Cmds /\ pc'[a.by] \in {"store", "reply", "done"} /\ ~OwnedNext(a.by)

LEMMA TruthStays ==
    ASSUME Tables, Booked, OneOrderEach, Next, NEW a, TrueNow(a)
    PROVE  TrueNext(a)
<1>1. \A x : HasOrder(x)' <=> OwnedNext(x)
  BY DEF HasOrder, OwnedNext
<1> QED
  BY <1>1, Progress DEF TrueNow, TrueNext

LEMMA AnswersStay ==
    ASSUME Tables, Booked, OneOrderEach, AnswersHold, Next
    PROVE  AnswersHold'
<1>1. Tables' /\ Booked'
  BY StepCases, TablesStay
<1>2. scene' = scene
  BY Progress
<1>3. \A x : (OrdersOf(x) = {})' <=> ~OwnedNext(x)
  BY <1>1, BookedDomain DEF OrdersOf, OwnedNext, Booked
<1>4. \A a : SaysTrue(a) => TrueNext(a)
  <2>1. \A a : SaysTrue(a) => TrueNow(a)
    BY OrdersAreOwned DEF SaysTrue, TrueNow
  <2> QED
    BY <2>1, TruthStays
<1>5. /\ \A c \in Cmds : TrueNext(outcome[c]) /\ TrueNext(heard[c])
      /\ \A k \in Keys : TrueNext(cached[k])
      /\ \A c \in Cmds : pc[c] = "mock" => ~Live
  BY <1>4 DEF AnswersHold
<1>6. \A c \in Cmds : pc[c] \notin {"store", "reply", "done"} => ~HasOrder(c)
  BY OrdersAreOwned DEF OneOrderEach
<1> DEFINE Goal == /\ \A c \in Cmds : TrueNext(outcome'[c]) /\ TrueNext(heard'[c])
                   /\ \A k \in Keys : TrueNext(cached'[k])
                   /\ \A c \in Cmds : pc'[c] = "mock" => ~Live
<1>7. SUFFICES Goal
  <2>1. ASSUME NEW c \in Cmds, TrueNext(outcome'[c]) PROVE SaysTrue(outcome[c])'
    BY <1>2, <1>3, <2>1 DEF SaysTrue, TrueNext, Live
  <2>2. ASSUME NEW c \in Cmds, TrueNext(heard'[c]) PROVE SaysTrue(heard[c])'
    BY <1>2, <1>3, <2>2 DEF SaysTrue, TrueNext, Live
  <2>3. ASSUME NEW k \in Keys, TrueNext(cached'[k]) PROVE SaysTrue(cached[k])'
    BY <1>2, <1>3, <2>3 DEF SaysTrue, TrueNext, Live
  <2> QED
    BY <1>2, <2>1, <2>2, <2>3 DEF AnswersHold, Live
<1>8. ASSUME NEW d \in Cmds, Worked(d) PROVE Goal
  <2>1. ~OwnedNext(d)
    BY <1>6, <1>8 DEF Worked, Working, HasOrder, OwnedNext
  <2>2. UNCHANGED <<heard, cached>>
    BY <1>8 DEF Worked
  <2>3. CASE GoesOn(d)
    <3>1. outcome' = outcome /\ \A c \in Cmds : pc'[c] = "mock" => ~Live
      BY <1>5, <2>3 DEF GoesOn, Tables
    <3> QED
      BY <1>5, <2>2, <3>1
  <2>4. ASSUME Concludes(d) PROVE \A c \in Cmds : pc'[c] = "mock" => ~Live
    BY <1>5, <2>4 DEF Concludes, Tables
  <2>5. ASSUME Concludes(d) PROVE pc'[d] \in {"store", "reply"}
    BY <2>5 DEF Concludes, Tables
  <2>6. CASE Refused(d)
    <3>1. PICK code : outcome' = [outcome EXCEPT ![d] = Rejected(d, code)]
      BY <2>6 DEF Refused
    <3>2. TrueNext(Rejected(d, code))
      BY <2>1, <2>5, <2>6 DEF Refused, TrueNext, Rejected
    <3>3. \A c \in Cmds : TrueNext(outcome'[c])
      BY <1>5, <3>1, <3>2 DEF Tables
    <3> QED
      BY <1>5, <2>2, <2>4, <2>6, <3>3 DEF Refused
  <2>7. CASE Mocked(d)
    <3>1. outcome' = [outcome EXCEPT ![d] = Submitted(d)] /\ ~Live
      BY <1>5, <2>7 DEF Mocked
    <3>2. TrueNext(Submitted(d))
      BY <3>1 DEF TrueNext, Submitted
    <3>3. \A c \in Cmds : TrueNext(outcome'[c])
      BY <1>5, <3>1, <3>2 DEF Tables
    <3> QED
      BY <1>5, <2>2, <2>4, <2>7, <3>3 DEF Mocked
  <2> QED
    BY <1>8, <2>3, <2>6, <2>7 DEF Worked
<1>9. ASSUME NEW d \in Cmds, Ordered(d), OwnerAdded(d) PROVE Goal
  <2>1. OwnedNext(d)
    BY <1>9 DEF OwnerAdded, OwnedNext, Booked
  <2>2. UNCHANGED <<heard, cached>> /\ \A c \in Cmds : pc'[c] = "mock" => ~Live
    BY <1>5, <1>9 DEF Ordered, Concludes, Tables
  <2>3. \A code \in Unsure : TrueNext(Rejected(d, code))
    BY DEF TrueNext, Rejected
  <2>4. TrueNext(Submitted(d))
    BY <2>1 DEF TrueNext, Submitted
  <2>5. \A c \in Cmds : TrueNext(outcome'[c])
    BY <1>5, <1>9, <2>3, <2>4 DEF Ordered, Answered, Tables
  <2> QED
    BY <1>5, <2>2, <2>5
<1>10. ASSUME NEW d \in Cmds, Submit(d) PROVE Goal
  <2>1. /\ pc[d] = "idle" /\ UNCHANGED <<heard, cached, book>>
        /\ \/ outcome' = outcome
           \/ /\ outcome' = [outcome EXCEPT ![d] = Rejected(d, GatewayCode(scene))]
              /\ pc' = [pc EXCEPT ![d] = "reply"]
        /\ \E s \in Steps \ {"mock"} : pc' = [pc EXCEPT ![d] = s]
    BY <1>10 DEF Submit, Goto, Steps, storeVars, brokerVars
  <2>2. pc' = [pc EXCEPT ![d] = "reply"] => TrueNext(Rejected(d, GatewayCode(scene)))
    BY <1>6, <2>1 DEF TrueNext, Rejected, HasOrder, OwnedNext, Tables
  <2>3. \A c \in Cmds : TrueNext(outcome'[c])
    BY <1>5, <2>1, <2>2 DEF Tables
  <2>4. \A c \in Cmds : pc'[c] = "mock" => ~Live
    BY <1>5, <2>1 DEF Tables
  <2> QED
    BY <1>5, <2>1, <2>3, <2>4
<1>11. ASSUME NEW d \in Cmds, Lookup(d) PROVE Goal
  <2>1. /\ UNCHANGED <<heard, cached>> /\ key[d] \in Keys
        /\ \/ outcome' = outcome
           \/ outcome' = [outcome EXCEPT ![d] = cached[key[d]]]
        /\ \E s \in Steps \ {"mock"} : pc' = [pc EXCEPT ![d] = s]
    BY <1>11 DEF Lookup, Goto, Steps, Tables
  <2>2. \A c \in Cmds : TrueNext(outcome'[c])
    BY <1>5, <2>1 DEF Tables
  <2>3. \A c \in Cmds : pc'[c] = "mock" => ~Live
    BY <1>5, <2>1 DEF Tables
  <2> QED
    BY <1>5, <2>1, <2>2, <2>3
<1>12. ASSUME NEW d \in Cmds, Store(d) PROVE Goal
  <2>1. /\ UNCHANGED <<heard, outcome>> /\ pc' = [pc EXCEPT ![d] = "reply"]
        /\ cached' = cached \/ cached' = [cached EXCEPT ![key[d]] = outcome[d]]
    BY <1>12 DEF Store, Goto
  <2>2. \A k \in Keys : TrueNext(cached'[k])
    BY <1>5, <2>1 DEF Tables
  <2>3. \A c \in Cmds : pc'[c] = "mock" => ~Live
    BY <1>5, <2>1 DEF Tables
  <2> QED
    BY <1>5, <2>1, <2>2, <2>3
<1>13. ASSUME NEW d \in Cmds, Reply(d) \/ GiveUp(d) \/ Crash(d) PROVE Goal
  <2>1. /\ UNCHANGED <<outcome, cached>> /\ (pc' = pc \/ pc' = [pc EXCEPT ![d] = "done"])
        /\ \/ heard' = heard
           \/ heard' = [heard EXCEPT ![d] = OutcomeToResult(outcome[d])]
           \/ heard' = [heard EXCEPT ![d] = Rejected(d, "broker_unreachable")]
    <3>1. CASE Reply(d)
      <4>1. /\ UNCHANGED <<outcome, cached>> /\ pc' = [pc EXCEPT ![d] = "done"]
            /\ heard' = [heard EXCEPT ![d] = IF @ = None THEN OutcomeToResult(outcome[d]) ELSE @]
        BY <3>1 DEF Reply, Goto, storeVars
      <4> QED
        BY <4>1 DEF Tables
    <3>2. CASE GiveUp(d)
      BY <3>2 DEF GiveUp, storeVars
    <3>3. CASE Crash(d)
      <4>1. /\ UNCHANGED <<outcome, cached>> /\ pc' = [pc EXCEPT ![d] = "done"]
            /\ heard' = [heard EXCEPT ![d] = IF @ = None THEN Rejected(d, "broker_unreachable") ELSE @]
        BY <3>3 DEF Crash, Goto
      <4> QED
        BY <4>1 DEF Tables
    <3> QED
      BY <1>13, <3>1, <3>2, <3>3
  <2>2. TrueNext(OutcomeToResult(outcome[d]))
    <3>1. TrueNext(outcome[d])
      BY <1>5
    <3>2. CASE outcome[d].status = "rejected" /\ outcome[d].code = ""
      <4>1. OutcomeToResult(outcome[d]) = [status |-> outcome[d].status, code |-> "internal", by |-> outcome[d].by]
        BY <3>1, <3>2 DEF TrueNext, OutcomeToResult
      <4>2. \A x, y : TrueNext([status |-> x, code |-> "internal", by |-> y]) <=>
                      (x = "submitted" /\ Live => y \in Cmds /\ OwnedNext(y))
        BY DEF TrueNext, Unsure
      <4> QED
        BY <3>2, <4>1, <4>2
    <3>3. CASE ~(outcome[d].status = "rejected" /\ outcome[d].code = "")
      BY <3>1, <3>3 DEF OutcomeToResult
    <3> QED
      BY <3>2, <3>3
  <2>3. TrueNext(Rejected(d, "broker_unreachable"))
    BY DEF TrueNext, Rejected, Unsure
  <2>4. \A c \in Cmds : TrueNext(heard'[c])
    BY <1>5, <2>1, <2>2, <2>3 DEF Tables
  <2>5. \A c \in Cmds : pc'[c] = "mock" => ~Live
    BY <1>5, <2>1 DEF Tables
  <2> QED
    BY <1>5, <2>1, <2>4, <2>5
<1>14. ASSUME Remaining PROVE Goal
  <2>1. UNCHANGED <<pc, outcome, heard>>
    BY <1>14 DEF Remaining
  <2>2. cached' = cached \/ \E k \in Keys : cached' = [cached EXCEPT ![k] = None]
    BY <1>14 DEF Remaining, Forget
  <2>3. TrueNext(None)
    BY DEF TrueNext, None
  <2>4. \A k \in Keys : TrueNext(cached'[k])
    BY <1>5, <2>2, <2>3 DEF Tables
  <2> QED
    BY <1>5, <2>1, <2>4
<1> QED
  BY <1>8, <1>9, <1>10, <1>11, <1>12, <1>13, <1>14, StepCases

-----------------------------------------------------------------------------
(* The invariant of executions: one order each, and a key's record that      *)
(* either holds or is known not to (adapter/server/idempotency.go, the       *)
(* broker clients' one POST).                                                *)
THEOREM ExecutionInvariance == Spec => []ExecutionInv
<1>1. ASSUME Init PROVE ExecutionInv
  <2> USE <1>1 DEF Init
  <2>1. PICK s \in Starts : scene = s.scene /\ key = s.key /\ want = s.want
    OBVIOUS
  <2>2. /\ pc \in [Cmds -> Steps]
        /\ outcome = [c \in Cmds |-> outcome[c]] /\ heard = [c \in Cmds |-> heard[c]]
        /\ cached = [k \in Keys |-> cached[k]]
    BY DEF Steps
  <2>3. key \in [Cmds -> Keys]
    BY <2>1, ExecutionConstantsOK
  <2>4. ~Http => \A c, d \in Cmds : key[c] = key[d] => c = d
    <3>1. s.scene.wire # "http" => \A c, d \in Cmds : s.key[c] = s.key[d] => c = d
      BY ExecutionConstantsOK
    <3> QED
      BY <2>1, <3>1 DEF Http
  <2>5. Booked /\ Len(book) = 0
    <3>1. book \in Seq({}) /\ Len(book) = 0
      BY EmptySeq
    <3>2. book \in [1..0 -> {}]
      BY <3>1, LenProperties
    <3> QED
      BY <3>1, <3>2 DEF Booked
  <2>6. DOMAIN book = {}
    <3>1. DOMAIN book = 1..0
      BY <2>5, BookedDomain
    <3> QED
      BY <3>1, EmptyRange, Zenon
  <2>7. \A c \in Cmds : OrdersOf(c) = {}
    BY <2>6 DEF OrdersOf
  <2>8. OneOrderEach
    BY <2>6, <2>7 DEF OneOrderEach
  <2>9. AnswersHold
    BY <2>2 DEF AnswersHold, SaysTrue, None
  <2> QED
    BY <2>2, <2>3, <2>4, <2>5, <2>7, <2>8, <2>9 DEF ExecutionInv, Tables, RecordHolds, Busy, RefusedAtGateway, HeardOutcome
<1>2. ExecutionInv /\ [Next]_vars => ExecutionInv'
  <2> SUFFICES ASSUME ExecutionInv, [Next]_vars PROVE ExecutionInv'
    OBVIOUS
  <2>1. CASE Next
    BY <2>1, TablesStay, StepCases, OneOrderStays, RecordStays, RefusedStays, HeardStays, AnswersStay DEF ExecutionInv
  <2>2. CASE UNCHANGED vars
    <3> USE <2>2 DEF vars, localVars, storeVars, brokerVars, ExecutionInv
    <3>1. Tables' /\ Booked'
      BY DEF Tables, Http, Booked
    <3>2. OneOrderEach'
      BY DEF OneOrderEach, OrdersOf
    <3>3. RecordHolds'
      BY DEF RecordHolds, Http, Busy
    <3>4. RefusedAtGateway'
      BY DEF RefusedAtGateway, Http, OrdersOf, Rejected
    <3>5. HeardOutcome'
      BY DEF HeardOutcome, OutcomeToResult, None
    <3>6. AnswersHold'
      BY DEF AnswersHold, SaysTrue, OrdersOf, Live
    <3> QED
      BY <3>1, <3>2, <3>3, <3>4, <3>5, <3>6
  <2> QED
    BY <2>1, <2>2
<1> QED
  BY <1>1, <1>2, PTL DEF Spec

(* One execution never places two orders, and two commands with one key      *)
(* place one order and hear the same, unless the record of the key could not *)
(* be relied on (adapter/server/idempotency.go, docs ADAPTER_SPLIT.md).      *)
THEOREM OneOrderPerKey == Spec => []OncePerKey
<1>1. ASSUME ExecutionInv PROVE OncePerKey
  <2> USE <1>1 DEF ExecutionInv
  <2>1. ASSUME NEW c \in Cmds PROVE Cardinality(OrdersOf(c)) <= 1
    <3>1. CASE OrdersOf(c) = {}
      <4>1. Cardinality({}) = 0
        BY FS_EmptySet
      <4>2. Cardinality(OrdersOf(c)) = 0
        BY <3>1, <4>1, Zenon
      <4> QED
        BY <4>2
    <3>2. CASE OrdersOf(c) # {}
      <4>1. PICK i : OrdersOf(c) = {i}
        BY <3>2 DEF OrdersOf, OneOrderEach
      <4>2. Cardinality({i}) = 1
        BY FS_Singleton
      <4>3. Cardinality(OrdersOf(c)) = 1
        BY <4>1, <4>2, Zenon
      <4> QED
        BY <4>3
    <3> QED
      BY <3>1, <3>2
  <2>2. ASSUME NEW c \in Cmds, NEW d \in Cmds, key[c] = key[d], c # d, key[c] \notin excused
        PROVE  /\ OrdersOf(c) = {} \/ OrdersOf(d) = {}
               /\ heard[c] # None /\ heard[d] # None
                  /\ "broker_unreachable" \notin {heard[c].code, heard[d].code} =>
                       heard[c].status = heard[d].status /\ heard[c].code = heard[d].code
    <3> Http
      BY <2>2 DEF Tables
    <3>1. CASE GatewayCode(scene) # "ok"
      <4>1. \A e \in {c, d} : heard[e] # None /\ heard[e].code # "broker_unreachable" =>
                heard[e] = OutcomeToResult(Rejected(e, GatewayCode(scene)))
        BY <3>1 DEF RefusedAtGateway, HeardOutcome
      <4>2. OutcomeToResult(Rejected(c, GatewayCode(scene))).status
              = OutcomeToResult(Rejected(d, GatewayCode(scene))).status
        BY DEF OutcomeToResult, Rejected
      <4>3. OutcomeToResult(Rejected(c, GatewayCode(scene))).code
              = OutcomeToResult(Rejected(d, GatewayCode(scene))).code
        BY DEF OutcomeToResult, Rejected
      <4>4. OrdersOf(c) = {}
        BY <3>1 DEF RefusedAtGateway
      <4> QED
        BY <4>1, <4>2, <4>3, <4>4
    <3>2. CASE GatewayCode(scene) = "ok"
      <4>1. OrdersOf(c) = {} \/ OrdersOf(d) = {}
        BY <2>2, <3>2 DEF OneOrderEach, RecordHolds, Busy
      <4>2. \A e \in {c, d} : heard[e] # None /\ heard[e].code # "broker_unreachable" =>
                heard[e] = OutcomeToResult(cached[key[c]])
        BY <2>2, <3>2 DEF HeardOutcome, RecordHolds
      <4> QED
        BY <4>1, <4>2
    <3> QED
      BY <3>1, <3>2
  <2> QED
    BY <2>1, <2>2 DEF OncePerKey
<1> QED
  BY <1>1, ExecutionInvariance, PTL

\* No two orders are one command's.
LEMMA OneOrder ==
    ASSUME OneOrderEach, NEW x, OrdersOf(x) # {}
    PROVE  Cardinality(OrdersOf(x)) = 1
<1>1. PICK i : OrdersOf(x) = {i}
  BY DEF OrdersOf, OneOrderEach
<1> QED
  BY <1>1, FS_Singleton

(* A trade shown as submitted has exactly one order at the broker, and one   *)
(* shown as rejected has none unless its code says that nobody knows, for    *)
(* any number of faults, repetitions and lost records (livebrokers,          *)
(* adapter/http).                                                            *)
THEOREM AnswersMatchBroker == Spec => []AnswerMatchesBroker
<1>1. ASSUME ExecutionInv PROVE AnswerMatchesBroker
  <2> SUFFICES ASSUME Live, NEW c \in Cmds
               PROVE  /\ heard[c].status = "submitted" => Cardinality(OrdersOf(heard[c].by)) = 1
                      /\ heard[c].status = "rejected" /\ heard[c].code \notin Unsure => OrdersOf(heard[c].by) = {}
    BY DEF AnswerMatchesBroker
  <2>1. SaysTrue(heard[c]) /\ OneOrderEach
    BY <1>1 DEF ExecutionInv, AnswersHold
  <2> QED
    BY <2>1, OneOrder DEF SaysTrue
<1> QED
  BY <1>1, ExecutionInvariance, PTL


-----------------------------------------------------------------------------
(* The rules of an order. *)

LEMMA JoinTwo ==
    ASSUME NEW a, NEW b
    PROVE  <<a>> \o <<b>> = <<a, b>>
<1> DEFINE x == <<a>> \o <<b>>
<1>1. x \in Seq({a, b}) /\ Len(x) = 2 /\ x[1] = a /\ x[2] = b
  OBVIOUS
<1>2. <<a, b>> \in Seq({a, b}) /\ Len(<<a, b>>) = 2 /\ <<a, b>>[1] = a /\ <<a, b>>[2] = b
  OBVIOUS
<1>3. \A i \in 1..2 : x[i] = <<a, b>>[i]
  BY <1>1, <1>2
<1> HIDE DEF x
<1>4. x = <<a, b>>
  BY <1>1, <1>2, <1>3, SeqEqual
<1> QED
  BY <1>4 DEF x

LEMMA JoinThree ==
    ASSUME NEW a, NEW b, NEW c
    PROVE  <<a>> \o <<b>> \o <<c>> = <<a, b, c>>
<1> DEFINE x == <<a, b>> \o <<c>>
<1>1. x \in Seq({a, b, c}) /\ Len(x) = 3 /\ x[1] = a /\ x[2] = b /\ x[3] = c
  OBVIOUS
<1>2. <<a, b, c>> \in Seq({a, b, c}) /\ Len(<<a, b, c>>) = 3
      /\ <<a, b, c>>[1] = a /\ <<a, b, c>>[2] = b /\ <<a, b, c>>[3] = c
  OBVIOUS
<1>3. \A i \in 1..3 : x[i] = <<a, b, c>>[i]
  BY <1>1, <1>2
<1> HIDE DEF x
<1>4. x = <<a, b, c>>
  BY <1>1, <1>2, <1>3, SeqEqual
<1>5. <<a>> \o <<b>> = <<a, b>>
  BY JoinTwo
<1> QED
  BY <1>4, <1>5, Zenon DEF x

\* The calls an order still has to make, seen from the next one.
LEMMA CallLists ==
    /\ Head(<<"instrument", "quote", "send">>) = "instrument"
    /\ Tail(<<"instrument", "quote", "send">>) = <<"quote", "send">>
    /\ Head(<<"instrument", "position", "send">>) = "instrument"
    /\ Tail(<<"instrument", "position", "send">>) = <<"position", "send">>
    /\ Head(<<"instrument", "position", "refuse">>) = "instrument"
    /\ Tail(<<"instrument", "position", "refuse">>) = <<"position", "refuse">>
    /\ Head(<<"instrument", "send">>) = "instrument" /\ Tail(<<"instrument", "send">>) = <<"send">>
    /\ Head(<<"instrument", "refuse">>) = "instrument" /\ Tail(<<"instrument", "refuse">>) = <<"refuse">>
    /\ Head(<<"quote", "send">>) = "quote" /\ Tail(<<"quote", "send">>) = <<"send">>
    /\ Head(<<"position", "send">>) = "position" /\ Tail(<<"position", "send">>) = <<"send">>
    /\ Head(<<"position", "refuse">>) = "position" /\ Tail(<<"position", "refuse">>) = <<"refuse">>
    /\ Head(<<"send">>) = "send" /\ Head(<<"refuse">>) = "refuse"
  OBVIOUS

LEMMA BuiltFields ==
    ASSUME NEW s, NEW r, NEW lot
    PROVE  LET o == Build(s, r, lot)
           IN  /\ DOMAIN o = {"side", "product", "bracket", "sl", "tp", "price", "slip", "qty", "exec"}
               /\ o.side = r.side /\ o.sl = r.sl /\ o.bracket = Bracket(r) /\ o.product = ProductFor(s, r)
               /\ o.price = r.price /\ o.slip = s.slip
               /\ o.qty = IF s.broker \in Indian THEN Shares(lot) ELSE lot
  BY DEF Build

\* What is called for an order that is just built.
LEMMA CallsOfEntry ==
    ASSUME NEW b, NEW o, o.side # "CLOSE"
    PROVE  /\ CallsTo(b, o) \in {<<"instrument", "quote", "send">>, <<"instrument", "send">>, <<"instrument", "refuse">>,
                                 <<"quote", "send">>, <<"send">>}
           /\ b = "zerodha" /\ o.bracket => CallsTo(b, o) = <<"quote", "send">>
           /\ b = "dhan" /\ o.bracket => CallsTo(b, o) = <<"instrument", "refuse">>
<1>1. <<"instrument">> \o <<>> = <<"instrument">>
  OBVIOUS
<1>2. /\ <<"instrument">> \o <<>> \o <<"send">> = <<"instrument", "send">>
      /\ <<"instrument">> \o <<>> \o <<"refuse">> = <<"instrument", "refuse">>
  BY <1>1, JoinTwo
<1>3. <<"instrument">> \o <<"quote">> \o <<"send">> = <<"instrument", "quote", "send">>
  BY JoinThree
<1>4. ZerodhaCalls(o) \in {<<"quote", "send">>, <<"send">>} /\ (o.bracket => ZerodhaCalls(o) = <<"quote", "send">>)
  BY DEF ZerodhaCalls
<1>5. AngelCalls(o) \in {<<"instrument", "quote", "send">>, <<"instrument", "send">>}
  <2>1. CASE o.bracket
    BY <1>3, <2>1, Zenon DEF AngelCalls
  <2>2. CASE ~o.bracket
    BY <1>2, <2>2, Zenon DEF AngelCalls
  <2> QED
    BY <2>1, <2>2
<1>6. /\ DhanCalls(o) \in {<<"instrument", "refuse">>, <<"instrument", "send">>}
      /\ o.bracket => DhanCalls(o) = <<"instrument", "refuse">>
  <2>1. CASE o.bracket
    BY <1>2, <2>1, Zenon DEF DhanCalls
  <2>2. CASE ~o.bracket
    BY <1>2, <2>2, Zenon DEF DhanCalls
  <2> QED
    BY <2>1, <2>2
<1>7. MT5Calls(o) \in {<<"quote", "send">>, <<"send">>}
  BY DEF MT5Calls
<1>8. /\ b = "zerodha" => CallsTo(b, o) = ZerodhaCalls(o)
      /\ b = "angel" => CallsTo(b, o) = AngelCalls(o)
      /\ b = "dhan" => CallsTo(b, o) = DhanCalls(o)
      /\ b \notin {"zerodha", "angel", "dhan"} => CallsTo(b, o) = MT5Calls(o)
  BY DEF CallsTo
<1> QED
  BY <1>4, <1>5, <1>6, <1>7, <1>8

LEMMA CallsOfClose ==
    ASSUME NEW b, NEW o, o.side = "CLOSE"
    PROVE  /\ b \in Indian => CallsTo(b, o) \in {<<"instrument", "position", "send">>, <<"instrument", "position", "refuse">>,
                                                 <<"position", "send">>}
           /\ b \notin Indian => CallsTo(b, o) = <<"send">>
<1>1. /\ <<"instrument">> \o <<"position">> \o <<"send">> = <<"instrument", "position", "send">>
      /\ <<"instrument">> \o <<"position">> \o <<"refuse">> = <<"instrument", "position", "refuse">>
  BY JoinThree
<1>2. AngelCalls(o) = <<"instrument", "position", "send">>
  BY <1>1, Zenon DEF AngelCalls
<1>3. DhanCalls(o) \in {<<"instrument", "position", "send">>, <<"instrument", "position", "refuse">>}
  <2>1. CASE o.bracket
    BY <1>1, <2>1, Zenon DEF DhanCalls
  <2>2. CASE ~o.bracket
    BY <1>1, <2>2, Zenon DEF DhanCalls
  <2> QED
    BY <2>1, <2>2
<1>4. ZerodhaCalls(o) = <<"position", "send">> /\ MT5Calls(o) = <<"send">>
  BY DEF ZerodhaCalls, MT5Calls
<1>5. /\ b = "zerodha" => CallsTo(b, o) = ZerodhaCalls(o)
      /\ b = "angel" => CallsTo(b, o) = AngelCalls(o)
      /\ b = "dhan" => CallsTo(b, o) = DhanCalls(o)
      /\ b \notin Indian => CallsTo(b, o) = MT5Calls(o)
  BY DEF CallsTo, Indian
<1> QED
  BY <1>2, <1>3, <1>4, <1>5 DEF Indian

\* Lots and quantities are whole hundredths, whatever decides them.
LEMMA LotsAreIntegers ==
    ASSUME NEW r, Wanted(r), NEW e \in Int, NEW b
    PROVE  ResolveLot(r, Equity(b, e), b) \in Int
<1>1. /\ r.sl \in Int /\ r.fixed \in Int /\ r.signal \in Int /\ r.risk \in Int
  BY DEF Wanted
<1>2. Equity(b, e) \in Int
  BY DEF Equity, ZerodhaEquity, AngelEquity, DhanEquity, MT5Equity
<1>3. MinQtyForBroker(b) \in Int
  BY DEF MinQtyForBroker
<1>4. ASSUME NEW eq \in Int, NEW pct \in Int, NEW sl \in Int PROVE CalcLotSize(eq, pct, sl, b) \in Int
  <2>1. CASE pct <= 0 \/ sl <= 0
    BY <2>1 DEF CalcLotSize
  <2>2. CASE pct > 0 /\ sl > 0
    <3>1. eq * pct \in Int /\ 100 * sl \in Nat \ {0} /\ 10 * sl \in Nat \ {0}
      BY <2>2
    <3>2. (eq * pct) \div (100 * sl) \in Int /\ (eq * pct) \div (10 * sl) \in Int
      BY <3>1
    <3> DEFINE lot == IF b \in Indian THEN ((eq * pct) \div (100 * sl)) * 100 ELSE (eq * pct) \div (10 * sl)
    <3>3. lot \in Int
      BY <3>2
    <3>4. CalcLotSize(eq, pct, sl, b) = IF lot < MinQtyForBroker(b) THEN MinQtyForBroker(b) ELSE lot
      BY <2>2 DEF CalcLotSize
    <3> HIDE DEF lot
    <3> QED
      BY <1>3, <3>3, <3>4
  <2> QED
    BY <2>1, <2>2, <1>4
<1>5. RiskResolveLot(r, Equity(b, e), b) \in Int
  <2>1. PICK eq \in Int : eq = Equity(b, e)
    BY <1>2
  <2>2. CalcLotSize(eq, r.risk, r.sl, b) \in Int
    BY <1>1, <1>4
  <2>3. RiskResolveLot(r, eq, b) \in Int
    BY <1>1, <2>2 DEF RiskResolveLot
  <2> QED
    BY <2>1, <2>3
<1> QED
  BY <1>3, <1>5 DEF ResolveLot

LEMMA QuantitiesAreIntegers ==
    ASSUME NEW s, NEW r, NEW lot \in Int
    PROVE  Build(s, r, lot).qty \in Int
<1>1. (lot + 50) \div 100 \in Int
  OBVIOUS
<1>2. Shares(lot) \in Int
  BY <1>1 DEF Shares
<1> QED
  BY <1>2, BuiltFields

LEMMA ProductsAreKnown ==
    ASSUME NEW s, s.products \subseteq {"MIS", "CNC", "NRML"}, NEW r, BuildCode(s, r) = "ok"
    PROVE  ProductFor(s, r) \in Products
<1>1. CASE s.broker \notin Indian
  BY <1>1 DEF ProductFor, Products
<1>2. CASE s.broker \in Indian
  <2>1. ProductFor(s, r) # "" /\ ProductFor(s, r) = ResolveOrderProduct(s.products, r.product)
    BY <1>2 DEF BuildCode, ProductFor
  <2>2. ASSUME Cardinality(s.products) = 1, s.products # {} PROVE (CHOOSE p \in s.products : TRUE) \in s.products
    BY <2>2
  <2>3. ResolveOrderProduct(s.products, r.product) \in s.products \cup {"MIS", ""}
    BY <2>2 DEF ResolveOrderProduct
  <2> QED
    BY <2>1, <2>3 DEF Products
<1> QED
  BY <1>1, <1>2

\* What is posted is the order prepared; an entry with a stop has it on the losing side.
LEMMA PostedFields ==
    ASSUME NEW b, NEW o, NEW close \in BOOLEAN, NEW ltp
    PROVE  LET p == Posted(b, o, close, ltp)
           IN  /\ p.side = o.side /\ p.qty = o.qty /\ p.product = o.product
               /\ b \in Indian /\ close /\ o.exec = "MARKET" => p.type = "MARKET"
  BY DEF Posted, ZerodhaCover, ZerodhaRegular, Limited, AngelWithToken, AngelRobo, AngelNormal, DhanOrder, MT5Trade, Post,
     Indian

\* A limit price found from the quote is not on the far side of it.
LEMMA LimitPriceWorsens ==
    ASSUME NEW ltp \in Int, ltp > 0, NEW side, NEW slip \in Int
    PROVE  /\ LimitPrice(ltp, side, slip) \in Int
           /\ side = "BUY" => LimitPrice(ltp, side, slip) >= ltp
           /\ side # "BUY" => LimitPrice(ltp, side, slip) <= ltp
<1>1. CASE slip <= 0
  BY <1>1 DEF LimitPrice
<1>2. CASE slip > 0
  <2>1. PICK x : x = ltp * slip
    OBVIOUS
  <2>2. x \in Nat
    BY <1>2, <2>1
  <2>3. (x + 50) \div 100 \in Nat /\ (x + 49) \div 100 \in Nat
    BY <2>2
  <2>4. LimitPrice(ltp, side, slip) = IF side = "BUY" THEN ltp + (x + 50) \div 100 ELSE ltp - (x + 49) \div 100
    BY <1>2, <2>1 DEF LimitPrice
  <2> QED
    BY <2>3, <2>4
<1> QED
  BY <1>1, <1>2

\* A cover order, field by field.
LEMMA CoverFields ==
    ASSUME NEW o, NEW ltp \in Int, o.sl \in Int
    PROVE  LET p == ZerodhaCover(o, ltp)
               t == IF o.side = "SELL" THEN ltp + o.sl * 100 ELSE ltp - o.sl * 100
           IN  /\ p.stop.set /\ p.side = o.side /\ p.type = o.exec
               /\ p.stop.at = IF t <= 0 THEN 5 ELSE t
               /\ o.exec = "LIMIT" =>
                     p.price = IF o.price > 0 THEN o.price ELSE LimitPrice(ltp, o.side, o.slip)
  BY DEF ZerodhaCover, Limited, Post, StopAt, Point, MinTrigger, Indian

\* What WithinReach says, of an order before it is posted.
Near(b, o, type, ltp) ==
    b = "zerodha" =>
        /\ o.side = "BUY" => ltp > 5
        /\ type = "LIMIT" /\ o.price > 0 =>
              IF o.side = "BUY" THEN o.price > 5 /\ o.price > ltp - o.sl * 100 ELSE o.price < ltp + o.sl * 100

LEMMA PostedStops ==
    ASSUME NEW b, NEW o, NEW ltp \in Int, o.bracket, o.sl \in Int, o.sl > 0, o.side \in {"BUY", "SELL"},
           o.price \in Int, o.slip \in Int, b # "dhan", b = "zerodha" => ltp > 0
    PROVE  LET p == Posted(b, o, FALSE, ltp)
           IN  /\ p.stop.set
               /\ Near(b, o, p.type, ltp) => /\ LosingSide(p, ltp)
                                             /\ p.type = "LIMIT" => LosingSide(p, p.price)
<1>1. CASE b = "zerodha"
  <2>1. PICK p : p = ZerodhaCover(o, ltp)
    OBVIOUS
  <2>2. Posted(b, o, FALSE, ltp) = p
    BY <1>1, <2>1 DEF Posted
  <2>3. /\ p.stop.set /\ p.side = o.side /\ p.type = o.exec
        /\ o.side = "SELL" => p.stop.at = ltp + o.sl * 100
        /\ o.side = "BUY" => p.stop.at = IF ltp - o.sl * 100 <= 0 THEN 5 ELSE ltp - o.sl * 100
        /\ o.exec = "LIMIT" => p.price = IF o.price > 0 THEN o.price ELSE LimitPrice(ltp, o.side, o.slip)
    BY <1>1, <2>1, CoverFields
  <2>4. /\ LimitPrice(ltp, o.side, o.slip) \in Int
        /\ o.side = "BUY" => LimitPrice(ltp, o.side, o.slip) >= ltp
        /\ o.side # "BUY" => LimitPrice(ltp, o.side, o.slip) <= ltp
    BY <1>1, LimitPriceWorsens
  <2>5. SUFFICES ASSUME Near(b, o, p.type, ltp)
                 PROVE  LosingSide(p, ltp) /\ (p.type = "LIMIT" => LosingSide(p, p.price))
    BY <2>2, <2>3
  <2>6. CASE o.side = "BUY"
    <3>1. ltp > 5 /\ (p.type = "LIMIT" /\ o.price > 0 => o.price > 5 /\ o.price > ltp - o.sl * 100)
      BY <1>1, <2>5, <2>6 DEF Near
    <3>2. PICK t \in Int : t = ltp - o.sl * 100
      OBVIOUS
    <3>3. t < ltp
      BY <3>2
    <3>4. p.stop.at = IF t <= 0 THEN 5 ELSE t
      BY <2>3, <2>6, <3>2
    <3>5. p.stop.at < ltp
      BY <3>1, <3>3, <3>4
    <3>6. ASSUME p.type = "LIMIT" PROVE p.stop.at < p.price
      <4>1. p.price = IF o.price > 0 THEN o.price ELSE LimitPrice(ltp, o.side, o.slip)
        BY <2>3, <3>6
      <4>2. CASE o.price > 0
        BY <3>1, <3>2, <3>4, <3>6, <4>1, <4>2
      <4>3. CASE ~(o.price > 0)
        BY <2>4, <2>6, <3>4, <3>5, <4>1, <4>3
      <4> QED
        BY <4>2, <4>3
    <3> QED
      BY <2>3, <2>6, <3>5, <3>6 DEF LosingSide
  <2>7. CASE o.side = "SELL"
    <3>1. p.type = "LIMIT" /\ o.price > 0 => o.price < ltp + o.sl * 100
      BY <1>1, <2>5, <2>7 DEF Near
    <3>2. p.stop.at = ltp + o.sl * 100
      BY <2>3, <2>7
    <3>3. p.stop.at > ltp
      BY <3>2
    <3>4. ASSUME p.type = "LIMIT" PROVE p.stop.at > p.price
      <4>1. p.price = IF o.price > 0 THEN o.price ELSE LimitPrice(ltp, o.side, o.slip)
        BY <2>3, <3>4
      <4>2. CASE o.price > 0
        BY <3>1, <3>2, <3>4, <4>1, <4>2
      <4>3. CASE ~(o.price > 0)
        BY <2>4, <2>7, <3>2, <3>3, <4>1, <4>3
      <4> QED
        BY <4>2, <4>3
    <3> QED
      BY <2>3, <2>7, <3>3, <3>4 DEF LosingSide
  <2> QED
    BY <2>6, <2>7
<1>2. CASE b = "angel"
  BY <1>2 DEF Posted, AngelRobo, Post, StopAt, Point, Indian, LosingSide
<1>3. CASE b \notin {"zerodha", "angel", "dhan"}
  BY <1>3 DEF Posted, MT5Trade, Post, StopAt, LosingSide
<1> QED
  BY <1>1, <1>2, <1>3

-----------------------------------------------------------------------------
(* The preparation of an order. *)

Fixed == UNCHANGED <<scene, key, want>>

LEMMA RequestsStay ==
    ASSUME Fixed
    PROVE  /\ \A c : Req(c)' = Req(c)
           /\ \A o : Standing(o)' = Standing(o)
           /\ \A c : draft'[c] = draft[c] => Prepared(c)' = Prepared(c)
<1>1. \A c : Req(c)' = Req(c)
  BY DEF Fixed, Req
<1>2. scene' = scene
  BY DEF Fixed
<1>3. \A o : Standing(o)' = Standing(o)
  BY <1>1, <1>2 DEF Standing, Protected, WithinReach, StopsLoss, LosingSide, Opposite
<1>4. \A c : draft'[c] = draft[c] => Prepared(c)' = Prepared(c)
  BY <1>1, <1>2 DEF Prepared, Leaving, Entering, Opposite
<1> QED
  BY <1>1, <1>3, <1>4

\* A step that prepares the order of one command.
LEMMA DraftMoves ==
    ASSUME OrdersInv, Fixed, UNCHANGED <<book, position>>, NEW c \in Cmds,
           draft' = [x \in Cmds |-> draft'[x]], \A x \in Cmds : x # c => draft'[x] = draft[x],
           DOMAIN draft'[c] = DraftFields, {draft'[c].ltp, draft'[c].stood} \subseteq Int,
           \A x \in Cmds : pc'[x] = "call" => x = c \/ pc[x] = "call",
           pc'[c] = "call" => Prepared(c)'
    PROVE  OrdersInv'
<1>1. scene.products \subseteq {"MIS", "CNC", "NRML"} /\ scene' = scene /\ position' \in [Products -> Int]
      /\ scene.slip \in Int
  BY DEF OrdersInv, Fixed
<1>2. ASSUME NEW x \in Cmds
      PROVE  /\ Wanted(Req(x))'
             /\ DOMAIN draft'[x] = DraftFields /\ {draft'[x].ltp, draft'[x].stood} \subseteq Int
             /\ pc'[x] = "call" => Prepared(x)'
  <2>1. Wanted(Req(x))'
    BY RequestsStay DEF OrdersInv, Wanted
  <2>2. CASE x = c
    BY <2>1, <2>2
  <2>3. CASE x # c
    <3>1. draft'[x] = draft[x] /\ DOMAIN draft[x] = DraftFields /\ {draft[x].ltp, draft[x].stood} \subseteq Int
      BY <2>3 DEF OrdersInv
    <3>2. pc'[x] = "call" => Prepared(x)
      BY <2>3 DEF OrdersInv
    <3>3. Prepared(x)' = Prepared(x)
      BY <3>1, RequestsStay
    <3> QED
      BY <2>1, <3>1, <3>2, <3>3
  <2> QED
    BY <2>2, <2>3
<1>3. \A i \in DOMAIN book' : DOMAIN book'[i] = {"by", "close", "stood", "ltp", "state", "post"} /\ Standing(book'[i])
  BY DEF OrdersInv
<1>4. \A i \in DOMAIN book' : Standing(book[i])'
  BY RequestsStay DEF OrdersInv
<1> QED
  BY <1>1, <1>2, <1>3, <1>4 DEF OrdersInv

\* A step that prepares nothing.
LEMMA DraftsStay ==
    ASSUME OrdersInv, Fixed, UNCHANGED <<draft, book, position>>,
           \A x \in Cmds : pc'[x] = "call" => pc[x] = "call"
    PROVE  OrdersInv'
<1>1. scene.products \subseteq {"MIS", "CNC", "NRML"} /\ scene' = scene /\ position' \in [Products -> Int]
      /\ scene.slip \in Int
  BY DEF OrdersInv, Fixed
<1>2. \A x \in Cmds : Wanted(Req(x))' /\ (pc'[x] = "call" => Prepared(x)')
  BY RequestsStay DEF OrdersInv, Wanted
<1>3. \A i \in DOMAIN book' : Standing(book[i])'
  BY RequestsStay DEF OrdersInv
<1> QED
  BY <1>1, <1>2, <1>3 DEF OrdersInv

LEMMA FailStays ==
    ASSUME OrdersInv, Tables, Fixed, UNCHANGED <<draft, book, position>>, NEW c \in Cmds, NEW code, Fail(c, code)
    PROVE  OrdersInv'
  BY DraftsStay DEF Fail, Finish, Goto, Tables

LEMMA CallFailsStays ==
    ASSUME OrdersInv, Tables, Fixed, UNCHANGED <<book, position>>, NEW c \in Cmds, NEW call, CallFails(c, call)
    PROVE  OrdersInv'
<1>1. draft' = draft
  BY DEF CallFails
<1>2. PICK k, kind : \/ UNCHANGED <<pc, outcome>>
                    \/ Fail(c, ErrorCode(scene.broker, Req(c).side, kind))
  BY DEF CallFails
<1> QED
  BY <1>1, <1>2, DraftsStay, FailStays

\* A call is made: the next one is what is left.
LEMMA AdvanceMoves ==
    ASSUME OrdersInv, NEW c \in Cmds, NEW d, DOMAIN d = DraftFields, Advance(c, d)
    PROVE  /\ draft' = [x \in Cmds |-> draft'[x]] /\ \A x \in Cmds : x # c => draft'[x] = draft[x]
           /\ DOMAIN draft'[c] = DraftFields /\ draft'[c].order = d.order /\ draft'[c].calls = Tail(draft[c].calls)
           /\ draft'[c].ltp = d.ltp /\ draft'[c].stood = d.stood
  BY DEF Advance, Rest, OrdersInv, DraftFields

LEMMA SizePrepares ==
    ASSUME OrdersInv, Tables, NEW c \in Cmds, Size(c)
    PROVE  OrdersInv'
<1>1. Fixed /\ UNCHANGED <<book, position>> /\ scene' = scene
  BY DEF Size, brokerVars, Fixed
<1> DEFINE r == Req(c)
<1>2. PICK e \in (IF ~NeedsEquity(r) THEN {0} ELSE IF Live THEN Equities ELSE {100000}) :
        LET l == ResolveLot(r, Equity(scene.broker, e), scene.broker)
            o == Build(scene, r, l)
        IN  IF ~ApplyMaxLotSize(r.max, l) THEN Fail(c, "internal") /\ UNCHANGED draft
            ELSE IF BuildCode(scene, r) # "ok"
                 THEN Fail(c, BuildCode(scene, r)) /\ UNCHANGED draft
            ELSE IF AlgoCode(scene) # "ok" THEN Fail(c, AlgoCode(scene)) /\ UNCHANGED draft
            ELSE Plan(c, o, l) /\ UNCHANGED outcome
  BY DEF Size
<1> DEFINE lot0 == ResolveLot(r, Equity(scene.broker, e), scene.broker)
           fits == ApplyMaxLotSize(r.max, lot0)
           built == BuildCode(scene, r)
           tagged == AlgoCode(scene)
           fails == UNCHANGED draft /\ (Fail(c, "internal") \/ Fail(c, built) \/ Fail(c, tagged))
           sized == Plan(c, Build(scene, r, lot0), lot0)
<1>3. CASE fails
  <2> HIDE DEF built, tagged
  <2> QED
    BY <1>1, <1>3, FailStays
<1>5. fails \/ (built = "ok" /\ sized)
  BY <1>2
<1>4. CASE built = "ok" /\ sized
  <2>1. Wanted(r) /\ e \in Int /\ scene.products \subseteq {"MIS", "CNC", "NRML"}
    BY ExecutionConstantsOK DEF OrdersInv
  <2>2. PICK lot : lot = ResolveLot(r, Equity(scene.broker, e), scene.broker)
    OBVIOUS
  <2>3. PICK o : o = Build(scene, r, lot)
    OBVIOUS
  <2>4. /\ draft' = [draft EXCEPT ![c].order = o, ![c].lot = lot, ![c].calls = CallsTo(scene.broker, o)]
        /\ Goto(c, IF Live THEN "call" ELSE "mock")
    BY <1>4, <2>2, <2>3 DEF Plan
  <2>5. lot \in Int
    BY <2>1, <2>2, LotsAreIntegers
  <2>6. /\ DOMAIN o = {"side", "product", "bracket", "sl", "tp", "price", "slip", "qty", "exec"}
        /\ o.side = r.side /\ o.sl = r.sl /\ o.bracket = Bracket(r) /\ o.product \in Products /\ o.qty \in Int
        /\ o.price = r.price /\ o.slip = scene.slip
    BY <1>4, <2>1, <2>3, <2>5, BuiltFields, QuantitiesAreIntegers, ProductsAreKnown
  <2>7. PICK calls : calls = CallsTo(scene.broker, o)
    OBVIOUS
  <2>8. /\ draft' = [x \in Cmds |-> draft'[x]] /\ \A x \in Cmds : x # c => draft'[x] = draft[x]
        /\ DOMAIN draft'[c] = DraftFields /\ draft'[c].order = o /\ draft'[c].calls = calls
        /\ draft'[c].ltp = draft[c].ltp /\ draft'[c].stood = draft[c].stood
    BY <2>4, <2>7 DEF OrdersInv, DraftFields
  <2>9. {draft'[c].ltp, draft'[c].stood} \subseteq Int
    BY <2>8 DEF OrdersInv
  <2>10. Req(c)' = r
    BY <1>1, RequestsStay
  <2>11. r.side = "CLOSE" => Leaving(c)'
    BY <1>1, <2>6, <2>7, <2>8, <2>10, CallsOfClose DEF Leaving
  <2>12. r.side # "CLOSE" => Entering(c)'
    <3>1. r.sl > 0 => o.bracket
      <4>1. r.sl > 0 => Bracket(r)
        BY DEF Bracket
      <4> HIDE DEF r
      <4> QED
        BY <2>6, <4>1
    <3> QED
      BY <1>1, <2>6, <2>7, <2>8, <2>10, <3>1, CallsOfEntry DEF Entering
  <2>13. Prepared(c)'
    BY <2>6, <2>8, <2>10, <2>11, <2>12 DEF Prepared
  <2>14. \A x \in Cmds : pc'[x] = "call" => x = c \/ pc[x] = "call"
    BY <2>4 DEF Goto, Tables
  <2> HIDE DEF r
  <2> QED
    BY <1>1, <2>8, <2>9, <2>13, <2>14, DraftMoves
<1> QED
  BY <1>3, <1>4, <1>5

LEMMA InstrumentPrepares ==
    ASSUME OrdersInv, Tables, NEW c \in Cmds, Instrument(c)
    PROVE  OrdersInv'
<1>1. Fixed /\ UNCHANGED <<book, position>> /\ scene' = scene
  BY DEF Instrument, brokerVars, Fixed
<1>2. CASE CallFails(c, "instrument") \/ \E code : Fail(c, code) /\ UNCHANGED draft
  BY <1>1, <1>2, CallFailsStays, FailStays
<1>3. CASE Advance(c, draft[c]) /\ UNCHANGED <<pc, outcome>>
  <2>1. Prepared(c) /\ Head(draft[c].calls) = "instrument" /\ pc[c] = "call"
    BY DEF Instrument, Calling, OrdersInv
  <2>2. /\ draft' = [x \in Cmds |-> draft'[x]] /\ \A x \in Cmds : x # c => draft'[x] = draft[x]
        /\ DOMAIN draft'[c] = DraftFields /\ draft'[c].order = draft[c].order
        /\ draft'[c].calls = Tail(draft[c].calls)
        /\ draft'[c].ltp = draft[c].ltp /\ draft'[c].stood = draft[c].stood
    BY <1>3, AdvanceMoves DEF OrdersInv
  <2>3. Req(c)' = Req(c)
    BY <1>1, RequestsStay
  <2>4. Entering(c) => Entering(c)'
    BY <1>1, <2>1, <2>2, <2>3, CallLists DEF Entering
  <2>5. Leaving(c) => Leaving(c)'
    BY <1>1, <2>1, <2>2, <2>3, CallLists DEF Leaving, Opposite
  <2>6. Prepared(c)'
    BY <2>1, <2>2, <2>3, <2>4, <2>5 DEF Prepared
  <2>7. {draft'[c].ltp, draft'[c].stood} \subseteq Int
    BY <2>2 DEF OrdersInv
  <2> QED
    BY <1>1, <1>3, <2>2, <2>6, <2>7, DraftMoves
<1> QED
  BY <1>2, <1>3 DEF Instrument

LEMMA QuotePrepares ==
    ASSUME OrdersInv, Tables, NEW c \in Cmds, Quote(c)
    PROVE  OrdersInv'
<1>1. Fixed /\ UNCHANGED <<book, position>> /\ scene' = scene
  BY DEF Quote, brokerVars, Fixed
<1>2. CASE CallFails(c, "quote") \/ \E code : Fail(c, code) /\ UNCHANGED draft
  BY <1>1, <1>2, CallFailsStays, FailStays
<1>3. ASSUME NEW p \in Quotes, Advance(c, [draft[c] EXCEPT !.ltp = p]), UNCHANGED <<pc, outcome>>
      PROVE  OrdersInv'
  <2>1. Prepared(c) /\ Head(draft[c].calls) = "quote" /\ pc[c] = "call"
    BY DEF Quote, Calling, OrdersInv
  <2>2. PICK d : d = [draft[c] EXCEPT !.ltp = p]
    OBVIOUS
  <2>3. DOMAIN d = DraftFields /\ d.order = draft[c].order /\ d.ltp = p /\ d.stood = draft[c].stood
    BY <2>2 DEF OrdersInv, DraftFields
  <2>4. /\ draft' = [x \in Cmds |-> draft'[x]] /\ \A x \in Cmds : x # c => draft'[x] = draft[x]
        /\ DOMAIN draft'[c] = DraftFields /\ draft'[c].order = draft[c].order
        /\ draft'[c].calls = Tail(draft[c].calls)
        /\ draft'[c].ltp = p /\ draft'[c].stood = draft[c].stood
    BY <1>3, <2>2, <2>3, AdvanceMoves
  <2>5. Req(c)' = Req(c)
    BY <1>1, RequestsStay
  <2>6. Entering(c) => Entering(c)'
    <3> SUFFICES ASSUME Entering(c) PROVE Entering(c)'
      OBVIOUS
    <3>1. draft[c].calls \in {<<"instrument", "quote", "send">>, <<"instrument", "send">>, <<"instrument", "refuse">>,
                             <<"quote", "send">>, <<"send">>, <<"refuse">>}
      BY DEF Entering
    <3>2. draft[c].calls = <<"quote", "send">> /\ Tail(draft[c].calls) = <<"send">>
      BY <2>1, <3>1, CallLists
    <3>3. ~(Req(c).sl > 0 /\ scene.broker = "dhan")
      BY <2>1, CallLists DEF Entering
    <3>4. p > 0
      BY ExecutionConstantsOK
    <3>5. /\ draft[c].order.side = Req(c).side /\ draft[c].order.sl = Req(c).sl
          /\ draft[c].order.bracket = Bracket(Req(c))
          /\ draft[c].order.price = Req(c).price /\ draft[c].order.slip = scene.slip
      BY DEF Entering
    <3> QED
      BY <1>1, <2>4, <2>5, <3>2, <3>3, <3>4, <3>5 DEF Entering
  <2>7. ~Leaving(c)
    BY <2>1, CallLists DEF Leaving
  <2>8. Prepared(c)'
    BY <2>1, <2>4, <2>5, <2>6, <2>7 DEF Prepared
  <2>9. {draft'[c].ltp, draft'[c].stood} \subseteq Int
    BY <2>4, ExecutionConstantsOK DEF OrdersInv
  <2> QED
    BY <1>1, <1>3, <2>4, <2>8, <2>9, DraftMoves
<1> QED
  BY <1>2, <1>3 DEF Quote

LEMMA PositionPrepares ==
    ASSUME OrdersInv, Tables, NEW c \in Cmds, Position(c)
    PROVE  OrdersInv'
<1>1. Fixed /\ UNCHANGED <<book, position>> /\ scene' = scene
  BY DEF Position, brokerVars, Fixed
<1> DEFINE q == draft[c].order
           net == position[q.product]
<1>2. NetPosition(scene.broker, position, q.product) = net
  BY DEF NetPosition, ZerodhaNetPosition, AngelNetPosition, DhanNetPosition
<1>3. CASE CallFails(c, "position") \/ \E code : Fail(c, code) /\ UNCHANGED draft
  BY <1>1, <1>3, CallFailsStays, FailStays
<1>4. CASE /\ net # 0 /\ UNCHANGED <<pc, outcome>>
           /\ Advance(c, [draft[c] EXCEPT !.order = SquareOff(q, net), !.stood = net])
  <2>1. Prepared(c) /\ Head(draft[c].calls) = "position" /\ pc[c] = "call"
    BY DEF Position, Calling, OrdersInv
  <2>2. PICK n : n = net
    OBVIOUS
  <2>3. PICK o : o = SquareOff(q, n)
    OBVIOUS
  <2>4. PICK d : d = [draft[c] EXCEPT !.order = o, !.stood = n]
    OBVIOUS
  <2>5. DOMAIN d = DraftFields /\ d.order = o /\ d.ltp = draft[c].ltp /\ d.stood = n
    BY <2>4 DEF OrdersInv, DraftFields
  <2>6. n \in Int /\ n # 0
    BY <1>4, <2>1, <2>2 DEF OrdersInv, Prepared
  <2>7. /\ DOMAIN o = DOMAIN q /\ o.product = q.product /\ o.exec = "MARKET" /\ Opposite(o, n) /\ o.qty \in Int
    BY <2>1, <2>3, <2>6 DEF SquareOff, Prepared, Opposite
  <2>8. /\ draft' = [x \in Cmds |-> draft'[x]] /\ \A x \in Cmds : x # c => draft'[x] = draft[x]
        /\ DOMAIN draft'[c] = DraftFields /\ draft'[c].order = o
        /\ draft'[c].calls = Tail(draft[c].calls)
        /\ draft'[c].ltp = draft[c].ltp /\ draft'[c].stood = n
    <3>1. Advance(c, d)
      BY <1>4, <2>2, <2>3, <2>4
    <3> QED
      BY <2>5, <3>1, AdvanceMoves
  <2>9. Req(c)' = Req(c)
    BY <1>1, RequestsStay
  <2>10. ~Entering(c)
    BY <2>1, CallLists DEF Entering
  <2>11. Leaving(c)'
    <3>1. scene.broker \in Indian /\ Tail(draft[c].calls) \in {<<"send">>, <<"refuse">>}
      BY <2>1, <2>10, CallLists DEF Prepared, Leaving
    <3>2. Opposite(draft'[c].order, draft'[c].stood) /\ draft'[c].order.exec = "MARKET"
      BY <2>7, <2>8
    <3> QED
      BY <1>1, <2>8, <3>1, <3>2 DEF Leaving, Opposite
  <2>12. Req(c).side = "CLOSE"
    BY <2>1, <2>10 DEF Prepared
  <2>13. Prepared(c)'
    BY <2>1, <2>7, <2>8, <2>9, <2>11, <2>12 DEF Prepared
  <2>14. {draft'[c].ltp, draft'[c].stood} \subseteq Int
    BY <2>6, <2>8 DEF OrdersInv
  <2> QED
    BY <1>1, <1>4, <2>8, <2>13, <2>14, DraftMoves
<1> QED
  BY <1>2, <1>3, <1>4 DEF Position

-----------------------------------------------------------------------------
(* The order sent. *)

BookFields == {"by", "close", "stood", "ltp", "state", "post"}

\* An order that is prepared and has only the POST left stands in the book.
LEMMA SentStands ==
    ASSUME OrdersInv, NEW c \in Cmds, Calling(c, "send")
    PROVE  LET o == OrderOf(c)
           IN  /\ DOMAIN o = BookFields /\ o.by = c /\ o.post.product \in Products
               /\ IF o.post.side = "CLOSE" THEN \A p : p = [o EXCEPT !.state = "filled"] => Standing(p)
                                           ELSE Standing(o)
<1> DEFINE q == draft[c].order
           r == Req(c)
<1>1. Prepared(c) /\ Head(draft[c].calls) = "send" /\ Wanted(r) /\ draft[c].ltp \in Int
  BY DEF Calling, OrdersInv
<1>2. PICK close \in BOOLEAN : close = (r.side = "CLOSE")
  OBVIOUS
<1>3. PICK post : post = Posted(scene.broker, q, close, draft[c].ltp)
  OBVIOUS
<1>4. PICK o : o = OrderOf(c)
  OBVIOUS
<1>5. /\ DOMAIN o = BookFields /\ o.by = c /\ o.close = close /\ o.stood = draft[c].stood
      /\ o.ltp = draft[c].ltp /\ o.state = "open" /\ o.post = post
  BY <1>2, <1>3, <1>4 DEF OrderOf, BookFields
<1>6. /\ post.side = q.side /\ post.qty = q.qty /\ post.product = q.product
      /\ scene.broker \in Indian /\ close /\ q.exec = "MARKET" => post.type = "MARKET"
  <2>1. LET p == Posted(scene.broker, q, close, draft[c].ltp)
        IN  /\ p.side = q.side /\ p.qty = q.qty /\ p.product = q.product
            /\ scene.broker \in Indian /\ close /\ q.exec = "MARKET" => p.type = "MARKET"
    BY PostedFields
  <2> QED
    BY <1>3, <2>1
<1>7. q.qty \in Int /\ q.product \in Products
  BY <1>1 DEF Prepared
<1>8. CASE r.side = "CLOSE"
  <2>1. close = TRUE /\ Leaving(c)
    BY <1>1, <1>2, <1>8 DEF Prepared
  <2>2. \/ scene.broker \in Indian /\ q.exec = "MARKET" /\ Opposite(q, draft[c].stood)
        \/ q.side = "CLOSE"
    BY <1>1, <2>1, CallLists DEF Leaving
  <2>3. CASE q.side = "CLOSE"
    <3>1. ASSUME NEW p, p = [o EXCEPT !.state = "filled"] PROVE Standing(p)
      <4>1. p.state = "filled" /\ p.close = TRUE
        BY <1>5, <2>1, <3>1 DEF BookFields
      <4> QED
        BY <4>1 DEF Standing
    <3> QED
      BY <1>4, <1>5, <1>6, <1>7, <2>3, <3>1
  <2>4. CASE q.side # "CLOSE"
    <3>1. post.type = "MARKET" /\ Opposite(post, o.stood)
      BY <1>5, <1>6, <2>1, <2>2, <2>4 DEF Opposite
    <3>2. Standing(o)
      BY <1>5, <1>6, <1>7, <2>1, <3>1 DEF Standing
    <3> QED
      BY <1>4, <1>5, <1>6, <1>7, <2>4, <3>2
  <2> QED
    BY <2>3, <2>4
<1>9. CASE r.side # "CLOSE"
  <2>1. close = FALSE /\ Entering(c) /\ r.side \in {"BUY", "SELL"} /\ r.sl \in Int /\ r.price \in Int
    BY <1>1, <1>2, <1>9 DEF Prepared, Wanted
  <2>2. q.side = r.side /\ q.sl = r.sl /\ q.bracket = Bracket(r) /\ q.price = r.price /\ q.slip \in Int
    BY <2>1 DEF Entering, OrdersInv
  <2>3. r.sl > 0 => Protected(o)
    <3> SUFFICES ASSUME r.sl > 0 PROVE Protected(o)
      OBVIOUS
    <3>1. Bracket(r)
      BY DEF Bracket
    <3>2. scene.broker # "dhan" /\ (scene.broker = "zerodha" => draft[c].ltp > 0)
      BY <1>1, <2>1, CallLists DEF Entering
    <3> HIDE DEF r
    <3>3. q.bracket /\ q.sl \in Int /\ q.sl > 0 /\ q.side \in {"BUY", "SELL"} /\ q.price \in Int /\ q.slip \in Int
      BY <2>1, <2>2, <3>1
    <3>4. post = Posted(scene.broker, q, FALSE, draft[c].ltp)
      BY <1>3, <2>1
    <3>5. PICK ltp \in Int : ltp = draft[c].ltp
      BY <1>1
    <3>6. LET p == Posted(scene.broker, q, FALSE, ltp)
          IN  /\ p.stop.set
              /\ Near(scene.broker, q, p.type, ltp) => /\ LosingSide(p, ltp)
                                                       /\ p.type = "LIMIT" => LosingSide(p, p.price)
      BY <3>2, <3>3, <3>5, PostedStops
    <3>7. Req(o.by) = r /\ o.ltp = ltp /\ o.post = post /\ post = Posted(scene.broker, q, FALSE, ltp)
      BY <1>5, <3>4, <3>5 DEF r
    <3>8. o.post.stop.set /\ (WithinReach(o) => StopsLoss(o))
      BY <2>2, <3>6, <3>7 DEF Near, WithinReach, StopsLoss, MinTrigger, Point, Indian
    <3> QED
      BY <3>8 DEF Protected
  <2>4. Standing(o)
    BY <1>5, <1>6, <1>7, <2>1, <2>3 DEF Standing
  <2> QED
    BY <1>4, <1>5, <1>6, <1>7, <2>1, <2>2, <2>4
<1> QED
  BY <1>8, <1>9

LEMMA BookGrows ==
    ASSUME Booked, OrdersInv, Fixed, draft' = draft, position' \in [Products -> Int],
           NEW o, DOMAIN o = BookFields, Standing(o), book' = Append(book, o),
           \A x \in Cmds : pc'[x] = "call" => pc[x] = "call"
    PROVE  OrdersInv'
<1>1. /\ Booked' /\ Len(book') = Len(book) + 1 /\ book'[Len(book) + 1] = o
      /\ \A i \in 1..Len(book) : book'[i] = book[i]
  BY AppendedBook DEF BookFields
<1>2. DOMAIN book = 1..Len(book) /\ DOMAIN book' = 1..(Len(book) + 1) /\ Len(book) \in Nat
  BY <1>1 DEF Booked
<1>3. ASSUME NEW i \in DOMAIN book' PROVE DOMAIN book'[i] = BookFields /\ Standing(book'[i])
  <2>1. CASE i \in DOMAIN book
    BY <1>1, <1>2, <2>1 DEF OrdersInv, BookFields
  <2>2. CASE i = Len(book) + 1
    BY <1>1, <2>2
  <2> QED
    BY <1>2, <2>1, <2>2
<1>4. ASSUME NEW i \in DOMAIN book' PROVE Standing(book[i])'
  <2>1. PICK p : p = book'[i]
    OBVIOUS
  <2>2. Standing(p)'
    BY <1>3, <2>1, RequestsStay
  <2> QED
    BY <2>1, <2>2
<1>5. scene.products \subseteq {"MIS", "CNC", "NRML"} /\ scene.slip \in Int /\ scene' = scene
  BY DEF OrdersInv, Fixed
<1>6. \A x \in Cmds : Wanted(Req(x))' /\ (pc'[x] = "call" => Prepared(x)')
  BY RequestsStay DEF OrdersInv, Wanted
<1> QED
  BY <1>3, <1>4, <1>5, <1>6 DEF OrdersInv, BookFields

LEMMA SendKeepsOrders ==
    ASSUME OrdersInv, Tables, Booked, NEW c \in Cmds, Send(c)
    PROVE  OrdersInv'
<1>1. Fixed /\ UNCHANGED draft /\ Calling(c, "send")
  BY DEF Send, Fixed
<1>2. \A k : ~ShouldRetry("POST", k)
  BY DEF ShouldRetry, IsIdempotent
<1>3. \A x \in Cmds : pc'[x] = "call" => pc[x] = "call"
  BY <1>2 DEF Send, Fail, Finish, Goto, Tables
<1>4. CASE UNCHANGED brokerVars
  BY <1>1, <1>3, <1>4, DraftsStay DEF brokerVars
<1>5. CASE Accept(c)
  <2>1. PICK o : o = OrderOf(c)
    OBVIOUS
  <2>2. /\ DOMAIN o = BookFields /\ o.post.product \in Products
        /\ IF o.post.side = "CLOSE" THEN \A p : p = [o EXCEPT !.state = "filled"] => Standing(p) ELSE Standing(o)
    BY <1>1, <2>1, SentStands
  <2>3. CASE o.post.side = "CLOSE"
    <3>1. PICK p : p = [o EXCEPT !.state = "filled"]
      OBVIOUS
    <3>2. DOMAIN p = BookFields /\ Standing(p)
      BY <2>2, <2>3, <3>1
    <3>3. book' = Append(book, p) /\ position' = [position EXCEPT ![o.post.product] = 0]
      BY <1>5, <2>1, <2>3, <3>1 DEF Accept
    <3>4. position' \in [Products -> Int]
      BY <2>2, <3>3 DEF OrdersInv
    <3> QED
      BY <1>1, <1>3, <3>2, <3>3, <3>4, BookGrows
  <2>4. CASE o.post.side # "CLOSE"
    <3>1. Standing(o) /\ book' = Append(book, o) /\ position' \in [Products -> Int]
      BY <1>5, <2>1, <2>2, <2>4 DEF Accept, OrdersInv
    <3> QED
      BY <1>1, <1>3, <2>2, <3>1, BookGrows
  <2> QED
    BY <2>3, <2>4
<1> QED
  BY <1>4, <1>5 DEF Send

\* What a fill does to the position and to its order.
LEMMA FillFacts ==
    ASSUME OrdersInv, NEW i \in DOMAIN book, Fill(i)
    PROVE  /\ book[i].state = "open" /\ DOMAIN book' = DOMAIN book
           /\ book'[i].state = "filled" /\ book'[i].by = book[i].by /\ DOMAIN book'[i] = BookFields
           /\ book'[i].close = book[i].close /\ book'[i].post = book[i].post /\ book'[i].ltp = book[i].ltp
           /\ \A j \in DOMAIN book : j # i => book'[j] = book[j]
           /\ LET p == book[i].post
              IN  position' = [position EXCEPT ![p.product] = IF p.side = "BUY" THEN @ + p.qty ELSE @ - p.qty]
<1>1. DOMAIN book[i] = BookFields
  BY DEF OrdersInv, BookFields
<1> QED
  BY <1>1 DEF Fill, BookFields

LEMMA FillKeepsOrders ==
    ASSUME OrdersInv, NEW i \in DOMAIN book, Fill(i)
    PROVE  OrdersInv'
<1>1. Fixed /\ UNCHANGED <<draft, pc>> /\ scene' = scene
  BY DEF Fill, Fixed, localVars
<1>2. Standing(book[i]) /\ DOMAIN book[i] = BookFields
  BY DEF OrdersInv, BookFields
<1>3. book[i].post.qty \in Int /\ book[i].post.product \in Products
  BY <1>2, FillFacts DEF Standing
<1>4. position' \in [Products -> Int]
  BY <1>3, FillFacts DEF OrdersInv
<1>5. Standing(book'[i])
  BY <1>2, FillFacts DEF Standing, Protected, WithinReach, StopsLoss
<1>6. ASSUME NEW j \in DOMAIN book' PROVE DOMAIN book'[j] = BookFields /\ Standing(book[j])'
  <2>1. PICK p : p = book'[j]
    OBVIOUS
  <2>2. Standing(p) /\ DOMAIN p = BookFields
    <3>1. CASE j = i
      BY <1>5, <2>1, <3>1, FillFacts
    <3>2. CASE j # i
      BY <2>1, <3>2, FillFacts DEF OrdersInv, BookFields
    <3> QED
      BY <3>1, <3>2
  <2>3. Standing(p)'
    BY <1>1, <2>2, RequestsStay
  <2> QED
    BY <2>1, <2>2, <2>3
<1>7. \A x \in Cmds : Wanted(Req(x))' /\ (pc'[x] = "call" => Prepared(x)')
  BY <1>1, RequestsStay DEF OrdersInv, Wanted
<1>8. scene.products \subseteq {"MIS", "CNC", "NRML"} /\ scene.slip \in Int
  BY DEF OrdersInv
<1> QED
  BY <1>1, <1>4, <1>6, <1>7, <1>8 DEF OrdersInv, BookFields

LEMMA OrdersKept ==
    ASSUME OrdersInv, Tables, Booked, [Next]_vars
    PROVE  OrdersInv'
<1>1. CASE UNCHANGED vars
  BY <1>1, DraftsStay DEF vars, localVars, brokerVars, Fixed
<1>2. ASSUME NEW c \in Cmds, Submit(c) \/ Lookup(c) \/ Admit(c) \/ Mock(c) \/ Refuse(c) \/ Store(c) \/ Reply(c)
                             \/ GiveUp(c) \/ Crash(c)
      PROVE  OrdersInv'
  <2>1. Fixed /\ UNCHANGED <<draft, book, position>>
    BY <1>2 DEF Submit, Lookup, Admit, Mock, Refuse, Store, Reply, GiveUp, Crash, Fixed, brokerVars
  <2>2. pc' = pc \/ \E s : s # "call" /\ pc' = [pc EXCEPT ![c] = s]
    BY <1>2 DEF Submit, Lookup, Admit, Mock, Refuse, Store, Reply, GiveUp, Crash, Goto, Fail, Finish
  <2>3. \A x \in Cmds : pc'[x] = "call" => pc[x] = "call"
    BY <2>2 DEF Tables
  <2> QED
    BY <2>1, <2>3, DraftsStay
<1>3. ASSUME NEW c \in Cmds, Size(c) \/ Instrument(c) \/ Quote(c) \/ Position(c) \/ Send(c)
      PROVE  OrdersInv'
  BY <1>3, SizePrepares, InstrumentPrepares, QuotePrepares, PositionPrepares, SendKeepsOrders
<1>4. ASSUME NEW i \in DOMAIN book, Fill(i) PROVE OrdersInv'
  BY <1>4, FillKeepsOrders
<1>5. ASSUME Second \/ \E k \in Keys : Forget(k) PROVE OrdersInv'
  <2>1. Fixed /\ UNCHANGED <<draft, book, position, pc>>
    BY <1>5 DEF Second, Forget, Fixed, localVars, brokerVars
  <2> QED
    BY <2>1, DraftsStay
<1> QED
  BY <1>1, <1>2, <1>3, <1>4, <1>5 DEF Next, Step

LEMMA FreshDrafts ==
    ASSUME NEW d, DOMAIN d = DraftFields, d.ltp = 0, d.stood = 0, draft = [c \in Cmds |-> d]
    PROVE  /\ draft = [c \in Cmds |-> draft[c]]
           /\ \A c \in Cmds : DOMAIN draft[c] = DraftFields /\ {draft[c].ltp, draft[c].stood} \subseteq Int
<1>1. \A c \in Cmds : draft[c] = d
  OBVIOUS
<1>2. {d.ltp, d.stood} \subseteq Int
  OBVIOUS
<1> QED
  BY <1>1, <1>2

LEMMA OpenPositions ==
    ASSUME NEW n \in Int, position = [p \in Products |-> IF p = "CNC" THEN 0 ELSE n]
    PROVE  position \in [Products -> Int]
  OBVIOUS

LEMMA EmptyBook ==
    ASSUME book = <<>>
    PROVE  DOMAIN book = {}
<1>1. book \in Seq({}) /\ Len(book) = 0
  BY EmptySeq
<1>2. DOMAIN book = 1..0
  BY <1>1, LenProperties
<1> QED
  BY <1>2, EmptyRange, Zenon

(* How far the preparation of an order has come, and what stands in the      *)
(* broker's book, for every broker, request, figure and fault (local/live.go,*)
(* livebrokers).                                                             *)
THEOREM OrdersInvariance == Spec => [](ExecutionInv /\ OrdersInv)
<1>1. ASSUME Init PROVE OrdersInv
  <2> USE <1>1 DEF Init
  <2>1. PICK s \in Starts : scene = s.scene /\ key = s.key /\ want = s.want
    OBVIOUS
  <2>2. scene.products \subseteq {"MIS", "CNC", "NRML"} /\ scene.slip \in Int
    BY <2>1, ExecutionConstantsOK
  <2>3. key \in [Cmds -> Keys] /\ \A k \in Keys : Wanted(want[k])
    BY <2>1, ExecutionConstantsOK
  <2>4. \A c \in Cmds : Wanted(Req(c)) /\ pc[c] # "call"
    BY <2>3 DEF Req
  <2>5. PICK d : d = [order |-> <<>>, calls |-> <<>>, lot |-> 0, stood |-> 0, ltp |-> 0]
    OBVIOUS
  <2>6. DOMAIN d = DraftFields /\ d.ltp = 0 /\ d.stood = 0
    BY <2>5 DEF DraftFields
  <2>7. draft = [c \in Cmds |-> d]
    BY <2>5
  <2>8. /\ draft = [c \in Cmds |-> draft[c]]
        /\ \A c \in Cmds : DOMAIN draft[c] = DraftFields /\ {draft[c].ltp, draft[c].stood} \subseteq Int
    BY <2>6, <2>7, FreshDrafts
  <2>9. PICK n \in Positions : position = [p \in Products |-> IF p = "CNC" THEN 0 ELSE n]
    OBVIOUS
  <2>10. n \in Int
    BY ExecutionConstantsOK
  <2>11. position \in [Products -> Int]
    BY <2>9, <2>10, OpenPositions
  <2>12. DOMAIN book = {}
    <3>1. book = <<>>
      OBVIOUS
    <3> QED
      BY <3>1, EmptyBook
  <2> QED
    BY <2>2, <2>4, <2>8, <2>11, <2>12 DEF OrdersInv
<1>2. ExecutionInv /\ OrdersInv /\ [Next]_vars => OrdersInv'
  BY OrdersKept DEF ExecutionInv
<1> QED
  BY <1>1, <1>2, ExecutionInvariance, PTL DEF Spec

(* An entry asked for with a stop distance is at the broker with a stop, or  *)
(* not at all (placeCoverOrder, placeROBOOrder, MT5), for every quote, limit *)
(* price and slippage: on the losing side of the quote and of the limit      *)
(* price, but for a BUY quoted at five paise or less and a limit price of    *)
(* the signal beyond the trigger, both at Zerodha.                           *)
THEOREM StopsProtect == Spec => []StopProtects
<1>1. OrdersInv => StopProtects
  BY DEF OrdersInv, Standing, StopProtects
<1> QED
  BY <1>1, OrdersInvariance, PTL

\* An order in the book changes by its fill only.
LEMMA ChangedIsFilled ==
    ASSUME OrdersInv, Booked, [Next]_vars, NEW i \in DOMAIN book, book'[i] # book[i]
    PROVE  Fill(i)
<1>1. ~UNCHANGED vars
  BY DEF vars, brokerVars
<1>2. ASSUME NEW c \in Cmds, Send(c) PROVE FALSE
  <2>1. Calling(c, "send")
    BY <1>2 DEF Send
  <2>2. Accept(c)
    BY <1>2 DEF Send, brokerVars
  <2>3. PICK o : o = OrderOf(c)
    OBVIOUS
  <2>4. DOMAIN o = BookFields
    BY <2>1, <2>3, SentStands
  <2>5. PICK p : "by" \in DOMAIN p /\ book' = Append(book, p)
    <3>1. CASE o.post.side = "CLOSE"
      <4>1. PICK p : p = [o EXCEPT !.state = "filled"]
        OBVIOUS
      <4>2. "by" \in DOMAIN p
        BY <2>4, <4>1 DEF BookFields
      <4>3. book' = Append(book, p)
        BY <2>2, <2>3, <3>1, <4>1 DEF Accept
      <4> QED
        BY <4>2, <4>3
    <3>2. CASE o.post.side # "CLOSE"
      BY <2>2, <2>3, <2>4, <3>2 DEF Accept, BookFields
    <3> QED
      BY <3>1, <3>2
  <2> QED
    BY <2>5, AppendedBook, BookedDomain
<1>3. ASSUME NEW c \in Cmds, Step(c) \/ GiveUp(c) \/ Crash(c) PROVE FALSE
  <2>1. Size(c) \/ Instrument(c) \/ Quote(c) \/ Position(c) => UNCHANGED brokerVars
    <3>1. Size(c) => UNCHANGED brokerVars
      BY DEF Size
    <3>2. Instrument(c) => UNCHANGED brokerVars
      BY DEF Instrument
    <3>3. Quote(c) => UNCHANGED brokerVars
      BY DEF Quote
    <3>4. Position(c) => UNCHANGED brokerVars
      BY DEF Position
    <3> QED
      BY <3>1, <3>2, <3>3, <3>4
  <2>2. Submit(c) \/ Lookup(c) \/ Admit(c) \/ Mock(c) \/ Refuse(c) \/ Store(c) \/ Reply(c) \/ GiveUp(c) \/ Crash(c)
        => UNCHANGED brokerVars
    BY DEF Submit, Lookup, Admit, Mock, Refuse, Store, Reply, GiveUp, Crash
  <2>3. ~UNCHANGED brokerVars
    BY DEF brokerVars
  <2> QED
    BY <1>2, <1>3, <2>1, <2>2, <2>3 DEF Step
<1>4. ASSUME Second \/ \E k \in Keys : Forget(k) PROVE FALSE
  BY <1>4 DEF Second, Forget, brokerVars
<1>5. ASSUME NEW j \in DOMAIN book, Fill(j) PROVE j = i
  BY <1>5, FillFacts
<1> QED
  BY <1>1, <1>2, <1>3, <1>4, <1>5 DEF Next

(* A close that fills on the position it was sized from leaves its product   *)
(* flat, and is a market order (squareOff of each client).                   *)
THEOREM ClosesNeverReverse == Spec => CloseNeverReverses
<1>1. ASSUME OrdersInv, Booked, [Next]_vars, NEW i \in DOMAIN book,
             book[i].close, book[i].state = "open", book'[i].state = "filled",
             position[book[i].post.product] = book[i].stood
      PROVE  book[i].post.type = "MARKET" /\ position'[book[i].post.product] = 0
  <2>1. PICK p : p = book[i].post
    OBVIOUS
  <2>2. PICK net : net = book[i].stood
    OBVIOUS
  <2>3. p.type = "MARKET" /\ Opposite(p, net) /\ p.qty \in Int /\ p.product \in Products
    BY <1>1, <2>1, <2>2 DEF OrdersInv, Standing
  <2>4. net \in Int /\ position[p.product] = net /\ position \in [Products -> Int]
    BY <1>1, <2>1, <2>2, <2>3 DEF OrdersInv
  <2>5. Fill(i)
    BY <1>1, ChangedIsFilled
  <2>6. position' = [position EXCEPT ![p.product] = IF p.side = "BUY" THEN @ + p.qty ELSE @ - p.qty]
    BY <1>1, <2>1, <2>5, FillFacts
  <2>7. position'[p.product] = IF p.side = "BUY" THEN net + p.qty ELSE net - p.qty
    BY <2>3, <2>4, <2>6
  <2>8. position'[p.product] = 0
    BY <2>3, <2>4, <2>7 DEF Opposite
  <2> QED
    BY <2>1, <2>3, <2>8
<1>2. OrdersInv /\ Booked /\ [Next]_vars
      => \A i \in DOMAIN book :
           /\ book[i].close /\ book[i].state = "open"
           /\ book'[i].state = "filled"
           /\ position[book[i].post.product] = book[i].stood
           => book[i].post.type = "MARKET" /\ position'[book[i].post.product] = 0
  BY <1>1
<1>3. ExecutionInv => Booked
  BY DEF ExecutionInv
<1> QED
  BY <1>2, <1>3, OrdersInvariance, PTL DEF Spec, CloseNeverReverses
=============================================================================
