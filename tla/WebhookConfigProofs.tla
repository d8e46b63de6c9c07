------------------------- MODULE WebhookConfigProofs -------------------------
(***************************************************************************)
(* WebhookConfig for every number of signals and owners, every TTL and     *)
(* delay, and whether or not Redis fails.                                  *)
(***************************************************************************)
EXTENDS WebhookConfig, TLAPS

\* A changed row has a new revision and may have a new token.
LEMMA ChangeFacts ==
    ASSUME TypeOK, RowOK, NEW row \in Rows, Change(row), row.token <= hook.rev + 1
    PROVE  /\ hook' \in Rows
           /\ hook'.rev = hook.rev + 1
           /\ hook'.token = row.token
           /\ changed' = now
           /\ RowOK' \/ now' # now
<1>1. hook.rev \in Nat /\ hook.rev < MaxRev /\ hook.rev + 1 \in 0..MaxRev
  BY ConfigConstantsOK DEF TypeOK, Rows, Change, ConfigConstantsOK
<1>2. hook' = [row EXCEPT !.rev = hook.rev + 1] /\ changed' = now
  BY DEF Change
<1>3. hook' \in Rows /\ hook'.rev = hook.rev + 1 /\ hook'.token = row.token
  BY <1>1, <1>2 DEF Rows
<1>4. now \in Nat
  BY DEF TypeOK
<1> QED
  BY <1>1, <1>2, <1>3, <1>4 DEF RowOK

\* What an owner's operation writes is a row.
LEMMA WrittenFacts ==
    ASSUME TypeOK, RowOK, hook.rev < MaxRev, NEW op \in OwnerOps
    PROVE  Written(op) \in Rows /\ Written(op).token <= hook.rev + 1
<1>1. /\ hook \in Rows
      /\ hook.rev \in Nat
      /\ hook.token \in Nat
      /\ hook.token <= hook.rev
      /\ MaxRev \in Nat
  BY ConfigConstantsOK DEF TypeOK, Rows, Tokens, RowOK, ConfigConstantsOK
<1>2. CASE op = "pause"
  BY <1>1, <1>2 DEF Written, Rows, Statuses
<1>3. CASE op = "resume"
  <2>1. Written(op) = [hook EXCEPT !.status = "active"]
    BY <1>3 DEF Written
  <2>2. /\ [hook EXCEPT !.status = "active"] \in Rows
        /\ [hook EXCEPT !.status = "active"].token = hook.token
    BY <1>1 DEF Rows, Statuses
  <2> QED
    BY <1>1, <2>1, <2>2
<1>4. CASE op = "edit"
  BY <1>1, <1>4 DEF Written
<1>5. CASE op = "rotate"
  <2>1. Written(op) = [hook EXCEPT !.token = hook.token + 1]
    BY <1>5 DEF Written
  <2>2. hook.token + 1 \in Tokens
    BY <1>1 DEF Tokens
  <2> QED
    BY <1>1, <2>1, <2>2 DEF Rows
<1>6. CASE op = "delete"
  BY <1>1, <1>6 DEF Written, Rows, Statuses
<1> QED
  BY <1>2, <1>3, <1>4, <1>5, <1>6 DEF OwnerOps

\* The initial state satisfies the invariant.
LEMMA ConfigInit == ASSUME Init PROVE ConfigInv
<1> USE ConfigConstantsOK DEF ConfigConstantsOK
<1>1. FirstRow \in Rows /\ FirstRow.rev = 0 /\ FirstRow.token = 0
  BY DEF FirstRow, Rows, Statuses, Tokens
<1>2. TypeOK
  <2>1. hook \in Rows /\ seen \in [Signals -> Rows] /\ read \in [Owners -> Rows]
    BY <1>1 DEF Init
  <2>2. cache \in [Tokens -> Entries]
    <3>1. [until |-> 0, row |-> FirstRow] \in Entries
      BY <1>1 DEF Entries
    <3> QED
      BY <3>1 DEF Init
  <2>3. /\ token \in [Signals -> Tokens]
        /\ known \in [Signals -> 0..MaxRev]
        /\ answered \in 0..MaxRev
    BY DEF Init, Tokens
  <2> QED
    BY <2>1, <2>2, <2>3 DEF Init, TypeOK
<1>3. RowOK
  BY <1>1 DEF Init, RowOK
<1>4. EntriesOK /\ WarmersOK /\ StaleUntilTTL
  BY DEF Init, EntriesOK, WarmersOK, StaleUntilTTL
<1> QED
  BY <1>2, <1>3, <1>4 DEF ConfigInv

\* When the row changes every copy is suddenly out of date: an entry has at most
\* a TTL to live, and a handler about to warm the cache loaded its copy before.
LEMMA ChangeInv ==
    ASSUME ConfigInv, NEW row \in Rows, Change(row), row.token <= hook.rev + 1,
           UNCHANGED <<now, cache, signalVars>>
    PROVE  RowOK' /\ EntriesOK' /\ WarmersOK' /\ StaleUntilTTL'
<1> USE ConfigConstantsOK DEF ConfigConstantsOK, ConfigInv
<1>1. /\ hook' \in Rows
      /\ hook'.rev = hook.rev + 1
      /\ changed' = now
      /\ RowOK'
  BY ChangeFacts
<1>2. /\ now \in Nat
      /\ hook.rev \in Nat
      /\ \A t \in Tokens : cache[t].until \in Nat /\ cache[t].row.rev \in Nat
      /\ \A s \in Signals : seen[s].rev \in Nat /\ loadedAt[s] \in Nat
  BY DEF TypeOK, Rows, Entries
<1>3. ASSUME NEW t \in Tokens
      PROVE  /\ cache'[t].until <= now' + TTL
             /\ cache'[t].until > 0 => Faithful(cache[t].row, t)'
             /\ cache'[t].until <= changed' + Delay + TTL
  BY <1>1, <1>2 DEF EntriesOK, Faithful
<1>4. EntriesOK' /\ StaleUntilTTL'
  BY <1>3 DEF EntriesOK, StaleUntilTTL
<1>5. ASSUME NEW s \in Signals, step'[s] = "warm"
      PROVE  /\ loadedAt'[s] <= now'
             /\ now' <= loadedAt'[s] + Delay
             /\ Faithful(seen[s], token[s])'
             /\ loadedAt'[s] <= changed'
  BY <1>1, <1>2, <1>5 DEF WarmersOK, Faithful, signalVars
<1>6. WarmersOK'
  BY <1>5 DEF WarmersOK
<1> QED
  BY <1>1, <1>4, <1>6

\* Everything the timing argument is about.
core == <<now, rowVars, cache, signalVars>>

\* A step that touches none of it.
LEMMA CoreFrame ==
    ASSUME ConfigInv, UNCHANGED core
    PROVE  RowOK' /\ EntriesOK' /\ WarmersOK' /\ StaleUntilTTL'
  BY DEF ConfigInv, RowOK, EntriesOK, WarmersOK, StaleUntilTTL, Faithful, core,
     rowVars, signalVars

\* Owners and the platform: each either changes the row, or drops an entry, or
\* does neither.
LEMMA WriterInv ==
    ASSUME ConfigInv,
           \/ \E o \in Owners : OwnerRead(o) \/ OwnerWrite(o) \/ OwnerDrop(o)
           \/ PauseAll \/ SwitchMode \/ SweepWebhooks
    PROVE  TypeOK' /\ RowOK' /\ EntriesOK' /\ WarmersOK' /\ StaleUntilTTL'
<1> USE ConfigConstantsOK DEF ConfigConstantsOK, ConfigInv
<1> DEFINE Rest == RowOK' /\ EntriesOK' /\ WarmersOK' /\ StaleUntilTTL'
<1>0. /\ hook \in Rows
      /\ hook.rev \in Nat
      /\ hook.token \in Nat
      /\ hook.token <= hook.rev
      /\ now \in Nat
  BY DEF TypeOK, Rows, Tokens, RowOK
<1>1. ASSUME NEW row \in Rows, Change(row), row.token <= hook.rev + 1,
             UNCHANGED <<now, cache, signalVars>>
      PROVE  hook' \in Rows /\ changed' \in Nat /\ Rest
  BY <1>0, <1>1, ChangeFacts, ChangeInv
<1>2. ASSUME NEW o \in Owners, OwnerRead(o) PROVE TypeOK' /\ Rest
  <2>1. UNCHANGED core
    BY <1>2 DEF OwnerRead, core
  <2>2. TypeOK'
    BY <1>0, <1>2 DEF OwnerRead, TypeOK, rowVars, signalVars
  <2> QED
    BY <2>1, <2>2, CoreFrame
<1>3. ASSUME NEW o \in Owners, OwnerWrite(o) PROVE TypeOK' /\ Rest
  <2>1. CASE hook.status = "deleted"
    <3>1. UNCHANGED core
      BY <1>3, <2>1 DEF OwnerWrite, core
    <3>2. TypeOK'
      BY <1>3, <2>1 DEF OwnerWrite, TypeOK, rowVars, signalVars
    <3> QED
      BY <3>1, <3>2, CoreFrame
  <2>2. CASE hook.status # "deleted"
    <3>1. /\ ostep[o] \in OwnerOps
          /\ Change(Written(ostep[o]))
          /\ UNCHANGED <<now, credOff, sweep, cache, signalVars, answered>>
      BY <1>3, <2>2 DEF OwnerWrite
    <3>2. hook.rev < MaxRev
      BY <3>1 DEF Change
    <3>3. Written(ostep[o]) \in Rows /\ Written(ostep[o]).token <= hook.rev + 1
      BY <3>1, <3>2, WrittenFacts
    <3>4. hook' \in Rows /\ changed' \in Nat /\ Rest
      BY <1>1, <3>1, <3>3
    <3>6. read' \in [Owners -> Rows]
      <4>1. /\ hook.rev + 1 \in 0..MaxRev
            /\ read[o] \in Rows
            /\ read \in [Owners -> Rows]
        BY <1>0, <3>2 DEF TypeOK
      <4>2. [read[o] EXCEPT !.rev = hook.rev + 1] \in Rows
        BY <4>1 DEF Rows
      <4>3. read' = [read EXCEPT ![o] = [read[o] EXCEPT !.rev = hook.rev + 1]]
        BY <1>3, <2>2 DEF OwnerWrite
      <4> QED
        BY <4>1, <4>2, <4>3
    <3>7. ostep' \in [Owners -> {"idle", "drop"} \cup OwnerOps]
      BY <1>3, <2>2 DEF OwnerWrite, TypeOK
    <3> QED
      BY <3>1, <3>4, <3>6, <3>7 DEF TypeOK, signalVars
  <2> QED
    BY <2>1, <2>2
<1>4. ASSUME NEW o \in Owners, OwnerDrop(o) PROVE TypeOK' /\ Rest
  <2>0. /\ cache \in [Tokens -> Entries]
        /\ read[o] \in Rows
        /\ read[o].token \in Tokens
        /\ read[o].rev \in 0..MaxRev
    BY DEF TypeOK, Rows
  <2>1. UNCHANGED <<now, rowVars, signalVars>>
    BY <1>4 DEF OwnerDrop
  <2>2. /\ cache' \in [Tokens -> Entries]
        /\ \A t \in Tokens : /\ cache'[t].row = cache[t].row
                             /\ cache'[t].until \in {0, cache[t].until}
    <3>1. cache[read[o].token] \in Entries
      BY <2>0
    <3>2. CASE cache' = cache
      BY <2>0, <3>2
    <3>3. CASE cache' = [cache EXCEPT ![read[o].token] =
                             [cache[read[o].token] EXCEPT !.until = 0]]
      <4>1. LET e == [cache[read[o].token] EXCEPT !.until = 0]
            IN  e \in Entries /\ e.row = cache[read[o].token].row /\ e.until = 0
        BY <3>1 DEF Entries
      <4> QED
        BY <2>0, <3>3, <4>1
    <3> QED
      BY <1>4, <3>2, <3>3 DEF OwnerDrop
  <2>3. TypeOK'
    <3>1. read' \in [Owners -> Rows]
      BY <1>4 DEF OwnerDrop, TypeOK, FirstRow, Rows, Statuses, Tokens
    <3>2. answered' \in 0..MaxRev
      BY <1>4, <2>0 DEF OwnerDrop, TypeOK
    <3>3. ostep' \in [Owners -> {"idle", "drop"} \cup OwnerOps]
      BY <1>4 DEF OwnerDrop, TypeOK
    <3> QED
      BY <1>4, <2>1, <2>2, <3>1, <3>2, <3>3 DEF OwnerDrop, TypeOK, rowVars, signalVars
  <2>4. \A t \in Tokens : cache[t].until \in Nat
    BY <2>0 DEF Entries
  <2>5. RowOK' /\ WarmersOK'
    BY <2>1 DEF RowOK, WarmersOK, Faithful, rowVars, signalVars
  <2>6. \A t \in Tokens :
            /\ cache'[t].until <= now' + TTL
            /\ cache'[t].until > 0 => Faithful(cache[t].row, t)'
            /\ cache'[t].until > 0 /\ cache'[t].row.rev # hook'.rev =>
                  cache'[t].until <= changed' + Delay + TTL
    BY <1>0, <2>1, <2>2, <2>4 DEF EntriesOK, StaleUntilTTL, Faithful, rowVars
  <2>7. EntriesOK' /\ StaleUntilTTL'
    BY <2>6 DEF EntriesOK, StaleUntilTTL
  <2> QED
    BY <2>3, <2>5, <2>7
<1>5. ASSUME PauseAll PROVE TypeOK' /\ Rest
  <2>1. /\ [hook EXCEPT !.status = "paused"] \in Rows
        /\ [hook EXCEPT !.status = "paused"].token = hook.token
    BY <1>0 DEF Rows, Statuses
  <2>2. /\ Change([hook EXCEPT !.status = "paused"])
        /\ UNCHANGED <<now, cache, signalVars>>
    BY <1>5 DEF PauseAll
  <2>3. hook.token <= hook.rev + 1
    BY <1>0
  <2>4. hook' \in Rows /\ changed' \in Nat /\ Rest
    BY <1>1, <2>1, <2>2, <2>3
  <2> QED
    BY <1>5, <2>4 DEF PauseAll, TypeOK, signalVars, ownerVars
<1>6. ASSUME SwitchMode PROVE TypeOK' /\ Rest
  <2>1. UNCHANGED core
    BY <1>6 DEF SwitchMode, core
  <2>2. TypeOK'
    BY <1>6 DEF SwitchMode, TypeOK, rowVars, signalVars, ownerVars
  <2> QED
    BY <2>1, <2>2, CoreFrame
<1>7. ASSUME SweepWebhooks PROVE TypeOK' /\ Rest
  <2>0. UNCHANGED <<now, credOff, cache, signalVars, ownerVars>>
        /\ sweep' = "none"
    BY <1>7 DEF SweepWebhooks
  <2>1. CASE UNCHANGED <<hook, changed>>
    <3>1. UNCHANGED core
      BY <2>0, <2>1 DEF core, rowVars
    <3>2. TypeOK'
      BY <2>0, <2>1 DEF TypeOK, signalVars, ownerVars
    <3> QED
      BY <3>1, <3>2, CoreFrame
  <2>2. /\ [hook EXCEPT !.status = "paused", !.disabled = TRUE] \in Rows
        /\ [hook EXCEPT !.status = "paused", !.disabled = TRUE].token = hook.token
        /\ [hook EXCEPT !.disabled = FALSE] \in Rows
        /\ [hook EXCEPT !.disabled = FALSE].token = hook.token
    BY <1>0 DEF Rows, Statuses
  <2>3. CASE \/ Change([hook EXCEPT !.status = "paused", !.disabled = TRUE])
             \/ Change([hook EXCEPT !.disabled = FALSE])
    <3>0. hook.token <= hook.rev + 1
      BY <1>0
    <3>1. hook' \in Rows /\ changed' \in Nat /\ Rest
      BY <1>1, <2>0, <2>2, <2>3, <3>0
    <3> QED
      BY <2>0, <3>1 DEF TypeOK, signalVars, ownerVars
  <2> QED
    BY <1>7, <2>1, <2>3 DEF SweepWebhooks
<1> QED
  BY <1>2, <1>3, <1>4, <1>5, <1>6, <1>7

\* A handler's own step leaves the entries and the other handlers as they are.
LEMMA SignalFrame ==
    ASSUME ConfigInv, NEW s \in Signals,
           UNCHANGED <<now, rowVars, cache>>,
           \A q \in Signals : q # s => /\ step'[q] = step[q]
                                       /\ token'[q] = token[q]
                                       /\ seen'[q] = seen[q]
                                       /\ loadedAt'[q] = loadedAt[q],
           step'[s] # "warm"
    PROVE  RowOK' /\ EntriesOK' /\ WarmersOK' /\ StaleUntilTTL'
  BY DEF ConfigInv, RowOK, EntriesOK, WarmersOK, StaleUntilTTL, Faithful, rowVars

\* Ingestion keeps the invariant: it warms the cache with what it loaded no
\* longer than Delay ago.
LEMMA SignalInv ==
    ASSUME ConfigInv, NEW s \in Signals,
           Arrive(s) \/ LookupCache(s) \/ LoadRow(s) \/ Warm(s)
    PROVE  TypeOK' /\ RowOK' /\ EntriesOK' /\ WarmersOK' /\ StaleUntilTTL'
<1> USE ConfigConstantsOK DEF ConfigConstantsOK, ConfigInv
<1> DEFINE Rest == RowOK' /\ EntriesOK' /\ WarmersOK' /\ StaleUntilTTL'
           Steps == {"unsent", "lookup", "load", "warm", "done"}
<1>0. /\ hook \in Rows
      /\ hook.token \in Nat
      /\ hook.token <= MaxRev
      /\ now \in Nat
      /\ step \in [Signals -> Steps]
      /\ verdict \in [Signals -> {"none", "accepted", "refused"}]
      /\ token \in [Signals -> Tokens]
      /\ seen \in [Signals -> Rows]
      /\ loadedAt \in [Signals -> Nat]
      /\ cache \in [Tokens -> Entries]
  BY DEF TypeOK, Rows, Tokens
<1>1. ASSUME NEW row, Judge(s, row)
      PROVE  /\ step' = [step EXCEPT ![s] = "done"]
             /\ step' \in [Signals -> Steps]
             /\ verdict' \in [Signals -> {"none", "accepted", "refused"}]
  BY <1>0, <1>1 DEF Judge
<1>2. ASSUME Arrive(s) PROVE TypeOK' /\ Rest
  <2>1. token' \in [Signals -> Tokens] /\ \A q \in Signals : q # s => token'[q] = token[q]
    BY <1>0, <1>2 DEF Arrive, Tokens
  <2>2. TypeOK'
    BY <1>2, <2>1 DEF Arrive, TypeOK, rowVars, ownerVars
  <2>3. Rest
    BY <1>0, <1>2, <2>1, SignalFrame DEF Arrive
  <2> QED
    BY <2>2, <2>3
<1>3. ASSUME LookupCache(s) PROVE TypeOK' /\ Rest
  <2>1. /\ step' = [step EXCEPT ![s] = "done"] \/ step' = [step EXCEPT ![s] = "load"]
        /\ verdict' \in [Signals -> {"none", "accepted", "refused"}]
    BY <1>0, <1>1, <1>3 DEF LookupCache
  <2>2. UNCHANGED <<now, rowVars, credOff, sweep, cache, token, seen, loadedAt, known,
                    ownerVars>>
    BY <1>3 DEF LookupCache
  <2>3. TypeOK'
    BY <1>0, <2>1, <2>2 DEF TypeOK, rowVars, ownerVars
  <2>4. Rest
    BY <1>0, <2>1, <2>2, SignalFrame
  <2> QED
    BY <2>3, <2>4
<1>4. ASSUME LoadRow(s) PROVE TypeOK' /\ Rest
  <2>1. UNCHANGED <<now, rowVars, credOff, sweep, cache, token, known, ownerVars>>
    BY <1>4 DEF LoadRow
  <2>2. CASE /\ hook.token = token[s]
             /\ seen' = [seen EXCEPT ![s] = hook]
             /\ loadedAt' = [loadedAt EXCEPT ![s] = now]
             /\ step' = [step EXCEPT ![s] = "warm"]
             /\ verdict' = verdict
    <3>1. TypeOK'
      BY <1>0, <2>1, <2>2 DEF TypeOK, rowVars, ownerVars
    <3>2. RowOK' /\ EntriesOK' /\ StaleUntilTTL'
      BY <2>1 DEF RowOK, EntriesOK, StaleUntilTTL, Faithful, rowVars
    <3>3. hook.rev \in Nat
      BY <1>0 DEF Rows
    <3>4. WarmersOK'
      BY <1>0, <2>1, <2>2, <3>3 DEF WarmersOK, Faithful, rowVars
    <3> QED
      BY <3>1, <3>2, <3>4
  <2>3. CASE /\ Judge(s, [hook EXCEPT !.status = "deleted"])
             /\ UNCHANGED <<seen, loadedAt>>
    <3>1. TypeOK'
      BY <1>1, <2>1, <2>3 DEF TypeOK, rowVars, ownerVars
    <3>2. Rest
      BY <1>0, <1>1, <2>1, <2>3, SignalFrame
    <3> QED
      BY <3>1, <3>2
  <2> QED
    BY <1>4, <2>2, <2>3 DEF LoadRow
<1>5. ASSUME Warm(s) PROVE TypeOK' /\ Rest
  <2> DEFINE e == [until |-> now + TTL, row |-> seen[s]]
  <2>1. /\ step[s] = "warm"
        /\ UNCHANGED <<now, rowVars, credOff, sweep, token, known, ownerVars>>
        /\ Judge(s, seen[s])
        /\ cache' = cache \/ cache' = [cache EXCEPT ![token[s]] = e]
    BY <1>5 DEF Warm
  <2>2. FirstRow \in Rows
    BY DEF FirstRow, Rows, Statuses, Tokens
  <2>3. /\ seen' \in [Signals -> Rows]
        /\ loadedAt' \in [Signals -> Nat]
        /\ \A q \in Signals : q # s => seen'[q] = seen[q] /\ loadedAt'[q] = loadedAt[q]
    BY <1>0, <1>5, <2>2 DEF Warm, Forget
  <2>4. cache' \in [Tokens -> Entries]
    BY <1>0, <2>1 DEF Entries
  <2>5. TypeOK'
    BY <1>1, <2>1, <2>3, <2>4 DEF TypeOK, rowVars, ownerVars
  <2>6. WarmersOK'
    BY <1>0, <1>1, <2>1, <2>3 DEF WarmersOK, Faithful, rowVars
  <2>7. /\ changed \in Nat
        /\ loadedAt[s] <= now
        /\ now <= loadedAt[s] + Delay
        /\ Faithful(seen[s], token[s])
        /\ seen[s].rev # hook.rev => loadedAt[s] <= changed
    BY <2>1 DEF WarmersOK, TypeOK
  <2>8. ASSUME NEW t \in Tokens
        PROVE  /\ cache'[t].until <= now' + TTL
               /\ cache'[t].until > 0 => Faithful(cache[t].row, t)'
               /\ cache'[t].until > 0 /\ cache'[t].row.rev # hook'.rev =>
                     cache'[t].until <= changed' + Delay + TTL
    <3>1. hook' = hook /\ now' = now /\ changed' = changed
      BY <2>1 DEF rowVars
    <3>2. CASE cache'[t] = cache[t]
      BY <3>1, <3>2 DEF EntriesOK, StaleUntilTTL, Faithful
    <3>3. CASE t = token[s] /\ cache'[t] = e
      <4>1. e.until = now + TTL /\ e.row = seen[s]
        OBVIOUS
      <4>2. loadedAt[s] \in Nat
        BY <1>0
      <4>3. Faithful(cache[t].row, t)'
        BY <2>7, <3>1, <3>3, <4>1 DEF Faithful
      <4>4. seen[s].rev # hook.rev => now + TTL <= changed + Delay + TTL
        BY <1>0, <2>7, <4>2
      <4> QED
        BY <1>0, <3>1, <3>3, <4>1, <4>3, <4>4
    <3> QED
      BY <1>0, <2>1, <3>2, <3>3
  <2>9. EntriesOK' /\ StaleUntilTTL'
    BY <2>8 DEF EntriesOK, StaleUntilTTL
  <2>10. RowOK'
    BY <2>1 DEF RowOK, rowVars
  <2> QED
    BY <2>5, <2>6, <2>9, <2>10
<1> QED
  BY <1>2, <1>3, <1>4, <1>5

\* Time does not pass a handler that is about to warm the cache by more than
\* Delay.
LEMMA TickInv ==
    ASSUME ConfigInv, Tick
    PROVE  TypeOK' /\ RowOK' /\ EntriesOK' /\ WarmersOK' /\ StaleUntilTTL'
<1> USE ConfigConstantsOK DEF ConfigConstantsOK, ConfigInv
<1>1. /\ now' = now + 1
      /\ UNCHANGED <<rowVars, credOff, sweep, cache, signalVars, ownerVars>>
      /\ \A s \in Signals : step[s] = "warm" => now < loadedAt[s] + Delay
  BY DEF Tick
<1>2. /\ now \in Nat /\ changed \in Nat
      /\ \A t \in Tokens : cache[t].until \in Nat
      /\ \A s \in Signals : loadedAt[s] \in Nat
  BY DEF TypeOK, Entries
<1>3. TypeOK'
  BY <1>1, <1>2 DEF TypeOK, rowVars, signalVars, ownerVars
<1>4. RowOK'
  BY <1>1, <1>2 DEF RowOK, rowVars
<1>5. EntriesOK' /\ StaleUntilTTL'
  BY <1>1, <1>2 DEF EntriesOK, StaleUntilTTL, Faithful, rowVars
<1>6. WarmersOK'
  BY <1>1, <1>2 DEF WarmersOK, Faithful, rowVars, signalVars
<1> QED
  BY <1>3, <1>4, <1>5, <1>6

\* Every step preserves the invariant.
LEMMA ConfigNext == ASSUME ConfigInv, [Next]_vars PROVE ConfigInv'
<1>1. CASE UNCHANGED vars
  <2>1. TypeOK'
    BY <1>1 DEF ConfigInv, TypeOK, vars, rowVars, signalVars, ownerVars
  <2>2. UNCHANGED core
    BY <1>1 DEF vars, core
  <2> QED
    BY <2>1, <2>2, CoreFrame DEF ConfigInv
<1> QED
  BY <1>1, SignalInv, WriterInv, TickInv DEF Next, ConfigInv

\* The invariant holds however owners, platform, signals and a failing Redis
\* interleave.
THEOREM ConfigInvariance == Spec => []ConfigInv
<1>1. Init => ConfigInv
  BY ConfigInit
<1>2. ConfigInv /\ [Next]_vars => ConfigInv'
  BY ConfigNext
<1> QED
  BY <1>1, <1>2, PTL DEF Spec

\* A copy of an outdated revision never outlives the change by more than a TTL
\* and the delay of a handler that was loading it.
THEOREM StaleEntriesExpire == Spec => []StaleUntilTTL
<1>1. ConfigInv => StaleUntilTTL
  BY DEF ConfigInv
<1> QED
  BY <1>1, ConfigInvariance, PTL

\* Whatever is lost or raced, a webhook that was paused, deleted or given a new
\* token more than a TTL and a delay ago accepts no signal.
THEOREM PauseBitesWithinTTL == Spec => AcceptedWithinTTL
<1>1. ASSUME ConfigInv, [Next]_vars PROVE AcceptsWithinTTL
  <2> SUFFICES ASSUME NEW s \in Signals,
                      verdict[s] # "accepted", verdict'[s] = "accepted"
               PROVE  \/ hook.status = "active" /\ hook.token = token[s]
                      \/ now <= changed + Delay + TTL
    BY DEF AcceptsWithinTTL
  <2> USE ConfigConstantsOK DEF ConfigConstantsOK
  <2>0. /\ verdict \in [Signals -> {"none", "accepted", "refused"}]
        /\ token[s] \in Tokens
        /\ now \in Nat /\ changed \in Nat
        /\ loadedAt[s] \in Nat
        /\ cache[token[s]].until \in Nat
    BY <1>1 DEF ConfigInv, TypeOK, Entries
  <2>1. PICK q \in Signals : LookupCache(q) \/ LoadRow(q) \/ Warm(q)
    BY <1>1 DEF Next, Arrive, OwnerRead, OwnerWrite, OwnerDrop, PauseAll,
       SwitchMode, SweepWebhooks, Tick, vars, signalVars
  <2>2. ASSUME NEW row, Judge(q, row) PROVE q = s /\ row.status = "active"
    BY <2>0, <2>2 DEF Judge
  <2>3. CASE LookupCache(q)
    <3>1. q = s /\ Alive(token[s]) /\ cache[token[s]].row.status = "active"
      BY <2>2, <2>3 DEF LookupCache
    <3>2. now < cache[token[s]].until /\ cache[token[s]].until > 0
      BY <2>0, <3>1 DEF Alive
    <3>3. CASE cache[token[s]].row.rev = hook.rev
      BY <1>1, <2>0, <3>1, <3>2, <3>3 DEF ConfigInv, EntriesOK, Faithful
    <3>4. CASE cache[token[s]].row.rev # hook.rev
      <4>1. cache[token[s]].until <= changed + Delay + TTL
        BY <1>1, <2>0, <3>2, <3>4 DEF ConfigInv, StaleUntilTTL
      <4> QED
        BY <2>0, <3>2, <4>1
    <3> QED
      BY <3>3, <3>4
  <2>4. CASE LoadRow(q)
    <3>1. Judge(q, [hook EXCEPT !.status = "deleted"])
      BY <2>4 DEF LoadRow
    <3>2. [hook EXCEPT !.status = "deleted"].status = "deleted"
      BY <1>1 DEF ConfigInv, TypeOK, Rows
    <3> QED
      BY <2>2, <3>1, <3>2
  <2>5. CASE Warm(q)
    <3>1. q = s /\ step[s] = "warm" /\ seen[s].status = "active"
      BY <2>2, <2>5 DEF Warm
    <3>2. /\ now <= loadedAt[s] + Delay
          /\ Faithful(seen[s], token[s])
          /\ seen[s].rev # hook.rev => loadedAt[s] <= changed
      BY <1>1, <3>1 DEF ConfigInv, WarmersOK
    <3> QED
      BY <2>0, <3>1, <3>2 DEF Faithful
  <2> QED
    BY <2>1, <2>3, <2>4, <2>5
<1>2. ConfigInv /\ [Next]_vars => [AcceptsWithinTTL]_vars
  BY <1>1
<1> QED
  BY <1>2, ConfigInvariance, PTL DEF Spec, AcceptedWithinTTL
=============================================================================
