------------------------------ MODULE TradePush ------------------------------
(* The live trade feed (transport/websocket/hub.go): whoever writes a trade *)
(* row looks up who may see it and hands the row to the hub, which queues   *)
(* it for each of their connections without ever waiting for one.  A        *)
(* connection has a read goroutine and a write pump; whichever of them sees *)
(* the connection fail first unregisters it.  The pump writes without a     *)
(* deadline: it waits for a client that is there and does not read.         *)
EXTENDS Integers, FiniteSets, Sequences

CONSTANTS Users, Conns,
          SendBuffer,      \* sendBuffer: messages a connection's queue holds
          MaxWrites        \* bound: rows written in a behaviour

ASSUME PushConstantsOK == SendBuffer \in Nat \ {0} /\ MaxWrites \in Nat

Writes == 1..MaxWrites

VARIABLES feed,     \* who owns the webhook, its organisation, who opens which connection, bounds
          writes,   \* rows and marks written so far
          pushes,   \* write -> how far the goroutine that wrote it has got
          clients,  \* Hub.clients: the registered connections
          conn,     \* connection -> its socket, goroutines and queue
          got,      \* connection -> the writes its browser has shown
          missed    \* connection -> the writes that had a reason not to reach it

pushVars == <<feed, writes, pushes, clients, conn, got, missed>>

\* What the pump can be writing beside the updates.
Pong == 0

\* wire: "up"; "stalled", the client is there and does not read, and the buffers
\* between are full; "mute", it acknowledges nothing; "gone"; "closed" by the pump.
\* writing: the message of the WriteMessage the pump is in.
Absent == [wire |-> "none", reader |-> FALSE, pump |-> FALSE, done |-> FALSE,
           queue |-> << >>, pong |-> FALSE, writing |-> {}]
ClientRows == [wire : {"none", "up", "stalled", "mute", "gone", "closed"}, reader : BOOLEAN,
               pump : BOOLEAN, done : BOOLEAN, queue : Seq(Writes), pong : BOOLEAN,
               writing : SUBSET ({Pong} \cup Writes)]

User(c) == feed.opens[c]
Opened == DOMAIN feed.opens
Connected(c) == conn[c].wire \in {"up", "stalled"} /\ conn[c].reader /\ conn[c].pump

Excuse(n, cs) == [c \in Conns |-> IF c \in cs THEN missed[c] \cup {n} ELSE missed[c]]

-----------------------------------------------------------------------------
(* Writers. *)

Unwritten == [at |-> "none", users |-> {}, sends |-> {}]
Pushed == [Unwritten EXCEPT !.at = "done"]

\* A trade row is inserted or settled; a mark goes to the owner of the paper
\* account without a look-up; a cancelled order, an execution event and a
\* publisher callback change the row and tell nobody.
Write(kind) ==
    LET n == writes + 1
    IN /\ writes < MaxWrites
       /\ writes' = n
       /\ pushes' = [pushes EXCEPT ![n] =
             CASE kind = "trade"  -> [@ EXCEPT !.at = "look up"]
               [] kind = "mark"   -> [@ EXCEPT !.at = "send", !.users = {feed.owner}]
               [] kind = "silent" -> Pushed]
       /\ missed' = CASE kind = "silent" -> Excuse(n, Conns)
                      [] kind = "mark"   -> Excuse(n, {c \in Opened : User(c) # feed.owner})
                      [] OTHER           -> missed
       /\ UNCHANGED <<feed, clients, conn, got>>

\* TradeRecipients: the owner, and the active members when the list can be read.
TradeRecipients(listed) == {feed.owner} \cup (IF listed THEN feed.members ELSE {})

LookUp(n) ==
    /\ pushes[n].at = "look up"
    /\ \E found \in {TRUE, feed.steady}, listed \in {TRUE, feed.steady} :
          LET users == IF found THEN TradeRecipients(listed) ELSE {}
          IN /\ pushes' = [pushes EXCEPT ![n] =
                    IF found THEN [@ EXCEPT !.at = "send", !.users = users] ELSE Pushed]
             /\ missed' = Excuse(n, {c \in Opened : User(c) \notin users})
    /\ UNCHANGED <<feed, writes, clients, conn, got>>

\* broadcast copies the set under the lock and sends after releasing it.
Snapshot(n, u) ==
    /\ pushes[n].at = "send" /\ pushes[n].sends = {} /\ u \in pushes[n].users
    /\ pushes' = [pushes EXCEPT ![n].users = @ \ {u},
                                ![n].sends = {c \in clients : User(c) = u}]
    /\ UNCHANGED <<feed, writes, clients, conn, got, missed>>

Enqueue(n, c) == /\ Len(conn[c].queue) < SendBuffer
                 /\ conn' = [conn EXCEPT ![c].queue = Append(@, n)]
                 /\ UNCHANGED missed
Drop(n, c) == /\ conn[c].done \/ Len(conn[c].queue) = SendBuffer
              /\ missed' = Excuse(n, {c})
              /\ UNCHANGED conn

Send(n, c) ==
    /\ pushes[n].at = "send" /\ c \in pushes[n].sends
    /\ pushes' = [pushes EXCEPT ![n].sends = @ \ {c}]
    /\ Enqueue(n, c) \/ Drop(n, c)
    /\ UNCHANGED <<feed, writes, clients, got>>

PushEnds(n) ==
    /\ pushes[n].at = "send" /\ pushes[n].users = {} /\ pushes[n].sends = {}
    /\ pushes' = [pushes EXCEPT ![n] = Pushed]
    /\ UNCHANGED <<feed, writes, clients, conn, got, missed>>

-----------------------------------------------------------------------------
(* Connections. *)

\* A push that has already copied the user's connections passes a new one by.
StillToCopy(n, u) == pushes[n].at = "look up" \/ u \in pushes[n].users

Register(c) ==
    /\ conn[c] = Absent
    /\ conn' = [conn EXCEPT ![c] = [@ EXCEPT !.wire = "up", !.reader = TRUE, !.pump = TRUE]]
    /\ clients' = clients \cup {c}
    /\ missed' = [missed EXCEPT ![c] = {n \in 1..writes : ~StillToCopy(n, User(c))}]
    /\ UNCHANGED <<feed, writes, pushes, got>>

\* Mutant: the user's whole entry is deleted with the first connection to go.
UnregisteredAll(c) == {d \in clients : User(d) # User(c)}

\* unregister runs once per client: it deletes the client and closes done.
Unregistered(c) == clients \ {c}

\* The client leaves; stops reading; or acknowledges nothing any more while
\* the server's reads do not fail.
Fails(c, how) ==
    /\ how \in feed.fails
    /\ conn[c].wire \in {"up", "stalled", "mute"}
    /\ conn[c].wire = "mute" => how = "gone"
    /\ conn[c].wire # how
    /\ conn' = [conn EXCEPT ![c].wire = how]
    /\ UNCHANGED <<feed, writes, pushes, clients, got, missed>>

\* A client that had stalled reads on.
ReadsOn(c) ==
    /\ conn[c].wire = "stalled"
    /\ conn' = [conn EXCEPT ![c].wire = "up"]
    /\ UNCHANGED <<feed, writes, pushes, clients, got, missed>>

\* The ping handler leaves a pong for the pump and drops it when one is waiting.
Ping(c) ==
    /\ "ping" \in feed.fails
    /\ conn[c].reader /\ conn[c].wire \in {"up", "stalled", "mute"} /\ ~conn[c].pong
    /\ conn' = [conn EXCEPT ![c].pong = TRUE]
    /\ UNCHANGED <<feed, writes, pushes, clients, got, missed>>

\* WsTrades: the read loop ends with an error and runs the clean-up.
ReadFails(c) ==
    /\ conn[c].reader /\ conn[c].wire \in {"gone", "closed"}
    /\ conn' = [conn EXCEPT ![c].reader = FALSE, ![c].done = TRUE]
    /\ clients' = Unregistered(c)
    /\ UNCHANGED <<feed, writes, pushes, got, missed>>

\* Mutant: the pump unregisters the client and leaves the connection open.
ClosedWithoutHangUp(row) == [row EXCEPT !.pump = FALSE, !.done = TRUE, !.writing = {}]

\* The pump's deferred calls.
Closed(row) == [row EXCEPT !.pump = FALSE, !.done = TRUE, !.writing = {}, !.wire = "closed"]

PumpEnds(c) ==
    /\ conn' = [conn EXCEPT ![c] = Closed(@)]
    /\ clients' = Unregistered(c)

\* The select: any of the cases that are ready.
Picks(c) ==
    /\ conn[c].pump /\ conn[c].writing = {}
    /\ \/ conn[c].done /\ PumpEnds(c)
       \/ /\ conn[c].pong
          /\ conn' = [conn EXCEPT ![c].pong = FALSE, ![c].writing = {Pong}]
          /\ UNCHANGED clients
       \/ /\ conn[c].queue # << >>
          /\ conn' = [conn EXCEPT ![c].queue = Tail(@), ![c].writing = {Head(conn[c].queue)}]
          /\ UNCHANGED clients
    /\ UNCHANGED <<feed, writes, pushes, got, missed>>

\* A message leaves for the browser; one written to a client that has gone
\* may still be taken by the network.
Taken(c) ==
    /\ conn[c].wire \in {"up", "gone"}
    /\ conn' = [conn EXCEPT ![c].writing = {}]
    /\ got' = IF conn[c].wire = "up" THEN [got EXCEPT ![c] = @ \cup (conn[c].writing \ {Pong})] ELSE got
    /\ UNCHANGED clients

\* WriteMessage returns, except to a client that has stalled: no deadline is set.
WriteReturns(c) ==
    /\ conn[c].pump /\ conn[c].writing # {}
    /\ \/ Taken(c)
       \/ conn[c].wire \notin {"up", "stalled"} /\ PumpEnds(c) /\ UNCHANGED got
    /\ UNCHANGED <<feed, writes, pushes, missed>>

-----------------------------------------------------------------------------
PushInit(feeds) ==
    /\ feed \in feeds
    /\ writes = 0
    /\ pushes = [n \in Writes |-> Unwritten]
    /\ clients = {}
    /\ conn = [c \in Conns |-> Absent]
    /\ got = [c \in Conns |-> {}]
    /\ missed = [c \in Conns |-> {}]

PushNext ==
    \/ \E kind \in feed.kinds : Write(kind)
    \/ \E n \in Writes : LookUp(n) \/ PushEnds(n)
    \/ \E n \in Writes, u \in Users : Snapshot(n, u)
    \/ \E n \in Writes, c \in Conns : Send(n, c)
    \/ \E c \in Opened :
          \/ Register(c)
          \/ \E how \in {"gone", "stalled", "mute"} : Fails(c, how)
          \/ ReadsOn(c) \/ Ping(c) \/ ReadFails(c) \/ Picks(c) \/ WriteReturns(c)

\* Any owner, members, connections and faults.
FeedRows == [owner : Users, members : SUBSET Users,
             opens : UNION {[S -> Users] : S \in SUBSET Conns}, steady : BOOLEAN,
             kinds : SUBSET {"trade", "mark", "silent"}, fails : SUBSET {"gone", "stalled", "mute", "ping"}]

PushSpec == PushInit(FeedRows) /\ [][PushNext]_pushVars

\* Goroutines are scheduled: a failed read returns, a pump with work picks it
\* up, and a write returns unless its client has stalled, where WriteReturns is
\* not enabled.  Nothing makes a stalled client read on or leave.
PushFairness ==
    \A c \in Conns :
        WF_pushVars(ReadFails(c)) /\ WF_pushVars(Picks(c)) /\ WF_pushVars(WriteReturns(c))

-----------------------------------------------------------------------------
(* Properties. *)

PushTypeOK ==
    /\ feed \in FeedRows
    /\ writes \in 0..MaxWrites
    /\ pushes \in [Writes -> [at : {"none", "look up", "send", "done"},
                             users : SUBSET Users, sends : SUBSET Conns]]
    /\ clients \subseteq Conns
    /\ conn \in [Conns -> ClientRows]
    /\ got \in [Conns -> SUBSET Writes] /\ missed \in [Conns -> SUBSET Writes]

Due(n, c) == StillToCopy(n, User(c)) \/ c \in pushes[n].sends

Waiting(c) == conn[c].writing \cup {conn[c].queue[i] : i \in DOMAIN conn[c].queue}

\* Whatever connections come and go beside it, a connection that works loses
\* an update only for a reason of its own: it was opened after the hub had
\* copied the user's connections, its own queue was full, its user is no
\* recipient or the look-up failed, or the writer never pushes
\* (hub.go:107-119 deletes one client of a user who may have several while
\* broadcast, hub.go:182-199, works on a copy).
FeedHasNoGaps ==
    \A c \in Opened, n \in 1..writes :
        Connected(c) => n \in got[c] \cup missed[c] \cup Waiting(c) \/ Due(n, c)

\* A connection that works is registered; with this FeedHasNoGaps is inductive.
Listed == \A c \in Opened : Connected(c) => c \in clients

FeedInv == PushTypeOK /\ Listed /\ FeedHasNoGaps

\* A client that has gone, or that acknowledges nothing while something is
\* being written or waits to be, is unregistered and leaves neither goroutine
\* behind, also when its pump was waiting for it in a write: the pump closes the
\* connection, which ends the read loop, and the read loop's clean-up ends an
\* idle pump (hub.go:84-87, signals/handler.go:263-274).
GoneIsForgotten ==
    \A c \in Conns :
        (\/ conn[c].wire = "gone"
         \/ conn[c].wire = "mute" /\ (conn[c].queue # << >> \/ conn[c].writing # {}))
            ~> (c \notin clients /\ ~conn[c].reader /\ ~conn[c].pump)

\* Does not hold: a client that stays and does not read keeps its pump in the
\* write, and its place in the hub, for ever (hub.go:93,100 set no deadline).
WritesReturn == \A c \in Conns : conn[c].writing # {} ~> conn[c].writing = {}
=============================================================================
