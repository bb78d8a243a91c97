-------------------------------- MODULE WsServer --------------------------------
(***************************************************************************)
(* The WebSocket connections of one chain's clients (src/ws/handler.rs)    *)
(* and their subscriptions (src/ws/subscription.rs).  A connection has a   *)
(* task that reads and handles the client's messages one after the other,  *)
(* a dispatcher that turns block events into notifications, and a          *)
(* forwarder that writes what both of them queue to the socket.  The       *)
(* counters of connections and subscriptions are shared by all.            *)
(*                                                                         *)
(* The events are those of the chain's tracker, in the order of Feed.  The *)
(* dispatcher serves an event holding the read lock of the subscriptions,  *)
(* subscribe and unsubscribe hold the write lock, so each of these is one  *)
(* step.                                                                   *)
(***************************************************************************)
EXTENDS Integers, Sequences, FiniteSets, SequencesExt, LogFilter

CONSTANTS
  Connections,      \* the connections that clients make, each once
  MAX_WS_CONNECTIONS,
  CAPACITY,         \* of the event channel, 1024 in the code
  MAX_BATCH,        \* the requests in a message
  Requests,         \* what clients ask
  Feed,             \* the events that are sent: [kind, logs]
  MaxRequests       \* bounds the requests of a connection

\* Any other request, one without a method, blocked, or for an unsupported type of
\* subscription included, changes nothing here and gets one reply.  A message that
\* does not parse, and a batch that is empty or too large, get the reply of one such
\* request.
Subscribing(params) == [kind |-> "eth_subscribe", params |-> params]
Unsubscribing(s) == [kind |-> "eth_unsubscribe", id |-> s]
OtherRequest == [kind |-> "other"]

SubscriptionType == {"newHeads", "logs", "newPendingTransactions", "syncing"}

ASSUME WsServerAssumption ==
  /\ IsFiniteSet(Connections)
  /\ {MAX_WS_CONNECTIONS, CAPACITY, MAX_BATCH, MaxRequests} \subseteq Nat \ {0}
  /\ \A r \in Requests :
       \/ /\ r.kind = "eth_subscribe"
          /\ r.params.type \in SubscriptionType
          /\ Len(r.params.criteria.topics) \in Nat
          /\ DOMAIN r.params.criteria.topics = 1..Len(r.params.criteria.topics)
       \/ r.kind = "eth_unsubscribe" /\ r.id \in Nat
       \/ r.kind = "other"
  /\ Len(Feed) \in Nat /\ DOMAIN Feed = 1..Len(Feed)
  /\ \A n \in DOMAIN Feed :
       /\ Feed[n].kind \in {"NewBlock", "NewLogs", "Reorg"}
       /\ DOMAIN Feed[n].logs = 1..Len(Feed[n].logs)
       /\ Feed[n].kind # "NewLogs" => Feed[n].logs = <<>>

VARIABLES
  ws_connection_count,  \* of the server
  ws_subscriptions,     \* of the chain
  events,     \* how many events have been sent
  conn,       \* conn[c]: the progress of connection c's task
  raced,      \* history: whether another connection was counted during c's handshake
  subs,       \* subs[c]: its subscription manager's map of ids to subscriptions
  given,      \* history: the ids given so far, with the parameters and the cursor then
  work,       \* the requests of its message still to handle
  replies,    \* the replies to those handled
  delta,      \* what the last one adds to ws_subscriptions next
  cursor,     \* the events that its dispatcher has taken
  lagged,     \* history: whether the dispatcher has missed events
  out,        \* history: all that was ever put into its queue, in order
  forwarded,  \* how much of it the forwarder has written to the socket
  writing     \* whether the forwarder runs

counters == <<ws_connection_count, ws_subscriptions>>
handling == <<subs, given, work, replies, delta>>
queue == <<out, forwarded, writing>>
vars == <<counters, events, conn, raced, handling, cursor, lagged, queue>>

MaxEvents == Len(Feed)

\* An id, a random UUID, is new: it is represented by how many have been given.
Ids == 1..MaxRequests

Params == {r.params : r \in {q \in Requests : q.kind = "eth_subscribe"}}
Subscription(params) == [type |-> params.type, filter |-> from_value(params.criteria)]

Message(kind, s, n, i) == [kind |-> kind, sub |-> s, event |-> n, log |-> i]
Notice(s, n, i) == Message("notice", s, n, i)    \* a block, or the i-th log, of event n
Answered(kind, s) == Message(kind, s, 0, 0)
Messages == [kind : {"notice", "subscribed", "unsubscribed", "unknown", "answer"},
             sub : Nat, event : 0..MaxEvents, log : Nat]

Open(c) == conn[c] \in {"open", "left", "cleaned"}

CountersOK ==
  /\ ws_connection_count \in Nat
  /\ ws_subscriptions \in Nat
  /\ raced \in [Connections -> BOOLEAN]

ManagerOK(c) ==
  /\ DOMAIN subs[c] \subseteq DOMAIN given[c]
  /\ subs[c] \in [DOMAIN subs[c] -> {Subscription(params) : params \in Params}]

TasksOK ==
  /\ events \in 0..MaxEvents
  /\ conn \in [Connections -> {"none", "upgrading", "open", "left", "cleaned", "closed"}]
  /\ given \in [Connections -> Seq([params : Params, since : 0..MaxEvents])]
  /\ DOMAIN subs = Connections /\ \A c \in Connections : ManagerOK(c)
  /\ work \in [Connections -> Seq(Requests)]
  /\ replies \in [Connections -> Seq(Messages)]
  /\ delta \in [Connections -> {-1, 0, 1}]
  /\ cursor \in [Connections -> 0..MaxEvents]
  /\ lagged \in [Connections -> BOOLEAN]
  /\ out \in [Connections -> Seq(Messages)]
  /\ forwarded \in [Connections -> Nat]
  /\ writing \in [Connections -> BOOLEAN]

\* The variables have their types; in particular neither counter, a usize, wraps, and
\* a manager holds only ids it has given.
TypeOK == CountersOK /\ TasksOK

Init ==
  /\ ws_connection_count = 0
  /\ ws_subscriptions = 0
  /\ events = 0
  /\ conn = [c \in Connections |-> "none"]
  /\ raced = [c \in Connections |-> FALSE]
  /\ subs = [c \in Connections |-> <<>>]
  /\ given = [c \in Connections |-> <<>>]
  /\ work = [c \in Connections |-> <<>>]
  /\ replies = [c \in Connections |-> <<>>]
  /\ delta = [c \in Connections |-> 0]
  /\ cursor = [c \in Connections |-> 0]
  /\ lagged = [c \in Connections |-> FALSE]
  /\ out = [c \in Connections |-> <<>>]
  /\ forwarded = [c \in Connections |-> 0]
  /\ writing = [c \in Connections |-> FALSE]

ConnGoto(c, label) == conn' = [conn EXCEPT ![c] = label]

-------------------------------------------------------------------------------
\* The handshake: handle_ws compares the count, and the task that runs once the
\* upgrade is done raises it.

Check(c) ==
  /\ conn[c] = "none"
  /\ ws_connection_count < MAX_WS_CONNECTIONS
  /\ ConnGoto(c, "upgrading")
  /\ UNCHANGED <<counters, events, raced, handling, cursor, lagged, queue>>

UpgradeFails(c) ==
  /\ conn[c] = "upgrading"
  /\ ConnGoto(c, "closed")
  /\ UNCHANGED <<counters, events, raced, handling, cursor, lagged, queue>>

Upgraded(c) ==
  /\ conn[c] = "upgrading"
  /\ ConnGoto(c, "open")
  /\ raced' = [d \in Connections |-> raced[d] \/ (d # c /\ conn[d] = "upgrading")]
  /\ ws_connection_count' = ws_connection_count + 1
  /\ cursor' = [cursor EXCEPT ![c] = events]
  /\ writing' = [writing EXCEPT ![c] = TRUE]
  /\ UNCHANGED <<ws_subscriptions, events, handling, lagged, out, forwarded>>

-------------------------------------------------------------------------------
\* The client's messages.

Busy(c) == work[c] # <<>> \/ replies[c] # <<>>

IsReply(m) == m.kind # "notice"
Answers(c) == Len(SelectSeq(out[c], IsReply))
Subscribes(requests) ==
  Cardinality({i \in DOMAIN requests : requests[i].kind = "eth_subscribe"})

Receive(c) ==
  /\ conn[c] = "open"
  /\ ~Busy(c)
  /\ \E requests \in BoundedSeq(Requests, MAX_BATCH) \ {<<>>} :
       /\ Answers(c) + Len(requests) <= MaxRequests
       /\ Len(given[c]) + Subscribes(requests) <= MaxRequests
       /\ work' = [work EXCEPT ![c] = requests]
  /\ UNCHANGED <<counters, events, conn, raced, subs, given, replies, delta, cursor, lagged,
                 queue>>

\* A map with a subscription added, and with one removed.
Inserted(map, s, sub) == [t \in DOMAIN map \cup {s} |-> IF t = s THEN sub ELSE map[t]]
Removed(map, s) == Restrict(map, DOMAIN map \ {s})

\* The next request is one for the handler of the kind; what remains of handling it.
Takes(c, kind) == work[c] # <<>> /\ delta[c] = 0 /\ Head(work[c]).kind = kind
Handled(c, map, change, reply) ==
  /\ subs' = [subs EXCEPT ![c] = map]
  /\ delta' = [delta EXCEPT ![c] = change]
  /\ replies' = [replies EXCEPT ![c] = Append(@, reply)]
  /\ work' = [work EXCEPT ![c] = Tail(@)]
  /\ UNCHANGED <<counters, events, conn, raced, cursor, lagged, queue>>

Subscribe(c) ==
  /\ Takes(c, "eth_subscribe")
  /\ LET params == Head(work[c]).params
         s == Len(given[c]) + 1
     IN  /\ given' = [given EXCEPT ![c] = Append(@, [params |-> params, since |-> cursor[c]])]
         /\ Handled(c, Inserted(subs[c], s, Subscription(params)), 1, Answered("subscribed", s))

\* Mutant: any id is reported, and counted, as removed.
UnsubscribeAny(c) ==
  /\ Takes(c, "eth_unsubscribe")
  /\ LET s == Head(work[c]).id
     IN  Handled(c, Removed(subs[c], s), -1, Answered("unsubscribed", s))
  /\ UNCHANGED given

\* Mutant: the id is found but not removed.
UnsubscribeFinds(c) ==
  /\ Takes(c, "eth_unsubscribe")
  /\ LET s == Head(work[c]).id
     IN  IF s \in DOMAIN subs[c] THEN Handled(c, subs[c], -1, Answered("unsubscribed", s))
         ELSE Handled(c, subs[c], 0, Answered("unknown", s))
  /\ UNCHANGED given

Unsubscribe(c) ==
  /\ Takes(c, "eth_unsubscribe")
  /\ LET s == Head(work[c]).id
     IN  IF s \in DOMAIN subs[c] THEN Handled(c, Removed(subs[c], s), -1, Answered("unsubscribed", s))
         ELSE Handled(c, subs[c], 0, Answered("unknown", s))
  /\ UNCHANGED given

HandleOther(c) ==
  /\ Takes(c, "other")
  /\ Handled(c, subs[c], 0, Answered("answer", 0))
  /\ UNCHANGED given

\* ws_subscriptions.fetch_add(1) or fetch_sub(1).
Count(c) ==
  /\ delta[c] # 0
  /\ ws_subscriptions' = ws_subscriptions + delta[c]
  /\ delta' = [delta EXCEPT ![c] = 0]
  /\ UNCHANGED <<ws_connection_count, events, conn, raced, subs, given, work, replies, cursor,
                 lagged, queue>>

\* The queue takes nothing once the forwarder, its reader, has ended.
Enqueue(c, messages) ==
  out' = [out EXCEPT ![c] = IF writing[c] THEN @ \o messages ELSE @]

\* One reply, or the replies to a whole batch.
Reply(c) ==
  /\ work[c] = <<>> /\ delta[c] = 0 /\ replies[c] # <<>>
  /\ Enqueue(c, replies[c])
  /\ replies' = [replies EXCEPT ![c] = <<>>]
  /\ UNCHANGED <<counters, events, conn, raced, subs, given, work, delta, cursor, lagged,
                 forwarded, writing>>

Handle(c) == Subscribe(c) \/ Unsubscribe(c) \/ HandleOther(c) \/ Count(c) \/ Reply(c)

-------------------------------------------------------------------------------
\* The events and their way to the client.

Emit ==
  /\ events < MaxEvents
  /\ events' = events + 1
  /\ UNCHANGED <<counters, conn, raced, handling, cursor, lagged, queue>>

Dispatching(c) == Open(c) /\ cursor[c] < events

\* Mutant: a dispatcher that has missed events is done.
LagStops(c) ==
  /\ Dispatching(c)
  /\ events - cursor[c] > CAPACITY
  /\ cursor' = [cursor EXCEPT ![c] = MaxEvents]
  /\ lagged' = [lagged EXCEPT ![c] = TRUE]
  /\ UNCHANGED <<counters, events, conn, raced, handling, queue>>

\* Mutant: the receiver that lags starts over at the newest event, unnoticed.
LagSkips(c) ==
  /\ Dispatching(c)
  /\ events - cursor[c] > CAPACITY
  /\ cursor' = [cursor EXCEPT ![c] = events - CAPACITY]
  /\ UNCHANGED <<counters, events, conn, raced, handling, lagged, queue>>

\* RecvError::Lagged: the receiver goes on at the oldest event the channel still has.
Lag(c) ==
  /\ Dispatching(c)
  /\ events - cursor[c] > CAPACITY
  /\ cursor' = [cursor EXCEPT ![c] = events - CAPACITY]
  /\ lagged' = [lagged EXCEPT ![c] = TRUE]
  /\ UNCHANGED <<counters, events, conn, raced, handling, queue>>

\* What an event brings to subscription s: to one to newHeads the block, to one to
\* logs those that match its filter, in their order.  A Reorg, without logs, brings
\* nothing, and subscriptions to pending transactions or syncing never get anything.
dispatch_new_heads(c, s, n) ==
  IF subs[c][s].type = "newHeads" THEN <<Notice(s, n, 0)>> ELSE <<>>
dispatch_logs(c, s, n) ==
  LET logs == Feed[n].logs
      sent(i) == subs[c][s].type = "logs" /\ matches(subs[c][s].filter, logs[i])
  IN  FlattenSeq([i \in DOMAIN logs |-> IF sent(i) THEN <<Notice(s, n, i)>> ELSE <<>>])
handle_event(c, s, n) ==
  IF Feed[n].kind = "NewBlock" THEN dispatch_new_heads(c, s, n) ELSE dispatch_logs(c, s, n)

\* One subscription after the other, in the order of the map, which may be any.
Dispatch(c) ==
  /\ Dispatching(c)
  /\ events - cursor[c] <= CAPACITY
  /\ cursor' = [cursor EXCEPT ![c] = @ + 1]
  /\ \E order \in SetToSeqs(DOMAIN subs[c]) :
       Enqueue(c, FlattenSeq([k \in DOMAIN order |-> handle_event(c, order[k], cursor[c] + 1)]))
  /\ UNCHANGED <<counters, events, conn, raced, handling, lagged, forwarded, writing>>

Forward(c) ==
  /\ Open(c)
  /\ writing[c]
  /\ forwarded[c] < Len(out[c])
  /\ forwarded' = [forwarded EXCEPT ![c] = @ + 1]
  /\ UNCHANGED <<counters, events, conn, raced, handling, cursor, lagged, out, writing>>

\* The socket does not take the message: the peer is gone.
ForwardFails(c) ==
  /\ Open(c)
  /\ writing[c]
  /\ forwarded[c] < Len(out[c])
  /\ writing' = [writing EXCEPT ![c] = FALSE]
  /\ UNCHANGED <<counters, events, conn, raced, handling, cursor, lagged, out, forwarded>>

-------------------------------------------------------------------------------
\* The end of a connection.

\* A Close message, the end of the stream, or an error.
Leave(c) ==
  /\ conn[c] = "open"
  /\ ~Busy(c)
  /\ ConnGoto(c, "left")
  /\ UNCHANGED <<counters, events, raced, handling, cursor, lagged, queue>>

\* Mutant: every subscription is taken off the count, and kept.
CleanupAll(c) ==
  /\ conn[c] = "left"
  /\ ConnGoto(c, "cleaned")
  /\ ws_subscriptions' = ws_subscriptions - Cardinality(DOMAIN subs[c])
  /\ UNCHANGED <<ws_connection_count, events, raced, handling, cursor, lagged, queue>>

\* remove_client_subscriptions keeps those whose sender is not closed, and it is
\* closed only if the forwarder, which owns the receiver, has ended.
Cleanup(c) ==
  /\ conn[c] = "left"
  /\ ConnGoto(c, "cleaned")
  /\ LET kept == IF writing[c] THEN subs[c] ELSE <<>>
     IN  /\ subs' = [subs EXCEPT ![c] = kept]
         /\ ws_subscriptions' = ws_subscriptions - Cardinality(DOMAIN subs[c] \ DOMAIN kept)
  /\ UNCHANGED <<ws_connection_count, events, raced, given, work, replies, delta, cursor, lagged,
                 queue>>

\* Both tasks are aborted and the connection is taken off the count; the manager
\* goes with it.
Closed(c) ==
  /\ conn[c] = "cleaned"
  /\ ConnGoto(c, "closed")
  /\ ws_connection_count' = ws_connection_count - 1
  /\ subs' = [subs EXCEPT ![c] = <<>>]
  /\ writing' = [writing EXCEPT ![c] = FALSE]
  /\ UNCHANGED <<ws_subscriptions, events, raced, given, work, replies, delta, cursor, lagged, out,
                 forwarded>>

Serve(c) ==
  \/ Upgraded(c)
  \/ Handle(c)
  \/ Cleanup(c)
  \/ Closed(c)

Next ==
  \/ Emit
  \/ \E c \in Connections :
       \/ Check(c)
       \/ UpgradeFails(c)
       \/ Receive(c)
       \/ Leave(c)
       \/ Serve(c)
       \/ Lag(c)
       \/ Dispatch(c)
       \/ Forward(c)
       \/ ForwardFails(c)

Spec == Init /\ [][Next]_vars

\* The tasks of a connection run.  A forwarder whose client does not read waits: its
\* fairness assumes that the client reads or goes away.  Clients need do nothing else.
FairSpec ==
  /\ Spec
  /\ \A c \in Connections :
       /\ WF_vars(Serve(c))
       /\ WF_vars(Lag(c) \/ Dispatch(c))
       /\ WF_vars(Forward(c) \/ ForwardFails(c))

-------------------------------------------------------------------------------
IsNoticeOf(m, s) == m.kind = "notice" /\ m.sub = s

\* After the reply that confirms an unsubscribe the client gets no notification of
\* that subscription, although notifications and replies are queued by two tasks
\* (subscription.rs:179-198, 261-315, handler.rs:274-286).
UnsubscribedIsQuiet ==
  \A c \in Connections : \A i, j \in DOMAIN out[c] :
    out[c][i].kind = "unsubscribed" /\ i < j => ~IsNoticeOf(out[c][j], out[c][i].sub)

\* What the parameters ask for of event n: the block, as 0, or logs, as their positions.
Asked(params, n) ==
  LET logs == Feed[n].logs
  IN  IF params.type = "newHeads" /\ Feed[n].kind = "NewBlock" THEN {0}
      ELSE IF params.type = "logs"
      THEN {i \in DOMAIN logs : AsksFor(params.criteria, logs[i])}
      ELSE {}
Wanted(s, params, n) == {Notice(s, n, i) : i \in Asked(params, n)}

\* The order of the events and, within one, of its logs.
Precedes(m1, m2) ==
  \/ m1.event < m2.event
  \/ m1.event = m2.event /\ m1.log < m2.log

\* The notifications of s among the messages are these, each once and in order.
Delivers(messages, s, notices) ==
  LET mine == {j \in DOMAIN messages : IsNoticeOf(messages[j], s)}
  IN  /\ {messages[j] : j \in mine} = notices
      /\ \A i, j \in mine : i < j => Precedes(messages[i], messages[j])

\* Those of all events in a row, from the first one that the dispatcher took after the
\* subscription was registered up to the last one.
Due(c, s) ==
  LET gave == given[c][s]
  IN  UNION {Wanted(s, gave.params, n) : n \in gave.since + 1..cursor[c]}

\* A subscription's notifications are the blocks, or the logs its parameters ask for,
\* of all events since it was registered, without a repetition or a gap, unless the
\* dispatcher has lagged or the client is gone (subscription.rs:37-117, 210-315).
NoGap ==
  \A c \in Connections : \A s \in DOMAIN subs[c] :
    ~lagged[c] /\ writing[c] => Delivers(out[c], s, Due(c, s))

\* The refinement mapping to SubscriptionFeed.
WishesOf(c) == [s \in DOMAIN given[c] |-> given[c][s].params]
Missed(c) == lagged[c] \/ (conn[c] \notin {"none", "upgrading"} /\ ~writing[c])
Heard(messages) ==
  {<<messages[i].sub, messages[i].event, messages[i].log>> :
     i \in {j \in DOMAIN messages : messages[j].kind = "notice"}}
HeardBy(c) == Heard(out[c])

Abstract == INSTANCE SubscriptionFeed WITH
  Clients  <- Connections,
  Wishes   <- Params,
  MaxEvent <- MaxEvents,
  Brings   <- [params \in Params |-> [n \in 1..MaxEvents |-> Asked(params, n)]],
  wishes   <- [c \in Connections |-> WishesOf(c)],
  live     <- [c \in Connections |-> DOMAIN subs[c]],
  seen     <- cursor,
  missed   <- [c \in Connections |-> Missed(c)],
  heard    <- [c \in Connections |-> HeardBy(c)]

\* A connection implements SubscriptionFeed: also one that has lagged is told of each
\* event everything that its subscriptions of the time ask for, or nothing, in the order
\* of the events (subscription.rs:37-117, 210-315, handler.rs:38-110).
ImplementsFeed == Abstract!ASpec

\* The limit holds for the connections whose handshake no other one overtook: only those
\* that were let in beside one not yet counted can exceed it (handler.rs:27-55).
LimitUnlessRaced ==
  Cardinality({c \in Connections : Open(c) /\ ~raced[c]}) <= MAX_WS_CONNECTIONS

\* What the counter of subscriptions stands for: each there is, except the one that
\* its task has yet to count, and each that is gone and that its task has yet to
\* take off, as 0.
Counted(c) ==
  IF delta[c] = 1 THEN DOMAIN subs[c] \ {Len(given[c])}
  ELSE IF delta[c] = -1 THEN DOMAIN subs[c] \cup {0}
  ELSE DOMAIN subs[c]
AllCounted == UNION {{c} \X Counted(c) : c \in Connections}

\* The count of subscriptions is never below the number there are, whatever the
\* connections do at the same time, so that fetch_sub does not wrap it
\* (handler.rs:106-110, 252-280).
NotUndercounted == ws_subscriptions >= Cardinality(AllCounted)

\* An open connection is told of the newest event that it wants, for as long as this
\* is the newest, it is subscribed and its client reads, even if it has lagged
\* (subscription.rs:210-233).
KeepsUp ==
  \A c \in Connections, s \in Ids, n \in 1..MaxEvents :
    (/\ events = n /\ s \in DOMAIN subs[c] /\ cursor[c] < n
     /\ Wanted(s, given[c][s].params, n) # {})
      ~> \/ events > n \/ s \notin DOMAIN subs[c] \/ ~writing[c] \/ conn[c] # "open"
         \/ \E i \in 1..forwarded[c] : IsNoticeOf(out[c][i], s) /\ out[c][i].event = n

\* "Number of active WebSocket subscriptions on this chain" (manager.rs:36): none is
\* counted when all connections have ended.
CountsActive == (\A c \in Connections : ~Open(c)) => ws_subscriptions = 0
===============================================================================
