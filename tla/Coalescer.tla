------------------------------ MODULE Coalescer -------------------------------
(***************************************************************************)
(* RequestCoalescer::coalesce_or_execute (src/rpc/coalescer.rs), called by *)
(* coalesced_forward (src/rpc/handler.rs) for every cacheable request that *)
(* missed the cache.  A task is one such call, from an HTTP handler or a   *)
(* WebSocket connection; it looks its key up in the in_flight map and      *)
(* either waits on the broadcast channel it finds there or executes the    *)
(* upstream request itself.                                                *)
(*                                                                         *)
(* A step is what happens between two points where another thread can      *)
(* interleave: one operation on the DashMap (under its shard lock), the    *)
(* send on the channel, or the resumption of an await.  Every call creates *)
(* at most one channel, so a channel is named by the task that created it. *)
(* A JSON-RPC request id is likewise named by the task it came with.       *)
(*                                                                         *)
(* The branch that re-executes because the broadcast string does not parse *)
(* (coalescer.rs:68) is left out: the string was printed from the type it  *)
(* is parsed into.                                                         *)
(***************************************************************************)
EXTENDS FiniteSets

CONSTANTS
  Tasks,      \* calls of coalesce_or_execute
  HttpTasks,  \* those made by an HTTP handler: axum drops the handler's future
              \* at its await point when the client disconnects
  Keys,       \* cache keys
  NoKey, NoTask

ASSUME CoalescerAssumption ==
  /\ HttpTasks \subseteq Tasks
  /\ NoTask \notin Tasks
  /\ NoKey \notin Keys

VARIABLES
  pc,         \* pc[t]: where t is in coalesce_or_execute
  key,        \* key[t]: the argument of the call
  in_flight,  \* in_flight[k]: the channel whose sender the map holds, or NoTask
  rx,         \* rx[t]: the channel t subscribed to, or NoTask
  inbox,      \* inbox[t]: the response waiting in t's receiver, or NoTask
  resp,       \* resp[t]: what the call returned
  sent,       \* history: the channels a response has been sent on
  stale       \* history: stale[t] is the value of sent when t looked its key up

vars == <<pc, key, in_flight, rx, inbox, resp, sent, stale>>

\* A JsonRpcResponse: the request id it carries, and whose upstream call made it.
Response == [id : Tasks, by : Tasks]
NoResponse == [id |-> NoTask, by |-> NoTask]

\* The states in which t holds the channel's tx of its own stack frame.
Executing == {"execute", "send", "remove"}

\* Every variable has its type, and a task that awaits recv() holds the receiver
\* of some call's channel (coalescer.rs:53-58).
TypeOK ==
  /\ pc \in [Tasks -> {"idle", "wait", "insert", "done", "cancelled"} \cup Executing]
  /\ key \in [Tasks -> Keys \cup {NoKey}]
  /\ in_flight \in [Keys -> Tasks \cup {NoTask}]
  /\ rx \in [Tasks -> Tasks \cup {NoTask}]
  /\ inbox \in [Tasks -> Response \cup {NoResponse}]
  /\ resp \in [Tasks -> Response \cup {NoResponse}]
  /\ sent \in SUBSET Tasks
  /\ stale \in [Tasks -> SUBSET Tasks]
  /\ \A t \in Tasks : pc[t] = "wait" => rx[t] \in Tasks

Init ==
  /\ pc = [t \in Tasks |-> "idle"]
  /\ key = [t \in Tasks |-> NoKey]
  /\ in_flight = [k \in Keys |-> NoTask]
  /\ rx = [t \in Tasks |-> NoTask]
  /\ inbox = [t \in Tasks |-> NoResponse]
  /\ resp = [t \in Tasks |-> NoResponse]
  /\ sent = {}
  /\ stale = [t \in Tasks |-> {}]

\* Mutant: a missing entry is waited for like a present one.
LookupAlwaysWaits(t, k) ==
  /\ pc[t] = "idle"
  /\ key' = [key EXCEPT ![t] = k]
  /\ rx' = [rx EXCEPT ![t] = in_flight[k]]
  /\ pc' = [pc EXCEPT ![t] = "wait"]
  /\ stale' = [stale EXCEPT ![t] = sent]
  /\ UNCHANGED <<in_flight, inbox, resp, sent>>

\* The entry is found and subscribed to under one read lock of its shard.
Lookup(t, k) ==
  /\ pc[t] = "idle"
  /\ key' = [key EXCEPT ![t] = k]
  /\ rx' = [rx EXCEPT ![t] = in_flight[k]]
  /\ pc' = [pc EXCEPT ![t] = IF in_flight[k] = NoTask THEN "insert" ELSE "wait"]
  /\ stale' = [stale EXCEPT ![t] = sent]
  /\ UNCHANGED <<in_flight, inbox, resp, sent>>

\* rx.recv() yields the broadcast response, which is returned as it is.
RecvOk(t) ==
  /\ pc[t] = "wait"
  /\ inbox[t] # NoResponse
  /\ resp' = [resp EXCEPT ![t] = inbox[t]]
  /\ pc' = [pc EXCEPT ![t] = "done"]
  /\ UNCHANGED <<key, in_flight, rx, inbox, sent, stale>>

\* The channel is open while the executor or the map holds a sender of it.
Open(c) == pc[c] \in Executing \/ \E k \in Keys : in_flight[k] = c

\* rx.recv() fails once nothing is buffered and every sender is gone.
RecvClosed(t) ==
  /\ pc[t] = "wait"
  /\ inbox[t] = NoResponse
  /\ ~Open(rx[t])
  /\ pc' = [pc EXCEPT ![t] = "insert"]
  /\ rx' = [rx EXCEPT ![t] = NoTask]
  /\ UNCHANGED <<key, in_flight, inbox, resp, sent, stale>>

\* The insert does not look whether another task has inserted meanwhile.
Insert(t) ==
  /\ pc[t] = "insert"
  /\ in_flight' = [in_flight EXCEPT ![key[t]] = t]
  /\ pc' = [pc EXCEPT ![t] = "execute"]
  /\ UNCHANGED <<key, rx, inbox, resp, sent, stale>>

\* execute().await: forward_to_upstream returns, a response or a JSON-RPC error,
\* carrying the id of the request that executed it.
Execute(t) ==
  /\ pc[t] = "execute"
  /\ resp' = [resp EXCEPT ![t] = [id |-> t, by |-> t]]
  /\ pc' = [pc EXCEPT ![t] = "send"]
  /\ UNCHANGED <<key, in_flight, rx, inbox, sent, stale>>

\* Mutant: the response goes out on the sender the map holds, not on tx.
SendThroughMap(t) ==
  /\ pc[t] = "send"
  /\ inbox' = [w \in Tasks |->
       IF pc[w] = "wait" /\ rx[w] = in_flight[key[t]] THEN resp[t] ELSE inbox[w]]
  /\ sent' = sent \cup {t}
  /\ pc' = [pc EXCEPT ![t] = "remove"]
  /\ UNCHANGED <<key, in_flight, rx, resp, stale>>

\* Mutant: one channel for all keys.
SendToAll(t) ==
  /\ pc[t] = "send"
  /\ inbox' = [w \in Tasks |-> IF pc[w] = "wait" THEN resp[t] ELSE inbox[w]]
  /\ sent' = sent \cup {t}
  /\ pc' = [pc EXCEPT ![t] = "remove"]
  /\ UNCHANGED <<key, in_flight, rx, resp, stale>>

\* tx.send reaches the receivers that are subscribed now.
Send(t) ==
  /\ pc[t] = "send"
  /\ inbox' = [w \in Tasks |-> IF pc[w] = "wait" /\ rx[w] = t THEN resp[t] ELSE inbox[w]]
  /\ sent' = sent \cup {t}
  /\ pc' = [pc EXCEPT ![t] = "remove"]
  /\ UNCHANGED <<key, in_flight, rx, resp, stale>>

\* Mutant: the executor removes the entry only if nobody waits on it.
RemoveIfUnused(t) ==
  /\ pc[t] = "remove"
  /\ in_flight' = IF \E w \in Tasks : pc[w] = "wait" /\ rx[w] = t
                  THEN in_flight
                  ELSE [in_flight EXCEPT ![key[t]] = NoTask]
  /\ pc' = [pc EXCEPT ![t] = "done"]
  /\ UNCHANGED <<key, rx, inbox, resp, sent, stale>>

\* The key is removed whoever's channel it holds; tx is dropped on return.
Remove(t) ==
  /\ pc[t] = "remove"
  /\ in_flight' = [in_flight EXCEPT ![key[t]] = NoTask]
  /\ pc' = [pc EXCEPT ![t] = "done"]
  /\ UNCHANGED <<key, rx, inbox, resp, sent, stale>>

\* The client of an HTTP request goes away: the future is dropped where it
\* awaits, its locals with it; nothing removes its key from the map.
Cancel(t) ==
  /\ t \in HttpTasks
  /\ pc[t] \in {"wait", "execute"}
  /\ pc' = [pc EXCEPT ![t] = "cancelled"]
  /\ rx' = [rx EXCEPT ![t] = NoTask]
  /\ inbox' = [inbox EXCEPT ![t] = NoResponse]
  /\ UNCHANGED <<key, in_flight, resp, sent, stale>>

\* What the runtime keeps polling: everything but new calls and disconnects.
Run(t) ==
  \/ RecvOk(t) \/ RecvClosed(t)
  \/ Insert(t) \/ Execute(t) \/ Send(t) \/ Remove(t)

Next ==
  \E t \in Tasks :
    \/ \E k \in Keys : Lookup(t, k)
    \/ RecvOk(t)
    \/ RecvClosed(t)
    \/ Insert(t)
    \/ Execute(t)
    \/ Send(t)
    \/ Remove(t)
    \/ Cancel(t)

Spec == Init /\ [][Next]_vars

\* tokio polls a woken task again, and an upstream request ends (reqwest's 30 s
\* timeout, client.rs:65); clients need neither call nor stay.
FairSpec == Spec /\ \A t \in Tasks : WF_vars(Run(t))

-------------------------------------------------------------------------------
Pending(t) == pc[t] \notin {"idle", "done", "cancelled"}

\* A completed call leaves nothing behind: whatever the interleaving of lookups,
\* overwriting inserts and unconditional removes, an entry of the map is the
\* channel of a call for that very key which is still executing, or was dropped
\* while it executed (coalescer.rs:53-92).
ChannelOwned ==
  \A k \in Keys :
    in_flight[k] # NoTask =>
      /\ key[in_flight[k]] = k
      /\ pc[in_flight[k]] \in Executing \cup {"cancelled"}

\* No broadcast is lost: once a call has sent its response, every task that
\* subscribed to its channel before the send has it in its receiver, even if the
\* map's entry was overwritten or removed in between (coalescer.rs:53-88).
NoLostBroadcast ==
  \A t \in Tasks :
    /\ pc[t] = "wait"
    /\ rx[t] \in sent \ stale[t]
    => inbox[t] = resp[rx[t]]

\* Every call returns, or is given up by its client, unless the entry of its key is the
\* channel of a call that was dropped while it executed: a waiter that comes after the
\* send, or whose channel another insert has replaced, is woken by the channel's end
\* (coalescer.rs:53-92).
ReturnsUnlessOrphaned ==
  \A t \in Tasks :
    Pending(t) ~> ~Pending(t) \/ (in_flight[key[t]] # NoTask /\ pc[in_flight[key[t]]] = "cancelled")

\* "Sender dropped before we got a result, fall through" (coalescer.rs:74): every call
\* returns, also when the future of the executing one is dropped.  That call's sender
\* stays in the map, so the channel never closes.
CallReturns == \A t \in Tasks : Pending(t) ~> ~Pending(t)

\* The response a client gets carries the id of its own request (handler.rs:194,
\* 288 and 403); what a waiter receives is returned without replacing the id.
OwnId == \A t \in Tasks : pc[t] = "done" => resp[t].id = t

-------------------------------------------------------------------------------
\* The refinement mapping to SharedCall.
StatusOf(t) == IF pc[t] \in {"idle", "done", "cancelled"} THEN pc[t] ELSE "called"

SourceOf(t) == IF pc[t] = "done" THEN resp[t].by ELSE NoTask

Abstract == INSTANCE SharedCall WITH
  status <- [t \in Tasks |-> StatusOf(t)],
  wants <- key,
  published <- sent,
  old <- stale,
  source <- [t \in Tasks |-> SourceOf(t)]

\* coalesce_or_execute implements SharedCall: no call is ever answered with the
\* response to another key or with one broadcast before the call was made
\* (coalescer.rs:42-95).
ImplementsSharedCall == Abstract!ASpec
===============================================================================
