------------------------------ MODULE RequestPath ------------------------------
(***************************************************************************)
(* The way of a chain's requests over HTTP (src/rpc/handler.rs): the       *)
(* checks of a body, the deduplication of a batch, blocked methods,        *)
(* answers from memory, the resolution of block tags by the tracked head,  *)
(* the cache, coalescing, the upstream, the entry stored, and the ids.     *)
(*                                                                         *)
(* A client's task handles the requests of its body one after the other,   *)
(* and its steps end where the code awaits.  Around it the upstream nodes  *)
(* are at any height, and the tracker follows one of them or starts anew.  *)
(* An entry of the cache may go at any moment, by its TTL or by a DEL of   *)
(* an invalidation; what the commands of an invalidation and of a write do *)
(* to each other in the set of the head cache is HeadCache.  Coalescing is *)
(* as SharedCall promises it: a call waits for one that executes, or       *)
(* executes too.  What forward_request makes of the request that it is     *)
(* handed, which it may send to several upstreams or to none, is Failover. *)
(***************************************************************************)
EXTENDS Rpc

CONSTANTS
  Clients,
  Menu,            \* Menu[c]: the requests that client c makes
  Length,          \* Length[c]: the most requests in a body of client c
  blocked_methods,
  finality_depth,
  policies,
  MaxNumber        \* bounds the height of the nodes

ASSUME RequestPathAssumption ==
  /\ Length \in [Clients -> Nat]
  /\ finality_depth \in Nat
  /\ MaxNumber \in Nat \ {0}
  /\ \E c \in Clients : Menu[c] # {}
  /\ \A c \in Clients : \A q \in Menu[c] :
       q = Request(q.method, q.ref) /\ q.ref.number \in 0..MaxNumber

VARIABLES
  latest,   \* latest_block_number, 0 until a block is tracked
  entries,  \* the cache: entries[k] is the height k was answered for, Null, or Absent
  sadded,   \* history: the keys that SADD was called for since they were stored, or
            \* whose call was cut off before it
  pc, body, at, replies,  \* a client's task: its progress, its requests, the current
                          \* one, and the replies
  asked,    \* the current request with its tag resolved
  on,       \* the client whose call it waits for
  answer,   \* what the upstream has answered
  forwards, \* history: forwards[c][i]: how often its i-th request was handed to
            \* forward_request
  early     \* history: whether no block was tracked when it came

cache == <<entries, sadded>>
call == <<asked, on, answer>>
batch == <<body, forwards, early>>
vars == <<latest, cache, pc, at, replies, call, batch>>

Null == -1     \* the answer for a block that the node does not have
Absent == -2
Heights == 0..MaxNumber

Made == UNION {Menu[c] : c \in Clients}
Keys == Made \cup {Request(q.method, Number(n)) : q \in Made, n \in Heights}
Bodies(c) == UNION {[1..n -> Menu[c]] : n \in 0..Length[c]}

Id(c, i) == [client |-> c, index |-> i]
NullId(c) == Id(c, 0)
Reply(kind, id, req, height) == [kind |-> kind, id |-> id, of |-> req, height |-> height]
Pending(c) == Reply("pending", NullId(c), [method |-> "", ref |-> NoBlock], Absent)

Kinds == {"pending", "denied", "known", "answer", "failed"}

\* The variables have their types.
TypeOK ==
  /\ latest \in Heights
  /\ entries \in [Keys -> Heights \cup {Null, Absent}]
  /\ sadded \subseteq Keys
  /\ pc \in [Clients -> {"idle", "next", "get", "ask", "wait", "set", "sadd",
                        "replied"}]
  /\ \A c \in Clients :
       /\ body[c] \in Bodies(c)
       /\ at[c] \in 1..Len(body[c]) + 1
       /\ DOMAIN replies[c] = DOMAIN body[c]
       /\ \A i \in DOMAIN replies[c] : replies[c][i].kind \in Kinds
       /\ forwards[c] \in [DOMAIN body[c] -> Nat]
  /\ asked \in [Clients -> Keys]
  /\ on \in [Clients -> Clients]
  /\ answer \in [Clients -> Heights \cup {Null}]
  /\ early \in [Clients -> BOOLEAN]

NoRequest == CHOOSE q \in Made : TRUE

Init ==
  /\ latest = 0
  /\ entries = [k \in Keys |-> Absent]
  /\ sadded = {}
  /\ pc = [c \in Clients |-> "idle"]
  /\ body = [c \in Clients |-> <<>>]
  /\ at = [c \in Clients |-> 1]
  /\ asked = [c \in Clients |-> NoRequest]
  /\ on = [c \in Clients |-> c]
  /\ answer = [c \in Clients |-> 0]
  /\ replies = [c \in Clients |-> <<>>]
  /\ forwards = [c \in Clients |-> <<>>]
  /\ early = [c \in Clients |-> FALSE]

Goto(c, label) == pc' = [pc EXCEPT ![c] = label]

-------------------------------------------------------------------------------
\* The surroundings.

\* latest_block_number is stored, by a tracker whose upstream may lag.
Track ==
  /\ \E n \in Heights \ {0} : latest' = n
  /\ UNCHANGED <<cache, pc, at, replies, call, batch>>

\* An entry's TTL is over, Redis evicts it, or an invalidation deletes it.
Evict(k) ==
  /\ entries[k] # Absent
  /\ entries' = [entries EXCEPT ![k] = Absent]
  /\ UNCHANGED <<latest, sadded, pc, at, replies, call, batch>>

\* What the tasks of cs leave of the call they have made, and of their bodies.
Returned(cs) ==
  /\ asked' = [c \in Clients |-> IF c \in cs THEN NoRequest ELSE asked[c]]
  /\ on' = [c \in Clients |-> IF c \in cs THEN c ELSE on[c]]
  /\ answer' = [c \in Clients |-> IF c \in cs THEN 0 ELSE answer[c]]

Ended(cs) ==
  /\ pc' = [c \in Clients |-> IF c \in cs THEN "idle" ELSE pc[c]]
  /\ at' = [c \in Clients |-> IF c \in cs THEN 1 ELSE at[c]]
  /\ body' = [c \in Clients |-> IF c \in cs THEN <<>> ELSE body[c]]
  /\ replies' = [c \in Clients |-> IF c \in cs THEN <<>> ELSE replies[c]]
  /\ forwards' = [c \in Clients |-> IF c \in cs THEN <<>> ELSE forwards[c]]
  /\ early' = [c \in Clients |-> IF c \in cs THEN FALSE ELSE early[c]]
  /\ Returned(cs)

\* The keys of the calls that have stored their answer and not yet called SADD.
HalfWritten == {cache_key(asked[c]) : c \in {d \in Clients : pc[d] = "sadd"}}

\* The process starts again: nothing is tracked, and Redis has kept the cache.
Restart ==
  /\ latest' = 0
  /\ sadded' = sadded \cup HalfWritten
  /\ Ended(Clients)
  /\ UNCHANGED entries

-------------------------------------------------------------------------------
\* A body arrives.  One that does not parse, or a batch above max_batch_size, gets a
\* single error with a null id at once, and is no step.
Submit(c) ==
  /\ pc[c] = "idle"
  /\ \E requests \in Bodies(c) :
       /\ body' = [body EXCEPT ![c] = requests]
       /\ replies' = [replies EXCEPT ![c] = [i \in DOMAIN requests |-> Pending(c)]]
       /\ forwards' = [forwards EXCEPT ![c] = [i \in DOMAIN requests |-> 0]]
  /\ early' = [early EXCEPT ![c] = latest = 0]
  /\ Goto(c, "next")
  /\ UNCHANGED <<latest, cache, at, call>>

More(c) == pc[c] = "next" /\ at[c] <= Len(body[c])
Current(c) == body[c][at[c]]
First(c, i) == FirstOf(body[c], i, blocked_methods)
IsFirst(c) == First(c, at[c]) = at[c]
Denied(c) == is_method_blocked(Current(c).method, blocked_methods)

\* The request at[c] of each client in cs has its reply.
Replied(cs, reply) ==
  /\ replies' = [c \in Clients |-> IF c \in cs THEN [replies[c] EXCEPT ![at[c]] = reply]
                                   ELSE replies[c]]
  /\ at' = [c \in Clients |-> IF c \in cs THEN at[c] + 1 ELSE at[c]]
  /\ pc' = [c \in Clients |-> IF c \in cs THEN "next" ELSE pc[c]]
  /\ Returned(cs)

\* The second pass leaves out repetitions.
Skip(c) ==
  /\ More(c) /\ ~IsFirst(c)
  /\ at' = [at EXCEPT ![c] = @ + 1]
  /\ UNCHANGED <<latest, cache, pc, replies, call, batch>>

Deny(c) ==
  /\ More(c) /\ IsFirst(c) /\ Denied(c)
  /\ Replied({c}, Reply("denied", Id(c, at[c]), Current(c), Null))
  /\ UNCHANGED <<latest, cache, batch>>

\* try_memory_intercept: the chain's id, and its height once that is tracked.
InMemory(c) ==
  \/ Current(c).method \in {"eth_chainId", "net_version"}
  \/ Current(c).method = "eth_blockNumber" /\ latest # 0

Intercept(c) ==
  /\ More(c) /\ IsFirst(c) /\ ~Denied(c) /\ InMemory(c)
  /\ Replied({c}, Reply("known", Id(c, at[c]), Current(c), latest))
  /\ UNCHANGED <<latest, cache, batch>>

\* The request as the tracked head n makes it.
As(req, n) == IF n = 0 THEN req ELSE resolve_block_tags(req, n, finality_depth)

Resolve(c) ==
  /\ More(c) /\ IsFirst(c) /\ ~Denied(c) /\ ~InMemory(c)
  /\ asked' = [asked EXCEPT ![c] = As(Current(c), latest)]
  /\ Goto(c, IF is_uncacheable(Current(c).method) THEN "ask" ELSE "get")
  /\ UNCHANGED <<latest, cache, at, replies, on, answer, batch>>

\* cache.get finds the entry.
Hit(c) ==
  /\ pc[c] = "get"
  /\ entries[asked[c]] # Absent
  /\ Replied({c}, Reply("answer", Id(c, at[c]), asked[c], entries[asked[c]]))
  /\ UNCHANGED <<latest, cache, batch>>

\* There is none, it has expired, or Redis fails.  The call executes.
Miss(c) ==
  /\ pc[c] = "get"
  /\ Goto(c, "ask")
  /\ UNCHANGED <<latest, cache, at, replies, call, batch>>

Executes(d, key) == pc[d] \in {"ask", "set", "sadd"} /\ asked[d] = key

\* Or it waits for another call with its key.
Join(c) ==
  /\ pc[c] = "get"
  /\ \E d \in Clients \ {c} : Executes(d, cache_key(asked[c])) /\ on' = [on EXCEPT ![c] = d]
  /\ Goto(c, "wait")
  /\ UNCHANGED <<latest, cache, at, replies, asked, answer, batch>>

\* Mutant: the reply is broadcast to nobody.
CallersAlone(c) == {c}

\* Those to whom the reply of c's call goes.
Callers(c) == {c} \cup {d \in Clients : pc[d] = "wait" /\ on[d] = c}

Forwarded(c) == forwards' = [forwards EXCEPT ![c][at[c]] = @ + 1]

\* What a node at height h answers.
NodeAnswer(req, h) ==
  LET height == IF req.ref.tag \in DOMAIN Height(h, finality_depth)
                THEN Height(h, finality_depth)[req.ref.tag]
                ELSE IF req.ref.tag = "number" THEN req.ref.number ELSE h
  IN  IF height <= h THEN height ELSE Null

\* forward_request returns the result of a node, of any height.
Answer(c) ==
  /\ pc[c] = "ask"
  /\ \E h \in Heights : answer' = [answer EXCEPT ![c] = NodeAnswer(asked[c], h)]
  /\ Forwarded(c)
  /\ Goto(c, "set")
  /\ UNCHANGED <<latest, cache, at, replies, body, asked, on, early>>

\* It returns an error, or the error response of a node, which is passed on.
Fail(c) ==
  /\ pc[c] = "ask"
  /\ Replied(Callers(c), Reply("failed", Id(c, at[c]), asked[c], Null))
  /\ Forwarded(c)
  /\ UNCHANGED <<latest, cache, body, early>>

Storable(c) ==
  /\ ~is_uncacheable(asked[c].method)
  /\ resolve_ttl(policies, asked[c].method, block_ref_is_unfinalized(asked[c])) # Never

Return(c) == Replied(Callers(c), Reply("answer", Id(c, at[c]), asked[c], answer[c]))

\* Mutant: the key is computed again, with the head tracked by now.
SetUnderHead(c) ==
  /\ pc[c] = "set" /\ Storable(c)
  /\ LET key == cache_key(As(Current(c), latest))
     IN  /\ entries' = [entries EXCEPT ![key] = answer[c]]
         /\ sadded' = sadded \cup {key}
  /\ Return(c)
  /\ UNCHANGED <<latest, batch>>

\* cache.set: SET, if the policy says so, which may fail; then, of an unfinalized
\* answer, SADD; then the reply.
Set(c) ==
  /\ pc[c] = "set" /\ Storable(c)
  /\ \/ /\ entries' = [entries EXCEPT ![cache_key(asked[c])] = answer[c]]
        /\ sadded' = sadded \ {cache_key(asked[c])}
     \/ UNCHANGED cache
  /\ \/ /\ block_ref_is_unfinalized(asked[c])
        /\ Goto(c, "sadd")
        /\ UNCHANGED <<at, replies, call>>
     \/ ~block_ref_is_unfinalized(asked[c]) /\ Return(c)
  /\ UNCHANGED <<latest, batch>>

\* SADD returns, and so does the call, whether it has succeeded or not.
Sadd(c) ==
  /\ pc[c] = "sadd"
  /\ sadded' = sadded \cup {cache_key(asked[c])}
  /\ Return(c)
  /\ UNCHANGED <<latest, entries, batch>>

\* An answer that is not cached is returned as it is.
Pass(c) ==
  /\ pc[c] = "set" /\ ~Storable(c)
  /\ Return(c)
  /\ UNCHANGED <<latest, cache, batch>>

\* Mutant: a repetition is left out of the replies.
FillFirsts(c) ==
  /\ pc[c] = "next" /\ at[c] > Len(body[c])
  /\ replies' = [replies EXCEPT ![c] =
       [i \in {j \in DOMAIN body[c] : First(c, j) = j} |-> replies[c][i]]]
  /\ Goto(c, "replied")
  /\ UNCHANGED <<latest, cache, at, call, batch>>

\* Mutant: a repetition gets its original's reply as it is.
FillWithoutIds(c) ==
  /\ pc[c] = "next" /\ at[c] > Len(body[c])
  /\ replies' = [replies EXCEPT ![c] = [i \in DOMAIN body[c] |-> replies[c][First(c, i)]]]
  /\ Goto(c, "replied")
  /\ UNCHANGED <<latest, cache, at, call, batch>>

\* The third pass gives a repetition the reply of its original, with its own id.
Fill(c) ==
  /\ pc[c] = "next" /\ at[c] > Len(body[c])
  /\ replies' = [replies EXCEPT ![c] =
       [i \in DOMAIN body[c] |->
          IF First(c, i) = i THEN replies[c][i]
          ELSE [replies[c][First(c, i)] EXCEPT !.id = Id(c, i)]]]
  /\ Goto(c, "replied")
  /\ UNCHANGED <<latest, cache, at, call, batch>>

\* The client has its replies, and may send another body.
Deliver(c) ==
  /\ pc[c] = "replied"
  /\ Ended({c})
  /\ UNCHANGED <<latest, cache>>

Handle(c) ==
  \/ Skip(c) \/ Deny(c) \/ Intercept(c) \/ Resolve(c)
  \/ Hit(c) \/ Miss(c) \/ Join(c)
  \/ Answer(c) \/ Fail(c) \/ Set(c) \/ Sadd(c) \/ Pass(c)
  \/ Fill(c) \/ Deliver(c)

Next ==
  \/ Track
  \/ \E k \in Keys : Evict(k)
  \/ Restart
  \/ \E c \in Clients : Submit(c) \/ Handle(c)

Spec == Init /\ [][Next]_vars

-------------------------------------------------------------------------------
\* A body's replies come in the order of its requests.  Each has its request's own id,
\* unless it was coalesced with that of another client and is no repetition; and each is
\* for its own request with the block tag resolved, unless no block was tracked when
\* it came, although it may come from the cache, from another client's call, or from
\* an earlier request of the batch (handler.rs:139-202, 266-358).
AnswersItsRequest ==
  \A c \in Clients : pc[c] = "replied" =>
    \A i \in DOMAIN body[c] :
      LET reply == replies[c][i]
      IN  /\ \/ reply.id = Id(c, i)
             \/ reply.id.client # c /\ First(c, i) = i /\ ~is_uncacheable(body[c][i].method)
          /\ \/ reply.kind \in {"denied", "known"} /\ reply.of = body[c][i]
             \/ /\ reply.kind \in {"answer", "failed"}
                /\ \E n \in IF early[c] THEN Heights ELSE Heights \ {0} :
                     reply.of = As(body[c][i], n)
                /\ reply.of.ref.tag = "number" =>
                     reply.height \in {reply.of.ref.number, Null}

\* A request that is_uncacheable lists, such as a transaction, is handed to
\* forward_request once for each time it occurs, a blocked one never, and any other at
\* most once for all its occurrences in a batch.  A policy with TTL -1 does not make a
\* method one of the first: its requests are deduplicated, coalesced and answered from
\* memory like any other (handler.rs:139-150, 204, 266-331).
ForwardedAsOftenAsMeant ==
  \A c \in Clients : pc[c] = "replied" =>
    \A i \in DOMAIN body[c] :
      LET method == body[c][i].method
      IN  IF is_method_blocked(method, blocked_methods) THEN forwards[c][i] = 0
          ELSE IF is_uncacheable(method) THEN forwards[c][i] = 1
          ELSE /\ forwards[c][i] <= 1
               /\ \A j \in DOMAIN body[c] \ {i} :
                    cache_key(body[c][j]) = cache_key(body[c][i]) =>
                      forwards[c][i] + forwards[c][j] <= 1

\* An entry is an answer to a request that may be cached, of the block it is stored
\* under, although the head moves and other clients store while it is asked for.  SADD
\* was called for it, or is about to be, or would have been but for a crash, unless its
\* key still names "earliest" or "finalized": a request with its tag resolved to a number
\* never counts as final.  Whether the SADD succeeded and an invalidation found the key
\* is for HeadCache (handler.rs:384-398, types.rs:175-229, cache/mod.rs:36-63).
EntriesAreSound ==
  \A k \in Keys : entries[k] # Absent =>
    /\ ~is_uncacheable(k.method) /\ ~is_method_blocked(k.method, blocked_methods)
    /\ resolve_ttl(policies, k.method, block_ref_is_unfinalized(k)) # Never
    /\ k.ref.tag = "number" => entries[k] \in {k.ref.number, Null}
    /\ k \in sadded \cup HalfWritten \/ k.ref.tag \in {"earliest", "finalized"}

\* A task waits only for a call with its own key that is being executed, by a task that
\* waits for nobody: no two clients ever wait for each other, in whichever order their
\* batches name the same requests (handler.rs:301-331, 340-358).
WaitsForExecution ==
  \A c \in Clients : pc[c] = "wait" => Executes(on[c], cache_key(asked[c]))
===============================================================================
