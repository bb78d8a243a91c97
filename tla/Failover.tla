------------------------------- MODULE Failover -------------------------------
(***************************************************************************)
(* ChainManager::forward_request (src/upstream/manager.rs) and             *)
(* strategy::select (src/upstream/strategy.rs): a client's request is      *)
(* tried on the healthy upstreams of the primary tier, then of the         *)
(* secondary, then of the fallback one, until one answers.                 *)
(*                                                                         *)
(* The requests of all clients run concurrently on a multi-threaded        *)
(* runtime and share the upstreams' health and one round-robin counter.    *)
(* What is_healthy() returns is changed by the health checks, the tracker  *)
(* and every request (record_success, record_failure, record_http_error:   *)
(* module UpstreamClient); here it may change at any moment, which covers  *)
(* all of them, the record_* call of the request itself included.  The     *)
(* per-upstream rate limiter grants or refuses, the upstream answers or    *)
(* fails, as they please.                                                  *)
(***************************************************************************)
EXTENDS Integers, FiniteSets

CONSTANTS
  N,         \* number of upstreams; an upstream is its index in the Vec
  Role,      \* Role[u]: 1 primary, 2 secondary, 3 fallback
  Strategy,  \* the chain's UpstreamStrategy
  Requests,  \* calls of forward_request
  Cycle      \* bound: the usize counter is kept modulo Cycle, a multiple of
             \* every possible number of candidates

Upstreams == 1..N
Roles == 1..3
NoUpstream == 0

ASSUME FailoverAssumption ==
  /\ N \in Nat
  /\ Role \in [Upstreams -> Roles]
  /\ Strategy \in {"round_robin", "random", "lowest_latency"}
  /\ Cycle \in Nat \ {0}
  /\ \A n \in 1..N : Cycle % n = 0

VARIABLES
  serving,           \* serving[u]: what is_healthy() returns now
  round_robin,       \* the counter shared by all requests and tiers
  pc,                \* pc[r]: where r is in forward_request
  tier,              \* tier[r]: the role of the tier r is in
  unread,            \* unread[r]: upstreams of the tier whose health r has yet to read
  tier_upstreams,    \* tier_upstreams[r]: the healthy ones it has collected
  cur,               \* cur[r]: the upstream being attempted
  rest,              \* rest[r]: those after it in attempt_order, in Vec order
  all_rate_limited,  \* the two flags of forward_request
  any_upstream_tried,
  limited,           \* history: limited[r], the upstreams that refused r a token
  failed,            \* history: failed[r], those r was sent to that did not answer
  steady             \* history: steady[r], those healthy ever since r began

shared == <<serving, round_robin>>
vars == <<serving, round_robin, pc, tier, unread, tier_upstreams, cur, rest,
          all_rate_limited, any_upstream_tried, limited, failed, steady>>

Errors == {"no_healthy", "rate_limited", "all_failed"}
Finished == Errors \cup {"ok"}
Active == {"scan", "attempt", "sent"}

\* r attempts an upstream of its tier, and only such remain in its attempt order.
InTier(r) ==
  pc[r] \in {"attempt", "sent"} =>
    cur[r] \in Upstreams /\ \A u \in rest[r] \cup {cur[r]} : Role[u] = tier[r]

\* Every variable of forward_request has its type, and no upstream of another
\* tier gets into a tier's attempt order (manager.rs:180-206).
TypeOK ==
  /\ serving \in [Upstreams -> BOOLEAN]
  /\ round_robin \in 0..Cycle - 1
  /\ pc \in [Requests -> {"idle"} \cup Active \cup Finished]
  /\ tier \in [Requests -> Roles]
  /\ unread \in [Requests -> SUBSET Upstreams]
  /\ tier_upstreams \in [Requests -> SUBSET Upstreams]
  /\ cur \in [Requests -> Upstreams \cup {NoUpstream}]
  /\ rest \in [Requests -> SUBSET Upstreams]
  /\ all_rate_limited \in [Requests -> BOOLEAN]
  /\ any_upstream_tried \in [Requests -> BOOLEAN]
  /\ limited \in [Requests -> SUBSET Upstreams]
  /\ failed \in [Requests -> SUBSET Upstreams]
  /\ steady \in [Requests -> SUBSET Upstreams]
  /\ \A r \in Requests : InTier(r)

Init ==
  /\ serving = [u \in Upstreams |-> TRUE]
  /\ round_robin \in 0..Cycle - 1   \* whatever earlier requests have made of it
  /\ pc = [r \in Requests |-> "idle"]
  /\ tier = [r \in Requests |-> 1]
  /\ unread = [r \in Requests |-> {}]
  /\ tier_upstreams = [r \in Requests |-> {}]
  /\ cur = [r \in Requests |-> NoUpstream]
  /\ rest = [r \in Requests |-> {}]
  /\ all_rate_limited = [r \in Requests |-> TRUE]
  /\ any_upstream_tried = [r \in Requests |-> FALSE]
  /\ limited = [r \in Requests |-> {}]
  /\ failed = [r \in Requests |-> {}]
  /\ steady = [r \in Requests |-> {}]

\* The health of u changes; whoever runs has no longer seen it healthy throughout.
Flip(u) ==
  /\ serving' = [serving EXCEPT ![u] = ~serving[u]]
  /\ steady' = [r \in Requests |-> steady[r] \ {u}]
  /\ UNCHANGED <<round_robin, pc, tier, unread, tier_upstreams, cur, rest,
                 all_rate_limited, any_upstream_tried, limited, failed>>

\* Mutant: the tier's filter looks at the health only.
OfAnyRole(n) == Upstreams

OfRole(n) == {u \in Upstreams : Role[u] = n}

Begin(r) ==
  /\ pc[r] = "idle"
  /\ pc' = [pc EXCEPT ![r] = "scan"]
  /\ unread' = [unread EXCEPT ![r] = OfRole(1)]
  /\ steady' = [steady EXCEPT ![r] = {u \in Upstreams : serving[u]}]
  /\ UNCHANGED <<tier, tier_upstreams, cur, rest, all_rate_limited,
                 any_upstream_tried, limited, failed, shared>>

\* The filter reads the upstreams' health one after the other.
Scan(r) ==
  /\ pc[r] = "scan"
  /\ \E u \in unread[r] :
       /\ \A v \in unread[r] : u <= v
       /\ unread' = [unread EXCEPT ![r] = @ \ {u}]
       /\ tier_upstreams' = [tier_upstreams EXCEPT ![r] = IF serving[u] THEN @ \cup {u} ELSE @]
  /\ UNCHANGED <<pc, tier, cur, rest, all_rate_limited, any_upstream_tried, limited,
                 failed, steady, shared>>

\* The error after the last tier: which of the three is said.
Verdict(tried, all_limited) ==
  IF ~tried THEN "no_healthy" ELSE IF all_limited THEN "rate_limited" ELSE "all_failed"

\* The tier's loop ends: on to the next tier, or out of tiers.
LeaveTier(r, all_limited) ==
  /\ \/ /\ tier[r] < 3
        /\ tier' = [tier EXCEPT ![r] = @ + 1]
        /\ unread' = [unread EXCEPT ![r] = OfRole(tier[r] + 1)]
        /\ pc' = [pc EXCEPT ![r] = "scan"]
     \/ /\ tier[r] = 3
        /\ pc' = [pc EXCEPT ![r] = Verdict(any_upstream_tried[r], all_limited)]
        /\ UNCHANGED <<tier, unread>>
  /\ tier_upstreams' = [tier_upstreams EXCEPT ![r] = {}]
  /\ cur' = [cur EXCEPT ![r] = NoUpstream]
  /\ rest' = [rest EXCEPT ![r] = {}]

EmptyTier(r) ==
  /\ pc[r] = "scan"
  /\ unread[r] = {}
  /\ tier_upstreams[r] = {}
  /\ LeaveTier(r, all_rate_limited[r])
  /\ UNCHANGED <<all_rate_limited, any_upstream_tried, limited, failed, steady, shared>>

\* The candidate with k candidates before it in the slice.
At(T, k) == {u \in T : Cardinality({v \in T : v < u}) = k}

\* strategy::select: what it may return.  The latencies compared by
\* lowest_latency are rewritten by every request, so any candidate may be least.
Selectable(T) ==
  IF Strategy = "round_robin" /\ Cardinality(T) > 1
  THEN At(T, round_robin % Cardinality(T))
  ELSE T

\* Mutant: the preferred upstream stays in the list it was put in front of.
SelectKeepsPreferred(r) ==
  /\ pc[r] = "scan"
  /\ unread[r] = {}
  /\ LET T == tier_upstreams[r] IN
     \E p \in Selectable(T) :
       /\ cur' = [cur EXCEPT ![r] = p]
       /\ rest' = [rest EXCEPT ![r] = T]
       /\ round_robin' = IF Strategy = "round_robin" /\ Cardinality(T) > 1
                         THEN (round_robin + 1) % Cycle
                         ELSE round_robin
  /\ any_upstream_tried' = [any_upstream_tried EXCEPT ![r] = TRUE]
  /\ pc' = [pc EXCEPT ![r] = "attempt"]
  /\ UNCHANGED <<serving, tier, unread, tier_upstreams, all_rate_limited, limited,
                 failed, steady>>

\* Mutant: any_upstream_tried is not set.
SelectUncounted(r) ==
  /\ pc[r] = "scan"
  /\ unread[r] = {}
  /\ LET T == tier_upstreams[r] IN
     \E p \in Selectable(T) :
       /\ cur' = [cur EXCEPT ![r] = p]
       /\ rest' = [rest EXCEPT ![r] = T \ {p}]
       /\ round_robin' = IF Strategy = "round_robin" /\ Cardinality(T) > 1
                         THEN (round_robin + 1) % Cycle
                         ELSE round_robin
  /\ pc' = [pc EXCEPT ![r] = "attempt"]
  /\ UNCHANGED <<serving, tier, unread, tier_upstreams, all_rate_limited,
                 any_upstream_tried, limited, failed, steady>>

\* The attempt order: the selected candidate, then the others in Vec order.
Select(r) ==
  /\ pc[r] = "scan"
  /\ unread[r] = {}
  /\ LET T == tier_upstreams[r] IN
     \E p \in Selectable(T) :
       /\ cur' = [cur EXCEPT ![r] = p]
       /\ rest' = [rest EXCEPT ![r] = T \ {p}]
       /\ round_robin' = IF Strategy = "round_robin" /\ Cardinality(T) > 1
                         THEN (round_robin + 1) % Cycle
                         ELSE round_robin
  /\ any_upstream_tried' = [any_upstream_tried EXCEPT ![r] = TRUE]
  /\ pc' = [pc EXCEPT ![r] = "attempt"]
  /\ UNCHANGED <<serving, tier, unread, tier_upstreams, all_rate_limited, limited,
                 failed, steady>>

\* Mutant: the first refusal or failure ends the tier.
AdvanceGivesUp(r, all_limited) == LeaveTier(r, all_limited)

\* `continue` in the attempt loop: the next upstream of the order, or the next tier.
Advance(r, all_limited) ==
  \/ /\ rest[r] = {}
     /\ LeaveTier(r, all_limited)
  \/ /\ \E u \in rest[r] :
          /\ \A v \in rest[r] : u <= v
          /\ cur' = [cur EXCEPT ![r] = u]
          /\ rest' = [rest EXCEPT ![r] = @ \ {u}]
     /\ pc' = [pc EXCEPT ![r] = "attempt"]
     /\ UNCHANGED <<tier, unread, tier_upstreams>>

\* try_acquire_rate_limit() refuses.
RateLimited(r) ==
  /\ pc[r] = "attempt"
  /\ limited' = [limited EXCEPT ![r] = @ \cup {cur[r]}]
  /\ Advance(r, all_rate_limited[r])
  /\ UNCHANGED <<all_rate_limited, any_upstream_tried, failed, steady, shared>>

\* It grants a token, and the request is sent.
Acquire(r) ==
  /\ pc[r] = "attempt"
  /\ all_rate_limited' = [all_rate_limited EXCEPT ![r] = FALSE]
  /\ pc' = [pc EXCEPT ![r] = "sent"]
  /\ UNCHANGED <<tier, unread, tier_upstreams, cur, rest, any_upstream_tried, limited,
                 failed, steady, shared>>

\* A response, be it a JSON-RPC error, is returned.
SendOk(r) ==
  /\ pc[r] = "sent"
  /\ pc' = [pc EXCEPT ![r] = "ok"]
  /\ UNCHANGED <<tier, unread, tier_upstreams, cur, rest, all_rate_limited,
                 any_upstream_tried, limited, failed, steady, shared>>

\* A transport error, an HTTP error status or an unreadable body.
SendErr(r) ==
  /\ pc[r] = "sent"
  /\ failed' = [failed EXCEPT ![r] = @ \cup {cur[r]}]
  /\ Advance(r, all_rate_limited[r])
  /\ UNCHANGED <<all_rate_limited, any_upstream_tried, limited, steady, shared>>

Next ==
  \/ \E u \in Upstreams : Flip(u)
  \/ \E r \in Requests :
       \/ Begin(r)
       \/ Scan(r)
       \/ EmptyTier(r)
       \/ Select(r)
       \/ RateLimited(r)
       \/ Acquire(r)
       \/ SendOk(r)
       \/ SendErr(r)

Spec == Init /\ [][Next]_vars

-------------------------------------------------------------------------------
Tried(r) == limited[r] \cup failed[r]

\* No upstream gets the same request twice, whichever way the preferred one is
\* put in front of its tier and whatever changes while the tiers are gone
\* through: a request that is not idempotent (eth_sendRawTransaction) is never
\* repeated on the node that may have executed it (manager.rs:196-206).
NeverTwice ==
  \A r \in Requests :
    pc[r] \in {"attempt", "sent"} =>
      cur[r] \notin Tried(r) \cup rest[r] /\ rest[r] \cap Tried(r) = {}

\* A worse tier is used only when the better ones are exhausted: when a request
\* attempts an upstream, it has tried every upstream of a better role that was
\* healthy ever since it began (manager.rs:175-189).
BetterTiersFirst ==
  \A r \in Requests :
    pc[r] \in {"attempt", "sent"} =>
      \A u \in steady[r] : Role[u] < tier[r] => u \in Tried(r)

\* The error tells what happened: "no healthy upstreams" only if none was healthy
\* all along, "all rate limited" only if every upstream tried refused a token and
\* none was sent the request, "all failed" only if some upstream was sent it, and
\* in every case each upstream that stayed healthy was tried (manager.rs:307-328).
ErrorsAreHonest ==
  \A r \in Requests :
    pc[r] \in Errors =>
      /\ steady[r] \subseteq Tried(r)
      /\ pc[r] = "no_healthy" => Tried(r) = {}
      /\ pc[r] = "rate_limited" => failed[r] = {} /\ limited[r] # {}
      /\ pc[r] = "all_failed" => failed[r] # {}
===============================================================================
