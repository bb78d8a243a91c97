------------------------------- MODULE HeadCache -------------------------------
(***************************************************************************)
(* The head cache under its two users: requests that read and fill it      *)
(* (process_single_request and forward_to_upstream in src/rpc/handler.rs,  *)
(* get and set in src/cache/mod.rs), and the block tracker that empties it *)
(* on a reorganisation (invalidate_head_cache, redis.rs).  Each Redis      *)
(* command is a step, and errors of Redis are logged and swallowed.        *)
(*                                                                         *)
(* Keys are requests that forward_to_upstream takes for unfinalized, which *)
(* is what it takes every request with a resolved block number for.  Their *)
(* answer is known by the fork of the chain it was computed on.            *)
(***************************************************************************)
EXTENDS Integers, FiniteSets

CONSTANTS
  Requests,  \* requests in flight at the same time
  Keys,      \* cache keys
  MaxFork    \* bounds the number of reorganisations

ASSUME HeadCacheAssumption == MaxFork \in Nat

VARIABLES
  fork,     \* the fork the upstream nodes are on
  seen,     \* the fork of the tracker's last block
  entry,    \* entry[k]: the fork of the answer stored under k, Absent without one
  members,  \* the set of the head cache in Redis, the keys it tracks
  pc, key, answer,  \* the requests' program counters and locals
  inv,      \* where invalidate_head_cache is, "idle" when it does not run
  todo,     \* the keys it has still to delete
  doomed,   \* history: the keys it found, but for those written since and those
            \* whose DEL failed
  raced     \* history: the keys written while it ran, or not to the end, and those
            \* whose DEL failed

vars == <<fork, seen, entry, members, pc, key, answer, inv, todo, doomed, raced>>

Forks == 0..MaxFork
Absent == -1

\* The variables have their types; an answer that is an error is never stored.
TypeOK ==
  /\ fork \in Forks
  /\ seen \in Forks
  /\ entry \in [Keys -> Forks \cup {Absent}]
  /\ members \subseteq Keys
  /\ pc \in [Requests -> {"idle", "get", "ask", "set", "sadd"}]
  /\ key \in [Requests -> Keys]
  /\ answer \in [Requests -> Forks]
  /\ inv \in {"idle", "smembers", "del", "del_set"}
  /\ todo \subseteq Keys
  /\ doomed \subseteq Keys
  /\ raced \subseteq Keys

Init ==
  /\ fork = 0
  /\ seen = 0
  /\ entry = [k \in Keys |-> Absent]
  /\ members = {}
  /\ pc = [r \in Requests |-> "idle"]
  /\ key \in [Requests -> Keys]
  /\ answer = [r \in Requests |-> 0]
  /\ inv = "idle"
  /\ todo = {}
  /\ doomed = {}
  /\ raced = {}

Goto(r, label) == pc' = [pc EXCEPT ![r] = label]

-------------------------------------------------------------------------------
\* The surroundings.

Reorganise ==
  /\ fork < MaxFork
  /\ fork' = fork + 1
  /\ UNCHANGED <<seen, entry, members, pc, key, answer, inv, todo, doomed, raced>>

\* The entry's TTL is over.
Expire(k) ==
  /\ entry[k] # Absent
  /\ entry' = [entry EXCEPT ![k] = Absent]
  /\ UNCHANGED <<fork, seen, members, pc, key, answer, inv, todo, doomed, raced>>

-------------------------------------------------------------------------------
\* A request.

Begin(r, k) ==
  /\ pc[r] = "idle"
  /\ key' = [key EXCEPT ![r] = k]
  /\ Goto(r, "get")
  /\ UNCHANGED <<fork, seen, entry, members, answer, inv, todo, doomed, raced>>

\* Mutant: a hit is stored again, to prolong its life.
GetRefreshes(r) ==
  /\ pc[r] = "get"
  /\ \/ entry[key[r]] # Absent /\ Goto(r, "set")
        /\ answer' = [answer EXCEPT ![r] = entry[key[r]]]
     \/ entry[key[r]] = Absent /\ Goto(r, "ask") /\ UNCHANGED answer
  /\ UNCHANGED <<fork, seen, entry, members, key, inv, todo, doomed, raced>>

\* cache.get: a hit is returned; a miss, or an error, goes upstream.
Get(r) ==
  /\ pc[r] = "get"
  /\ \/ entry[key[r]] # Absent /\ Goto(r, "idle")
     \/ Goto(r, "ask")
  /\ UNCHANGED <<fork, seen, entry, members, key, answer, inv, todo, doomed, raced>>

\* Mutant: an answer that is an error is stored like any other.
AnswerAny(r) ==
  /\ pc[r] = "ask"
  /\ \E a \in {fork, Absent} : answer' = [answer EXCEPT ![r] = a]
  /\ Goto(r, "set")
  /\ UNCHANGED <<fork, seen, entry, members, key, inv, todo, doomed, raced>>

\* forward_request returns the answer of a node, or an error, which is not stored.
Answer(r) ==
  /\ pc[r] = "ask"
  /\ \/ answer' = [answer EXCEPT ![r] = fork] /\ Goto(r, "set")
     \/ Goto(r, "idle") /\ UNCHANGED answer
  /\ UNCHANGED <<fork, seen, entry, members, key, inv, todo, doomed, raced>>

\* cache.set: SET, then SADD.  Either may fail.
Set(r) ==
  /\ pc[r] = "set"
  /\ \/ /\ entry' = [entry EXCEPT ![key[r]] = answer[r]]
        /\ doomed' = doomed \ {key[r]}
        /\ raced' = IF inv = "idle" THEN raced ELSE raced \cup {key[r]}
     \/ UNCHANGED <<entry, doomed, raced>>
  /\ Goto(r, "sadd")
  /\ UNCHANGED <<fork, seen, members, key, answer, inv, todo>>

Sadd(r) ==
  /\ pc[r] = "sadd"
  /\ \/ /\ members' = members \cup {key[r]}
        /\ raced' = IF inv = "idle" THEN raced \ {key[r]} ELSE raced \cup {key[r]}
     \/ raced' = raced \cup {key[r]} /\ UNCHANGED members
  /\ Goto(r, "idle")
  /\ UNCHANGED <<fork, seen, entry, key, answer, inv, todo, doomed>>

Request(r) == Get(r) \/ Answer(r) \/ Set(r) \/ Sadd(r)

\* The keys of the requests among rs that have stored an answer, not yet tracked.
HalfWritten(rs) == {key[r] : r \in {q \in rs : pc[q] = "sadd"}}

\* The client disconnects and its request's future is dropped.
Drop(r) ==
  /\ pc[r] # "idle"
  /\ Goto(r, "idle")
  /\ raced' = raced \cup HalfWritten({r})
  /\ UNCHANGED <<fork, seen, entry, members, key, answer, inv, todo, doomed>>

-------------------------------------------------------------------------------
\* The tracker.

\* A poll finds the head of another fork: at the height of the last block that is a
\* reorganisation, above it just a new block.
Detect ==
  /\ inv = "idle"
  /\ seen < fork
  /\ seen' = fork
  /\ inv' \in {"smembers", "idle"}
  /\ UNCHANGED <<fork, entry, members, pc, key, answer, todo, doomed, raced>>

\* Mutant: the keys are taken out of the set as they are read.
SmembersPops ==
  /\ inv = "smembers"
  /\ todo' = members
  /\ doomed' = members
  /\ members' = {}
  /\ inv' = IF members = {} THEN "idle" ELSE "del"
  /\ UNCHANGED <<fork, seen, entry, pc, key, answer, raced>>

\* SMEMBERS, and an empty set when it fails.
Smembers ==
  /\ inv = "smembers"
  /\ todo' \in {members, {}}
  /\ doomed' = todo'
  /\ inv' = IF todo' = {} THEN "idle" ELSE "del"
  /\ UNCHANGED <<fork, seen, entry, members, pc, key, answer, raced>>

\* Mutant: the loop over the keys ends one key early.
DelEarly ==
  /\ inv = "del"
  /\ IF Cardinality(todo) = 1
     THEN inv' = "del_set" /\ todo' = {} /\ UNCHANGED entry
     ELSE \E k \in todo : /\ entry' = [entry EXCEPT ![k] = Absent]
                          /\ todo' = todo \ {k}
                          /\ UNCHANGED inv
  /\ UNCHANGED <<fork, seen, members, pc, key, answer, doomed, raced>>

Del ==
  /\ inv = "del"
  /\ \E k \in todo :
       /\ \/ entry' = [entry EXCEPT ![k] = Absent] /\ UNCHANGED <<doomed, raced>>
          \/ doomed' = doomed \ {k} /\ raced' = raced \cup {k} /\ UNCHANGED entry
       /\ todo' = todo \ {k}
       /\ inv' = IF todo' = {} THEN "del_set" ELSE "del"
  /\ UNCHANGED <<fork, seen, members, pc, key, answer>>

DelSet ==
  /\ inv = "del_set"
  /\ \/ members' = {}
     \/ UNCHANGED members
  /\ inv' = "idle"
  /\ doomed' = {}
  /\ UNCHANGED <<fork, seen, entry, pc, key, answer, todo, raced>>

Tracker == Detect \/ Smembers \/ Del \/ DelSet

\* The process crashes; a new tracker starts from the head it finds.
Crash ==
  /\ pc' = [r \in Requests |-> "idle"]
  /\ seen' = fork
  /\ inv' = "idle"
  /\ todo' = {}
  /\ doomed' = {}
  /\ raced' = raced \cup HalfWritten(Requests)
  /\ UNCHANGED <<fork, entry, members, key, answer>>

Next ==
  \/ Reorganise
  \/ \E k \in Keys : Expire(k)
  \/ \E r \in Requests, k \in Keys : Begin(r, k)
  \/ \E r \in Requests : Request(r) \/ Drop(r)
  \/ Tracker
  \/ Crash

Spec == Init /\ [][Next]_vars

\* Entries expire, as long as the policy that applies to them is not "forever", and
\* a request that has begun ends: Redis answers or fails, a node answers or times out.
FairSpec ==
  /\ Spec
  /\ \A k \in Keys : WF_vars(Expire(k))
  /\ \A r \in Requests : WF_vars(Request(r))

-------------------------------------------------------------------------------
\* When invalidate_head_cache is about to drop the set, no entry remains that it has
\* found there, but for those written again meanwhile and those whose DEL has failed,
\* however requests, expiry and failures interleave with its commands
\* (redis.rs:80-92).
Purged == inv = "del_set" => \A k \in doomed : entry[k] = Absent

Tracked(k) == entry[k] # Absent => k \in members \cup HalfWritten(Requests)

\* "Track unfinalized entries in head cache set for later invalidation"
\* (cache/mod.rs:58): a stored entry is in the set, or its request is about to add
\* it.  Only an entry written while an invalidation runs, one whose request was
\* dropped between the two commands, and one whose SADD or DEL failed go untracked: a
\* crash in the midst of an invalidation leaves the rest to the next one
\* (cache/mod.rs:56-62, redis.rs:80-92).
TrackedUnlessRaced == \A k \in Keys \ raced : Tracked(k)

\* Whatever races, failures and crashes leave behind, the entries computed on a fork
\* that was replaced go away, and no request brings them back.
StaleEntriesEnd ==
  \A f \in Forks : <>[](fork = f) => <>[](\A k \in Keys : entry[k] \in {Absent, f})
===============================================================================
