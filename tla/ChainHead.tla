------------------------------- MODULE ChainHead -------------------------------
(***************************************************************************)
(* How one chain's head is followed: the block tracker's polling task      *)
(* (src/upstream/tracker.rs), the task that forwards the newHeads          *)
(* subscription of one upstream (src/upstream/ws_subscriber.rs), and what  *)
(* they share: the flag ws_connected, the number latest_block_number that  *)
(* answers eth_blockNumber and resolves "latest", the event channel to the *)
(* subscription manager, and the entries of the head cache the tracker     *)
(* writes (src/cache/mod.rs) and deletes on a reorganisation (redis.rs).   *)
(*                                                                         *)
(* A block is a height and a fork; a block of the same height on another   *)
(* fork has another hash.  The network mines, and replaces the last blocks *)
(* of its chain by those of a new fork; each upstream node follows at its  *)
(* own pace.  A step of the tracker ends where its code awaits: each Redis *)
(* command is a step, which may fail, for redis.rs only logs its errors.   *)
(* Of the entries the tracker writes, the blocks by number are modelled: a *)
(* hash leads to no other block, and the logs are written alike, under     *)
(* keys of their own.  The entries of requests are in HeadCache.  That     *)
(* entries expire is left out: it can only make them fewer, and the        *)
(* property about them says which there are not.                           *)
(***************************************************************************)
EXTENDS Integers, Sequences, SequencesExt

CONSTANTS
  Upstreams,
  WsUpstreams,    \* those with a ws_url
  MaxNumber,      \* bounds the height of the chain
  MaxFork,        \* bounds the number of reorganisations
  MaxRestarts,    \* bounds the number of restarts
  MaxFailures,    \* bounds the number of Redis commands that fail
  MaxConnections  \* bounds the number of connections made to WsUpstreams

ASSUME ChainHeadAssumption ==
  /\ Upstreams # {}
  /\ WsUpstreams \subseteq Upstreams
  /\ MaxNumber \in Nat \ {0}
  /\ MaxFork \in Nat
  /\ MaxRestarts \in Nat
  /\ MaxFailures \in Nat
  /\ MaxConnections \in Nat

VARIABLES
  chain,     \* the network's chain, the fork of each height
  replaced,  \* history: the heights at which the network has replaced a block
  view,      \* view[u]: the chain as node u has it
  pc,        \* where the tracker's task is
  block,     \* its local block, the one it works on, until the poll ends
  todo,      \* the heights whose entry an invalidation has still to delete
  last,      \* its locals last_block_number and last_block_hash
  ws,        \* where the subscriber's task is
  ws_url,    \* the upstream it is connected to, the set of it, empty without one
  inbox,     \* the notifications of the connection it has not read
  ws_last,   \* its local last_block_number
  ws_connected, latest_block_number,
  entry,     \* entry[n]: the block that is cached under height n
  members,   \* the set of the head cache in Redis, the heights whose entry it tracks
  missed,    \* history: whether a command has failed that should have stored, tracked
             \* or deleted the block under the height of block, or else of last
  failures,  \* how many Redis commands have failed
  connections,  \* how many connections were made to WsUpstreams
  restarts,  \* how often the process has crashed and started again
  pushed,    \* history: whether it has confirmed a connection since it started
  announced, \* history: the block of the latest NewBlock event
  logged     \* history: the height of the latest NewLogs event

network == <<chain, replaced, view>>
tracker == <<pc, block, todo, last>>
subscriber == <<ws, ws_url, inbox, ws_last>>
cache == <<entry, members, missed, failures>>
run == <<restarts, connections, pushed>>
vars == <<network, tracker, subscriber, ws_connected, latest_block_number, cache, run,
          announced, logged>>

Numbers == 1..MaxNumber
Blocks == [number : Numbers, fork : 0..MaxFork]
NoBlock == [number |-> 0, fork |-> 0]   \* number 0 and hash "": nothing seen yet
Chains == UNION {[1..n -> 0..MaxFork] : n \in Numbers}

BlockAt(c, n) == [number |-> n, fork |-> c[n]]
HeadOf(c) == BlockAt(c, Len(c))

\* Where the tracker caches a new block and its logs, up to the end of the poll.
Caching == {"set_block", "sadd_block", "announce", "get_logs", "cache_logs"}

\* The variables have their types.
TypeOK ==
  /\ chain \in Chains
  /\ replaced \subseteq Numbers
  /\ view \in [Upstreams -> Chains]
  /\ pc \in {"idle", "smembers", "del", "del_set"} \cup Caching
  /\ block \in Blocks \cup {NoBlock}
  /\ todo \subseteq Numbers
  /\ last \in Blocks \cup {NoBlock}
  /\ ws \in {"down", "asked", "live", "closed"}
  /\ ws_url \subseteq Upstreams
  /\ inbox \in Seq(Blocks)
  /\ ws_last \in 0..MaxNumber
  /\ ws_connected \in BOOLEAN
  /\ latest_block_number \in 0..MaxNumber
  /\ entry \in [Numbers -> Blocks \cup {NoBlock}]
  /\ members \subseteq Numbers
  /\ missed \in BOOLEAN
  /\ failures \in 0..MaxFailures
  /\ connections \in 0..MaxConnections
  /\ restarts \in 0..MaxRestarts
  /\ pushed \in BOOLEAN
  /\ announced \in Blocks \cup {NoBlock}
  /\ logged \in 0..MaxNumber

Init ==
  /\ chain = <<0>>
  /\ replaced = {}
  /\ view = [u \in Upstreams |-> chain]
  /\ pc = "idle"
  /\ block = NoBlock
  /\ todo = {}
  /\ last = NoBlock
  /\ ws = "down"
  /\ ws_url = {}
  /\ inbox = <<>>
  /\ ws_last = 0
  /\ ws_connected = FALSE
  /\ latest_block_number = 0
  /\ entry = [n \in Numbers |-> NoBlock]
  /\ members = {}
  /\ missed = FALSE
  /\ failures = 0
  /\ connections = 0
  /\ restarts = 0
  /\ pushed = FALSE
  /\ announced = NoBlock
  /\ logged = 0

-------------------------------------------------------------------------------
\* The network and its nodes.  A node's head never loses height.

Mine ==
  /\ Len(chain) < MaxNumber
  /\ chain' = Append(chain, Last(chain))
  /\ UNCHANGED <<run, replaced, view, tracker, subscriber, ws_connected, latest_block_number,
                 cache, announced, logged>>

Reorganise ==
  /\ Last(chain) < MaxFork
  /\ \E from \in 1..Len(chain) :
       /\ chain' = [n \in 1..Len(chain) |-> IF n < from THEN chain[n] ELSE Last(chain) + 1]
       /\ replaced' = replaced \cup from..Len(chain)
  /\ UNCHANGED <<run, view, tracker, subscriber, ws_connected, latest_block_number, cache,
                 announced, logged>>

\* Chains c and d share their blocks up to height n and no further.
ForkAt(c, d, n) ==
  /\ n <= Len(d)
  /\ \A m \in 1..n : c[m] = d[m]
  /\ n < Len(c) /\ n < Len(d) => c[n + 1] # d[n + 1]

BlocksAbove(c, n) == [i \in 1..Len(c) - n |-> BlockAt(c, n + i)]

\* Node u catches up, and notifies a subscriber of each block it imports.
Import(u) ==
  /\ view[u] # chain
  /\ view' = [view EXCEPT ![u] = chain]
  /\ \E n \in 0..Len(chain) :
       /\ ForkAt(chain, view[u], n)
       /\ inbox' = IF u \in ws_url
                   THEN inbox \o BlocksAbove(chain, n) ELSE inbox
  /\ UNCHANGED <<run, chain, replaced, tracker, ws, ws_url, ws_last, ws_connected,
                 latest_block_number, cache, announced, logged>>

-------------------------------------------------------------------------------
\* fetch_latest_block

\* Mutant: a block from a lagging upstream is taken for a new head.
LaggingNever(b) == b.number < 0

\* Mutant: a block of the height seen last is taken for one from a lagging upstream.
LaggingOrSame(b) == b.number <= last.number

Lagging(b) == b.number < last.number

\* Mutant: any other hash is a reorganisation.
ReplacesAny(b) == b # last /\ last.number > 0

Replaces(b) == b.number = last.number /\ b # last

\* The tick's poll of u is answered with u's head.  No healthy upstream, a poll
\* that is rate limited or fails, the block the tracker has already and one from a
\* lagging upstream change nothing.  A replaced head is reported at once.
Poll(u) ==
  LET b == HeadOf(view[u])
  IN  /\ pc = "idle"
      /\ b # last
      /\ ~Lagging(b)
      /\ block' = b
      /\ pc' = IF Replaces(b) THEN "smembers" ELSE "set_block"
      /\ UNCHANGED <<run, network, todo, last, subscriber, ws_connected, latest_block_number,
                     cache, announced, logged>>

\* invalidate_head_cache: SMEMBERS, DEL of each key, DEL of the set.  A failure of the
\* first counts as an empty set, one of the others is passed over.  Then the hash is
\* remembered.

Fails == failures < MaxFailures /\ failures' = failures + 1

EndPoll ==
  /\ pc' = "idle"
  /\ block' = NoBlock

Remember == EndPoll /\ last' = block

Smembers ==
  /\ pc = "smembers"
  /\ \/ todo' = members /\ UNCHANGED <<missed, failures>>
     \/ todo' = {} /\ missed' = TRUE /\ Fails
  /\ \/ todo' # {} /\ pc' = "del" /\ UNCHANGED <<block, last>>
     \/ todo' = {} /\ Remember
  /\ UNCHANGED <<run, network, subscriber, ws_connected, latest_block_number, entry,
                 members, announced, logged>>

Del ==
  /\ pc = "del"
  /\ \E n \in todo :
       /\ \/ /\ entry' = [entry EXCEPT ![n] = NoBlock]
             /\ missed' = (missed /\ n # block.number)
             /\ UNCHANGED failures
          \/ /\ missed' = (missed \/ n = block.number)
             /\ Fails
             /\ UNCHANGED entry
       /\ todo' = todo \ {n}
       /\ pc' = IF todo' = {} THEN "del_set" ELSE "del"
  /\ UNCHANGED <<run, network, block, last, subscriber, ws_connected,
                 latest_block_number, members, announced, logged>>

DelSet ==
  /\ pc = "del_set"
  /\ \/ members' = {} /\ UNCHANGED failures
     \/ Fails /\ UNCHANGED members
  /\ Remember
  /\ UNCHANGED <<run, network, todo, subscriber, ws_connected, latest_block_number,
                 entry, missed, announced, logged>>

\* cache_block: SET, then SADD.
SetBlock ==
  /\ pc = "set_block"
  /\ \/ /\ entry' = [entry EXCEPT ![block.number] = block]
        /\ missed' = FALSE
        /\ UNCHANGED failures
     \/ missed' = TRUE /\ Fails /\ UNCHANGED entry
  /\ pc' = "sadd_block"
  /\ UNCHANGED <<run, network, block, todo, last, subscriber, ws_connected,
                 latest_block_number, members, announced, logged>>

\* Mutant: only the entry by hash is tracked.
SaddHashOnly ==
  /\ pc = "sadd_block"
  /\ pc' = "announce"
  /\ UNCHANGED <<run, network, block, todo, last, subscriber, ws_connected,
                 latest_block_number, cache, announced, logged>>

SaddBlock ==
  /\ pc = "sadd_block"
  /\ \/ members' = members \cup {block.number} /\ UNCHANGED <<missed, failures>>
     \/ missed' = TRUE /\ Fails /\ UNCHANGED members
  /\ pc' = "announce"
  /\ UNCHANGED <<run, network, block, todo, last, subscriber, ws_connected,
                 latest_block_number, entry, announced, logged>>

\* Unless the subscriber is forwarding heads, the tracker sends NewBlock.
Announce ==
  /\ pc = "announce"
  /\ announced' = IF ws_connected THEN announced ELSE block
  /\ pc' = "get_logs"
  /\ UNCHANGED <<run, network, block, todo, last, subscriber, ws_connected,
                 latest_block_number, cache, logged>>

\* Mutant: the number of the block expected next is stored.
FinishNext ==
  /\ Remember
  /\ latest_block_number' = block.number + 1

Finish ==
  /\ Remember
  /\ latest_block_number' = block.number

\* Mutant: a failed eth_getLogs ends fetch_latest_block.
GetLogsOrFail ==
  /\ pc = "get_logs"
  /\ \/ pc' = "cache_logs" /\ UNCHANGED block
     \/ EndPoll
  /\ UNCHANGED <<run, network, todo, last, subscriber, ws_connected, latest_block_number,
                 cache, announced, logged>>

\* fetch_block_logs asks the same node for the logs of that height.  An error, or no
\* result, is passed over.
GetLogs ==
  /\ pc = "get_logs"
  /\ \/ pc' = "cache_logs" /\ UNCHANGED <<block, last, latest_block_number>>
     \/ Finish
  /\ UNCHANGED <<run, network, todo, subscriber, ws_connected, cache, announced, logged>>

\* cache_logs has written the entry of the logs, or failed to; NewLogs is sent all the
\* same.
CacheLogs ==
  /\ pc = "cache_logs"
  /\ logged' = block.number
  /\ Finish
  /\ UNCHANGED <<run, network, todo, subscriber, ws_connected, cache, announced>>

Tracker ==
  \/ \E u \in Upstreams : Poll(u)
  \/ Smembers
  \/ Del
  \/ DelSet
  \/ SetBlock
  \/ SaddBlock
  \/ Announce
  \/ GetLogs
  \/ CacheLogs

-------------------------------------------------------------------------------
\* WsSubscriber.  Which upstream find_ws_upstream returns depends on their health,
\* which may be anything.

\* The connection is made and node u registers the subscription.
Ask(u) ==
  /\ ws = "down"
  /\ connections < MaxConnections
  /\ connections' = connections + 1
  /\ ws' = "asked"
  /\ ws_url' = {u}
  /\ UNCHANGED <<network, tracker, inbox, ws_last, ws_connected, latest_block_number, cache,
                 restarts, pushed, announced, logged>>

\* read_subscription_id returns the id.
Confirm ==
  /\ ws = "asked"
  /\ ws' = "live"
  /\ ws_connected' = TRUE
  /\ pushed' = TRUE
  /\ UNCHANGED <<network, tracker, ws_url, inbox, ws_last, latest_block_number, cache,
                 restarts, connections, announced, logged>>

\* A notification is read: dropped unless it is higher than the connection's last.
Notice ==
  /\ ws = "live"
  /\ inbox # <<>>
  /\ inbox' = Tail(inbox)
  /\ LET b == Head(inbox)
     IN  IF b.number <= ws_last
         THEN UNCHANGED <<ws_last, latest_block_number, announced>>
         ELSE /\ ws_last' = b.number
              /\ latest_block_number' = b.number
              /\ announced' = b
  /\ UNCHANGED <<run, network, tracker, ws, ws_url, ws_connected, cache, logged>>

Disconnected ==
  /\ ws_url' = {}
  /\ inbox' = <<>>
  /\ ws_last' = 0

\* The node refuses or does not confirm in time, or the connection closes or fails.
Close ==
  /\ ws \in {"asked", "live"}
  /\ ws' = "closed"
  /\ Disconnected
  /\ UNCHANGED <<run, network, tracker, ws_connected, latest_block_number,
                 cache, announced, logged>>

\* Mutant: the flag stays up while the subscriber backs off.
BackOffConnected ==
  /\ ws = "closed"
  /\ ws' = "down"
  /\ UNCHANGED <<run, network, tracker, ws_url, inbox, ws_last, ws_connected,
                 latest_block_number, cache, announced, logged>>

\* run() clears the flag and sleeps.
BackOff ==
  /\ ws = "closed"
  /\ ws' = "down"
  /\ ws_connected' = FALSE
  /\ UNCHANGED <<run, network, tracker, ws_url, inbox, ws_last, latest_block_number, cache,
                 announced, logged>>

Subscriber ==
  \/ \E u \in WsUpstreams : Ask(u)
  \/ Confirm
  \/ Notice
  \/ Close
  \/ BackOff

\* The process starts again, with the cache that Redis has kept.
Restart ==
  /\ restarts < MaxRestarts
  /\ restarts' = restarts + 1
  /\ pushed' = FALSE
  /\ EndPoll
  /\ todo' = {}
  /\ last' = NoBlock
  /\ missed' = FALSE
  /\ ws' = "down"
  /\ Disconnected
  /\ ws_connected' = FALSE
  /\ latest_block_number' = 0
  /\ announced' = NoBlock
  /\ logged' = 0
  /\ UNCHANGED <<network, entry, members, failures, connections>>

Next ==
  \/ Mine
  \/ Reorganise
  \/ \E u \in Upstreams : Import(u)
  \/ Tracker
  \/ Subscriber
  \/ Restart

Spec == Init /\ [][Next]_vars

\* The tracker's interval goes on ticking and its polls are answered now and then
\* (a poll that fails is no step), each await ends, and a subscriber whose
\* connection is gone, or that has a notification, goes on.  No connection need
\* ever be made or last.
FairSpec ==
  /\ Spec
  /\ WF_vars(Tracker)
  /\ WF_vars(Notice)
  /\ WF_vars(BackOff)

-------------------------------------------------------------------------------
Idle == pc = "idle"

\* Between two polls the cache has, under the height of the tracked head, no block
\* but that head, unless a Redis command has failed that was to store, track or delete
\* it: reorganisations between any two awaits, upstreams that lag or disagree, an
\* invalidation cut off by a crash and a restart over the old cache leave no orphan
\* there (tracker.rs:145-192, cache/mod.rs:67-87, redis.rs:80-92).
NoOrphanAtHead ==
  Idle /\ last # NoBlock /\ ~missed => entry[last.number] \in {NoBlock, last}

\* A Reorg event is sent only for a height at which the network has replaced a
\* block: upstreams of different heights are never taken for one (tracker.rs:155-169).
ReorgsAreReal ==
  [][pc = "idle" /\ pc' = "smembers" => block'.number \in replaced]_vars

\* The logs that are about to be fetched and delivered are of a height above every
\* one delivered before: once for a height, and in order of height, although several
\* upstreams are polled and some lag (tracker.rs:155-169, 233-258).
LogsInOrder == pc \in Caching => block.number > logged

\* As long as a process has not had an upstream subscription, a client that was told
\* of a head finds, between two polls, its height in eth_blockNumber, and it was told
\* of the tracked block unless the network has replaced a block of that height
\* (tracker.rs:170-192, 194-223).
InStep ==
  Idle /\ ~pushed =>
    /\ announced.number = latest_block_number
    /\ last.number = latest_block_number
    /\ announced = last \/ last.number \in replaced

Settled(c) == chain = c /\ \A u \in Upstreams : view[u] = c

\* Once the network and its nodes have settled, the tracker ends with their head,
\* whatever it has seen of other forks, whichever of the nodes it polls, and whether or
\* not the cache could be written, invalidated or the logs be had (tracker.rs:155-228).
HeadSettles == \A c \in Chains : <>[]Settled(c) => <>[](last = HeadOf(c))

\* "Falls back to HTTP polling (via BlockTracker) when WS is unavailable"
\* (ws_subscriber.rs:17): when no connection is made any more, subscribers are told
\* of every height that the nodes settle at and the tracker had not reached.
FallsBack ==
  \A n \in Numbers :
    [](/\ Idle
       /\ last.number < n
       /\ [](ws = "down")
       /\ <>[](\A u \in Upstreams : Len(view[u]) >= n)
       => <>(announced.number >= n))
===============================================================================
