# Verification of poolbeg

poolbeg is a caching JSON-RPC proxy for EVM chains. Clients reach it over HTTP and
WebSocket; it answers from a Redis cache, coalesces identical requests, and forwards the
rest to several upstream nodes in tiers, whose health it checks and whose chain head it
tracks. This directory holds TLA+ models of it, the TLC configurations that check them on
small instances, and TLAPS proofs. Line numbers in comments refer to the files of the
crate's `src/` directory; `PROJECT.json` maps every definition to the lines it stands for.

## Inventory

| Component | State | Operations | Hard behaviour |
|---|---|---|---|
| Request coalescer (`rpc/coalescer.rs`) | `in_flight`: key to broadcast sender | look up, subscribe, insert, execute, send, remove | three separate map operations; the future of the executing call may be dropped; a receiver may subscribe to a channel that is replaced |
| Upstream failover (`upstream/manager.rs`, `strategy.rs`) | the upstreams, one round-robin counter, two flags per request | collect a tier, select, acquire a token, send, go on | health changes between collecting and sending; the counter is shared by tiers and requests; three errors decided by two flags |
| Upstream client, health check (`upstream/client.rs`, `health.rs`) | `healthy`, `disabled`, `consecutive_failures`, `next_check_at`, `http_error_times` | `record_success`, `record_failure`, `record_http_error`, the check loop | every field has its own atomic or mutex, and every operation goes through several; the health check races traffic |
| Block tracker (`upstream/tracker.rs`) | last number and hash, `latest_block_number` | poll, invalidate, cache, announce, fetch logs | five awaits; upstreams that lag, disagree and reorganise; a restart over an old cache |
| Upstream WebSocket subscriber (`upstream/ws_subscriber.rs`) | `ws_connected`, its own last number | connect, confirm, forward, close, back off | runs beside the tracker and shares what it writes |
| Cache (`cache/*.rs`) | entries and the set of head-cache keys, in Redis | get, set and track, invalidate | two commands per write, three kinds per invalidation, each may fail, and nothing is atomic |
| Request handler (`rpc/handler.rs`, `types.rs`, `cache/policy.rs`) | the replies of a batch, the block each tag was resolved to | deduplicate, block, answer from memory, resolve tags, look up, coalesce, forward, fill the cache, give ids back | awaits between resolving, reading and filling, while the head moves and reorganisations purge; batches that wait for each other's calls |
| WebSocket server (`ws/handler.rs`, `subscription.rs`) | connection and subscription counters, subscriptions with their filters, an outgoing queue per connection | upgrade, subscribe, unsubscribe, dispatch, forward, clean up | three tasks per connection, a lossy event channel, shared counters |
| Rate limiter (`middleware/rate_limit.rs`) | tokens and the time of the last refill | refill and take a token | arithmetic over time, refused calls that refill too |
| Start-up and routes (`main.rs`, `server.rs`, `config.rs`, `public_endpoints.rs`, `auth.rs`) | the configuration, the chains with their public upstreams, the managers | load, validate, resolve, set up; body limit, rate limit, key, route | a failure at each step; the order of the layers |
| Metrics, command line, deployment files | none that decides anything | | none |

How they interact: a request goes through the layers to the handler of its chain, then
handler → cache → coalescer → failover → upstream client → cache. The tracker reads
upstreams through the same clients, writes and invalidates the same cache, stores
`latest_block_number` (which answers `eth_blockNumber` and resolves `latest`), and sends
events on a broadcast channel. The upstream subscriber stores and sends the same;
`ws_connected` tells the tracker to leave the announcing to it. The events reach each client
connection's dispatcher.

What makes each component correct:

- **Coalescer**: a caller gets a response to its own key, published after it called; the map
  holds no finished call; a waiter is always woken.
- **Failover**: no upstream is sent a request twice; a worse tier waits for the better ones;
  an error says what happened.
- **Upstream client**: a working node comes back, a broken one leaves, whatever races occur;
  the error window is honoured unless record calls overlap.
- **Chain head**: no orphan at the tracked height but for a Redis command that failed for
  it; no false reorganisation; logs in order; the tracked head settles when the network does.
- **Head cache**: an invalidation removes what it found; what it cannot find is explained by
  a named race or failure; stale answers end.
- **Request path**: every reply is its own request's; a transaction is handed to the failover
  as often as it occurs; an entry is what its key says, and one that is not final is put in
  the set that invalidations read; nobody waits for a waiter.
- **WebSocket server**: a subscription brings what its parameters ask for, of all events in
  a row, and stops at the confirmation of the unsubscribe; the count never wraps.
- **Server**: the limiter grants what it should and no less; each chain has its upstreams
  or is not served, and each request reaches its chain.

## Modules

| Module | Models | State and steps |
|---|---|---|
| `SharedCall` | what coalescing promises: an answer to a key is a response for that key, published after the call | abstract specification |
| `Coalescer` | `coalesce_or_execute` | one step per map operation, send and resumption; `Cancel` is the dropping of an HTTP handler's future, which is possible only at an await |
| `Failover`, `MCFailover` | `forward_request`, `strategy::select` | a request per client call; `Scan` reads one `is_healthy()`; `Select` builds the attempt order; `RateLimited`, `SendErr` are the two `continue`s |
| `UpstreamClient` | one upstream under its health check and its users | one step per atomic or mutex access of `is_healthy`, the `record_*` functions and the check loop; `Tick` is the clock |
| `ChainHead` | tracker, upstream subscriber and what they share, under a network that mines and reorganises and nodes that follow it | one step per stretch between two awaits, so that each Redis command is one and may fail: `SetBlock`, `SaddBlock` for `cache_block`; `Smembers`, `Del`, `DelSet` for `invalidate_head_cache` |
| `HeadCache` | request entries of the cache and `invalidate_head_cache` | one step per Redis command, each of which may fail |
| `Rpc` | tags, blocked and uncacheable methods, cache keys, TTL policies, repetitions in a batch | pure functions |
| `RequestPath`, `MCRequestPath` | `handle_rpc`, `process_batch`, `process_single_request` and what they call | a task per client; one step per stretch between two awaits; `Set` and `Sadd` are the two commands of a write; around it `Track`, `Evict` and `Restart` change the head and the cache at any moment |
| `LogFilter` | `LogFilter::from_value`, `matches`, and what criteria ask for | pure functions |
| `SubscriptionFeed` | what subscriptions promise: of each event a client is told all that those it has ask for, or nothing and then it counts as one that missed events | abstract specification |
| `WsServer`, `MCWsServer` | client connections, their subscriptions and filters | message handling, dispatcher and forwarder as separate tasks; a section under the lock of the subscriptions is one step |
| `RateLimiter` | the token bucket and what it promises | `Granted` and `Refused` are the two ways through `try_acquire`; `Tick` is the clock |
| `Server`, `MCServer` | `main`, `Config::validate`, `resolve_auto_public`, `setup`, the layers and routes | one step per phase of the start, any of which may end the process; `registry` is what the registry has answered, if it has; a request is one step up to its handler |
| `CoalescerProofs`, `FailoverProofs`, `UpstreamClientProofs`, `ChainHeadProofs`, `HeadCacheProofs`, `RequestPathProofs`, `ServerProofs`, `WsServerProofs` | proofs | |

Mutated forms of definitions (`... Mutant: ...`) stand beside the definitions they mutate;
none is used by a specification. Each property of a passing run is violated under the mutant
`PROJECT.json` names for it.

The modules meet at small interfaces, and each lets the others do what they please:
`Failover` changes health at any moment (how health really changes is `UpstreamClient`,
where requests answer or fail as the node does) and lets a bucket grant or refuse
(`RateLimiter`); `ChainHead` polls any upstream; `RequestPath` has a head that moves, up or
down, a cache from which any entry may go at any moment, and nodes of any height; what its
writes and an invalidation do to each other is `HeadCache`, and what becomes of a request
that it hands to `forward_request` is `Failover`; its calls wait for each other as
`SharedCall` promises, which `Coalescer` implements; `WsServer` gets its events from
nowhere. So the safety properties hold for whatever the neighbours do. `Server` extends
`RateLimiter` and uses its bucket.

## Runs

| Run | Checks | Instance |
|---|---|---|
| `coalescer` | `TypeOK`, `ChannelOwned`, `NoLostBroadcast`, refinement of `SharedCall`, `ReturnsUnlessOrphaned` | 3 calls, 2 of them droppable, 2 keys |
| `failover` | `TypeOK`, `NeverTwice`, `BetterTiersFirst`, `ErrorsAreHonest` | 4 upstreams in tiers of 2, 1, 1; any initial counter |
| `upstream` | `TypeOK`, `WindowHonouredUnlessRaced`, `Recovers`, `LeavesService` | health check and 1 user |
| `head` | `TypeOK`, `NoOrphanAtHead`, `InStep`, `LogsInOrder`, `ReorgsAreReal`, `HeadSettles`, `FallsBack` | 2 upstreams, one with WebSocket, height 2, 1 reorganisation, 1 restart, 1 failing Redis command, 1 connection; 531,586 states |
| `head_cache` | `TypeOK`, `Purged`, `TrackedUnlessRaced`, `StaleEntriesEnd` | 2 requests, 2 keys, 1 reorganisation |
| `request_path` | `TypeOK`, `AnswersItsRequest`, `ForwardedAsOftenAsMeant`, `EntriesAreSound`, `WaitsForExecution` | a client with batches of 2 and one with single requests, 2 heights; 732,348 states |
| `ws_server` | `TypeOK`, `UnsubscribedIsQuiet`, `NoGap`, `NotUndercounted`, `KeepsUp`, refinement of `SubscriptionFeed` | 1 connection, 2 subscriptions of 3 types, 3 events with 4 logs, channel of 1, batches of 2 |
| `server` | `TypeOK`, `WithinLimit`, `RefusesOnlyAtLimit`, `UpstreamsAsListed`, `RequestsReachTheirChain` | 6 configurations, 2 registries, 14 requests, 2 tokens, 4 ticks; 16,839 states |
| `coalescer_dropped` | `CallReturns`, violated | the smallest that shows it |
| `coalescer_id` | `OwnId`, violated | " |
| `upstream_retry` | `FailureKeepsRetry`, violated | " |
| `ws_leak` | `CountsActive`, violated | " |

What the violated ones show (details and quotations in `PROJECT.json`, "findings"):

- **A dropped executor blocks its key.** The map's clone of the sender outlives the dropped
  future, so the channel never closes and later calls for the key wait for ever.
  `ReturnsUnlessOrphaned` shows that this is the only way not to return.
- **A coalesced response carries another request's id.**
- **A failure shortens the retry of a disabled upstream**: `record_http_error` schedules it,
  `record_failure` of the same request overwrites it with a backoff.
- **Subscriptions of a connection that its client closes stay on the count**, since the
  cleanup looks for closed senders before it stops the forwarder that keeps them open.

Seen while modelling, and described by the weaker property that does hold:

- Two calls for a key may both execute (look-up and insert are two operations); the
  refinement shows that every caller is still answered correctly.
- The round-robin counter is shared, so with several tiers or requests no single tier is
  cycled through evenly.
- `record_success` may undo a disabling that falls between its accesses;
  `WindowHonouredUnlessRaced` says that nothing but an overlap can.
- An entry written while an invalidation runs loses its tracking when the set is deleted;
  `TrackedUnlessRaced` names all the ways.
- A reorganisation that also grows the chain between two polls is not noticed: orphans below
  the new head stay until they expire. `NoOrphanAtHead` is about the head's height.
- Redis errors are logged and passed over. A `SET` that fails over an old entry, an `SADD`
  whose key a later invalidation therefore misses, an `SMEMBERS` that fails and so counts as
  an empty set, or a `DEL` that fails, leave an orphan under the tracked head until it
  expires (60 s). `NoOrphanAtHead` says that only such a failure does, and only one for the
  very block: a later `SET` under that height, or a higher head, ends the exception.
- What the tracker caches under a height is read by nothing in `src/`: the keys of requests
  are hashes (`cache/keys.rs`), and `get_logs` has no caller. The logs of a height are asked
  for by height after the block was cached, so that they may be of another fork.
- With an upstream WebSocket, `latest_block_number` may go back (the tracker stores a height
  it read some awaits ago), and a head the tracker polled while `ws_connected` was set may
  be announced by nobody when that connection ends before delivering it. `InStep` is
  therefore about polling alone, and `FallsBack` about heights the tracker has not reached.
- A head replaced at its own height, polled or pushed, is never announced, although a
  comment expects that "subscriptions will naturally get new blocks as the tracker
  re-fetches the new chain head" (`ws/subscription.rs:253`). `InStep` has it as its
  exception.
- The connection limit is compared before the upgrade and the count raised after it, so that
  as many connections as upgrade at once may exceed it. `LimitUnlessRaced` says that those
  whose handshake no other one overtook never do; it is proved, not run (see Bounds).
- Until a process has tracked a block, tags go upstream unresolved and their answers are
  cached under the tag: "finalized" as final, for which no `SADD` is called. So do, at any
  time, the tags of methods whose block parameter the code does not know, such as
  `eth_getProof`. `EntriesAreSound` says that for every other entry `SADD` is called; that it
  may fail, or the key be lost to an invalidation that runs, is `TrackedUnlessRaced`.
- A `finalized` policy applies only to the literal tags `earliest` and `finalized`: a
  resolved block counts as unfinalized, however old.
- A method that a policy gives "-1" is still coalesced and deduplicated within a batch
  unless it is in the list of `is_uncacheable`, and `eth_blockNumber` is still answered from
  memory; the README of the repository says "Never cache, always forward to upstream"
  (`README.md:158`). `ForwardedAsOftenAsMeant` says so of the methods in that list only, and
  of the rest that a batch does not forward them twice.
- `forward_request` sends one request to several upstreams when some fail, and to none when
  none is available: a transaction that it is handed once may reach several nodes, though
  no node twice (`NeverTwice`).
- A `"result": null` of an upstream becomes a response with neither result nor error, and is
  cached as one.
- A reply that was coalesced with another client's call has that client's id; repetitions in
  one batch get their own (`AnswersItsRequest`, and `OwnId` above).
- A URL that the registry lists twice is added twice, though the repository's README says
  "Duplicate URLs are automatically deduplicated" (`README.md:184`): they are compared with
  the configured ones only. `UpstreamsAsListed` leaves open how often such a URL is added.
  If the registry fails the process ends, also when every chain has upstreams of its own; a
  chain the registry does not list may be left with none.
- A chain whose route is `/health` makes the router panic at start-up; `validate` accepts
  it.
- A request with a wrong key costs a token, as the rate limiter is outside the key's layer,
  and so does a body that is too long without declaring it. A key header that is present
  and empty hides the key of the query.
  A WebSocket upgrade takes one token, and its messages none.
- An empty array as address or topic in a log filter matches no log; a condition that is
  neither text nor array matches every one.

## Bounds

- **Coalescer**: three calls are a dropped or finished executor, one whose insert overwrites
  it, and a waiter; the proofs cover any number.
- **Failover**: two candidates in a tier, a tier to fall to and one after it. `Cycle` keeps
  the `usize` counter modulo 12, a multiple of every possible number of candidates, and
  starts anywhere, for whatever other requests have made of it; its wrap at 2^64 is not
  modelled. Requests share nothing but that counter and the health, so that one suffices;
  the proofs cover any number of upstreams and requests, any roles and each strategy.
- **UpstreamClient**: 6 failures, 5 errors, 1 h, 10 s, 600 s and 24 h become 3, 2, 2, 1, 2
  and 2: both thresholds need more than one step, the backoff doubles and meets its cap, and
  errors age out before a disabled upstream is retried. With the real numbers the cap is
  never reached: the fifth failure waits 160 s, the sixth disables. A user forwards requests
  or polls as it pleases.
- **ChainHead**: `MaxNumber` and `MaxFork` bound the chain: with two heights and one fork a
  height above, at and below the tracked one are there, on either branch. `MaxRestarts`
  bounds the restarts, `MaxFailures` the Redis commands that fail and `MaxConnections` the
  upstream's connections; with one of each every command fails at every place, before and
  after the restart, and the tracker goes from polling alone to a connection and back. A
  node's head never loses height. The proofs cover any values of these bounds.
- **HeadCache**: two requests for one key or for two; the invalidation reads, and loses,
  each subset of two keys. `MaxFork` of 1 makes one reorganisation.
- **RequestPath**: one client's batch has two requests, equal or not, from a tagged request,
  which a policy keeps for ever if it is final, and a transaction; the other client has the
  same tagged request, one answered from memory, which the policy never caches, and a
  blocked one. Two heights make a tag stand for different blocks. The proofs cover any menu,
  length and policy.
- **WsServer**: a channel of 1 instead of 1024, so that lagging takes two events; `Feed` is
  what is sent and `MaxRequests` bounds what is asked; batches of two. Of the four logs two
  match the filter, one has another address and one is too short for it. One connection: two
  exceed five minutes with liveness, and connections meet only in the two counters, to which
  they add and from which they subtract atomically; the proofs cover any number. About the
  limit of connections a single one shows nothing: `LimitUnlessRaced` is only proved.
- **Server**: configurations valid and invalid, with chains that need the registry and
  chains that do not, and one whose route is the health route; a registry that lists an
  endpoint twice, one that is configured, and one that leaves out a chain; it may also not
  answer. Requests of four verbs, with a key in the header, in the query, in neither and
  wrong or empty in one, and with bodies of the three kinds. Two tokens per three ticks, so
  that fractions of a token are left; `MaxTime` bounds the clock.

## Fairness

- **Coalescer**: a woken task is polled again, and an upstream request ends (client timeout
  of 30 s). Clients need neither call nor stay.
- **UpstreamClient**: time passes, the check loop wakes (every 5 s), requests end. The node
  need not ever be up, and nobody need send requests: the liveness properties assume of the
  node only that it stays up, or down, from some time on.
- **ChainHead**: the tracker's interval ticks and a poll with a new answer is answered now
  and then (one that fails is no step); each await ends, the failing ones too;
  notifications are read; a subscriber without connection backs off. No connection need be
  made, and no entry need expire: `HeadSettles` is about the tracked head.
- **HeadCache**: TTLs run out (the policy must not be "forever", which is TTL zero) and
  requests end.
- **WsServer**: tasks run; a forwarder writes or fails, which assumes that the client reads
  or goes away.
- **RequestPath**, **Server**: none; their properties are of safety. That a call returns at
  all is the Coalescer's `ReturnsUnlessOrphaned`.

## Proofs

All are for any value of the constants, under the named assumptions of the modules.

- `CoalescerProofs`. The inductive invariant `IInv` adds to the three invariants who holds
  which channel: a task's channel is in the map under its own key, a task that has sent has
  its response, and a waiter's receiver belongs to a call for its key. From it:
  `TypeCorrect`, `MapHoldsNoFinishedCall`, `BroadcastReachesWaiters`, and `Refinement`
  (`Spec => ImplementsSharedCall`), whose step case maps each of the eight actions to an
  abstract one or a stutter. Without "a waiter's channel is of its key" and "sent since it
  looked up" neither the refinement nor `NoLostBroadcast` is preserved by the step in which
  a waiter receives.
- `FailoverProofs`. A step of a request leaves the others alone, so the invariant is stated
  for one request (`LocalInv`) and carried over by `Frame`. Its parts say, by the stage the
  request is in, which upstreams it has tried, which remain in its attempt order, and that
  every upstream of a left tier that stayed healthy was tried. From it: `TypeCorrect`,
  `NoRepeat`, `TierOrder`, `Honesty`. No use is made of `Cycle` being a multiple of the
  numbers of candidates: that is needed only for the counter to be faithful.

- `UpstreamClientProofs`. A success is *clean* while nothing has overlapped it. The
  invariant says that a clean one is alone in `record_success` (`Alone`), that the error
  times are those of the history unless another success has cleared them (`SameErrors`), and
  what a clean one therefore knows of the window and of `disabled` when it is about to clear
  or to enable (`WindowInv`). `WindowHonouredUnlessRaced` by itself says nothing of the
  steps before the one that enables. Result: `OnlyRacesBreakTheWindow`.
  `TypeCorrect` has an invariant of its own (`TypeInv`): that the error times are in order, so
  that those still within the window are the first ones, and that a count that a delay is
  computed from is not zero. That every doubled backoff is a number is shown by the least
  counterexample.
- `ChainHeadProofs`. Every block a node or the tracker holds is on the network's chain or
  was replaced (`KnownInv`), the block worked on is above the last one unless it replaces it
  (`OrderInv`). For `NoOrphans` the cache is followed command by command (`CachedInv`):
  unless a command has failed for the block in question (`missed`), its height's entry is
  that block or gone once it is set, and from `SADD` on its key is in the set; of a replaced
  block the entry is deleted, or its key is still to be, while an invalidation runs. The
  theorem alone says nothing of the stretch between `SET` and `SADD`, after which an
  invalidation would not find the key. From it: `NoOrphans`, `LogOrder`, `RealReorgs`.
  `TypeCorrect` and `HeadInStep` have invariants of their own; the latter relates what is
  announced, stored and remembered at each of the tracker's awaits, as long as no
  subscription has been confirmed.
- `HeadCacheProofs`. What an invalidation has found and passed is gone, and what the set
  holds it has found but for the races recorded (`DeletingInv`); it drops the set with
  nothing left to delete (`NothingLeft`). Without these the deletion of the set could
  untrack an entry. From it: `TypeCorrect`, `InvalidationPurges`, `OnlyRacesUntrack`.

- `RequestPathProofs`. Types are an invariant of the tasks and of their replies
  (`TypeCorrect`). For `NoWaitingCycle`, whoever waits does so for a task that executes the
  same key; a task leaves that state only together with all who wait for it. For
  `CacheIsSound`, what a task asks for is its current request as some head makes it, what it
  is about to store is an answer of that block (`AskOK`), and an entry whose `SADD` is still
  to come belongs to a task that is about to call it (`HalfWritten`). `RepliesAreOwn` adds
  what the replies so far are (`ReplyOK`); the third pass needs that the first occurrence
  has been answered and is no repetition itself, a fact about the least element of a set
  (`FirstFacts`). `ForwardsAreMeant` adds what has been forwarded before, at and after the
  current request (`SendOK`).
- `ServerProofs`. The bucket's invariant: what is in it is the room that the tightest
  interval up to the last refill leaves (`LimiterInv`): every interval leaves at least that,
  from which `WithinLimit` follows, and one no more, from which `RefusesOnlyAtLimit` does.
  It is proved for `RateLimiter` by itself, whose promise the `Server` inherits by
  `ServerImplementsLimiter`. `RoutesAreTrue` needs that the managers are the configuration's
  chains, index by index, through `Load`, `Resolve` and `Setup`. `ServedAsListed` and
  `TypeCorrect` follow from what each phase of the start hands to the next (`StartInv`:
  among it, that a chain which needs the registry is past `Resolve` only with an answer),
  and from what the loop over the registry's URLs keeps (`EndpointsKept`): each
  that is not configured, and no other.
- `WsServerProofs`. Six invariants beside the types: what a task has left to do (`Tasks`),
  that the count of subscriptions is at least that of a finite set of them (`CountInv`; the
  set has a token for one that is removed and not yet taken off, so that each step moves one
  element), that the count of connections is the number of open ones
  (`ConnectionsCounted`), that a handshake which no other overtook still
  finds the room it found (`LimitInv`), that no reply is a notification and whatever a
  queued reply says has ended has ended (`Confirmed`), and that each subscription is as its
  parameters ask and has had all that is due to it and nothing later (`Streams`). From them:
  `TypeCorrect`, `QuietAfterUnsubscribe`, `NoneUncounted`, `RacesOnlyExceedLimit`,
  `NothingMissed`.

  For `NothingMissed`, `Delivers` says of a sequence of messages which notifications of a
  subscription it holds, each once and in order. It is kept when a sequence of later ones is
  appended (`DeliversConcat`) and when a sequence of sequences is flattened
  (`FlattenDelivers`), so that what one event brings to one subscription
  (`HandledDelivers`) carries over to the whole step, whatever the order of the map
  (`BatchDelivers`). `FilterFaithful` is the heart: the filter that `from_value` makes of
  the criteria matches the logs that the criteria ask for. What is flattened is defined
  recursively, so that this would be an induction; `FlattenSteps` has it from the least
  counterexample, as partial results of which each continues the one before.

  `FeedRefinement` (`Spec => ImplementsFeed`) maps each action to one of `SubscriptionFeed`
  or to a stutter. It says more than `NothingMissed` of a connection that has lagged: it
  still gets whole events. A step that ends the dispatcher's hold on the client (a lag, a
  forwarder that fails, an upgrade that fails) is a `Miss` or an `End`. The order of what
  is heard is not part of it; that is `NothingMissed`.

What is assumed of the constants is their shape: the parameters of a request have the
fields that the code reads and its topics are a list; the logs of an event are a list, and
only a `NewLogs` has any; upstreams have a URL and a role, and the registry lists texts.
Thresholds, capacities and limits are positive numbers.

Only model-checked: all liveness (`ReturnsUnlessOrphaned`, `Recovers`, `LeavesService`,
`HeadSettles`, `FallsBack`, `StaleEntriesEnd`, `KeepsUp`), which, like ENABLED, is out of
the prover's reach. Every other property of a passing run is a theorem, and
`LimitUnlessRaced` is one that no run checks. `SelectSeq` is not
expanded by the prover, so that the loops that select are modelled by `FlattenSeq`.

## Not modelled

- Which requests have equal cache keys: a key is a hash of method and parameters, taken to
  be the request. The tracker's entries by block hash and of logs, written by the same
  commands under keys of their own, and that its entries expire, which only makes them
  fewer: the tracker's entries are never read by the request path.
- Texts: the parsing of JSON, YAML, durations and environment variables; method patterns,
  which stand for the set of methods they match; addresses and topics, taken up to case.
- An entry that Redis has lost or that is corrupt, and a failing read, are `Miss`; that
  entries of requests expire is in `HeadCache`, and `Evict` in `RequestPath`.
- Requests over WebSocket that are no subscriptions take the way of `RequestPath`, without
  the deduplication of batches; they are one step of `WsServer`.
- A client's disconnect in the middle of `forward_request`: it stops a request and records
  nothing (`UpstreamClient.Dropped` has its effect on the upstream, `Coalescer.Cancel` on
  the map, `HeadCache.Drop` on the cache).
- The wrap of the round-robin counter; the rounding of the limiter's `f64`; delays of the
  upstream subscriber's backoff and which upstream it picks; the unbounded queue of a client
  that does not read; a connection of the upstream that goes silent without closing.
- The headers of CORS (a preflight is a status of `Server`), the listener, the shutdown
  signal, the command line, metrics, deployment files: pure I/O.

## Plan

In this order; what is done is marked.

1. Coalescer and its abstract specification, with proofs (done).
2. Failover, with proofs (done).
3. Upstream client under races, with the proof of `WindowHonouredUnlessRaced` (done).
4. Chain head, with the proof of its safety properties (done).
5. Head cache, with the proof of its safety properties (done).
6. WebSocket server with log filters, with proofs (done).
7. Rate limiter and server, with proofs (done).
8. Request path with its rules, with proofs (done).
9. Proofs of `NoGap`, of `UpstreamsAsListed` and of the remaining types (done), and the
   abstract specification of a connection's subscriptions with its refinement (done).
10. Abstract specifications of the failover (a request is answered by the best upstream that
    would) and of the block tracker (clients are told of a growing chain), with refinements.
11. The request path and the chain head composed, for what a client may read after it was
    told of a head.
