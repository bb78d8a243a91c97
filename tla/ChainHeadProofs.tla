---------------------------- MODULE ChainHeadProofs ----------------------------
(***************************************************************************)
(* Proofs about ChainHead for any upstreams, with or without WebSocket,    *)
(* any height of the chain and any number of reorganisations: what the     *)
(* tracker takes for a reorganisation, what it leaves in the cache, the    *)
(* order of the logs, and, as long as there was no upstream subscription,  *)
(* the agreement of the announced head with eth_blockNumber.               *)
(***************************************************************************)
EXTENDS ChainHead, SequenceTheorems, TLAPS

Block == [number : Nat, fork : Nat]

\* What the proofs need of the types: a head has a height of at least 1.
Types ==
  /\ chain \in Seq(Nat) /\ Len(chain) \in Numbers
  /\ view \in [Upstreams -> Seq(Nat)]
  /\ \A u \in Upstreams : Len(view[u]) >= 1
  /\ block \in Block
  /\ last \in Block
  /\ pc \in {"idle", "smembers", "del", "del_set"} \cup Caching
  /\ pc # "idle" => block.number >= 1
  /\ entry \in [Numbers -> Block]
  /\ logged \in Nat

\* Block x was at some time on the network's chain: it still is, or was replaced.
Known(x) == x.number <= Len(chain) /\ (x.fork = chain[x.number] \/ x.number \in replaced)

\* Every block of a node, and every one that the tracker holds, is known.
KnownInv ==
  /\ \A u \in Upstreams : \A n \in 1..Len(view[u]) : Known(BlockAt(view[u], n))
  /\ last.number >= 1 => Known(last)
  /\ block.number >= 1 => Known(block)

\* Where the tracker stands: a replaced block has the height of the last one, a new
\* block a greater one, and the logs delivered are of the last one or below.
OrderInv ==
  /\ pc \in {"smembers", "del", "del_set"} => block.number = last.number
  /\ pc \in Caching => block.number > last.number
  /\ logged <= last.number

\* No other block than b is under its height, and one that is there is tracked.
Held(b) ==
  entry[b.number] # NoBlock => entry[b.number] = b /\ b.number \in members

\* What is under the height worked on, unless a command has failed: the block before,
\* tracked, until its deletion; the new block once it is stored, tracked once it was
\* added; and between two polls the last block.
CachedInv ==
  ~missed =>
    /\ pc = "idle" /\ last # NoBlock => Held(last)
    /\ pc = "smembers" => Held(last)
    /\ pc = "del" => entry[block.number] = NoBlock \/ block.number \in todo
    /\ pc = "del_set" => entry[block.number] = NoBlock
    /\ pc = "sadd_block" => entry[block.number] \in {NoBlock, block}
    /\ pc \in {"announce", "get_logs", "cache_logs"} => Held(block)

IInv == Types /\ KnownInv /\ OrderInv /\ CachedInv

-------------------------------------------------------------------------------
LEMMA InitIInv == Init => IInv
<1> SUFFICES ASSUME Init PROVE IInv
  OBVIOUS
<1>1. chain = <<0>> /\ chain \in Seq(Nat) /\ Len(chain) = 1 /\ chain[1] = 0
  BY DEF Init
<1>2. \A u \in Upstreams : view[u] = chain
  BY DEF Init
<1>3. Types
  <2>1. NoBlock \in Block /\ 1 \in Numbers
    BY ChainHeadAssumption DEF NoBlock, Block, Numbers
  <2> QED
    BY <1>1, <1>2, <2>1 DEF Init, Types
<1>4. KnownInv
  BY <1>1, <1>2 DEF Init, KnownInv, Known, BlockAt, NoBlock
<1>5. OrderInv /\ CachedInv
  BY DEF Init, OrderInv, CachedInv, Caching, NoBlock
<1> QED
  BY <1>3, <1>4, <1>5 DEF IInv

-------------------------------------------------------------------------------
\* The network and its nodes.

\* What the network does to its chain keeps known what was known.
LEMMA StaysKnown ==
  ASSUME Types, Mine \/ Reorganise,
         NEW x, x.number \in Nat, x.number >= 1, Known(x)
  PROVE  Known(x)'
<1>1. CASE Mine
  <2>1. chain' = Append(chain, Last(chain)) /\ replaced' = replaced
    BY <1>1 DEF Mine
  <2>2. Len(chain') = Len(chain) + 1 /\ \A n \in 1..Len(chain) : chain'[n] = chain[n]
    BY <2>1 DEF Types
  <2> QED
    BY <2>1, <2>2 DEF Known, Types
<1>2. CASE Reorganise
  <2>1. PICK from \in 1..Len(chain) :
          /\ chain' = [n \in 1..Len(chain) |-> IF n < from THEN chain[n] ELSE Last(chain) + 1]
          /\ replaced' = replaced \cup from..Len(chain)
    BY <1>2 DEF Reorganise
  <2>2. Len(chain) \in Nat /\ Len(chain') = Len(chain)
    BY <2>1 DEF Types
  <2>3. x.number \in 1..Len(chain)
    BY <2>2 DEF Known
  <2>4. CASE x.number < from
    BY <2>1, <2>2, <2>3, <2>4 DEF Known
  <2>5. CASE x.number >= from
    <3>1. x.number \in replaced'
      BY <2>1, <2>2, <2>3, <2>5
    <3> QED
      BY <2>2, <2>3, <3>1 DEF Known
  <2> QED
    BY <2>3, <2>4, <2>5
<1> QED
  BY <1>1, <1>2

LEMMA NetworkIInv == ASSUME IInv, Mine \/ Reorganise PROVE IInv'
<1>0. UNCHANGED <<view, tracker, cache, logged>>
  BY DEF Mine, Reorganise
<1>1. chain' \in Seq(Nat) /\ Len(chain') \in Numbers
  <2>1. CASE Mine
    BY <2>1, ChainHeadAssumption DEF Mine, IInv, Types, Last, Numbers
  <2>2. CASE Reorganise
    <3>1. PICK from \in 1..Len(chain) :
            chain' = [n \in 1..Len(chain) |-> IF n < from THEN chain[n] ELSE Last(chain) + 1]
      BY <2>2 DEF Reorganise
    <3>2. \A n \in 1..Len(chain) : chain'[n] \in Nat
      BY <3>1 DEF IInv, Types, Last, Numbers
    <3> QED
      BY <3>1, <3>2 DEF IInv, Types, Numbers
  <2> QED
    BY <2>1, <2>2
<1>2. Types'
  BY <1>0, <1>1 DEF IInv, Types, tracker, cache
<1>3. KnownInv'
  <2>1. ASSUME NEW u \in Upstreams, NEW n \in 1..Len(view[u])
        PROVE  Known(BlockAt(view[u], n))'
    <3>1. Known(BlockAt(view[u], n))
      BY <2>1 DEF IInv, KnownInv
    <3>2. BlockAt(view[u], n).number \in Nat /\ BlockAt(view[u], n).number >= 1
      BY DEF BlockAt, IInv, Types
    <3> QED
      BY <1>0, <3>1, <3>2, StaysKnown DEF IInv, BlockAt, Known
  <2>2. last.number >= 1 => Known(last)'
    BY StaysKnown, <1>0 DEF IInv, KnownInv, Types, Block, tracker, Known
  <2>3. block.number >= 1 => Known(block)'
    BY StaysKnown, <1>0 DEF IInv, KnownInv, Types, Block, tracker, Known
  <2> QED
    BY <1>0, <2>1, <2>2, <2>3 DEF KnownInv, tracker
<1>4. OrderInv' /\ CachedInv'
  BY <1>0 DEF IInv, OrderInv, CachedInv, Held, tracker, cache
<1> QED
  BY <1>2, <1>3, <1>4 DEF IInv
LEMMA ImportIInv == ASSUME IInv, NEW u \in Upstreams, Import(u) PROVE IInv'
<1>0. UNCHANGED <<chain, replaced, tracker, cache, logged>> /\ view' = [view EXCEPT ![u] = chain]
  BY DEF Import
<1>1. Types'
  BY <1>0 DEF IInv, Types, tracker, cache, Numbers
<1>2. KnownInv'
  <2>1. ASSUME NEW v \in Upstreams, NEW n \in 1..Len(view'[v])
        PROVE  Known(BlockAt(view[v], n))'
    <3>1. CASE v = u
      BY <1>0, <2>1, <3>1 DEF Known, BlockAt, IInv, Types
    <3>2. CASE v # u
      BY <1>0, <2>1, <3>2 DEF IInv, KnownInv, Types, Known, BlockAt
    <3> QED
      BY <3>1, <3>2
  <2>2. (last.number >= 1 => Known(last))' /\ (block.number >= 1 => Known(block))'
    BY <1>0 DEF IInv, KnownInv, Known, tracker
  <2> QED
    BY <2>1, <2>2 DEF KnownInv
<1>3. OrderInv' /\ CachedInv'
  BY <1>0 DEF IInv, OrderInv, CachedInv, Held, tracker, cache
<1> QED
  BY <1>1, <1>2, <1>3 DEF IInv

-------------------------------------------------------------------------------
\* The tracker.

\* A node's head is a known block of a height of at least 1.
LEMMA HeadKnown ==
  ASSUME IInv, NEW u \in Upstreams
  PROVE  /\ HeadOf(view[u]) \in Block
         /\ HeadOf(view[u]).number >= 1
         /\ Known(HeadOf(view[u]))
BY DEF IInv, Types, KnownInv, HeadOf, BlockAt, Block

\* What the tracker works on is a height of the chain.
LEMMA HeightInRange ==
  ASSUME IInv
  PROVE  pc # "idle" => block.number \in Numbers
BY ChainHeadAssumption DEF IInv, Types, KnownInv, Known, Block, Numbers

LEMMA PollIInv == ASSUME IInv, NEW u \in Upstreams, Poll(u) PROVE IInv'
<1> DEFINE b == HeadOf(view[u])
<1>0. /\ pc = "idle" /\ b # last /\ ~Lagging(b) /\ block' = b
      /\ pc' = IF Replaces(b) THEN "smembers" ELSE "set_block"
      /\ UNCHANGED <<network, todo, last, cache, logged>>
  BY DEF Poll
<1>1. b \in Block /\ b.number >= 1 /\ Known(b)
  BY HeadKnown
<1> HIDE DEF b
<1>2. Types'
  BY <1>0, <1>1 DEF IInv, Types, network, cache, Caching
<1>3. KnownInv'
  BY <1>0, <1>1 DEF IInv, KnownInv, Known, BlockAt, network
<1>4. OrderInv'
  BY <1>0, <1>1 DEF IInv, Types, OrderInv, Lagging, Replaces, Block, Caching
<1>5. CachedInv'
  <2>1. Replaces(b) => last # NoBlock
    BY <1>1 DEF Replaces, NoBlock, Block
  <2> QED
    BY <1>0, <2>1 DEF IInv, CachedInv, Held, cache
<1> QED
  BY <1>2, <1>3, <1>4, <1>5 DEF IInv

\* A poll that ends with its block for the last keeps all but what is in the cache.
LEMMA RememberIInv ==
  ASSUME IInv, pc # "idle", Remember, UNCHANGED network, entry' = entry,
         logged' \in {logged, block.number}
  PROVE  Types' /\ KnownInv' /\ OrderInv'
<1>0. pc' = "idle" /\ block' = NoBlock /\ last' = block
  BY DEF Remember, EndPoll
<1>1. NoBlock \in Block /\ NoBlock.number = 0
  BY DEF NoBlock, Block
<1>2. Types'
  BY <1>0, <1>1 DEF IInv, Types, network, Block
<1>3. KnownInv'
  BY <1>0, <1>1 DEF IInv, KnownInv, Known, BlockAt, network
<1>4. OrderInv'
  BY <1>0 DEF IInv, Types, OrderInv, Block, Caching
<1> QED
  BY <1>2, <1>3, <1>4

\* A step in the midst of a poll keeps what is not about the cache and the place.
LEMMA MidPollIInv ==
  ASSUME IInv, pc # "idle", pc' \in {"del", "del_set"} \cup Caching,
         pc' \in Caching <=> pc \in Caching, entry' \in [Numbers -> Block],
         UNCHANGED <<network, block, last, logged>>
  PROVE  Types' /\ KnownInv' /\ OrderInv'
<1>1. Types'
  BY DEF IInv, Types, network, Caching
<1>2. KnownInv'
  BY DEF IInv, KnownInv, Known, BlockAt, network
<1>3. OrderInv'
  BY DEF IInv, Types, OrderInv, Caching
<1> QED
  BY <1>1, <1>2, <1>3

LEMMA SmembersIInv == ASSUME IInv, Smembers PROVE IInv'
<1>0. /\ pc = "smembers" /\ block.number = last.number /\ block.number \in Numbers
      /\ UNCHANGED <<network, entry, members, logged>>
  BY HeightInRange DEF Smembers, IInv, OrderInv
<1>1. CASE todo' # {}
  <2>1. /\ todo' = members /\ UNCHANGED missed
        /\ pc' = "del" /\ UNCHANGED <<block, last>>
    BY <1>1 DEF Smembers
  <2>2. Types' /\ KnownInv' /\ OrderInv'
    BY <1>0, <2>1, MidPollIInv DEF IInv, Types, Caching
  <2>3. CachedInv'
    BY <1>0, <2>1 DEF IInv, CachedInv, Held
  <2> QED
    BY <2>2, <2>3 DEF IInv
<1>2. CASE todo' = {}
  <2>1. Remember /\ (missed' \/ (members = {} /\ UNCHANGED missed))
    BY <1>2 DEF Smembers
  <2>2. Types' /\ KnownInv' /\ OrderInv'
    BY <1>0, <2>1, RememberIInv
  <2>3. CachedInv'
    BY <1>0, <2>1 DEF IInv, CachedInv, Held, Remember, EndPoll
  <2> QED
    BY <2>2, <2>3 DEF IInv
<1> QED
  BY <1>1, <1>2

LEMMA DelIInv == ASSUME IInv, Del PROVE IInv'
<1>0. /\ pc = "del" /\ block.number \in Numbers
      /\ UNCHANGED <<network, block, last, logged>>
  BY HeightInRange DEF Del
<1>1. PICK n \in todo :
        /\ \/ /\ entry' = [entry EXCEPT ![n] = NoBlock]
              /\ missed' = (missed /\ n # block.number)
           \/ /\ missed' = (missed \/ n = block.number)
              /\ UNCHANGED entry
        /\ todo' = todo \ {n}
        /\ pc' = IF todo' = {} THEN "del_set" ELSE "del"
  BY DEF Del
<1>2. entry \in [Numbers -> Block] /\ NoBlock \in Block
  BY DEF IInv, Types, NoBlock, Block
<1>3. entry' \in [Numbers -> Block]
  BY <1>1, <1>2
<1>4. Types' /\ KnownInv' /\ OrderInv'
  BY <1>0, <1>1, <1>3, MidPollIInv DEF Caching
<1>5. CachedInv'
  <2>1. ASSUME ~missed' PROVE entry'[block.number] = NoBlock \/ block.number \in todo'
    <3>1. CASE n = block.number
      BY <1>0, <1>1, <1>2, <2>1, <3>1
    <3>2. CASE n # block.number
      <4>1. ~missed
        BY <1>1, <2>1, <3>2
      <4>2. entry[block.number] = NoBlock \/ block.number \in todo
        BY <1>0, <4>1 DEF IInv, CachedInv
      <4>3. entry'[block.number] = entry[block.number]
        BY <1>0, <1>1, <1>2, <3>2
      <4> QED
        BY <1>1, <3>2, <4>2, <4>3
    <3> QED
      BY <3>1, <3>2
  <2> QED
    BY <1>0, <1>1, <2>1 DEF CachedInv
<1> QED
  BY <1>4, <1>5 DEF IInv

LEMMA DelSetIInv == ASSUME IInv, DelSet PROVE IInv'
<1>0. pc = "del_set" /\ Remember /\ UNCHANGED <<network, entry, missed, logged>>
  BY DEF DelSet
<1>1. Types' /\ KnownInv' /\ OrderInv'
  BY <1>0, RememberIInv
<1>2. CachedInv'
  BY <1>0 DEF IInv, CachedInv, Held, Remember, EndPoll
<1> QED
  BY <1>1, <1>2 DEF IInv

LEMMA SetBlockIInv == ASSUME IInv, SetBlock PROVE IInv'
<1>0. /\ pc = "set_block" /\ pc' = "sadd_block" /\ block.number \in Numbers
      /\ UNCHANGED <<network, block, last, logged>>
  BY HeightInRange DEF SetBlock
<1>1. entry \in [Numbers -> Block] /\ block \in Block
  BY DEF IInv, Types
<1>2. entry' \in [Numbers -> Block]
  BY <1>1 DEF SetBlock
<1>3. Types' /\ KnownInv' /\ OrderInv'
  BY <1>0, <1>2, MidPollIInv DEF Caching
<1>4. CachedInv'
  BY <1>0, <1>1 DEF SetBlock, CachedInv
<1> QED
  BY <1>3, <1>4 DEF IInv

LEMMA SaddBlockIInv == ASSUME IInv, SaddBlock PROVE IInv'
<1>0. /\ pc = "sadd_block" /\ pc' = "announce"
      /\ UNCHANGED <<network, block, last, entry, logged>>
  BY DEF SaddBlock
<1>1. Types' /\ KnownInv' /\ OrderInv'
  BY <1>0, MidPollIInv DEF IInv, Types, Caching
<1>2. CachedInv'
  BY <1>0 DEF SaddBlock, IInv, CachedInv, Held
<1> QED
  BY <1>1, <1>2 DEF IInv

LEMMA AnnounceIInv == ASSUME IInv, Announce PROVE IInv'
<1>0. /\ pc = "announce" /\ pc' = "get_logs"
      /\ UNCHANGED <<network, block, last, cache, logged>>
  BY DEF Announce
<1>1. Types' /\ KnownInv' /\ OrderInv'
  BY <1>0, MidPollIInv DEF IInv, Types, Caching, cache
<1>2. CachedInv'
  BY <1>0 DEF IInv, CachedInv, Held, cache
<1> QED
  BY <1>1, <1>2 DEF IInv

LEMMA GetLogsIInv == ASSUME IInv, GetLogs PROVE IInv'
<1>0. pc = "get_logs" /\ UNCHANGED <<network, cache, logged>>
  BY DEF GetLogs
<1>1. CASE Finish
  <2>1. Remember
    BY <1>1 DEF Finish
  <2>2. Types' /\ KnownInv' /\ OrderInv'
    BY <1>0, <2>1, RememberIInv DEF cache
  <2>3. CachedInv'
    BY <1>0, <2>1 DEF IInv, CachedInv, Held, Remember, EndPoll, cache
  <2> QED
    BY <2>2, <2>3 DEF IInv
<1>2. CASE pc' = "cache_logs" /\ UNCHANGED <<block, last>>
  <2>1. Types' /\ KnownInv' /\ OrderInv'
    BY <1>0, <1>2, MidPollIInv DEF IInv, Types, Caching, cache
  <2>2. CachedInv'
    BY <1>0, <1>2 DEF IInv, CachedInv, Held, cache
  <2> QED
    BY <2>1, <2>2 DEF IInv
<1> QED
  BY <1>1, <1>2 DEF GetLogs

LEMMA CacheLogsIInv == ASSUME IInv, CacheLogs PROVE IInv'
<1>0. /\ pc = "cache_logs" /\ Remember /\ logged' = block.number
      /\ UNCHANGED <<network, cache>>
  BY DEF CacheLogs, Finish
<1>1. Types' /\ KnownInv' /\ OrderInv'
  BY <1>0, RememberIInv DEF cache
<1>2. CachedInv'
  BY <1>0 DEF IInv, CachedInv, Held, Remember, EndPoll, cache
<1> QED
  BY <1>1, <1>2 DEF IInv

LEMMA TrackerIInv == ASSUME IInv, Tracker PROVE IInv'
BY PollIInv, SmembersIInv, DelIInv, DelSetIInv, SetBlockIInv, SaddBlockIInv, AnnounceIInv,
   GetLogsIInv, CacheLogsIInv DEF Tracker

-------------------------------------------------------------------------------
\* The subscriber touches nothing that the invariant is about.
LEMMA SubscriberIInv == ASSUME IInv, Subscriber PROVE IInv'
<1>0. UNCHANGED <<network, tracker, cache, logged>>
  BY DEF Subscriber, Ask, Confirm, Notice, Close, BackOff
<1> QED
  BY <1>0 DEF IInv, Types, KnownInv, Known, BlockAt, OrderInv, CachedInv, Held, network,
              tracker, cache

\* A fresh tracker has no last block, so an old cache holds no orphan under its height.
LEMMA RestartIInv == ASSUME IInv, Restart PROVE IInv'
<1>0. /\ pc' = "idle" /\ block' = NoBlock /\ last' = NoBlock /\ logged' = 0
      /\ UNCHANGED <<network, entry, members>>
  BY DEF Restart, EndPoll
<1>1. NoBlock \in Block /\ NoBlock.number = 0
  BY DEF NoBlock, Block
<1>2. Types'
  BY <1>0, <1>1 DEF IInv, Types, network
<1>3. KnownInv' /\ OrderInv'
  BY <1>0, <1>1 DEF IInv, KnownInv, Known, BlockAt, OrderInv, Caching, network
<1>4. CachedInv'
  BY <1>0 DEF CachedInv
<1> QED
  BY <1>2, <1>3, <1>4 DEF IInv

LEMMA NextIInv == IInv /\ [Next]_vars => IInv'
<1> SUFFICES ASSUME IInv, [Next]_vars PROVE IInv'
  OBVIOUS
<1>1. CASE Mine \/ Reorganise
  BY <1>1, NetworkIInv
<1>2. CASE \E u \in Upstreams : Import(u)
  BY <1>2, ImportIInv
<1>4. CASE Tracker
  BY <1>4, TrackerIInv
<1>5. CASE Subscriber
  BY <1>5, SubscriberIInv
<1>6. CASE Restart
  BY <1>6, RestartIInv
<1>7. CASE UNCHANGED vars
  BY <1>7 DEF vars, IInv, Types, KnownInv, Known, BlockAt, OrderInv, CachedInv, Held,
              network, tracker, cache
<1> QED
  BY <1>1, <1>2, <1>4, <1>5, <1>6, <1>7 DEF Next

\* The inductive invariant holds throughout.
THEOREM Invariance == Spec => []IInv
<1> QED
  BY InitIInv, NextIInv, PTL DEF Spec

\* Between two polls no block is cached under the height of the tracked head but that
\* head, whatever happens between two commands, unless one of those that concern the
\* entry has failed (tracker.rs:145-192, redis.rs:80-92).
THEOREM NoOrphans == Spec => []NoOrphanAtHead
<1>1. IInv => NoOrphanAtHead
  BY DEF IInv, CachedInv, Held, NoOrphanAtHead, Idle
<1> QED
  BY <1>1, Invariance, PTL

\* Logs are delivered once for a height and in order of height (tracker.rs:155-258).
THEOREM LogOrder == Spec => []LogsInOrder
<1>1. IInv => LogsInOrder
  BY DEF IInv, Types, OrderInv, LogsInOrder, Block, Caching
<1> QED
  BY <1>1, Invariance, PTL

\* Two known blocks of a height that differ: the network has replaced one of them.
LEMMA DifferentBlocks ==
  ASSUME NEW x \in Block, NEW y \in Block, x # y, x.number = y.number, Known(x), Known(y)
  PROVE  x.number \in replaced
BY DEF Block, Known

\* A Reorg event is sent only for a height at which the network has replaced a block,
\* however the upstreams lag and disagree (tracker.rs:155-169).
THEOREM RealReorgs == Spec => ReorgsAreReal
<1>1. ASSUME IInv, [Next]_vars, pc = "idle", pc' = "smembers"
      PROVE  block'.number \in replaced
  <2>1. PICK u \in Upstreams : Poll(u)
    BY <1>1 DEF Next, vars, tracker, Mine, Reorganise, Import, Tracker, Smembers,
                Del, DelSet, SetBlock, SaddBlock, Announce, GetLogs, CacheLogs, Subscriber,
                Ask, Confirm, Notice, Close, BackOff, Restart, EndPoll
  <2>2. block' = HeadOf(view[u]) /\ Replaces(block')
    BY <1>1, <2>1 DEF Poll
  <2>3. block' \in Block /\ block'.number >= 1 /\ Known(block')
    BY <1>1, <2>2, HeadKnown
  <2>4. last \in Block /\ Known(last)
    BY <1>1, <2>2, <2>3 DEF IInv, Types, KnownInv, Replaces
  <2> QED
    BY <2>2, <2>3, <2>4, DifferentBlocks DEF Replaces
<1>2. IInv /\ [Next]_vars => [pc = "idle" /\ pc' = "smembers" => block'.number \in replaced]_vars
  BY <1>1
<1> QED
  BY <1>2, Invariance, PTL DEF Spec, ReorgsAreReal

-------------------------------------------------------------------------------
\* A process that has confirmed no subscription has nobody but its tracker to announce
\* a block and to store its height: first the one, in Announce, then the other, as its poll ends.
PolledInv ==
  ~pushed =>
    /\ ws # "live" /\ ~ws_connected
    /\ latest_block_number = last.number
    /\ pc \notin {"get_logs", "cache_logs"} =>
         announced.number = last.number /\ (announced = last \/ last.number \in replaced)
    /\ pc \in {"get_logs", "cache_logs"} => announced = block
    /\ pc \in {"smembers", "del", "del_set"} =>
         block.number = last.number /\ last.number \in replaced

LEMMA NextPolledInv ==
  ASSUME IInv, PolledInv, [Next]_vars
  PROVE  PolledInv'
<1> USE DEF run
<1>1. CASE Mine \/ Reorganise \/ (\E u \in Upstreams : Import(u)) \/ UNCHANGED vars
  BY <1>1 DEF Mine, Reorganise, Import, vars, PolledInv, tracker, subscriber, network
<1>2. CASE Tracker
  <2>1. CASE \E u \in Upstreams : Poll(u)
    <3>1. PICK u \in Upstreams : Poll(u)
      BY <2>1
    <3>2. pc' = "smembers" => block'.number = last.number /\ last.number \in replaced
      <4>1. SUFFICES ASSUME Replaces(HeadOf(view[u])) PROVE last.number \in replaced
        BY <3>1 DEF Poll, Replaces
      <4>2. HeadOf(view[u]) \in Block /\ HeadOf(view[u]).number >= 1 /\ Known(HeadOf(view[u]))
        BY HeadKnown
      <4>3. last \in Block /\ Known(last)
        BY <4>1, <4>2 DEF IInv, Types, KnownInv, Replaces
      <4> QED
        BY <4>1, <4>2, <4>3, DifferentBlocks DEF Replaces
    <3> QED
      BY <3>1, <3>2 DEF Poll, PolledInv, subscriber, network
  <2>2. CASE Smembers
    BY <2>2 DEF Smembers, Remember, EndPoll, PolledInv, subscriber, network
  <2>3. CASE Del
    BY <2>3 DEF Del, PolledInv, subscriber, network
  <2>4. CASE DelSet
    BY <2>4 DEF DelSet, Remember, EndPoll, PolledInv, subscriber, network
  <2>5. CASE SetBlock \/ SaddBlock
    BY <2>5 DEF SetBlock, SaddBlock, PolledInv, subscriber, network
  <2>6. CASE Announce
    BY <2>6 DEF Announce, PolledInv, subscriber, network
  <2>7. CASE GetLogs \/ CacheLogs
    BY <2>7 DEF GetLogs, CacheLogs, Finish, Remember, EndPoll, PolledInv, subscriber, network
  <2> QED
    BY <1>2, <2>1, <2>2, <2>3, <2>4, <2>5, <2>6, <2>7 DEF Tracker
<1>3. CASE Subscriber
  BY <1>3 DEF Subscriber, Ask, Confirm, Notice, Close, BackOff, PolledInv, tracker, network
<1>4. CASE Restart
  BY <1>4 DEF Restart, EndPoll, PolledInv, NoBlock
<1> QED
  BY <1>1, <1>2, <1>3, <1>4 DEF Next

\* Until a process has an upstream subscription, the head that clients were told of is,
\* between two polls, the one that eth_blockNumber answers, and the tracked block
\* unless that has replaced another of its height (tracker.rs:170-192, 194-223).
THEOREM HeadInStep == Spec => []InStep
<1>1. Init => PolledInv
  BY DEF Init, PolledInv, NoBlock
<1>2. IInv /\ PolledInv /\ [Next]_vars => PolledInv'
  BY NextPolledInv
<1>3. PolledInv => InStep
  BY DEF PolledInv, InStep, Idle
<1> QED
  BY <1>1, <1>2, <1>3, Invariance, PTL DEF Spec

-------------------------------------------------------------------------------
\* Types.  In the midst of a poll there is a block to work on.
TypedInv ==
  /\ TypeOK
  /\ pc # "idle" => block \in Blocks

\* What it is to be a chain.
LEMMA ChainShape ==
  ASSUME NEW c
  PROVE  c \in Chains <=> \E n \in Numbers : c \in [1..n -> 0..MaxFork]
BY DEF Chains

LEMMA SeqIsChain ==
  ASSUME NEW c \in Seq(0..MaxFork), Len(c) \in Numbers
  PROVE  c \in Chains
<1>1. c \in [1..Len(c) -> 0..MaxFork]
  BY LenProperties
<1> QED
  BY <1>1, ChainShape

LEMMA ChainFacts ==
  ASSUME NEW c \in Chains
  PROVE  /\ Len(c) \in Numbers /\ c \in [1..Len(c) -> 0..MaxFork]
         /\ c \in Seq(0..MaxFork)
         /\ \A n \in 1..Len(c) : BlockAt(c, n) \in Blocks
<1>1. PICK n \in Numbers : c \in [1..n -> 0..MaxFork]
  BY ChainShape
<1>2. n \in Nat /\ Len(c) = n
  BY <1>1, ChainHeadAssumption DEF Numbers
<1> QED
  BY <1>1, <1>2, ChainHeadAssumption DEF BlockAt, Blocks, Numbers

LEMMA NextTypedInv == ASSUME TypedInv, [Next]_vars PROVE TypedInv'
<1> USE ChainHeadAssumption DEF run
<1>0. TypeOK /\ chain \in Chains /\ view \in [Upstreams -> Chains]
  BY DEF TypedInv, TypeOK
<1>1. CASE Mine
  <2>1. chain' = Append(chain, Last(chain)) /\ Len(chain) < MaxNumber
    BY <1>1 DEF Mine
  <2>2. /\ Len(chain) \in Numbers /\ chain \in [1..Len(chain) -> 0..MaxFork]
        /\ chain \in Seq(0..MaxFork)
    BY <1>0, ChainFacts
  <2>3. Len(chain) \in Nat /\ Len(chain) >= 1 /\ Len(chain) + 1 \in Numbers
    BY <2>1, <2>2 DEF Numbers
  <2>a. Last(chain) \in 0..MaxFork
    BY <2>2, <2>3 DEF Last
  <2>b. chain' \in Seq(0..MaxFork) /\ Len(chain') = Len(chain) + 1
    BY <2>1, <2>2, <2>a
  <2>4. chain' \in Chains /\ Len(chain') = Len(chain) + 1
    BY <2>3, <2>b, SeqIsChain
  <2> QED
    BY <1>0, <1>1, <2>4 DEF TypedInv, TypeOK, Mine, tracker, subscriber, cache, Numbers
<1>2. CASE Reorganise
  <2>1. PICK from \in 1..Len(chain) :
          /\ chain' = [n \in 1..Len(chain) |-> IF n < from THEN chain[n] ELSE Last(chain) + 1]
          /\ replaced' = replaced \cup from..Len(chain)
          /\ Last(chain) < MaxFork
    BY <1>2 DEF Reorganise
  <2>2. /\ Len(chain) \in Numbers /\ chain \in [1..Len(chain) -> 0..MaxFork]
        /\ chain \in Seq(0..MaxFork)
    BY <1>0, ChainFacts
  <2>3. Last(chain) + 1 \in 0..MaxFork
    BY <2>1, <2>2 DEF Last, Numbers
  <2>a. Len(chain) \in Nat /\ \A n \in 1..Len(chain) : chain'[n] \in 0..MaxFork
    BY <2>1, <2>2, <2>3 DEF Numbers
  <2>4. chain' \in Seq(0..MaxFork) /\ Len(chain') = Len(chain)
    BY <2>1, <2>a
  <2>5. chain' \in Chains /\ Len(chain') = Len(chain)
    BY <2>2, <2>4, SeqIsChain
  <2>6. replaced' \subseteq Numbers
    <3>1. Len(chain) \in Nat /\ Len(chain) <= MaxNumber
      BY <2>2 DEF Numbers
    <3>2. from..Len(chain) \subseteq Numbers
      BY <3>1 DEF Numbers
    <3> QED
      BY <1>0, <2>1, <3>2 DEF TypeOK
  <2> QED
    BY <1>0, <1>2, <2>5, <2>6 DEF TypedInv, TypeOK, Reorganise, tracker, subscriber, cache
<1>3. ASSUME NEW u \in Upstreams, Import(u) PROVE TypedInv'
  <2>1. /\ view' = [view EXCEPT ![u] = chain]
        /\ UNCHANGED <<run, chain, replaced, tracker, ws, ws_url, ws_last, ws_connected,
                       latest_block_number, cache, announced, logged>>
    BY <1>3 DEF Import
  <2>2. inbox' \in Seq(Blocks)
    <3>1. PICK n \in 0..Len(chain) :
            inbox' = IF u \in ws_url
                     THEN inbox \o BlocksAbove(chain, n) ELSE inbox
      BY <1>3 DEF Import
    <3>2. Len(chain) \in Nat /\ \A m \in 1..Len(chain) : BlockAt(chain, m) \in Blocks
      BY <1>0, ChainFacts DEF Numbers
    <3>3. \A i \in 1..Len(chain) - n : BlockAt(chain, n + i) \in Blocks
      BY <3>2
    <3>4. BlocksAbove(chain, n) \in Seq(Blocks)
      BY <3>2, <3>3 DEF BlocksAbove
    <3> QED
      BY <1>0, <3>1, <3>4 DEF TypeOK
  <2> QED
    BY <1>0, <2>1, <2>2 DEF TypedInv, TypeOK, tracker, cache
<1>4. ASSUME NEW u \in Upstreams, Poll(u) PROVE TypedInv'
  <2>1. /\ HeadOf(view[u]) \in Blocks /\ HeadOf(view[u]).number = Len(view[u])
    BY <1>0, ChainFacts DEF HeadOf, BlockAt, Numbers
  <2>2. Len(view[u]) \in Nat
    BY <1>0, ChainFacts DEF Numbers
  <2> QED
    BY <1>0, <1>4, <2>1, <2>2 DEF TypedInv, TypeOK, Poll, network, subscriber, cache, Caching
<1>5. CASE Smembers \/ Del \/ DelSet \/ SetBlock \/ SaddBlock
  <2>1. /\ block \in Blocks /\ block.number \in Numbers /\ entry \in [Numbers -> Blocks \cup {NoBlock}]
        /\ failures \in 0..MaxFailures
    BY <1>0, <1>5 DEF TypedInv, TypeOK, Smembers, Del, DelSet, SetBlock, SaddBlock, Blocks
  <2>2. entry' \in [Numbers -> Blocks \cup {NoBlock}]
    BY <2>1, <1>5 DEF Smembers, Del, DelSet, SetBlock, SaddBlock
  <2>3. failures' \in 0..MaxFailures
    BY <2>1, <1>5 DEF Smembers, Del, DelSet, SetBlock, SaddBlock, Fails
  <2>4. members' \subseteq Numbers /\ todo' \subseteq Numbers /\ missed' \in BOOLEAN
    <3>1. CASE Smembers
      BY <1>0, <3>1 DEF Smembers, TypeOK
    <3>2. CASE Del
      BY <1>0, <3>2 DEF Del, TypeOK
    <3>3. CASE DelSet \/ SetBlock \/ SaddBlock
      BY <1>0, <2>1, <3>3 DEF DelSet, SetBlock, SaddBlock, TypeOK, tracker
    <3> QED
      BY <1>5, <3>1, <3>2, <3>3
  <2>5. /\ pc' \in {"idle", "smembers", "del", "del_set"} \cup Caching
        /\ block' \in Blocks \cup {NoBlock} /\ last' \in Blocks \cup {NoBlock}
        /\ pc' # "idle" => block' \in Blocks
    BY <1>0, <2>1, <1>5 DEF Smembers, Del, DelSet, SetBlock, SaddBlock, Remember, EndPoll,
                            TypeOK, Caching
  <2>6. UNCHANGED <<chain, replaced, view, ws, ws_url, inbox, ws_last, ws_connected,
                    latest_block_number, connections, restarts, pushed, announced, logged>>
    BY <1>5 DEF Smembers, Del, DelSet, SetBlock, SaddBlock, network, subscriber
  <2> QED
    BY <1>0, <2>2, <2>3, <2>4, <2>5, <2>6 DEF TypedInv, TypeOK
<1>6. CASE Announce
  <2>1. block \in Blocks
    BY <1>6 DEF Announce, TypedInv
  <2> QED
    BY <1>0, <1>6, <2>1 DEF TypedInv, TypeOK, Announce, network, subscriber, cache, Caching
<1>11. CASE GetLogs \/ CacheLogs
  <2>1. block \in Blocks /\ block.number \in 0..MaxNumber
    BY <1>11 DEF GetLogs, CacheLogs, TypedInv, Blocks, Numbers
  <2> QED
    BY <1>0, <1>11, <2>1 DEF TypedInv, TypeOK, GetLogs, CacheLogs, Finish, Remember, EndPoll,
                             network, subscriber, cache, Caching
<1>7. CASE Notice
  <2>1. Head(inbox) \in Blocks /\ Tail(inbox) \in Seq(Blocks)
    BY <1>0, <1>7 DEF Notice, TypeOK
  <2>2. Head(inbox).number \in 0..MaxNumber
    BY <2>1 DEF Blocks, Numbers
  <2>3. UNCHANGED <<chain, replaced, view, pc, block, todo, last, ws, ws_url, ws_connected,
                    entry, members, missed, failures, connections, restarts, pushed, logged>>
    BY <1>7 DEF Notice, network, tracker, cache
  <2>4. /\ inbox' \in Seq(Blocks) /\ ws_last' \in 0..MaxNumber
        /\ latest_block_number' \in 0..MaxNumber /\ announced' \in Blocks \cup {NoBlock}
    BY <1>0, <1>7, <2>1, <2>2 DEF Notice, TypeOK
  <2> QED
    BY <1>0, <2>3, <2>4 DEF TypedInv, TypeOK
<1>8. CASE (\E u \in WsUpstreams : Ask(u)) \/ Confirm \/ Close \/ BackOff
  <2>1. inbox' \in Seq(Blocks) /\ ws_last' \in 0..MaxNumber /\ ws_url' \subseteq Upstreams
    <3>1. <<>> \in Seq(Blocks) /\ 0 \in 0..MaxNumber
      OBVIOUS
    <3>2. inbox \in Seq(Blocks) /\ ws_last \in 0..MaxNumber /\ ws_url \subseteq Upstreams
      BY <1>0 DEF TypeOK
    <3>3. CASE \E u \in WsUpstreams : Ask(u)
      BY <3>2, <3>3 DEF Ask
    <3>4. CASE Confirm \/ Close \/ BackOff
      BY <3>1, <3>2, <3>4 DEF Confirm, Close, BackOff, Disconnected
    <3> QED
      BY <1>8, <3>3, <3>4
  <2>2. UNCHANGED <<chain, replaced, view, pc, block, todo, last, latest_block_number,
                    entry, members, missed, failures, restarts, announced, logged>>
    BY <1>8 DEF Ask, Confirm, Close, BackOff, network, tracker, cache
  <2>3. /\ ws' \in {"down", "asked", "live", "closed"}
        /\ ws_connected' \in BOOLEAN /\ pushed' \in BOOLEAN
    BY <1>0, <1>8 DEF TypeOK, Ask, Confirm, Close, BackOff
  <2>4. connections' \in 0..MaxConnections
    <3>1. connections \in 0..MaxConnections
      BY <1>0 DEF TypeOK
    <3>2. CASE \E u \in WsUpstreams : Ask(u)
      BY <3>1, <3>2 DEF Ask
    <3>3. CASE Confirm \/ Close \/ BackOff
      BY <3>1, <3>3 DEF Confirm, Close, BackOff
    <3> QED
      BY <1>8, <3>2, <3>3
  <2> QED
    BY <1>0, <2>1, <2>2, <2>3, <2>4 DEF TypedInv, TypeOK
<1>9. CASE Restart
  <2>1. <<>> \in Seq(Blocks)
    OBVIOUS
  <2>2. restarts' \in 0..MaxRestarts /\ 0 \in 0..MaxNumber
    BY <1>0, <1>9 DEF TypeOK, Restart
  <2> QED
    BY <1>0, <1>9, <2>1, <2>2 DEF TypedInv, TypeOK, Restart, EndPoll, Disconnected, network
<1>10. CASE UNCHANGED vars
  BY <1>0, <1>10 DEF TypedInv, TypeOK, vars, network, tracker, subscriber, cache
<1> QED
  BY <1>1, <1>2, <1>3, <1>4, <1>5, <1>6, <1>7, <1>8, <1>9, <1>10, <1>11
     DEF Next, Tracker, Subscriber

\* The variables of the tracker, the subscriber and what they share keep their types
\* (tracker.rs:60-258, ws_subscriber.rs:40-306).
THEOREM TypeCorrect == Spec => []TypeOK
<1>1. Init => TypedInv
  <2> SUFFICES ASSUME Init PROVE TypedInv
    OBVIOUS
  <2>1. <<0>> \in Chains /\ Len(<<0>>) = 1
    <3>1. 1 \in Numbers /\ <<0>> \in [1..1 -> 0..MaxFork]
      BY ChainHeadAssumption DEF Numbers
    <3> QED
      BY <3>1, ChainShape
  <2>2. <<>> \in Seq(Blocks)
    OBVIOUS
  <2>3. chain \in Chains /\ view \in [Upstreams -> Chains]
    BY <2>1 DEF Init
  <2>4. 0 \in 0..MaxNumber /\ 0 \in 0..MaxRestarts /\ 0 \in 0..MaxFailures /\ 0 \in 0..MaxConnections
    BY ChainHeadAssumption
  <2>5. TypeOK
    BY <2>2, <2>3, <2>4 DEF Init, TypeOK
  <2> QED
    BY <2>5 DEF Init, TypedInv
<1>2. TypedInv /\ [Next]_vars => TypedInv'
  BY NextTypedInv
<1>3. TypedInv => TypeOK
  BY DEF TypedInv
<1> QED
  BY <1>1, <1>2, <1>3, PTL DEF Spec
===============================================================================
