---------------------------------- MODULE Rpc ----------------------------------
(***************************************************************************)
(* The rules by which requests are told apart (src/rpc/types.rs), keyed    *)
(* (src/cache/keys.rs) and given a lifetime in the cache                   *)
(* (src/cache/policy.rs).                                                  *)
(*                                                                         *)
(* A request is its method and the block it refers to: by a tag, by a      *)
(* number, or not at all.  Its other parameters are part of the method.    *)
(***************************************************************************)
EXTENDS Integers, Sequences, FiniteSets, FiniteSetsExt

Tags == {"latest", "safe", "finalized", "earliest", "pending"}
Tagged(tag) == [tag |-> tag, number |-> 0]
Number(n) == [tag |-> "number", number |-> n]
NoBlock == [tag |-> "none", number |-> 0]

Request(method, ref) == [method |-> method, ref |-> ref]

\* Matching a blocked prefix is abstracted to membership in the methods it matches.
is_method_blocked(method, blocked) == method \in blocked

is_uncacheable(method) ==
  method \in {"eth_sendRawTransaction", "eth_sendTransaction", "eth_estimateGas", "eth_call",
              "eth_createAccessList", "eth_gasPrice", "eth_maxPriorityFeePerGas",
              "eth_feeHistory", "net_listening", "net_peerCount", "web3_clientVersion",
              "eth_subscribe", "eth_unsubscribe"}

\* The methods for which block_tag_param_index finds the parameter.
HasBlockParam(method) ==
  method \in {"eth_getBalance", "eth_getCode", "eth_getTransactionCount", "eth_getStorageAt",
              "eth_getBlockByNumber", "eth_getBlockTransactionCountByNumber",
              "eth_getUncleCountByBlockNumber", "eth_getUncleByBlockNumber"}

saturating_sub(a, b) == IF a < b THEN 0 ELSE a - b

\* The number a tag stands for; "pending" is left alone.
Height(latest, depth) ==
  [latest |-> latest,
   safe |-> saturating_sub(latest, depth),
   finalized |-> saturating_sub(latest, depth),
   earliest |-> 0]

resolve_block_tags(req, latest, depth) ==
  IF HasBlockParam(req.method) /\ req.ref.tag \in DOMAIN Height(latest, depth)
  THEN [req EXCEPT !.ref = Number(Height(latest, depth)[req.ref.tag])]
  ELSE req

\* Mutant: a number, once resolved, counts as final.
number_is_final(req) == req.ref.tag \in {"latest", "pending", "safe"}

\* A number may be near the head or not: it counts as unfinalized, as does a request
\* that names no block.
block_ref_is_unfinalized(req) == req.ref.tag \notin {"earliest", "finalized"}

-------------------------------------------------------------------------------
\* TTLs are in seconds.  A policy is a set of methods, a finality and a TTL.
Never == -1
Forever == 0

Finality(is_unfinalized) == IF is_unfinalized THEN "unfinalized" ELSE "finalized"

Matches(policy, method, is_unfinalized) ==
  /\ method \in policy.methods
  /\ policy.finality \in {"any", Finality(is_unfinalized)}

\* The first policy that matches decides.
resolve_ttl(policies, method, is_unfinalized) ==
  LET matching == {i \in DOMAIN policies : Matches(policies[i], method, is_unfinalized)}
  IN  IF matching # {} THEN policies[Min(matching)].ttl
      ELSE IF is_unfinalized THEN 3 ELSE 3600

-------------------------------------------------------------------------------
\* normalize_for_cache drops the id, and the hash of the rest tells requests apart.
cache_key(req) == req

\* Mutant: uncacheable requests are deduplicated as well.
FirstOfAny(body, i, blocked) == Min({j \in 1..i : cache_key(body[j]) = cache_key(body[i])})

\* The request of a batch that the i-th is a repetition of, itself if there is none.
FirstOf(body, i, blocked) ==
  IF is_uncacheable(body[i].method) \/ is_method_blocked(body[i].method, blocked) THEN i
  ELSE Min({j \in 1..i : cache_key(body[j]) = cache_key(body[i])})
===============================================================================
