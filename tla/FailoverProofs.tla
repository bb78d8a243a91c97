---------------------------- MODULE FailoverProofs ----------------------------
(***************************************************************************)
(* Proofs about Failover for any number of upstreams, any assignment of    *)
(* roles, any strategy and any number of concurrent requests: the type     *)
(* invariant and the three safety invariants.                              *)
(*                                                                         *)
(* A step of a request changes nothing that belongs to another one, so the *)
(* inductive invariant is stated for one request (LocalInv) and shown for  *)
(* the request that takes the step; Frame covers the others.               *)
(***************************************************************************)
EXTENDS Failover, TLAPS

Types ==
  /\ serving \in [Upstreams -> BOOLEAN]
  /\ round_robin \in 0..Cycle - 1
  /\ pc \in [Requests -> {"idle"} \cup Active \cup Finished]
  /\ tier \in [Requests -> Roles]
  /\ unread \in [Requests -> SUBSET Upstreams]
  /\ tier_upstreams \in [Requests -> SUBSET Upstreams]
  /\ cur \in [Requests -> Upstreams \cup {NoUpstream}]
  /\ rest \in [Requests -> SUBSET Upstreams]
  /\ all_rate_limited \in [Requests -> BOOLEAN]
  /\ any_upstream_tried \in [Requests -> BOOLEAN]
  /\ limited \in [Requests -> SUBSET Upstreams]
  /\ failed \in [Requests -> SUBSET Upstreams]
  /\ steady \in [Requests -> SUBSET Upstreams]

\* Before it begins, a request has the initial value of every local.
IdleInv(r) ==
  pc[r] = "idle" =>
    /\ tier[r] = 1
    /\ limited[r] = {} /\ failed[r] = {}
    /\ tier_upstreams[r] = {}
    /\ all_rate_limited[r]
    /\ ~any_upstream_tried[r]

\* While it scans a tier it has tried upstreams of better roles only.
ScanInv(r) ==
  pc[r] = "scan" =>
    /\ \A u \in unread[r] \cup tier_upstreams[r] : Role[u] = tier[r]
    /\ \A u \in limited[r] \cup failed[r] : Role[u] < tier[r]
    /\ \A u \in steady[r] : Role[u] = tier[r] => u \in unread[r] \cup tier_upstreams[r]

\* While it goes through the attempt order, the candidates of the tier are those
\* tried, the current one and those that remain; none of them twice.
OrderInv(r) ==
  pc[r] \in {"attempt", "sent"} =>
    /\ cur[r] \notin limited[r] \cup failed[r] \cup rest[r]
    /\ rest[r] \cap (limited[r] \cup failed[r]) = {}
    /\ \A u \in limited[r] \cup failed[r] : Role[u] <= tier[r]
    /\ \A u \in steady[r] :
         Role[u] = tier[r] => u \in limited[r] \cup failed[r] \cup rest[r] \cup {cur[r]}

\* What stayed healthy is healthy, and was tried if its tier has been left.
SteadyInv(r) ==
  /\ \A u \in steady[r] : serving[u]
  /\ pc[r] \in Active =>
       \A u \in steady[r] : Role[u] < tier[r] => u \in limited[r] \cup failed[r]

\* What the two flags say of the upstreams tried.
FlagInv(r) ==
  /\ ~any_upstream_tried[r] => limited[r] = {} /\ failed[r] = {}
  /\ pc[r] \in {"attempt", "sent"} => any_upstream_tried[r]
  /\ pc[r] = "scan" /\ any_upstream_tried[r] => limited[r] # {} \/ failed[r] # {}
  /\ all_rate_limited[r] => failed[r] = {} /\ pc[r] # "sent"
  /\ pc[r] \in {"scan", "attempt"} /\ ~all_rate_limited[r] => failed[r] # {}

HonestInv(r) ==
  pc[r] \in Errors =>
    /\ steady[r] \subseteq limited[r] \cup failed[r]
    /\ pc[r] = "no_healthy" => limited[r] = {} /\ failed[r] = {}
    /\ pc[r] = "rate_limited" => failed[r] = {} /\ limited[r] # {}
    /\ pc[r] = "all_failed" => failed[r] # {}

LocalInv(r) ==
  InTier(r) /\ IdleInv(r) /\ ScanInv(r) /\ OrderInv(r) /\ SteadyInv(r) /\ FlagInv(r) /\ HonestInv(r)

IInv == Types /\ \A r \in Requests : LocalInv(r)

-------------------------------------------------------------------------------
LEMMA RoleType == Role \in [Upstreams -> 1..3]
  BY FailoverAssumption DEF Roles

USE RoleType DEF Roles, NoUpstream

\* The locals of r, and of every request but r.
local(r) == <<pc[r], tier[r], unread[r], tier_upstreams[r], cur[r], rest[r],
              all_rate_limited[r], any_upstream_tried[r], limited[r], failed[r], steady[r]>>

OthersSame(r) == \A q \in Requests \ {r} : local(q)' = local(q)

LEMMA Frame ==
  ASSUME NEW q \in Requests, LocalInv(q), local(q)' = local(q), serving' = serving
  PROVE  LocalInv(q)'
  BY DEF LocalInv, local, InTier, IdleInv, ScanInv, OrderInv, SteadyInv, FlagInv, HonestInv

\* It remains to look at the request that takes the step.
LEMMA StepOf ==
  ASSUME IInv, NEW r \in Requests, Types', serving' = serving, OthersSame(r), LocalInv(r)'
  PROVE  IInv'
<1>1. ASSUME NEW q \in Requests PROVE LocalInv(q)'
  <2>1. CASE q = r
    BY <2>1
  <2>2. CASE q # r
    BY <2>2, Frame DEF OthersSame, IInv
  <2>3. QED
    BY <2>1, <2>2
<1>2. QED
  BY <1>1 DEF IInv

\* What LeaveTier makes of the locals it assigns.
Left(r, all_limited) ==
  /\ tier_upstreams'[r] = {}
  /\ cur'[r] = NoUpstream
  /\ rest'[r] = {}
  /\ \/ tier[r] < 3 /\ tier'[r] = tier[r] + 1 /\ unread'[r] = OfRole(tier[r] + 1) /\ pc'[r] = "scan"
     \/ tier[r] = 3 /\ tier'[r] = 3 /\ pc'[r] = Verdict(any_upstream_tried[r], all_limited)

\* The types and the frame of what LeaveTier and Advance assign.
LoopTypes(r) ==
  /\ pc' \in [Requests -> {"idle"} \cup Active \cup Finished]
  /\ tier' \in [Requests -> Roles]
  /\ unread' \in [Requests -> SUBSET Upstreams]
  /\ tier_upstreams' \in [Requests -> SUBSET Upstreams]
  /\ cur' \in [Requests -> Upstreams \cup {NoUpstream}]
  /\ rest' \in [Requests -> SUBSET Upstreams]
  /\ \A q \in Requests \ {r} :
       /\ pc'[q] = pc[q] /\ tier'[q] = tier[q] /\ unread'[q] = unread[q]
       /\ tier_upstreams'[q] = tier_upstreams[q] /\ cur'[q] = cur[q] /\ rest'[q] = rest[q]

LEMMA LeaveTierLocal ==
  ASSUME Types, NEW r \in Requests, NEW b \in BOOLEAN, LeaveTier(r, b)
  PROVE  LoopTypes(r) /\ Left(r, b)
<1>1. Verdict(any_upstream_tried[r], b) \in Errors
  BY DEF Verdict, Errors
<1>2. /\ tier[r] < 3 => tier[r] + 1 \in Roles
      /\ OfRole(tier[r] + 1) \in SUBSET Upstreams
  BY DEF Types, OfRole
<1>3. CASE tier[r] < 3
  <2>1. /\ tier' = [tier EXCEPT ![r] = tier[r] + 1]
        /\ unread' = [unread EXCEPT ![r] = OfRole(tier[r] + 1)]
        /\ pc' = [pc EXCEPT ![r] = "scan"]
    BY <1>3 DEF LeaveTier
  <2>2. /\ tier_upstreams' = [tier_upstreams EXCEPT ![r] = {}]
        /\ cur' = [cur EXCEPT ![r] = NoUpstream]
        /\ rest' = [rest EXCEPT ![r] = {}]
    BY DEF LeaveTier
  <2>3. LoopTypes(r)
    BY <1>2, <1>3, <2>1, <2>2 DEF Types, LoopTypes, Active
  <2>4. Left(r, b)
    BY <1>3, <2>1, <2>2 DEF Types, Left
  <2>5. QED
    BY <2>3, <2>4
<1>4. CASE tier[r] = 3
  BY <1>1, <1>4 DEF LeaveTier, Types, LoopTypes, Left, Finished
<1>5. QED
  BY <1>3, <1>4 DEF Types

LEMMA AdvanceLocal ==
  ASSUME Types, NEW r \in Requests, NEW b \in BOOLEAN, Advance(r, b)
  PROVE  /\ LoopTypes(r)
         /\ \/ rest[r] = {} /\ Left(r, b)
            \/ /\ cur'[r] \in rest[r] /\ rest'[r] = rest[r] \ {cur'[r]} /\ pc'[r] = "attempt"
               /\ tier'[r] = tier[r] /\ unread'[r] = unread[r]
               /\ tier_upstreams'[r] = tier_upstreams[r]
<1>1. CASE rest[r] = {} /\ LeaveTier(r, b)
  BY <1>1, LeaveTierLocal
<1>2. CASE ~(rest[r] = {} /\ LeaveTier(r, b))
  BY <1>2 DEF Advance, Types, LoopTypes, Active
<1>3. QED
  BY <1>1, <1>2

-------------------------------------------------------------------------------
LEMMA InitIInv == Init => IInv
  BY FailoverAssumption
  DEF Init, IInv, Types, LocalInv, InTier, IdleInv, ScanInv, OrderInv, SteadyInv, FlagInv,
      HonestInv, Active, Finished, Errors, Upstreams

\* A strategy selects one of the candidates.
LEMMA SelectableIsCandidate == \A T : Selectable(T) \subseteq T
  BY DEF Selectable, At

LEMMA FlipIInv ==
  ASSUME IInv, NEW u \in Upstreams, Flip(u)
  PROVE  IInv'
<1>1. Types'
  BY DEF Flip, IInv, Types
<1>2. ASSUME NEW r \in Requests PROVE LocalInv(r)'
  BY DEF Flip, IInv, Types, LocalInv, InTier, IdleInv, ScanInv, OrderInv, SteadyInv,
         FlagInv, HonestInv
<1>3. QED
  BY <1>1, <1>2 DEF IInv

LEMMA BeginIInv ==
  ASSUME IInv, NEW r \in Requests, Begin(r)
  PROVE  IInv'
<1>1. OfRole(1) \subseteq Upstreams /\ \A u \in OfRole(1) : Role[u] = 1
  BY DEF OfRole
<1>2. Types' /\ OthersSame(r) /\ serving' = serving
  BY <1>1 DEF Begin, IInv, Types, OthersSame, local, shared, Active
<1>3. /\ pc[r] = "idle" /\ pc'[r] = "scan" /\ unread'[r] = OfRole(1)
      /\ steady'[r] = {u \in Upstreams : serving[u]}
      /\ UNCHANGED <<tier[r], tier_upstreams[r], cur[r], rest[r], all_rate_limited[r],
                     any_upstream_tried[r], limited[r], failed[r]>>
  BY DEF Begin, IInv, Types
<1>4. \A u \in Upstreams : Role[u] = 1 => u \in OfRole(1)
  BY DEF OfRole
<1>5. LocalInv(r)'
  BY <1>1, <1>2, <1>3, <1>4
  DEF IInv, LocalInv, InTier, IdleInv, ScanInv, OrderInv, SteadyInv, FlagInv, HonestInv,
      Active, Errors
<1>6. QED
  BY <1>2, <1>5, StepOf

LEMMA ScanIInv ==
  ASSUME IInv, NEW r \in Requests, Scan(r)
  PROVE  IInv'
<1>1. PICK u \in unread[r] :
        /\ unread' = [unread EXCEPT ![r] = @ \ {u}]
        /\ tier_upstreams' = [tier_upstreams EXCEPT ![r] = IF serving[u] THEN @ \cup {u} ELSE @]
  BY DEF Scan
<1>2. Types' /\ OthersSame(r) /\ serving' = serving
  BY <1>1 DEF Scan, IInv, Types, OthersSame, local, shared
<1>3. /\ pc[r] = "scan" /\ unread'[r] = unread[r] \ {u}
      /\ tier_upstreams'[r] = IF serving[u] THEN tier_upstreams[r] \cup {u} ELSE tier_upstreams[r]
      /\ UNCHANGED <<pc[r], tier[r], cur[r], rest[r], all_rate_limited[r],
                     any_upstream_tried[r], limited[r], failed[r], steady[r]>>
  BY <1>1 DEF Scan, IInv, Types
<1>4. LocalInv(r)'
  BY <1>2, <1>3
  DEF IInv, LocalInv, InTier, IdleInv, ScanInv, OrderInv, SteadyInv, FlagInv, HonestInv,
      Active, Errors
<1>5. QED
  BY <1>2, <1>4, StepOf

LEMMA SelectIInv ==
  ASSUME IInv, NEW r \in Requests, Select(r)
  PROVE  IInv'
<1>1. PICK p \in tier_upstreams[r] :
        /\ cur' = [cur EXCEPT ![r] = p]
        /\ rest' = [rest EXCEPT ![r] = tier_upstreams[r] \ {p}]
        /\ round_robin' \in {round_robin, (round_robin + 1) % Cycle}
  BY SelectableIsCandidate DEF Select
<1>2. round_robin' \in 0..Cycle - 1
  BY <1>1, FailoverAssumption DEF IInv, Types
<1>3. Types' /\ OthersSame(r) /\ serving' = serving
  BY <1>1, <1>2 DEF Select, IInv, Types, OthersSame, local, Active
<1>4. /\ pc[r] = "scan" /\ pc'[r] = "attempt" /\ cur'[r] = p /\ p \in Upstreams
      /\ unread[r] = {} /\ rest'[r] = tier_upstreams[r] \ {p} /\ any_upstream_tried'[r]
      /\ UNCHANGED <<tier[r], unread[r], tier_upstreams[r], all_rate_limited[r],
                     limited[r], failed[r], steady[r]>>
  BY <1>1 DEF Select, IInv, Types
<1>5. LocalInv(r)'
  <2>1. InTier(r)'
    BY <1>1, <1>3, <1>4 DEF IInv, Types, LocalInv, InTier, ScanInv
  <2>2. IdleInv(r)' /\ ScanInv(r)' /\ HonestInv(r)'
    BY <1>1, <1>3, <1>4 DEF IInv, Types, LocalInv, IdleInv, ScanInv, HonestInv, Errors
  <2>3. OrderInv(r)'
    <3>1. /\ tier[r] \in 1..3
          /\ \A u \in Upstreams : Role[u] \in 1..3
          /\ limited[r] \subseteq Upstreams /\ failed[r] \subseteq Upstreams
          /\ tier_upstreams[r] \subseteq Upstreams
      BY DEF IInv, Types
    <3>2. \A u \in limited[r] \cup failed[r] : Role[u] < tier[r]
      BY <1>4 DEF IInv, LocalInv, ScanInv
    <3>3. \A u \in tier_upstreams[r] : Role[u] = tier[r] /\ u \notin limited[r] \cup failed[r]
      BY <1>4, <3>1, <3>2 DEF IInv, LocalInv, ScanInv
    <3>4. \A u \in steady[r] : Role[u] = tier[r] => u \in tier_upstreams[r]
      BY <1>4 DEF IInv, LocalInv, ScanInv
    <3>5. QED
      BY <1>4, <3>1, <3>2, <3>3, <3>4 DEF OrderInv
  <2>4. SteadyInv(r)'
    BY <1>1, <1>3, <1>4 DEF IInv, Types, LocalInv, SteadyInv, Active
  <2>5. FlagInv(r)'
    BY <1>1, <1>3, <1>4 DEF IInv, Types, LocalInv, FlagInv
  <2>6. QED
    BY <2>1, <2>2, <2>3, <2>4, <2>5 DEF LocalInv
<1>6. QED
  BY <1>3, <1>5, StepOf

\* Leaving a tier: what holds of the tried upstreams once the tier is exhausted.
LEMMA LeaveInv ==
  ASSUME Types, Types', NEW r \in Requests, NEW b \in BOOLEAN, Left(r, b),
         \A u \in steady'[r] :
           serving'[u] /\ (Role[u] <= tier[r] => u \in limited'[r] \cup failed'[r]),
         \A u \in limited'[r] \cup failed'[r] : Role[u] <= tier[r],
         ~any_upstream_tried[r] => limited'[r] \cup failed'[r] = {},
         any_upstream_tried[r] /\ b => failed'[r] = {} /\ limited'[r] # {},
         any_upstream_tried[r] /\ ~b => failed'[r] # {}
  PROVE  ScanInv(r)' /\ SteadyInv(r)' /\ HonestInv(r)'
<1>1. /\ limited'[r] \cup failed'[r] \subseteq Upstreams /\ steady'[r] \subseteq Upstreams
      /\ tier[r] \in 1..3 /\ \A u \in Upstreams : Role[u] \in 1..3
  BY DEF Types
<1>2. CASE tier[r] < 3
  <2>1. pc'[r] = "scan" /\ tier'[r] = tier[r] + 1 /\ tier_upstreams'[r] = {}
    BY <1>2 DEF Left
  <2>2. \A u \in Upstreams : Role[u] = tier'[r] <=> u \in unread'[r]
    BY <1>2 DEF Left, OfRole
  <2>3. unread'[r] \subseteq Upstreams
    BY DEF Types
  <2>4. ScanInv(r)'
    BY <1>1, <2>1, <2>2, <2>3 DEF ScanInv
  <2>5. SteadyInv(r)' /\ HonestInv(r)'
    BY <1>1, <2>1 DEF SteadyInv, HonestInv, Errors
  <2>6. QED
    BY <2>4, <2>5
<1>3. CASE tier[r] = 3
  <2>1. pc'[r] = Verdict(any_upstream_tried[r], b)
    BY <1>3 DEF Left
  <2>2. steady'[r] \subseteq limited'[r] \cup failed'[r]
    BY <1>1, <1>3
  <2>3. QED
    BY <2>1, <2>2 DEF Verdict, ScanInv, SteadyInv, HonestInv, Errors, Active
<1>4. QED
  BY <1>1, <1>2, <1>3

LEMMA EmptyTierIInv ==
  ASSUME IInv, NEW r \in Requests, EmptyTier(r)
  PROVE  IInv'
<1>1. LoopTypes(r) /\ Left(r, all_rate_limited[r])
  BY LeaveTierLocal DEF EmptyTier, IInv, Types
<1>2. Types' /\ OthersSame(r) /\ serving' = serving
  BY <1>1 DEF EmptyTier, IInv, Types, LoopTypes, OthersSame, local, shared
<1>3. /\ pc[r] = "scan" /\ unread[r] = {} /\ tier_upstreams[r] = {}
      /\ UNCHANGED <<all_rate_limited[r], any_upstream_tried[r], limited[r], failed[r], steady[r]>>
  BY DEF EmptyTier
<1>4. LocalInv(r)'
  <2>1. InTier(r)'
    BY <1>1, <1>2, <1>3 DEF IInv, Types, LocalInv, InTier, ScanInv, Left, Verdict
  <2>2. IdleInv(r)'
    BY <1>1, <1>2, <1>3 DEF IInv, Types, LocalInv, IdleInv, Errors, Left, Verdict
  <2>3. ScanInv(r)' /\ SteadyInv(r)' /\ HonestInv(r)'
    <3>1. /\ tier[r] \in 1..3
          /\ \A u \in Upstreams : Role[u] \in 1..3
          /\ limited[r] \subseteq Upstreams /\ failed[r] \subseteq Upstreams
          /\ steady[r] \subseteq Upstreams
      BY DEF IInv, Types
    <3>2. \A u \in steady'[r] :
            serving'[u] /\ (Role[u] <= tier[r] => u \in limited'[r] \cup failed'[r])
      BY <1>1, <1>2, <1>3, <3>1 DEF IInv, LocalInv, ScanInv, SteadyInv, Active, shared
    <3>3. \A u \in limited'[r] \cup failed'[r] : Role[u] <= tier[r]
      BY <1>1, <1>2, <1>3, <3>1 DEF IInv, LocalInv, ScanInv, InTier
    <3>4. /\ ~any_upstream_tried[r] => limited'[r] \cup failed'[r] = {}
          /\ any_upstream_tried[r] /\ all_rate_limited[r] => failed'[r] = {} /\ limited'[r] # {}
          /\ any_upstream_tried[r] /\ ~all_rate_limited[r] => failed'[r] # {}
      BY <1>1, <1>2, <1>3 DEF IInv, LocalInv, FlagInv
    <3>5. QED
      BY <1>1, <1>2, <1>3, <3>2, <3>3, <3>4, LeaveInv DEF IInv, Types
  <2>4. OrderInv(r)'
    BY <1>1, <1>2, <1>3 DEF IInv, Types, LocalInv, ScanInv, OrderInv, InTier, Errors, Left, Verdict
  <2>5. FlagInv(r)'
    BY <1>1, <1>2, <1>3 DEF IInv, Types, LocalInv, FlagInv, Errors, Left, Verdict
  <2>6. QED
    BY <2>1, <2>2, <2>3, <2>4, <2>5 DEF LocalInv
<1>5. QED
  BY <1>2, <1>4, StepOf

LEMMA RateLimitedIInv ==
  ASSUME IInv, NEW r \in Requests, RateLimited(r)
  PROVE  IInv'
<1>1. Advance(r, all_rate_limited[r]) /\ Types /\ all_rate_limited[r] \in BOOLEAN
  BY DEF RateLimited, IInv, Types
<1>2. LoopTypes(r)
  BY <1>1, AdvanceLocal
<1>3. /\ pc[r] = "attempt" /\ limited'[r] = limited[r] \cup {cur[r]}
      /\ limited' \in [Requests -> SUBSET Upstreams]
      /\ \A q \in Requests \ {r} : limited'[q] = limited[q]
      /\ UNCHANGED <<all_rate_limited, any_upstream_tried, failed, steady, shared>>
  BY DEF RateLimited, IInv, Types, LocalInv, InTier
<1>4. Types' /\ OthersSame(r) /\ serving' = serving
  BY <1>2, <1>3 DEF IInv, Types, LoopTypes, OthersSame, local, shared
<1>5. CASE rest[r] = {} /\ Left(r, all_rate_limited[r])
  <2>1. InTier(r)'
    BY <1>3, <1>4, <1>5 DEF IInv, Types, LocalInv, InTier, ScanInv, Left, Verdict
  <2>2. IdleInv(r)'
    BY <1>3, <1>4, <1>5 DEF IInv, Types, LocalInv, IdleInv, Errors, Left, Verdict
  <2>3. ScanInv(r)' /\ SteadyInv(r)' /\ HonestInv(r)'
    <3>1. /\ tier[r] \in 1..3
          /\ \A u \in Upstreams : Role[u] \in 1..3
          /\ limited[r] \subseteq Upstreams /\ failed[r] \subseteq Upstreams
          /\ steady[r] \subseteq Upstreams
      BY DEF IInv, Types
    <3>2. \A u \in steady'[r] :
            serving'[u] /\ (Role[u] <= tier[r] => u \in limited'[r] \cup failed'[r])
      BY <1>3, <1>4, <1>5, <3>1 DEF IInv, LocalInv, OrderInv, SteadyInv, Active, shared
    <3>3. \A u \in limited'[r] \cup failed'[r] : Role[u] <= tier[r]
      BY <1>3, <1>4, <1>5, <3>1 DEF IInv, LocalInv, OrderInv, InTier
    <3>4. /\ ~any_upstream_tried[r] => limited'[r] \cup failed'[r] = {}
          /\ any_upstream_tried[r] /\ all_rate_limited[r] => failed'[r] = {} /\ limited'[r] # {}
          /\ any_upstream_tried[r] /\ ~all_rate_limited[r] => failed'[r] # {}
      BY <1>3, <1>4, <1>5 DEF IInv, LocalInv, FlagInv
    <3>5. QED
      BY <1>3, <1>4, <1>5, <3>2, <3>3, <3>4, LeaveInv DEF IInv, Types
  <2>4. OrderInv(r)'
    BY <1>3, <1>4, <1>5 DEF IInv, Types, LocalInv, ScanInv, OrderInv, InTier, Errors, Left, Verdict
  <2>5. FlagInv(r)'
    BY <1>3, <1>4, <1>5 DEF IInv, Types, LocalInv, FlagInv, Errors, Left, Verdict
  <2>6. QED
    BY <1>4, <2>1, <2>2, <2>3, <2>4, <2>5, StepOf DEF LocalInv
<1>6. CASE /\ cur'[r] \in rest[r] /\ rest'[r] = rest[r] \ {cur'[r]} /\ pc'[r] = "attempt"
           /\ tier'[r] = tier[r]
  <2>1. InTier(r)'
    BY <1>3, <1>4, <1>6 DEF IInv, Types, LocalInv, InTier, ScanInv
  <2>2. IdleInv(r)'
    BY <1>3, <1>4, <1>6 DEF IInv, Types, LocalInv, IdleInv, Errors
  <2>3. ScanInv(r)'
    BY <1>3, <1>4, <1>6 DEF IInv, Types, LocalInv, InTier, ScanInv, OrderInv, SteadyInv, Active, OfRole, Errors
  <2>4. OrderInv(r)'
    <3>1. /\ cur'[r] \in rest[r] /\ rest'[r] = rest[r] \ {cur'[r]} /\ tier'[r] = tier[r]
          /\ limited'[r] = limited[r] \cup {cur[r]} /\ failed'[r] = failed[r]
          /\ steady'[r] = steady[r] /\ Role[cur[r]] = tier[r] /\ tier[r] \in 1..3
      BY <1>3, <1>6 DEF IInv, Types, LocalInv, InTier
    <3>2. QED
      BY <1>3, <3>1 DEF IInv, LocalInv, OrderInv
  <2>5. SteadyInv(r)'
    BY <1>3, <1>4, <1>6 DEF IInv, Types, LocalInv, InTier, ScanInv, OrderInv, SteadyInv, Active, Errors
  <2>6. FlagInv(r)'
    BY <1>3, <1>4, <1>6 DEF IInv, Types, LocalInv, FlagInv, Errors
  <2>7. HonestInv(r)'
    BY <1>3, <1>4, <1>6 DEF IInv, Types, LocalInv, ScanInv, OrderInv, InTier, SteadyInv, FlagInv, HonestInv, Active, Errors
  <2>8. QED
    BY <1>4, <2>1, <2>2, <2>3, <2>4, <2>5, <2>6, <2>7, StepOf DEF LocalInv
<1>7. QED
  BY <1>1, <1>5, <1>6, AdvanceLocal

LEMMA AcquireIInv ==
  ASSUME IInv, NEW r \in Requests, Acquire(r)
  PROVE  IInv'
<1>1. Types' /\ OthersSame(r) /\ serving' = serving
  BY DEF Acquire, IInv, Types, OthersSame, local, shared, Active
<1>2. /\ pc[r] = "attempt" /\ pc'[r] = "sent" /\ ~all_rate_limited'[r]
      /\ UNCHANGED <<tier[r], unread[r], tier_upstreams[r], cur[r], rest[r],
                     any_upstream_tried[r], limited[r], failed[r], steady[r]>>
  BY DEF Acquire, IInv, Types
<1>3. LocalInv(r)'
  BY <1>1, <1>2
  DEF IInv, LocalInv, InTier, IdleInv, ScanInv, OrderInv, SteadyInv, FlagInv, HonestInv,
      Active, Errors
<1>4. QED
  BY <1>1, <1>3, StepOf

LEMMA SendOkIInv ==
  ASSUME IInv, NEW r \in Requests, SendOk(r)
  PROVE  IInv'
<1>1. Types' /\ OthersSame(r) /\ serving' = serving
  BY DEF SendOk, IInv, Types, OthersSame, local, shared, Finished
<1>2. /\ pc[r] = "sent" /\ pc'[r] = "ok"
      /\ UNCHANGED <<tier[r], unread[r], tier_upstreams[r], cur[r], rest[r], all_rate_limited[r],
                     any_upstream_tried[r], limited[r], failed[r], steady[r]>>
  BY DEF SendOk, IInv, Types
<1>3. LocalInv(r)'
  BY <1>1, <1>2
  DEF IInv, LocalInv, InTier, IdleInv, ScanInv, OrderInv, SteadyInv, FlagInv, HonestInv,
      Active, Errors
<1>4. QED
  BY <1>1, <1>3, StepOf

LEMMA SendErrIInv ==
  ASSUME IInv, NEW r \in Requests, SendErr(r)
  PROVE  IInv'
<1>1. Advance(r, all_rate_limited[r]) /\ Types /\ all_rate_limited[r] \in BOOLEAN
  BY DEF SendErr, IInv, Types
<1>2. LoopTypes(r)
  BY <1>1, AdvanceLocal
<1>3. /\ pc[r] = "sent" /\ failed'[r] = failed[r] \cup {cur[r]}
      /\ failed' \in [Requests -> SUBSET Upstreams]
      /\ \A q \in Requests \ {r} : failed'[q] = failed[q]
      /\ UNCHANGED <<all_rate_limited, any_upstream_tried, limited, steady, shared>>
  BY DEF SendErr, IInv, Types, LocalInv, InTier
<1>4. Types' /\ OthersSame(r) /\ serving' = serving
  BY <1>2, <1>3 DEF IInv, Types, LoopTypes, OthersSame, local, shared
<1>5. CASE rest[r] = {} /\ Left(r, all_rate_limited[r])
  <2>1. InTier(r)'
    BY <1>3, <1>4, <1>5 DEF IInv, Types, LocalInv, InTier, ScanInv, Left, Verdict
  <2>2. IdleInv(r)'
    BY <1>3, <1>4, <1>5 DEF IInv, Types, LocalInv, IdleInv, Errors, Left, Verdict
  <2>3. ScanInv(r)' /\ SteadyInv(r)' /\ HonestInv(r)'
    <3>1. /\ tier[r] \in 1..3
          /\ \A u \in Upstreams : Role[u] \in 1..3
          /\ limited[r] \subseteq Upstreams /\ failed[r] \subseteq Upstreams
          /\ steady[r] \subseteq Upstreams
      BY DEF IInv, Types
    <3>2. \A u \in steady'[r] :
            serving'[u] /\ (Role[u] <= tier[r] => u \in limited'[r] \cup failed'[r])
      BY <1>3, <1>4, <1>5, <3>1 DEF IInv, LocalInv, OrderInv, SteadyInv, Active, shared
    <3>3. \A u \in limited'[r] \cup failed'[r] : Role[u] <= tier[r]
      BY <1>3, <1>4, <1>5, <3>1 DEF IInv, LocalInv, OrderInv, InTier
    <3>4. /\ ~any_upstream_tried[r] => limited'[r] \cup failed'[r] = {}
          /\ any_upstream_tried[r] /\ all_rate_limited[r] => failed'[r] = {} /\ limited'[r] # {}
          /\ any_upstream_tried[r] /\ ~all_rate_limited[r] => failed'[r] # {}
      BY <1>3, <1>4, <1>5 DEF IInv, LocalInv, FlagInv
    <3>5. QED
      BY <1>1, <1>4, <1>5, <3>2, <3>3, <3>4, LeaveInv
  <2>4. OrderInv(r)'
    BY <1>3, <1>4, <1>5 DEF IInv, Types, LocalInv, ScanInv, OrderInv, InTier, Errors, Left, Verdict
  <2>5. FlagInv(r)'
    BY <1>3, <1>4, <1>5 DEF IInv, Types, LocalInv, FlagInv, Errors, Left, Verdict
  <2>6. QED
    BY <1>4, <2>1, <2>2, <2>3, <2>4, <2>5, StepOf DEF LocalInv
<1>6. CASE /\ cur'[r] \in rest[r] /\ rest'[r] = rest[r] \ {cur'[r]} /\ pc'[r] = "attempt"
           /\ tier'[r] = tier[r]
  <2>1. InTier(r)'
    BY <1>3, <1>4, <1>6 DEF IInv, Types, LocalInv, InTier, ScanInv
  <2>2. IdleInv(r)'
    BY <1>3, <1>4, <1>6 DEF IInv, Types, LocalInv, IdleInv, Errors
  <2>3. ScanInv(r)'
    BY <1>3, <1>4, <1>6 DEF IInv, Types, LocalInv, InTier, ScanInv, OrderInv, SteadyInv, Active, OfRole, Errors
  <2>4. OrderInv(r)'
    BY <1>3, <1>4, <1>6 DEF IInv, Types, LocalInv, ScanInv, OrderInv, InTier, Errors
  <2>5. SteadyInv(r)'
    BY <1>3, <1>4, <1>6 DEF IInv, Types, LocalInv, InTier, ScanInv, OrderInv, SteadyInv, Active, Errors
  <2>6. FlagInv(r)'
    BY <1>3, <1>4, <1>6 DEF IInv, Types, LocalInv, FlagInv, Errors
  <2>7. HonestInv(r)'
    BY <1>3, <1>4, <1>6 DEF IInv, Types, LocalInv, ScanInv, OrderInv, InTier, SteadyInv, FlagInv, HonestInv, Active, Errors
  <2>8. QED
    BY <1>4, <2>1, <2>2, <2>3, <2>4, <2>5, <2>6, <2>7, StepOf DEF LocalInv
<1>7. QED
  BY <1>1, <1>5, <1>6, AdvanceLocal

LEMMA NextIInv == IInv /\ [Next]_vars => IInv'
<1>1. ASSUME IInv, UNCHANGED vars PROVE IInv'
  BY <1>1 DEF vars, IInv, Types, LocalInv, InTier, IdleInv, ScanInv, OrderInv, SteadyInv,
              FlagInv, HonestInv
<1>2. QED
  BY <1>1, FlipIInv, BeginIInv, ScanIInv, EmptyTierIInv, SelectIInv, RateLimitedIInv,
     AcquireIInv, SendOkIInv, SendErrIInv DEF Next

\* The inductive invariant holds throughout, for any number of upstreams and requests.
THEOREM Invariance == Spec => []IInv
  BY InitIInv, NextIInv, PTL DEF Spec

\* Every state of forward_request is well typed, and a tier's attempt order holds
\* upstreams of that tier only (manager.rs:180-206).
THEOREM TypeCorrect == Spec => []TypeOK
<1>1. IInv => TypeOK
  BY DEF IInv, Types, LocalInv, TypeOK
<1>2. QED
  BY <1>1, Invariance, PTL

\* No upstream is attempted twice by one request (manager.rs:196-206).
THEOREM NoRepeat == Spec => []NeverTwice
<1>1. IInv => NeverTwice
  BY DEF IInv, LocalInv, OrderInv, NeverTwice, Tried
<1>2. QED
  BY <1>1, Invariance, PTL

\* No request leaves a tier while a steadily healthy upstream of it is untried
\* (manager.rs:175-189).
THEOREM TierOrder == Spec => []BetterTiersFirst
<1>1. IInv => BetterTiersFirst
  BY DEF IInv, LocalInv, SteadyInv, BetterTiersFirst, Tried, Active
<1>2. QED
  BY <1>1, Invariance, PTL

\* Each of the three errors says what happened (manager.rs:307-328).
THEOREM Honesty == Spec => []ErrorsAreHonest
<1>1. IInv => ErrorsAreHonest
  BY DEF IInv, LocalInv, HonestInv, ErrorsAreHonest, Tried
<1>2. QED
  BY <1>1, Invariance, PTL
===============================================================================
