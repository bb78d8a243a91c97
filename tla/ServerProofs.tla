------------------------------ MODULE ServerProofs ------------------------------
(***************************************************************************)
(* Proofs about the rate limiter, by itself and in the server, about the   *)
(* routes, and about the upstreams that start-up gives to each chain.      *)
(***************************************************************************)
EXTENDS Server, SequenceTheorems, FiniteSetTheorems, WellFoundedInduction, TLAPS

\* Every interval up to the last refill leaves room for what is in the bucket, and one
\* leaves no more: the bucket is the room of the tightest interval.
Room(s) == Allowance(s, last_refill) - OneToken * (taken[last_refill + 1] - taken[s])

LimiterInv ==
  /\ LimiterTypeOK
  /\ \A t \in last_refill + 1..MaxTime + 1 : taken[t] = taken[last_refill + 1]
  /\ \A s \in 0..last_refill : tokens <= Room(s)
  /\ \E s \in 0..last_refill : tokens = Room(s)
  /\ \A s, t \in 0..last_refill : s <= t => TakenWithin(s, t) <= Allowance(s, t)

LEMMA RatesAreNatural ==
  max_rps \in Nat /\ OneToken \in Nat \ {0} /\ max_tokens \in Nat
BY RateLimiterAssumption DEF OneToken, max_tokens

LEMMA AllowanceInteger ==
  ASSUME NEW s \in Int, NEW t \in Int
  PROVE  /\ Allowance(s, t) \in Int
         /\ Allowance(s, t) = max_tokens + max_rps * (t - s)
BY RateLimiterAssumption DEF Allowance, OneToken, max_tokens

\* Allowances add up.
LEMMA AllowanceSplits ==
  ASSUME NEW s \in Int, NEW t \in Int, NEW u \in Int
  PROVE  Allowance(s, u) = Allowance(s, t) + (u - t) * max_rps
BY RateLimiterAssumption DEF Allowance, OneToken

LEMMA InitLimiterInv == LimiterInit => LimiterInv
<1> SUFFICES ASSUME LimiterInit PROVE LimiterInv
  OBVIOUS
<1>1. /\ max_rps \in Nat /\ OneToken \in Nat /\ max_tokens \in Nat
      /\ Allowance(0, 0) = max_tokens
  BY RateLimiterAssumption DEF Allowance, OneToken, max_tokens
<1>2. LimiterTypeOK
  BY <1>1, RateLimiterAssumption DEF LimiterInit, LimiterTypeOK, Times
<1>3. \A s \in 0..last_refill : s = 0
  BY DEF LimiterInit
<1>4. \A t \in 0..MaxTime + 1 : taken[t] = 0
  BY DEF LimiterInit
<1>5. 0 \in 0..MaxTime + 1 /\ 1 \in 0..MaxTime + 1
  BY RateLimiterAssumption
<1>6. Room(0) = max_tokens
  BY <1>1, <1>4, <1>5 DEF Room, LimiterInit
<1>7. TakenWithin(0, 0) = 0
  BY <1>1, <1>4, <1>5 DEF TakenWithin
<1>8. last_refill = 0 /\ tokens = max_tokens /\ 0 \in 0..last_refill
  BY DEF LimiterInit
<1>9. \A t \in last_refill + 1..MaxTime + 1 : taken[t] = taken[last_refill + 1]
  BY <1>4, <1>5, <1>8, RateLimiterAssumption
<1>10. /\ \A s \in 0..last_refill : tokens <= Room(s)
       /\ \E s \in 0..last_refill : tokens = Room(s)
  BY <1>1, <1>3, <1>6, <1>8
<1>11. \A s, t \in 0..last_refill : s <= t => TakenWithin(s, t) <= Allowance(s, t)
  BY <1>1, <1>3, <1>7
<1> QED
  BY <1>2, <1>9, <1>10, <1>11 DEF LimiterInv

\* A refill keeps the bucket what it is said to be, at the time of the call.
LEMMA RefilledIsRoom ==
  ASSUME LimiterInv
  PROVE  /\ Refilled \in 0..max_tokens
         /\ \A t \in now + 1..MaxTime + 1 : taken[t] = taken[now + 1]
         /\ \A s \in 0..now : Refilled <= Allowance(s, now) - TakenWithin(s, now)
         /\ \E s \in 0..now : Refilled = Allowance(s, now) - TakenWithin(s, now)
         /\ \A s, t \in 0..now : s <= t => TakenWithin(s, t) <= Allowance(s, t)
PROOF
<1>1. /\ now \in 0..MaxTime /\ last_refill \in 0..now
      /\ tokens \in 0..max_tokens /\ taken \in [0..MaxTime + 1 -> Nat]
      /\ MaxTime \in Nat /\ max_rps \in Nat /\ OneToken \in Nat \ {0} /\ max_tokens \in Nat
  BY RatesAreNatural, RateLimiterAssumption DEF LimiterInv, LimiterTypeOK, Times
<1> DEFINE Gain == (now - last_refill) * max_rps
<1>2. Gain \in Nat
  BY <1>1
<1>3. /\ Refilled = AtMost(tokens + Gain, max_tokens)
      /\ Refilled \in 0..max_tokens
      /\ Refilled <= tokens + Gain /\ Refilled <= max_tokens
      /\ Refilled = tokens + Gain \/ Refilled = max_tokens
  BY <1>1, <1>2 DEF Refilled, AtMost
<1>4. \A t \in last_refill + 1..MaxTime + 1 :
        taken[t] = taken[last_refill + 1] /\ taken[t] \in Nat
  BY <1>1 DEF LimiterInv
<1>5. taken[now + 1] = taken[last_refill + 1] /\ taken[now + 1] \in Nat
  BY <1>1, <1>4
<1>6. \A t \in now + 1..MaxTime + 1 : taken[t] = taken[now + 1]
  BY <1>1, <1>4, <1>5
<1>7. ASSUME NEW s \in 0..last_refill
      PROVE  /\ Allowance(s, now) - TakenWithin(s, now) = Room(s) + Gain
             /\ Room(s) \in Int
  <2>1. s \in Int /\ taken[s] \in Nat /\ last_refill \in Int /\ now \in Int
    BY <1>1
  <2>2. Allowance(s, now) = Allowance(s, last_refill) + Gain
    BY <2>1, AllowanceSplits
  <2>3. TakenWithin(s, now) = OneToken * (taken[last_refill + 1] - taken[s])
    BY <1>5 DEF TakenWithin
  <2>4. OneToken * (taken[last_refill + 1] - taken[s]) \in Int
    BY <1>1, <1>5, <2>1
  <2>5. Allowance(s, last_refill) \in Int
    BY <2>1, AllowanceInteger
  <2> QED
    BY <2>2, <2>3, <2>4, <2>5, <1>2 DEF Room
<1>8. ASSUME NEW s \in last_refill + 1..now
      PROVE  TakenWithin(s, now) = 0 /\ Allowance(s, now) \in Int /\ Allowance(s, now) >= max_tokens
  <2>1. s \in Int /\ now \in Int /\ taken[s] = taken[now + 1]
    BY <1>1, <1>4, <1>5
  <2>2. TakenWithin(s, now) = 0
    BY <2>1, <1>1, <1>5 DEF TakenWithin
  <2>3. Allowance(s, now) = max_tokens + max_rps * (now - s)
    BY <2>1, AllowanceInteger
  <2>4. max_rps * (now - s) \in Nat
    BY <1>1
  <2> QED
    BY <2>2, <2>3, <2>4, <1>1
<1>9. \A s \in 0..last_refill : tokens <= Room(s)
  BY DEF LimiterInv
<1>10. \A s \in 0..now : Refilled <= Allowance(s, now) - TakenWithin(s, now)
  <2> SUFFICES ASSUME NEW s \in 0..now
               PROVE  Refilled <= Allowance(s, now) - TakenWithin(s, now)
    OBVIOUS
  <2>1. CASE s \in 0..last_refill
    BY <2>1, <1>1, <1>2, <1>3, <1>7, <1>9
  <2>2. CASE s \in last_refill + 1..now
    BY <2>2, <1>1, <1>3, <1>8
  <2> QED
    BY <2>1, <2>2, <1>1
<1>11. \E s \in 0..now : Refilled = Allowance(s, now) - TakenWithin(s, now)
  <2>1. PICK w \in 0..last_refill : tokens = Room(w)
    BY DEF LimiterInv
  <2>2. CASE Refilled = tokens + Gain
    BY <2>1, <2>2, <1>1, <1>7
  <2>3. CASE Refilled = max_tokens /\ last_refill < now
    <3>1. now \in last_refill + 1..now
      BY <2>3, <1>1
    <3>2. TakenWithin(now, now) = 0
      BY <3>1, <1>8
    <3>3. Allowance(now, now) = max_tokens
      BY <1>1, AllowanceInteger
    <3> QED
      BY <2>3, <3>2, <3>3, <1>1
  <2>4. CASE last_refill = now
    <3>1. Gain = 0
      BY <2>4, <1>1
    <3> QED
      BY <3>1, <2>2, <1>1, <1>3
  <2> QED
    BY <2>2, <2>3, <2>4, <1>1, <1>3
<1>12. \A s, t \in 0..now : s <= t => TakenWithin(s, t) <= Allowance(s, t)
  <2> SUFFICES ASSUME NEW s \in 0..now, NEW t \in 0..now, s <= t
               PROVE  TakenWithin(s, t) <= Allowance(s, t)
    OBVIOUS
  <2>1. CASE t <= last_refill
    BY <2>1, <1>1 DEF LimiterInv
  <2>2. CASE t > last_refill
    <3>1. taken[t + 1] = taken[now + 1]
      BY <2>2, <1>1, <1>4, <1>5
    <3>2. TakenWithin(s, t) = TakenWithin(s, now)
      BY <3>1 DEF TakenWithin
    <3>3. CASE s \in last_refill + 1..now
      <4>1. Allowance(s, t) = max_tokens + max_rps * (t - s)
        BY <1>1, AllowanceInteger
      <4>2. max_rps * (t - s) \in Nat
        BY <1>1
      <4>3. TakenWithin(s, now) = 0
        BY <3>3, <1>8
      <4> QED
        BY <3>2, <4>1, <4>2, <4>3, <1>1
    <3>4. CASE s \in 0..last_refill
      <4>1. tokens <= Room(s) /\ Room(s) \in Int
        BY <3>4, <1>7, <1>9
      <4>2. TakenWithin(s, now) = OneToken * (taken[last_refill + 1] - taken[s])
        BY <1>5 DEF TakenWithin
      <4>3. taken[s] \in Nat
        BY <1>1
      <4>4. TakenWithin(s, now) \in Int
        BY <4>2, <4>3, <1>1, <1>5
      <4>5. Allowance(s, last_refill) \in Int /\ last_refill \in Int /\ s \in Int /\ t \in Int
        BY <1>1, AllowanceInteger
      <4>6. TakenWithin(s, now) <= Allowance(s, last_refill)
        BY <4>1, <4>2, <4>4, <4>5, <1>1 DEF Room
      <4>7. Allowance(s, t) = Allowance(s, last_refill) + (t - last_refill) * max_rps
        BY <4>5, AllowanceSplits
      <4>8. (t - last_refill) * max_rps \in Nat
        BY <2>2, <1>1
      <4> QED
        BY <3>2, <4>4, <4>5, <4>6, <4>7, <4>8
    <3> QED
      BY <3>3, <3>4, <1>1
  <2> QED
    BY <2>1, <2>2, <1>1
<1> QED
  BY <1>3, <1>6, <1>10, <1>11, <1>12

LEMMA LimiterInvImplies == LimiterInv => WithinLimit /\ RefusesOnlyAtLimit
<1> SUFFICES ASSUME LimiterInv PROVE WithinLimit /\ RefusesOnlyAtLimit
  OBVIOUS
<1>1. WithinLimit
  BY RefilledIsRoom DEF WithinLimit
<1>2. RefusesOnlyAtLimit
  <2> SUFFICES ASSUME ~Allowed
               PROVE  \E s \in 0..now : TakenWithin(s, now) + OneToken > Allowance(s, now)
    BY DEF RefusesOnlyAtLimit
  <2>1. PICK s \in 0..now : Refilled = Allowance(s, now) - TakenWithin(s, now)
    BY RefilledIsRoom
  <2>2. now \in Nat /\ taken \in [0..MaxTime + 1 -> Nat] /\ s \in 0..MaxTime + 1
        /\ now + 1 \in 0..MaxTime + 1
    BY RateLimiterAssumption DEF LimiterInv, LimiterTypeOK, Times
  <2>3. Allowance(s, now) \in Int
    BY <2>2, AllowanceInteger
  <2>4. TakenWithin(s, now) \in Int
    BY <2>2, RatesAreNatural DEF TakenWithin
  <2>5. Refilled \in Int /\ Refilled < OneToken
    BY RefilledIsRoom, RatesAreNatural DEF Allowed
  <2> QED
    BY <2>1, <2>3, <2>4, <2>5, RatesAreNatural
<1> QED
  BY <1>1, <1>2

LEMMA TickKeepsInv == LimiterInv /\ Tick => LimiterInv'
<1> SUFFICES ASSUME LimiterInv, Tick PROVE LimiterInv'
  OBVIOUS
<1>1. tokens' = tokens /\ last_refill' = last_refill /\ taken' = taken /\ now' = now + 1
  BY DEF Tick, bucket
<1>2. LimiterTypeOK'
  BY <1>1, RateLimiterAssumption DEF LimiterInv, LimiterTypeOK, Tick, Times
<1>3. \A s : Room(s)' = Room(s)
  BY <1>1 DEF Room, Allowance
<1>4. \A s, t : TakenWithin(s, t)' = TakenWithin(s, t)
  BY <1>1 DEF TakenWithin
<1>5. \A s, t : Allowance(s, t)' = Allowance(s, t)
  BY DEF Allowance
<1> QED
  BY <1>1, <1>2, <1>3, <1>4, <1>5 DEF LimiterInv

LEMMA NewKeepsInv == LimiterInv /\ NewLimiter => LimiterInv'
<1> SUFFICES ASSUME LimiterInv, NewLimiter PROVE LimiterInv'
  OBVIOUS
<1>1. /\ tokens' = max_tokens /\ last_refill' = now /\ now' = now
      /\ taken' = [t \in 0..MaxTime + 1 |-> 0]
      /\ now \in 0..MaxTime /\ MaxTime \in Nat
  BY RateLimiterAssumption DEF NewLimiter, LimiterInv, LimiterTypeOK, Times
<1>2. LimiterTypeOK'
  BY <1>1, RatesAreNatural DEF LimiterTypeOK, Times
<1>n. PICK n \in 0..MaxTime : n = now /\ n = now' /\ n = last_refill'
  BY <1>1
<1>3. ASSUME NEW s \in 0..n, NEW t \in 0..n
      PROVE  TakenWithin(s, t)' = 0
  <2>1. taken'[t + 1] = 0 /\ taken'[s] = 0
    BY <1>1, <1>n
  <2>2. TakenWithin(s, t)' = OneToken * (taken'[t + 1] - taken'[s])
    BY DEF TakenWithin, OneToken
  <2> QED
    BY <2>1, <2>2, RatesAreNatural
<1>4. ASSUME NEW s \in 0..n, NEW t \in 0..n, s <= t
      PROVE  /\ Allowance(s, t)' \in Int /\ Allowance(s, t)' >= max_tokens
             /\ s = t => Allowance(s, t)' = max_tokens
  <2>1. Allowance(s, t)' = max_tokens + max_rps * (t - s)
    <3>1. s \in Int /\ t \in Int
      BY <1>1, <1>n
    <3>2. Allowance(s, t)' = Allowance(s, t)
      BY DEF Allowance, OneToken
    <3> QED
      BY <3>1, <3>2, AllowanceInteger
  <2>2. max_rps * (t - s) \in Nat /\ (s = t => max_rps * (t - s) = 0)
    BY <1>1, <1>n, <1>4, RatesAreNatural
  <2> QED
    BY <2>1, <2>2, RatesAreNatural
<1>5. ASSUME NEW s \in 0..n
      PROVE  Room(s)' = Allowance(s, n)'
  <2>1. n \in 0..n
    BY <1>1, <1>n
  <2>2. Room(s)' = Allowance(s, n)' - TakenWithin(s, n)'
    BY <1>1, <1>n DEF Room, TakenWithin, Allowance, OneToken
  <2>3. Allowance(s, n)' \in Int
    BY <1>1, <1>n, <1>4, <2>1
  <2> QED
    BY <2>1, <2>2, <2>3, <1>3
<1>6. \A t \in last_refill' + 1..MaxTime + 1 : taken'[t] = taken'[last_refill' + 1]
  BY <1>1, <1>n
<1>7. \A s \in 0..last_refill' : tokens' <= Room(s)'
  BY <1>1, <1>n, <1>4, <1>5, RatesAreNatural
<1>8. \E s \in 0..last_refill' : tokens' = Room(s)'
  <2>1. n \in 0..n
    BY <1>1, <1>n
  <2> QED
    BY <2>1, <1>1, <1>n, <1>4, <1>5
<1>9. \A s, t \in 0..last_refill' : s <= t => TakenWithin(s, t)' <= Allowance(s, t)'
  BY <1>1, <1>n, <1>3, <1>4, RatesAreNatural
<1> QED
  BY <1>2, <1>6, <1>7, <1>8, <1>9 DEF LimiterInv

\* A call takes k = 0 or 1 tokens.
LEMMA AcquireKeepsInv == LimiterInv /\ try_acquire => LimiterInv'
<1> SUFFICES ASSUME LimiterInv, try_acquire PROVE LimiterInv'
  OBVIOUS
<1>1. /\ MaxTime \in Nat /\ now \in 0..MaxTime /\ now' = now /\ last_refill' = now
      /\ taken \in [0..MaxTime + 1 -> Nat]
  BY RateLimiterAssumption
  DEF try_acquire, Granted, Refused, LimiterInv, LimiterTypeOK, Times
<1>n. PICK n \in 0..MaxTime : n = now /\ n = now' /\ n = last_refill'
  BY <1>1
<1>2. Refilled \in 0..max_tokens /\ max_tokens \in Nat /\ OneToken \in Nat \ {0}
  BY RefilledIsRoom, RatesAreNatural
<1>r. PICK r \in 0..max_tokens : r = Refilled
  BY <1>2
<1>3. PICK k \in {0, OneToken} :
        /\ tokens' = r - k /\ k <= r
        /\ \E i \in {0, 1} :
             /\ k = i * OneToken
             /\ taken' = [t \in 0..MaxTime + 1 |-> IF t > n THEN taken[t] + i ELSE taken[t]]
  <2>1. CASE Granted
    <3>1. tokens' = r - OneToken /\ OneToken <= r /\ OneToken = 1 * OneToken
      BY <2>1, <1>2, <1>r DEF Granted, Allowed
    <3>2. taken' = [t \in 0..MaxTime + 1 |-> IF t > n THEN taken[t] + 1 ELSE taken[t]]
      BY <2>1, <1>n DEF Granted
    <3> QED
      BY <3>1, <3>2
  <2>2. CASE Refused
    <3>1. tokens' = r - 0 /\ 0 <= r /\ 0 = 0 * OneToken
      BY <2>2, <1>2, <1>r DEF Refused
    <3>2. taken' = [t \in 0..MaxTime + 1 |-> IF t > n THEN taken[t] + 0 ELSE taken[t]]
      BY <2>2, <1>1 DEF Refused
    <3> QED
      BY <3>1, <3>2
  <2> QED
    BY <2>1, <2>2 DEF try_acquire
<1>4. PICK i \in {0, 1} :
        /\ k = i * OneToken
        /\ taken' = [t \in 0..MaxTime + 1 |-> IF t > n THEN taken[t] + i ELSE taken[t]]
  BY <1>3
<1>5. LimiterTypeOK'
  <2>1. tokens' \in 0..max_tokens
    BY <1>2, <1>3
  <2>2. taken' \in [0..MaxTime + 1 -> Nat]
    BY <1>1, <1>4
  <2> QED
    BY <2>1, <2>2, <1>1 DEF LimiterTypeOK, Times
<1>6. ASSUME NEW s \in 0..n
      PROVE  /\ TakenWithin(s, n)' = TakenWithin(s, n) + k
             /\ TakenWithin(s, n) \in Int /\ Allowance(s, n) \in Int
             /\ Room(s)' = Allowance(s, n) - TakenWithin(s, n) - k
  <2>1. s \in 0..MaxTime + 1 /\ n + 1 \in 0..MaxTime + 1 /\ s \in Int /\ n \in Int
    BY <1>1
  <2>2. taken'[n + 1] = taken[n + 1] + i /\ taken'[s] = taken[s]
    BY <1>1, <1>4, <2>1
  <2>3. taken[n + 1] \in Nat /\ taken[s] \in Nat
    BY <1>1, <2>1
  <2>4. TakenWithin(s, n)' = OneToken * (taken'[n + 1] - taken'[s])
    BY DEF TakenWithin, OneToken
  <2>5. TakenWithin(s, n) = OneToken * (taken[n + 1] - taken[s])
    BY DEF TakenWithin
  <2>6. OneToken * (taken[n + 1] + i - taken[s]) = OneToken * (taken[n + 1] - taken[s]) + i * OneToken
    BY <1>2, <2>3
  <2>7. TakenWithin(s, n)' = TakenWithin(s, n) + k /\ TakenWithin(s, n) \in Int
    BY <1>2, <1>4, <2>2, <2>3, <2>4, <2>5, <2>6
  <2>8. Allowance(s, n) \in Int
    BY <2>1, AllowanceInteger
  <2>9. Room(s)' = Allowance(s, n) - OneToken * (taken'[n + 1] - taken'[s])
    BY <1>n DEF Room, Allowance, OneToken
  <2> QED
    BY <1>2, <1>3, <2>4, <2>7, <2>8, <2>9
<1>7. /\ \A s \in 0..n : r <= Allowance(s, n) - TakenWithin(s, n)
      /\ \E s \in 0..n : r = Allowance(s, n) - TakenWithin(s, n)
      /\ \A s, t \in 0..n : s <= t => TakenWithin(s, t) <= Allowance(s, t)
      /\ \A t \in n + 1..MaxTime + 1 : taken[t] = taken[n + 1]
  BY <1>n, <1>r, RefilledIsRoom
<1>8. \A t \in last_refill' + 1..MaxTime + 1 : taken'[t] = taken'[last_refill' + 1]
  BY <1>1, <1>n, <1>4, <1>7
<1>9. \A s \in 0..last_refill' : tokens' <= Room(s)'
  <2> SUFFICES ASSUME NEW s \in 0..n PROVE r - k <= Room(s)'
    BY <1>n, <1>3
  <2>1. r <= Allowance(s, n) - TakenWithin(s, n)
    BY <1>7
  <2>2. /\ Room(s)' = Allowance(s, n) - TakenWithin(s, n) - k
        /\ Allowance(s, n) - TakenWithin(s, n) \in Int
    BY <1>6
  <2>3. k \in Int /\ r \in Int
    BY <1>2
  <2> QED
    BY <2>1, <2>2, <2>3
<1>10. \E s \in 0..last_refill' : tokens' = Room(s)'
  <2>1. PICK s \in 0..n : r = Allowance(s, n) - TakenWithin(s, n)
    BY <1>7
  <2>2. Room(s)' = r - k
    BY <2>1, <1>2, <1>3, <1>6
  <2> QED
    BY <2>2, <1>3, <1>n
<1>11. \A s, t \in 0..last_refill' : s <= t => TakenWithin(s, t)' <= Allowance(s, t)'
  <2> SUFFICES ASSUME NEW s \in 0..n, NEW t \in 0..n, s <= t
               PROVE  TakenWithin(s, t)' <= Allowance(s, t)'
    BY <1>n
  <2>1. Allowance(s, t)' = Allowance(s, t)
    BY DEF Allowance, OneToken
  <2>2. CASE t = n
    <3>1. TakenWithin(s, t)' = TakenWithin(s, n) + k
      BY <2>2, <1>6
    <3>2. r <= Allowance(s, n) - TakenWithin(s, n) /\ k <= r
      BY <1>3, <1>7
    <3>3. Allowance(s, n) \in Int /\ TakenWithin(s, n) \in Int /\ k \in Int /\ r \in Int
      BY <1>2, <1>6
    <3> QED
      BY <2>1, <2>2, <3>1, <3>2, <3>3
  <2>3. CASE t < n
    <3>1. t + 1 \in 0..MaxTime + 1 /\ s \in 0..MaxTime + 1 /\ ~(t + 1 > n) /\ ~(s > n)
      BY <2>3, <1>1
    <3>2. taken'[t + 1] = taken[t + 1] /\ taken'[s] = taken[s]
      BY <1>4, <3>1
    <3>3. TakenWithin(s, t)' = TakenWithin(s, t)
      BY <3>2 DEF TakenWithin, OneToken
    <3> QED
      BY <2>1, <3>3, <1>7
  <2> QED
    BY <2>2, <2>3, <1>1
<1> QED
  BY <1>5, <1>8, <1>9, <1>10, <1>11 DEF LimiterInv

LEMMA StutterKeepsInv == LimiterInv /\ UNCHANGED limiter => LimiterInv'
BY DEF LimiterInv, LimiterTypeOK, limiter, bucket, Room, TakenWithin, Allowance, Times,
       OneToken, max_tokens

LEMMA LimiterNextKeepsInv == LimiterInv /\ [LimiterNext]_limiter => LimiterInv'
BY TickKeepsInv, NewKeepsInv, AcquireKeepsInv, StutterKeepsInv DEF LimiterNext

\* However a token bucket is used, by however many callers, it grants within any interval
\* what it holds and what drips in, and refuses nothing else (rate_limit.rs:20-45).
THEOREM BucketIsExact == LimiterSpec => [](WithinLimit /\ RefusesOnlyAtLimit)
<1>1. LimiterInit => LimiterInv
  BY InitLimiterInv
<1>2. LimiterInv /\ [LimiterNext]_limiter => LimiterInv'
  BY LimiterNextKeepsInv
<1>3. LimiterInv => WithinLimit /\ RefusesOnlyAtLimit
  BY LimiterInvImplies
<1> QED
  BY <1>1, <1>2, <1>3, PTL DEF LimiterSpec

-------------------------------------------------------------------------------
\* Every step of the server is one of the rate limiter, or none.
LEMMA ServerStepsLimiter == [Next]_vars => [LimiterNext]_limiter
<1> SUFFICES ASSUME [Next]_vars PROVE [LimiterNext]_limiter
  OBVIOUS
<1>1. CASE Load
  BY <1>1 DEF Load, Exit
<1>2. CASE Resolve
  BY <1>2 DEF Resolve, Exit
<1>3. CASE Setup
  BY <1>3 DEF Setup, Exit, LimiterNext
<1>4. CASE Restart
  BY <1>4 DEF Restart
<1>5. CASE Serve
  BY <1>5 DEF Serve, TooLarge, Health, Admit, Refuse, LimiterNext, try_acquire
<1>6. CASE Elapse
  BY <1>6 DEF Elapse, LimiterNext
<1>7. CASE UNCHANGED vars
  BY <1>7 DEF vars
<1> QED
  BY <1>1, <1>2, <1>3, <1>4, <1>5, <1>6, <1>7 DEF Next

\* The server, with its start-up, restarts and layers, uses its rate limiter as specified.
THEOREM ServerImplementsLimiter == Spec => LimiterSpec
<1>1. Init => LimiterInit
  BY DEF Init
<1>2. [Next]_vars => [LimiterNext]_limiter
  BY ServerStepsLimiter
<1> QED
  BY <1>1, <1>2, PTL DEF Spec, LimiterSpec

\* No interval sees more requests past the limiter than max_rps allows (rate_limit.rs:47-70).
THEOREM LimitHolds == Spec => []WithinLimit
BY ServerImplementsLimiter, BucketIsExact, PTL

\* No request within the limit gets 429 (rate_limit.rs:47-70).
THEOREM OnlyExcessRefused == Spec => []RefusesOnlyAtLimit
BY ServerImplementsLimiter, BucketIsExact, PTL

-------------------------------------------------------------------------------
\* The managers and routes stay in step with the configuration, whose chains only gain
\* upstreams on the way.
SameRoutes(cs) ==
  /\ DOMAIN cs = DOMAIN config.chains
  /\ \A i \in DOMAIN cs :
       /\ {"chain_id", "route"} \subseteq DOMAIN cs[i]
       /\ cs[i].route = config.chains[i].route
       /\ cs[i].chain_id = config.chains[i].chain_id

RouteInv ==
  /\ config \in Configs
  /\ phase \in {"loaded", "resolved", "serving"} => SameRoutes(chains)
  /\ phase = "serving" => chain_managers = chains
  /\ phase # "serving" => reply = NoReply
  /\ RequestsReachTheirChain

LEMMA NoReplyReaches == reply = NoReply => RequestsReachTheirChain
BY DEF NoReply, RequestsReachTheirChain

LEMMA ResolvedKeepsRoute ==
  ASSUME NEW chain, NEW listed, {"chain_id", "route"} \subseteq DOMAIN chain
  PROVE  /\ {"chain_id", "route"} \subseteq DOMAIN Resolved(chain, listed)
         /\ Resolved(chain, listed).route = chain.route
         /\ Resolved(chain, listed).chain_id = chain.chain_id
BY DEF Resolved

LEMMA StatusOfChain ==
  ASSUME NEW req
  PROVE  /\ ChainStatus(req) \in {"rpc", "413", "ws", "405"}
         /\ ChainStatus(req) = "rpc" => req.verb = "POST"
         /\ ChainStatus(req) = "ws" => req.verb = "GET"
<1>1. CASE req.verb = "POST"
  BY <1>1 DEF ChainStatus
<1>2. CASE req.verb = "GET"
  BY <1>2 DEF ChainStatus
<1>3. CASE req.verb \notin {"POST", "GET"}
  BY <1>3 DEF ChainStatus
<1> QED
  BY <1>1, <1>2, <1>3

\* Where a request goes that the layers let through.
LEMMA RouteReaches ==
  ASSUME NEW req, phase = "serving", RouteInv, Route(req), UNCHANGED <<phase, startup>>
  PROVE  RequestsReachTheirChain'
<1>1. /\ config' = config /\ chains' = chains /\ chain_managers' = chain_managers
  BY DEF startup
<1>2. chain_managers = chains /\ SameRoutes(chains)
  BY DEF RouteInv
<1>3. CASE ~Authorized(req)
  <2>1. reply' = [status |-> "401", to |-> req, idx |-> 0] /\ ~IsHealth(req)
    BY <1>3 DEF Route, Reply, Authorized
  <2>2. reply'.status = "401" /\ reply'.to = req
    BY <2>1
  <2> QED
    BY <2>1, <2>2 DEF RequestsReachTheirChain, IsHealth
<1>4. CASE Authorized(req) /\ IsHealth(req)
  <2>1. reply'.status \in {"preflight", "health", "405"}
    BY <1>4 DEF Route, Reply
  <2> QED
    BY <2>1 DEF RequestsReachTheirChain
<1>5. CASE Authorized(req) /\ ~IsHealth(req) /\ (RoutesTo(req) = {} \/ req.verb = "OPTIONS")
  <2>1. reply'.status \in {"preflight", "404"}
    BY <1>5 DEF Route, Reply
  <2> QED
    BY <2>1 DEF RequestsReachTheirChain
<1>6. CASE Authorized(req) /\ ~IsHealth(req) /\ RoutesTo(req) # {} /\ req.verb # "OPTIONS"
  <2>1. PICK idx \in RoutesTo(req) :
          reply' = [status |-> ChainStatus(req), to |-> req, idx |-> idx]
    BY <1>6 DEF Route, Reply
  <2>2. reply'.status = ChainStatus(req) /\ reply'.to = req /\ reply'.idx = idx
    BY <2>1
  <2>3. /\ idx \in DOMAIN chain_managers /\ idx \in DOMAIN config.chains
        /\ config.chains[idx].route = req.path
        /\ config.chains[idx].chain_id = chain_managers[idx].chain_id
    BY <1>2, <2>1 DEF RoutesTo, SameRoutes
  <2>4. AuthLayer => \E key \in config.auth.api_keys :
          key \in req.header \/ (key \in req.key /\ req.header = {})
    BY <1>6 DEF Authorized, ApiKey
  <2>5. AuthLayer' = AuthLayer
    BY <1>1 DEF AuthLayer
  <2> QED
    BY <1>1, <2>2, <2>3, <2>4, <2>5, StatusOfChain DEF RequestsReachTheirChain
<1> QED
  BY <1>3, <1>4, <1>5, <1>6

LEMMA RouteInvInit == Init => RouteInv
BY NoReplyReaches DEF Init, RouteInv

LEMMA RouteInvNext == RouteInv /\ [Next]_vars => RouteInv'
<1> SUFFICES ASSUME RouteInv, [Next]_vars PROVE RouteInv'
  OBVIOUS
<1>1. NoReply' = NoReply /\ (reply' = NoReply => RequestsReachTheirChain')
  BY DEF NoReply, RequestsReachTheirChain
<1>2. ASSUME Exit, phase # "serving" PROVE RouteInv'
  BY <1>1, <1>2 DEF Exit, RouteInv, startup
<1>3. CASE Load
  <2>1. CASE Exit
    BY <1>2, <1>3, <2>1 DEF Load
  <2>2. CASE ~Exit
    <3>1. /\ phase' = "loaded" /\ chains' = config.chains /\ config' = config
          /\ reply' = NoReply
      BY <1>3, <2>2 DEF Load, RouteInv
    <3>2. SameRoutes(chains)'
      BY <3>1, ServerAssumption DEF SameRoutes, RouteInv
    <3> QED
      BY <1>1, <3>1, <3>2 DEF RouteInv
  <2> QED
    BY <2>1, <2>2
<1>4. CASE Resolve
  <2>1. CASE Exit
    BY <1>2, <1>4, <2>1 DEF Resolve
  <2>2. CASE ~Exit
    <3>1. phase' = "resolved" /\ config' = config /\ reply' = NoReply /\ SameRoutes(chains)
      BY <1>4, <2>2 DEF Resolve, RouteInv, startup
    <3>2. CASE chains' = chains
      BY <1>1, <3>1, <3>2 DEF RouteInv, SameRoutes
    <3>3. CASE \E listed \in Registries :
                 chains' = [i \in DOMAIN chains |-> Resolved(chains[i], listed)]
      <4>1. PICK listed \in Registries :
              chains' = [i \in DOMAIN chains |-> Resolved(chains[i], listed)]
        BY <3>3
      <4>2. \A i \in DOMAIN chains :
              /\ {"chain_id", "route"} \subseteq DOMAIN Resolved(chains[i], listed)
              /\ Resolved(chains[i], listed).route = chains[i].route
              /\ Resolved(chains[i], listed).chain_id = chains[i].chain_id
        BY <3>1, ResolvedKeepsRoute DEF SameRoutes
      <4>3. SameRoutes(chains)'
        BY <3>1, <4>1, <4>2 DEF SameRoutes
      <4> QED
        BY <1>1, <3>1, <4>3 DEF RouteInv
    <3> QED
      BY <1>4, <2>2, <3>2, <3>3 DEF Resolve, startup
  <2> QED
    BY <2>1, <2>2
<1>5. CASE Setup
  <2>1. CASE Exit
    BY <1>2, <1>5, <2>1 DEF Setup
  <2>2. CASE ~Exit
    <3>1. /\ phase' = "serving" /\ config' = config /\ chains' = chains /\ reply' = NoReply
          /\ chain_managers' = chains
      BY <1>5, <2>2 DEF Setup, RouteInv, Managers
    <3> QED
      BY <1>1, <1>5, <3>1 DEF Setup, RouteInv, SameRoutes
  <2> QED
    BY <2>1, <2>2
<1>6. CASE Restart
  BY <1>1, <1>6 DEF Restart, RouteInv
<1>7. CASE Serve
  <2>1. phase = "serving" /\ UNCHANGED <<phase, startup>>
    BY <1>7 DEF Serve
  <2>2. PICK req \in Requests : TooLarge(req) \/ Health(req) \/ Admit(req) \/ Refuse(req)
    BY <1>7 DEF Serve
  <2>3. RequestsReachTheirChain'
    <3>1. CASE TooLarge(req)
      <4>1. reply'.status = "413"
        BY <3>1 DEF TooLarge, Reply
      <4> QED
        BY <4>1 DEF RequestsReachTheirChain
    <3>2. CASE Refuse(req)
      <4>1. reply'.status = "429" /\ reply'.to = req /\ ~IsHealth(req)
        BY <3>2 DEF Refuse, Reply
      <4> QED
        BY <4>1 DEF RequestsReachTheirChain, IsHealth
    <3>3. CASE Health(req) \/ Admit(req)
      BY <2>1, <3>3, RouteReaches DEF Health, Admit
    <3> QED
      BY <2>2, <3>1, <3>2, <3>3
  <2> QED
    BY <2>1, <2>3 DEF RouteInv, startup, SameRoutes
<1>8. CASE Elapse
  BY <1>8 DEF Elapse, RouteInv, startup, SameRoutes, RequestsReachTheirChain, AuthLayer
<1>9. CASE UNCHANGED vars
  BY <1>9 DEF vars, RouteInv, startup, SameRoutes, RequestsReachTheirChain, AuthLayer
<1> QED
  BY <1>3, <1>4, <1>5, <1>6, <1>7, <1>8, <1>9 DEF Next

\* For any configuration and registry a request reaches the manager of its own chain, and
\* only with a key where keys are in force (server.rs:71-112, auth.rs:15-53).
THEOREM RoutesAreTrue == Spec => []RequestsReachTheirChain
<1>1. RouteInv => RequestsReachTheirChain
  BY DEF RouteInv
<1> QED
  BY <1>1, RouteInvInit, RouteInvNext, PTL DEF Spec
-------------------------------------------------------------------------------
\* A non-empty set of naturals has a least element.
LEMMA LeastExists ==
  ASSUME NEW S \in SUBSET Nat, S # {}
  PROVE  \E m \in S : \A n \in S : m <= n
<1>1. PICK m \in S : \A n \in S : <<n, m>> \notin OpToRel(<, Nat)
  BY WFMin, NatLessThanWellFounded
<1>2. \A n \in S : ~(n < m)
  BY <1>1 DEF OpToRel
<1> QED
  BY <1>2

\* Flattening concatenates one sequence after the other.
LEMMA FlattenSteps ==
  ASSUME NEW M, NEW seqs \in Seq(Seq(M))
  PROVE  \E G \in [0..Len(seqs) -> Seq(M)] :
           /\ G[0] = <<>>
           /\ \A n \in 1..Len(seqs) : G[n] = G[n - 1] \o seqs[n]
           /\ FlattenSeq(seqs) = G[Len(seqs)]
<1> DEFINE L == Len(seqs)
           Step(f, n) == [i \in 1..n |-> IF i = 1 THEN seqs[i] ELSE f[i-1] \o seqs[i]]
           Missing == {n \in Nat : ~(\E f : f = Step(f, n))}
<1>1. L \in Nat /\ seqs \in [1..L -> Seq(M)]
  OBVIOUS
<1>2. Missing = {}
  <2> SUFFICES ASSUME Missing # {} PROVE FALSE
    OBVIOUS
  <2>1. PICK n \in Missing : \A k \in Missing : n <= k
    BY LeastExists
  <2>2. n # 0
    <3>1. <<>> = Step(<<>>, 0)
      OBVIOUS
    <3> QED
      BY <3>1
  <2>3. n - 1 \in Nat /\ n - 1 \notin Missing
    <3>1. n \in Nat
      OBVIOUS
    <3>2. n - 1 \in Nat /\ ~(n <= n - 1)
      BY <3>1, <2>2
    <3> HIDE DEF Missing
    <3> QED
      BY <3>2, <2>1
  <2>4. PICK f : f = Step(f, n - 1)
    BY <2>3
  <2> DEFINE g == Step(f, n)
  <2>5. \A i \in 1..n - 1 : g[i] = f[i]
    <3>1. \A i \in 1..n - 1 : f[i] = IF i = 1 THEN seqs[i] ELSE f[i-1] \o seqs[i]
      BY <2>4
    <3> QED
      BY <2>3, <3>1
  <2>6. \A i \in 1..n : i = 1 \/ i - 1 \in 1..n - 1
    BY <2>3
  <2>7. g = Step(g, n)
    BY <2>5, <2>6
  <2> QED
    BY <2>7, <2>1
<1>3. PICK f : f = (CHOOSE h : h = Step(h, L)) /\ f = Step(f, L)
  <2>1. \E h : h = Step(h, L)
    BY <1>1, <1>2
  <2> QED
    BY <2>1
<1>4. \A i \in 1..L : f[i] = IF i = 1 THEN seqs[i] ELSE f[i-1] \o seqs[i]
  BY <1>3
<1> DEFINE G == [n \in 0..L |-> IF n = 0 THEN <<>> ELSE f[n]]
<1>5. \A n \in 1..L : f[n] \in Seq(M)
  <2> DEFINE Bad == {i \in 1..L : f[i] \notin Seq(M)}
  <2> SUFFICES ASSUME Bad # {} PROVE FALSE
    OBVIOUS
  <2>1. PICK i \in Bad : \A k \in Bad : i <= k
    <3>1. Bad \in SUBSET Nat
      BY <1>1
    <3> HIDE DEF Bad
    <3> QED
      BY LeastExists, <3>1
  <2>2. i = 1 \/ (i - 1 \in 1..L /\ f[i-1] \in Seq(M))
    BY <2>1, <1>1
  <2>3. f[i] = IF i = 1 THEN seqs[i] ELSE f[i-1] \o seqs[i]
    BY <1>4, <2>1
  <2>4. seqs[i] \in Seq(M)
    BY <1>1, <2>1
  <2>5. f[i] \in Seq(M)
    BY <2>2, <2>3, <2>4
  <2> QED
    BY <2>5, <2>1
<1>6. G \in [0..L -> Seq(M)] /\ G[0] = <<>>
  BY <1>1, <1>5
<1>7. ASSUME NEW n \in 1..L PROVE G[n] = G[n - 1] \o seqs[n]
  <2>1. G[n] = f[n] /\ seqs[n] \in Seq(M) /\ n - 1 \in 0..L
    BY <1>1
  <2>2. CASE n = 1
    <3>1. G[n - 1] = <<>> /\ G[n] = seqs[n]
      BY <1>1, <1>4, <2>1, <2>2
    <3>2. <<>> \o seqs[n] = seqs[n]
      BY <2>1, ConcatEmptySeq
    <3> QED
      BY <3>1, <3>2
  <2>3. CASE n # 1
    <3>1. G[n - 1] = f[n - 1]
      BY <1>1, <2>1, <2>3
    <3> QED
      BY <1>4, <2>1, <2>3, <3>1
  <2> QED
    BY <2>2, <2>3
<1>8. FlattenSeq(seqs) = G[L]
  <2>1. CASE L = 0
    BY <1>6, <2>1 DEF FlattenSeq
  <2>2. CASE L # 0
    <3>1. FlattenSeq(seqs) = f[L]
      BY <1>3, <2>2 DEF FlattenSeq
    <3> QED
      BY <3>1, <1>1, <2>2
  <2> QED
    BY <2>1, <2>2
<1> HIDE DEF G
<1> QED
  BY <1>6, <1>7, <1>8

LEMMA ToSetAppend ==
  ASSUME NEW M, NEW s \in Seq(M), NEW x \in M
  PROVE  ToSet(Append(s, x)) = ToSet(s) \cup {x}
<1>1. /\ Len(s) \in Nat /\ DOMAIN s = 1..Len(s)
      /\ DOMAIN Append(s, x) = 1..Len(s) + 1
      /\ \A j \in 1..Len(s) : Append(s, x)[j] = s[j]
      /\ Append(s, x)[Len(s) + 1] = x
  OBVIOUS
<1>2. \A j : j \in 1..Len(s) + 1 <=> j \in 1..Len(s) \/ j = Len(s) + 1
  BY <1>1
<1> QED
  BY <1>1, <1>2 DEF ToSet

\* The endpoints that are added: those that are not configured.
LEMMA EndpointsKept ==
  ASSUME NEW chain, NEW endpoints \in Seq(STRING)
  PROVE  LET kept == PublicEndpoints(chain, endpoints)
             own == Urls(chain.upstreams)
         IN  /\ kept \in Seq(STRING)
             /\ ToSet(kept) = ToSet(endpoints) \ own
<1> DEFINE own == Urls(chain.upstreams)
           parts == [i \in DOMAIN endpoints |->
                       IF endpoints[i] \in own THEN <<>> ELSE <<endpoints[i]>>]
           L == Len(endpoints)
<1>1. L \in Nat /\ DOMAIN endpoints = 1..L /\ \A i \in 1..L : endpoints[i] \in STRING
  OBVIOUS
<1>2. parts \in Seq(Seq(STRING)) /\ Len(parts) = L
  <2>1. \A i \in 1..L : parts[i] \in Seq(STRING)
    <3> TAKE i \in 1..L
    <3>1. endpoints[i] \in STRING
      BY <1>1
    <3>2. <<>> \in Seq(STRING) /\ <<endpoints[i]>> \in Seq(STRING)
      BY <3>1
    <3> QED
      BY <3>2, <1>1
  <2>2. parts \in [1..L -> Seq(STRING)]
    <3> HIDE DEF own, L
    <3> QED
      BY <2>1, <1>1
  <2> HIDE DEF parts, L
  <2> QED
    BY <2>2, <1>1
<1> HIDE DEF own
<1>3. \A i \in 1..L : parts[i] = IF endpoints[i] \in own THEN <<>> ELSE <<endpoints[i]>>
  BY <1>1
<1>4. PublicEndpoints(chain, endpoints) = FlattenSeq(parts)
  BY DEF PublicEndpoints, own
<1> HIDE DEF parts, L
<1>5. PICK G \in [0..L -> Seq(STRING)] :
        /\ G[0] = <<>>
        /\ \A n \in 1..L : G[n] = G[n - 1] \o parts[n]
        /\ FlattenSeq(parts) = G[L]
  BY <1>2, FlattenSteps
<1> DEFINE pre(n) == SubSeq(endpoints, 1, n)
           Same(n) == ToSet(G[n]) = ToSet(pre(n)) \ own
<1>6. Same(0)
  <2>1. pre(0) = <<>> /\ G[0] = <<>>
    BY <1>5
  <2>2. ToSet(<<>>) = {}
    BY DEF ToSet
  <2> QED
    BY <2>1, <2>2
<1>7. ASSUME NEW n \in 1..L, Same(n - 1) PROVE Same(n)
  <2>1. /\ n - 1 \in 0..L /\ G[n - 1] \in Seq(STRING) /\ pre(n - 1) \in Seq(STRING)
        /\ endpoints[n] \in STRING
    BY <1>1, <1>5 DEF L
  <2>2. pre(n) = Append(pre(n - 1), endpoints[n])
    BY <1>1 DEF L
  <2>3. G[n] = IF endpoints[n] \in own THEN G[n - 1] ELSE Append(G[n - 1], endpoints[n])
    <3>1. G[n] = G[n - 1] \o parts[n]
      BY <1>5
    <3>2. CASE endpoints[n] \in own
      <4>1. parts[n] = <<>>
        BY <1>3, <3>2
      <4> QED
        BY <2>1, <3>1, <3>2, <4>1
    <3>3. CASE endpoints[n] \notin own
      <4>1. parts[n] = <<endpoints[n]>>
        BY <1>3, <3>3
      <4> QED
        BY <2>1, <3>1, <3>3, <4>1
    <3> QED
      BY <3>2, <3>3
  <2> HIDE DEF pre
  <2>4. ToSet(pre(n)) = ToSet(pre(n - 1)) \cup {endpoints[n]}
    BY <2>1, <2>2, ToSetAppend
  <2>5. ToSet(Append(G[n - 1], endpoints[n])) = ToSet(G[n - 1]) \cup {endpoints[n]}
    BY <2>1, ToSetAppend
  <2> QED
    BY <1>7, <2>3, <2>4, <2>5
<1> DEFINE Wrong == {n \in 0..L : ~Same(n)}
<1>8. Wrong = {}
  <2> SUFFICES ASSUME Wrong # {} PROVE FALSE
    OBVIOUS
  <2>1. Wrong \in SUBSET Nat
    BY <1>1
  <2>2. PICK n \in Wrong : \A k \in Wrong : n <= k
    <3> HIDE DEF Wrong
    <3> QED
      BY <2>1, LeastExists
  <2> HIDE DEF Same
  <2>3. n \in 0..L /\ n # 0
    BY <1>6
  <2>4. n - 1 \in 0..L /\ n \in 1..L /\ ~(n <= n - 1)
    BY <1>1, <2>3
  <2>5. Same(n - 1)
    BY <2>2, <2>4
  <2> QED
    BY <1>7, <2>4, <2>5
<1>9. Same(L)
  <2>1. L \in 0..L
    BY <1>1
  <2> HIDE DEF Same
  <2> QED
    BY <1>8, <2>1
<1>10. pre(L) = endpoints
  BY <1>1 DEF L
<1>11. G[L] \in Seq(STRING)
  BY <1>1, <1>5
<1> HIDE DEF pre
<1> QED
  BY <1>4, <1>5, <1>9, <1>10, <1>11 DEF own
-------------------------------------------------------------------------------
\* What start-up makes of a chain: its own upstreams, and the fallbacks it is given.
Fallbacks(urls) == [i \in DOMAIN urls |-> Upstream(urls[i], "fallback")]

LEMMA FallbacksTyped ==
  ASSUME NEW urls \in Seq(STRING)
  PROVE  /\ Fallbacks(urls) \in Seq(UpstreamConfig)
         /\ DOMAIN Fallbacks(urls) = DOMAIN urls
         /\ \A i \in DOMAIN urls :
              Fallbacks(urls)[i].http_url = urls[i] /\ Fallbacks(urls)[i].role = "fallback"
<1>1. Len(urls) \in Nat /\ DOMAIN urls = 1..Len(urls) /\ \A i \in 1..Len(urls) : urls[i] \in STRING
  OBVIOUS
<1>2. \A i \in 1..Len(urls) : Upstream(urls[i], "fallback") \in UpstreamConfig
  BY <1>1 DEF Upstream, UpstreamConfig
<1>3. Fallbacks(urls) \in Seq(UpstreamConfig)
  BY <1>1, <1>2 DEF Fallbacks
<1> QED
  BY <1>3 DEF Fallbacks, Upstream

\* A chain as it may be configured.
ChainConfig(chain) ==
  /\ {"chain_id", "route", "auto_public", "upstreams"} \subseteq DOMAIN chain
  /\ chain.upstreams \in Seq(UpstreamConfig)

\* What stands for the answer of a registry that was not asked.
NoAnswer == [id \in {} |-> <<>>]

LEMMA ResolvedUpstreams ==
  ASSUME NEW chain, ChainConfig(chain),
         NEW listed \in Registries \cup {NoAnswer}
  PROVE  LET urls == IF chain.chain_id \in DOMAIN listed THEN listed[chain.chain_id] ELSE <<>>
         IN  /\ urls \in Seq(STRING)
             /\ Resolved(chain, listed).upstreams =
                  IF chain.auto_public
                  THEN chain.upstreams \o Fallbacks(PublicEndpoints(chain, urls))
                  ELSE chain.upstreams
<1> DEFINE urls == IF chain.chain_id \in DOMAIN listed THEN listed[chain.chain_id] ELSE <<>>
<1>1. urls \in Seq(STRING)
  <2>1. <<>> \in Seq(STRING)
    OBVIOUS
  <2>2. \A id \in DOMAIN listed : listed[id] \in Seq(STRING)
    BY ServerAssumption DEF ServerAssumption, NoAnswer
  <2> QED
    BY <2>1, <2>2
<1>2. CASE chain.auto_public /\ chain.chain_id \in DOMAIN listed
  <2>1. Resolved(chain, listed) =
          [chain EXCEPT !.upstreams = chain.upstreams \o Fallbacks(PublicEndpoints(chain, urls))]
    BY <1>2 DEF Resolved, Fallbacks
  <2> QED
    BY <1>1, <1>2, <2>1 DEF ChainConfig
<1>3. CASE chain.auto_public /\ chain.chain_id \notin DOMAIN listed
  <2>1. Resolved(chain, listed) = chain /\ urls = <<>>
    BY <1>3 DEF Resolved
  <2>2. PublicEndpoints(chain, <<>>) = <<>>
    BY DEF PublicEndpoints, FlattenSeq
  <2>3. chain.upstreams \o Fallbacks(<<>>) = chain.upstreams
    <3>1. Fallbacks(<<>>) = <<>>
      BY DEF Fallbacks
    <3> QED
      BY <3>1, ConcatEmptySeq DEF ChainConfig
  <2> QED
    BY <1>1, <1>3, <2>1, <2>2, <2>3
<1>4. CASE ~chain.auto_public
  BY <1>1, <1>4 DEF Resolved
<1> QED
  BY <1>2, <1>3, <1>4

LEMMA ResolvedTyped ==
  ASSUME NEW chain, ChainConfig(chain), NEW listed \in Registries \cup {NoAnswer}
  PROVE  Resolved(chain, listed).upstreams \in Seq(UpstreamConfig)
<1> DEFINE urls == IF chain.chain_id \in DOMAIN listed THEN listed[chain.chain_id] ELSE <<>>
           more == Fallbacks(PublicEndpoints(chain, urls))
<1>1. /\ urls \in Seq(STRING)
      /\ Resolved(chain, listed).upstreams =
           IF chain.auto_public THEN chain.upstreams \o more ELSE chain.upstreams
  BY ResolvedUpstreams
<1> HIDE DEF urls
<1>2. more \in Seq(UpstreamConfig)
  BY <1>1, EndpointsKept, FallbacksTyped
<1> HIDE DEF more
<1> QED
  BY <1>1, <1>2 DEF ChainConfig

LEMMA ResolvedAsListed ==
  ASSUME NEW chain, ChainConfig(chain), NEW listed \in Registries \cup {NoAnswer}
  PROVE  AsListed(chain, Resolved(chain, listed).upstreams,
                  IF chain.chain_id \in DOMAIN listed THEN ToSet(listed[chain.chain_id]) ELSE {})
<1> DEFINE urls == IF chain.chain_id \in DOMAIN listed THEN listed[chain.chain_id] ELSE <<>>
           kept == IF chain.auto_public THEN PublicEndpoints(chain, urls) ELSE <<>>
           own == chain.upstreams
           all == Resolved(chain, listed).upstreams
           added == SubSeq(all, Len(own) + 1, Len(all))
<1>1. urls \in Seq(STRING) /\ own \in Seq(UpstreamConfig)
  BY ResolvedUpstreams DEF ChainConfig
<1>2. kept \in Seq(STRING)
  <2>1. <<>> \in Seq(STRING)
    OBVIOUS
  <2> HIDE DEF urls
  <2> QED
    BY <1>1, <2>1, EndpointsKept
<1>3. all = own \o Fallbacks(kept)
  <2>1. CASE chain.auto_public
    BY <2>1, ResolvedUpstreams
  <2>2. CASE ~chain.auto_public
    <3>1. all = own /\ kept = <<>>
      BY <2>2, ResolvedUpstreams
    <3>2. Fallbacks(kept) = <<>>
      BY <3>1 DEF Fallbacks
    <3> QED
      BY <1>1, <3>1, <3>2, ConcatEmptySeq
  <2> QED
    BY <2>1, <2>2
<1>4. /\ Fallbacks(kept) \in Seq(UpstreamConfig)
      /\ DOMAIN Fallbacks(kept) = DOMAIN kept
      /\ \A i \in DOMAIN kept :
           Fallbacks(kept)[i].http_url = kept[i] /\ Fallbacks(kept)[i].role = "fallback"
  BY <1>2, FallbacksTyped
<1>5. ToSet(kept) = IF chain.auto_public THEN ToSet(urls) \ Urls(own) ELSE {}
  <2>1. CASE chain.auto_public
    <3> HIDE DEF urls
    <3> QED
      BY <1>1, <2>1, EndpointsKept
  <2>2. CASE ~chain.auto_public
    BY <2>2 DEF ToSet
  <2> QED
    BY <2>1, <2>2
<1> HIDE DEF urls, kept, own, all
<1>6. added = Fallbacks(kept) /\ IsPrefix(own, all)
  <2>1. PICK more \in Seq(UpstreamConfig) : more = Fallbacks(kept)
    BY <1>4
  <2>2. /\ Len(own) \in Nat /\ Len(more) \in Nat /\ Len(all) = Len(own) + Len(more)
        /\ all \in Seq(UpstreamConfig)
    BY <1>1, <1>3, <2>1
  <2>3. SubSeq(all, Len(own) + 1, Len(own) + Len(more)) = more
    BY <1>1, <1>3, <2>1, <2>2
  <2>4. SubSeq(all, 1, Len(own)) = own
    BY <1>1, <1>3, <2>1, <2>2
  <2>5. SubSeq(own, 1, Len(own)) = own
    BY <1>1
  <2> QED
    BY <2>1, <2>2, <2>3, <2>4, <2>5 DEF IsPrefix
<1> HIDE DEF added
<1>7. \A j \in DOMAIN added : added[j].role = "fallback"
  BY <1>4, <1>6
<1>8. Urls(added) = ToSet(kept)
  BY <1>4, <1>6 DEF Urls, ToSet
<1>9. ToSet(urls) = IF chain.chain_id \in DOMAIN listed THEN ToSet(listed[chain.chain_id]) ELSE {}
  <2>1. ToSet(<<>>) = {}
    BY DEF ToSet
  <2> QED
    BY <2>1 DEF urls
<1> QED
  BY <1>5, <1>6, <1>7, <1>8, <1>9 DEF AsListed, own, all, added

-------------------------------------------------------------------------------
Statuses == {"none", "413", "health", "429", "401", "404", "405", "preflight", "rpc",
             "ws"}

\* The chains are as the registry, or NoAnswer, completes those of the configuration.
Completed(listed) ==
  /\ \/ listed \in Registries /\ registry = {listed}
     \/ /\ listed = NoAnswer /\ registry = {}
        /\ \A i \in DOMAIN config.chains : ~config.chains[i].auto_public
  /\ \A i \in DOMAIN chains : chains[i] = Resolved(config.chains[i], listed)

\* The chains follow the configuration: as they are in it, then as they are completed.
StartInv ==
  /\ phase \in {"start", "loaded", "resolved", "serving", "exited"}
  /\ config \in Configs
  /\ registry \in SUBSET Registries
  /\ \A cs \in {chains, chain_managers} : \A i \in DOMAIN cs :
       i \in DOMAIN config.chains /\ cs[i].upstreams \in Seq(UpstreamConfig)
  /\ phase \in {"start", "loaded"} => registry = {}
  /\ phase = "loaded" => chains = config.chains
  /\ phase \in {"resolved", "serving"} =>
       /\ DOMAIN chains = DOMAIN config.chains
       /\ \E listed \in Registries \cup {NoAnswer} : Completed(listed)
  /\ phase = "serving" => chain_managers = chains
  /\ reply.status \in Statuses

LEMMA ConfiguredChains == \A c \in Configs : \A i \in DOMAIN c.chains : ChainConfig(c.chains[i])
BY ServerAssumption DEF ServerAssumption, ChainConfig

LEMMA StartInit == Init => StartInv
BY DEF Init, StartInv, NoReply, Statuses

LEMMA StartNext == StartInv /\ [Next]_vars => StartInv'
<1> SUFFICES ASSUME StartInv, [Next]_vars PROVE StartInv'
  OBVIOUS
<1>1. ASSUME Exit PROVE StartInv'
  BY <1>1 DEF Exit, startup, StartInv
<1>2. ASSUME UNCHANGED <<phase, startup>>, reply'.status \in Statuses PROVE StartInv'
  BY <1>2 DEF startup, StartInv, Completed
<1>3. CASE Load
  <2>1. CASE ~Exit
    <3>1. /\ phase = "start" /\ phase' = "loaded" /\ chains' = config.chains
          /\ UNCHANGED <<config, registry, chain_managers, reply>>
      BY <1>3, <2>1 DEF Load
    <3>2. \A i \in DOMAIN config.chains : config.chains[i].upstreams \in Seq(UpstreamConfig)
      BY ConfiguredChains DEF StartInv, ChainConfig
    <3> QED
      BY <3>1, <3>2 DEF StartInv
  <2> QED
    BY <1>1, <2>1
<1>4. CASE Resolve
  <2>1. CASE ~Exit /\ \E i \in DOMAIN chains : chains[i].auto_public
    <3>1. PICK listed \in Registries :
            /\ registry' = {listed}
            /\ chains' = [i \in DOMAIN chains |-> Resolved(chains[i], listed)]
            /\ phase' = "resolved"
            /\ UNCHANGED <<config, chain_managers, reply>>
      BY <1>4, <2>1 DEF Resolve
    <3>2. chains = config.chains /\ config \in Configs
      BY <1>4 DEF Resolve, StartInv
    <3>3. \A i \in DOMAIN chains : Resolved(chains[i], listed).upstreams \in Seq(UpstreamConfig)
      BY <3>2, ConfiguredChains, ResolvedTyped
    <3>4. Completed(listed)'
      BY <3>1, <3>2 DEF Completed
    <3> QED
      BY <3>1, <3>2, <3>3, <3>4 DEF StartInv
  <2>2. CASE ~Exit /\ ~\E i \in DOMAIN chains : chains[i].auto_public
    <3>1. phase' = "resolved" /\ UNCHANGED <<startup, reply>>
      BY <1>4, <2>2 DEF Resolve
    <3>2. chains = config.chains /\ registry = {}
      BY <1>4 DEF Resolve, StartInv
    <3>4. Completed(NoAnswer)'
      BY <2>2, <3>1, <3>2 DEF Completed, Resolved, startup
    <3> QED
      BY <3>1, <3>2, <3>4 DEF StartInv, startup
  <2> QED
    BY <1>1, <2>1, <2>2
<1>5. CASE Setup
  <2>1. CASE ~Exit
    <3>1. /\ phase' = "serving" /\ chain_managers' = chains
          /\ UNCHANGED <<config, registry, chains, reply>>
      BY <1>5, <2>1 DEF Setup, Managers
    <3>2. phase = "resolved"
      BY <1>5 DEF Setup
    <3>3. \A listed : Completed(listed) => Completed(listed)'
      BY <3>1 DEF Completed
    <3> QED
      BY <3>1, <3>2, <3>3 DEF StartInv
  <2> QED
    BY <1>1, <2>1
<1>6. CASE Restart
  BY <1>6 DEF Restart, StartInv, NoReply, Statuses
<1>7. CASE Serve
  <2>1. PICK req : TooLarge(req) \/ Health(req) \/ Admit(req) \/ Refuse(req)
    BY <1>7 DEF Serve
  <2>2. ASSUME Route(req) PROVE reply'.status \in Statuses
    BY <2>2, StatusOfChain DEF Route, Reply, Statuses
  <2>3. reply'.status \in Statuses
    BY <2>1, <2>2 DEF TooLarge, Health, Admit, Refuse, Reply, Statuses
  <2> QED
    BY <1>2, <1>7, <2>3 DEF Serve
<1>8. CASE Elapse \/ UNCHANGED vars
  <2>1. UNCHANGED <<phase, startup, reply>>
    BY <1>8 DEF Elapse, vars
  <2> QED
    BY <1>2, <2>1 DEF StartInv
<1> QED
  BY <1>3, <1>4, <1>5, <1>6, <1>7, <1>8 DEF Next

LEMMA StartImplies == StartInv => UpstreamsAsListed
<1> SUFFICES ASSUME StartInv, phase = "serving"
             PROVE  /\ (\E i \in DOMAIN config.chains : config.chains[i].auto_public)
                         => registry # {}
                    /\ \A i \in DOMAIN config.chains :
                         LET chain == config.chains[i]
                         IN  AsListed(chain, chain_managers[i].upstreams, Listed(chain.chain_id))
  BY DEF UpstreamsAsListed
<1>1. PICK listed \in Registries \cup {NoAnswer} : Completed(listed)
  BY DEF StartInv
<1>2. (\E i \in DOMAIN config.chains : config.chains[i].auto_public) => registry # {}
  BY <1>1 DEF Completed
<1>3. ASSUME NEW i \in DOMAIN config.chains
      PROVE  AsListed(config.chains[i], chain_managers[i].upstreams,
                      Listed(config.chains[i].chain_id))
  <2>1. chain_managers[i] = Resolved(config.chains[i], listed) /\ ChainConfig(config.chains[i])
    BY <1>1, ConfiguredChains DEF StartInv, Completed
  <2>2. PICK urls : urls = IF config.chains[i].chain_id \in DOMAIN listed
                           THEN ToSet(listed[config.chains[i].chain_id]) ELSE {}
    OBVIOUS
  <2>3. AsListed(config.chains[i], chain_managers[i].upstreams, urls)
    BY <2>1, <2>2, ResolvedAsListed
  <2>4. CASE registry = {listed}
    <3>1. Listed(config.chains[i].chain_id) = urls
      BY <2>2, <2>4 DEF Listed
    <3> QED
      BY <2>3, <3>1
  <2>5. CASE registry = {} /\ listed = NoAnswer
    <3>1. Listed(config.chains[i].chain_id) = {} /\ urls = {}
      BY <2>2, <2>5 DEF Listed, NoAnswer
    <3> QED
      BY <2>3, <3>1
  <2> QED
    BY <1>1, <2>4, <2>5 DEF Completed
<1> QED
  BY <1>2, <1>3

\* Whatever the configuration and the registry hold, a process that serves has for each
\* chain the upstreams that are configured and, with auto_public, those listed, and does
\* not serve a chain with auto_public without the registry's answer
\* (public_endpoints.rs:44-124, server.rs:41-64).
THEOREM ServedAsListed == Spec => []UpstreamsAsListed
BY StartInit, StartNext, StartImplies, PTL DEF Spec

\* The variables of the server and its rate limiter keep their types through start-up,
\* service and restarts (main.rs, server.rs, rate_limit.rs).
THEOREM TypeCorrect == Spec => []TypeOK
<1>1. StartInv /\ LimiterInv => TypeOK
  BY DEF StartInv, LimiterInv, TypeOK, Statuses
<1>2. LimiterSpec => []LimiterInv
  BY InitLimiterInv, LimiterNextKeepsInv, PTL DEF LimiterSpec
<1> QED
  BY <1>1, <1>2, StartInit, StartNext, ServerImplementsLimiter, PTL DEF Spec
===============================================================================
