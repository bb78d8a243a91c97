------------------------------ MODULE RateLimiter ------------------------------
(***************************************************************************)
(* The token bucket (src/middleware/rate_limit.rs) that all clients of the *)
(* server share, and all users of an upstream (src/upstream/client.rs):    *)
(* each reads the clock and takes its token under the mutex of the bucket. *)
(*                                                                         *)
(* Time goes by in ticks.  A bucket is counted in fractions of a token, of *)
(* which TicksPerSecond make one, so that max_rps of them drip in per      *)
(* tick: the reals that the code's f64 stand for, without their rounding.  *)
(***************************************************************************)
EXTENDS Integers

CONSTANTS
  max_rps,          \* the refill per second, and the size of the bucket
  TicksPerSecond,
  MaxTime           \* bounds the clock

ASSUME RateLimiterAssumption ==
  /\ max_rps \in Nat
  /\ TicksPerSecond \in Nat \ {0}
  /\ MaxTime \in Nat

VARIABLES
  now,          \* the clock
  tokens, last_refill,
  taken         \* history: taken[t]: the tokens taken before time t, since the last new

bucket == <<tokens, last_refill, taken>>
limiter == <<now, bucket>>

Times == 0..MaxTime
OneToken == TicksPerSecond
max_tokens == max_rps * OneToken

LimiterTypeOK ==
  /\ now \in Times
  /\ last_refill \in 0..now
  /\ tokens \in 0..max_tokens
  /\ taken \in [0..MaxTime + 1 -> Nat]

\* RateLimiter::new
NewLimiter ==
  /\ tokens' = max_tokens
  /\ last_refill' = now
  /\ taken' = [t \in 0..MaxTime + 1 |-> 0]
  /\ UNCHANGED now

LimiterInit ==
  /\ now = 0
  /\ tokens = max_tokens
  /\ last_refill = 0
  /\ taken = [t \in 0..MaxTime + 1 |-> 0]

Tick ==
  /\ now < MaxTime
  /\ now' = now + 1
  /\ UNCHANGED bucket

AtMost(a, b) == IF a <= b THEN a ELSE b

\* Mutant: the bucket overflows.
RefilledUncapped == tokens + (now - last_refill) * max_rps

\* What is in the bucket once refilled.
Refilled == AtMost(tokens + (now - last_refill) * max_rps, max_tokens)

Allowed == Refilled >= OneToken

Granted ==
  /\ Allowed
  /\ tokens' = Refilled - OneToken
  /\ last_refill' = now
  /\ taken' = [t \in 0..MaxTime + 1 |-> IF t > now THEN taken[t] + 1 ELSE taken[t]]
  /\ UNCHANGED now

\* Mutant: a refused call loses what has dripped in since the last.
RefusedUnfilled ==
  /\ ~Allowed
  /\ last_refill' = now
  /\ UNCHANGED <<now, tokens, taken>>

Refused ==
  /\ ~Allowed
  /\ tokens' = Refilled
  /\ last_refill' = now
  /\ UNCHANGED <<now, taken>>

try_acquire == Granted \/ Refused

LimiterNext == Tick \/ NewLimiter \/ try_acquire

LimiterSpec == LimiterInit /\ [][LimiterNext]_limiter

-------------------------------------------------------------------------------
\* The tokens taken from time s to time t, both included, and what they may come to.
TakenWithin(s, t) == OneToken * (taken[t + 1] - taken[s])
Allowance(s, t) == max_rps * (OneToken + (t - s))

\* In any interval no more tokens are taken than the bucket holds and than drip in
\* during the interval, whoever takes them and however the calls are spaced
\* (rate_limit.rs:32-44).
WithinLimit == \A s, t \in 0..now : s <= t => TakenWithin(s, t) <= Allowance(s, t)

\* A call is refused only if its token would be too much for some interval that ends
\* with it: clients that keep within the limit are never refused, and refused calls
\* cost the others nothing (rate_limit.rs:32-44).
RefusesOnlyAtLimit ==
  ~Allowed => \E s \in 0..now : TakenWithin(s, now) + OneToken > Allowance(s, now)
===============================================================================
