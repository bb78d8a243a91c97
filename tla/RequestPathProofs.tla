--------------------------- MODULE RequestPathProofs ---------------------------
(***************************************************************************)
(* Proofs about the way of a request: the types, who waits for whom, and   *)
(* what the cache may hold, for any clients, requests and policies.        *)
(***************************************************************************)
EXTENDS RequestPath, SequenceTheorems, WellFoundedInduction, TLAPS

Labels == {"idle", "next", "get", "ask", "wait", "set", "sadd", "replied"}

\* The functions of the clients, besides what TypeOK says.
Shape ==
  /\ DOMAIN body = Clients /\ DOMAIN at = Clients
  /\ DOMAIN replies = Clients /\ DOMAIN forwards = Clients

\* While a call is under way the current request is one of the body; a body is begun
\* with its first.
Under == {"get", "ask", "wait", "set", "sadd"}
AtRequest ==
  \A c \in Clients :
    /\ pc[c] \in Under => at[c] \in DOMAIN body[c]
    /\ pc[c] = "idle" => at[c] = 1

LEMMA BodyFacts ==
  ASSUME NEW c \in Clients, NEW b \in Bodies(c)
  PROVE  /\ b \in Seq(Menu[c]) /\ Len(b) \in Nat /\ DOMAIN b = 1..Len(b)
         /\ \A i \in 1..Len(b) : b[i] \in Menu[c] /\ b[i] \in Made
<1>1. PICK n \in 0..Length[c] : b \in [1..n -> Menu[c]]
  BY DEF Bodies
<1>2. n \in Nat
  BY <1>1, RequestPathAssumption
<1>3. b \in Seq(Menu[c])
  BY <1>1, <1>2, IsASeq
<1>4. Len(b) = n
  BY <1>1, <1>2, LenProperties
<1> QED
  BY <1>1, <1>2, <1>3, <1>4 DEF Made

\* The first occurrence of a request that may be repeated.
LEMMA FirstFacts ==
  ASSUME NEW c \in Clients, body[c] \in Bodies(c), NEW i \in DOMAIN body[c]
  PROVE  /\ First(c, i) \in DOMAIN body[c] /\ First(c, i) <= i
         /\ body[c][First(c, i)] = body[c][i]
         /\ First(c, First(c, i)) = First(c, i)
         /\ is_uncacheable(body[c][i].method)
              \/ is_method_blocked(body[c][i].method, blocked_methods) => First(c, i) = i
         /\ \/ is_uncacheable(body[c][i].method)
            \/ is_method_blocked(body[c][i].method, blocked_methods)
            \/ \A n \in 1..i : body[c][n] = body[c][i] => First(c, i) <= n
<1> DEFINE b == body[c]
           Alone(q) == is_uncacheable(q.method) \/ is_method_blocked(q.method, blocked_methods)
           Same == {j \in 1..i : b[j] = b[i]}
<1>1. DOMAIN b = 1..Len(b) /\ Len(b) \in Nat /\ i \in Nat /\ i \in Same
  BY BodyFacts
<1>2. CASE Alone(b[i])
  BY <1>1, <1>2 DEF First, FirstOf
<1>3. CASE ~Alone(b[i])
  <2>1. Same \in SUBSET Nat /\ Same # {}
    BY <1>1
  <2>2. PICK m \in Same : \A n \in Same : m <= n
    <3>1. PICK m \in Same : \A n \in Same : <<n, m>> \notin OpToRel(<, Nat)
      BY <2>1, WFMin, NatLessThanWellFounded
    <3>2. \A n \in Same : ~(n < m)
      BY <2>1, <3>1 DEF OpToRel
    <3> QED
      BY <2>1, <3>2
  <2>3. Min(Same) \in Same /\ \A n \in Same : Min(Same) <= n
    BY <2>2 DEF Min
  <2>4. First(c, i) = Min(Same)
    BY <1>3 DEF First, FirstOf, cache_key
  <2>5. PICK f \in Same : f = First(c, i)
    BY <2>3, <2>4
  <2>6. \A n \in Same : f <= n
    BY <2>3, <2>4, <2>5
  <2>7. f \in 1..i /\ f \in DOMAIN b /\ f <= i /\ b[f] = b[i]
    BY <1>1, <2>5
  <2>8. First(c, f) = f
    <3> DEFINE SameF == {j \in 1..f : b[j] = b[f]}
    <3>1. f \in SameF /\ \A n \in SameF : f <= n
      BY <1>1, <2>6, <2>7
    <3>2. \A n \in SameF : n <= f /\ n \in Nat
      BY <1>1, <2>7
    <3>3. Min(SameF) = f
      BY <3>1, <3>2 DEF Min
    <3>4. First(c, f) = Min(SameF)
      BY <1>3, <2>7 DEF First, FirstOf, cache_key
    <3> QED
      BY <3>3, <3>4
  <2>9. \A n \in 1..i : b[n] = b[i] => f <= n
    BY <2>6
  <2> QED
    BY <1>3, <2>5, <2>7, <2>8, <2>9
<1> QED
  BY <1>2, <1>3

LEMMA RequestFacts ==
  ASSUME NEW q \in Made
  PROVE  /\ q = Request(q.method, q.ref) /\ q.ref.number \in Heights /\ q \in Keys
         /\ \A n \in Heights : Request(q.method, Number(n)) \in Keys
BY RequestPathAssumption DEF Made, Heights, Keys

LEMMA HeightsFacts ==
  /\ 0 \in Heights /\ MaxNumber \in Nat \ {0} /\ Heights \subseteq Nat
  /\ \A n \in Heights : saturating_sub(n, finality_depth) \in Heights
BY RequestPathAssumption DEF Heights, saturating_sub

\* A resolved request is a key of the cache, and keeps its method.
LEMMA ResolvedIsKey ==
  ASSUME NEW q \in Made, NEW n \in Heights
  PROVE  /\ resolve_block_tags(q, n, finality_depth) \in Keys
         /\ resolve_block_tags(q, n, finality_depth).method = q.method
<1> DEFINE r == resolve_block_tags(q, n, finality_depth)
<1>1. q = [method |-> q.method, ref |-> q.ref] /\ q \in Keys
  BY RequestFacts DEF Request
<1>2. CASE r = q
  BY <1>1, <1>2
<1>3. CASE r # q
  <2>1. PICK tag \in DOMAIN Height(n, finality_depth) :
          r = [q EXCEPT !.ref = Number(Height(n, finality_depth)[tag])]
    BY <1>3 DEF resolve_block_tags
  <2>2. Height(n, finality_depth)[tag] \in Heights
    BY <2>1, HeightsFacts DEF Height
  <2>3. r = Request(q.method, Number(Height(n, finality_depth)[tag]))
    BY <1>1, <2>1 DEF Request
  <2> QED
    BY <2>2, <2>3, RequestFacts DEF Request
<1> QED
  BY <1>2, <1>3

\* What the type invariant says of one client.
ClientOK(c) ==
  /\ body[c] \in Bodies(c)
  /\ at[c] \in 1..Len(body[c]) + 1
  /\ DOMAIN replies[c] = DOMAIN body[c]
  /\ \A i \in DOMAIN replies[c] : replies[c][i].kind \in Kinds
  /\ forwards[c] \in [DOMAIN body[c] -> Nat]

TypedParts ==
  /\ Shape
  /\ latest \in Heights
  /\ entries \in [Keys -> Heights \cup {Null, Absent}] /\ sadded \subseteq Keys
  /\ pc \in [Clients -> Labels]
  /\ \A c \in Clients : ClientOK(c)
  /\ asked \in [Clients -> Keys] /\ on \in [Clients -> Clients]
  /\ answer \in [Clients -> Heights \cup {Null}] /\ early \in [Clients -> BOOLEAN]

LEMMA TypedPartsImply == TypedParts => TypeOK
<1>1. ASSUME TypedParts PROVE \A c \in Clients :
       /\ body[c] \in Bodies(c)
       /\ at[c] \in 1..Len(body[c]) + 1
       /\ DOMAIN replies[c] = DOMAIN body[c]
       /\ \A i \in DOMAIN replies[c] : replies[c][i].kind \in Kinds
       /\ forwards[c] \in [DOMAIN body[c] -> Nat]
  BY <1>1 DEF TypedParts, ClientOK
<1> QED
  BY <1>1 DEF TypedParts, TypeOK, Labels

LEMMA NoRequestIsKey == NoRequest \in Made /\ NoRequest \in Keys
<1>1. \E q : q \in Made
  BY RequestPathAssumption DEF Made
<1>2. NoRequest \in Made
  BY <1>1 DEF NoRequest
<1> QED
  BY <1>2 DEF Keys

LEMMA EmptyBody == \A c \in Clients : <<>> \in Bodies(c) /\ Len(<<>>) = 0 /\ DOMAIN <<>> = {}
<1> SUFFICES ASSUME NEW c \in Clients
             PROVE  <<>> \in Bodies(c) /\ Len(<<>>) = 0 /\ DOMAIN <<>> = {}
  OBVIOUS
<1>1. 0 \in 0..Length[c]
  BY RequestPathAssumption
<1>2. <<>> \in [1..0 -> Menu[c]]
  OBVIOUS
<1> QED
  BY <1>1, <1>2 DEF Bodies

\* The part of the invariant about the calls: they are within their bodies.
CallInv == TypedParts /\ AtRequest

LEMMA CallInvInit == Init => CallInv
<1> SUFFICES ASSUME Init PROVE CallInv
  OBVIOUS
<1>1. Shape
  BY DEF Init, Shape
<1>2. \A c \in Clients : ClientOK(c)
  BY EmptyBody DEF Init, ClientOK
<1>3. TypedParts
  BY <1>1, <1>2, NoRequestIsKey, HeightsFacts DEF Init, Labels, TypedParts
<1> QED
  BY <1>3 DEF CallInv, AtRequest, Under, Init

\* A client whose call is under way, or that has more requests, is at one of them.
LEMMA CurrentFacts ==
  ASSUME CallInv, NEW c \in Clients, pc[c] \in Under \/ More(c)
  PROVE  /\ at[c] \in DOMAIN body[c] /\ at[c] \in Nat /\ Len(body[c]) \in Nat
         /\ at[c] \in 1..Len(body[c]) /\ DOMAIN body[c] = 1..Len(body[c])
         /\ at[c] + 1 \in 1..Len(body[c]) + 1
         /\ Current(c) \in Made /\ Current(c) \in Menu[c]
<1>1. ClientOK(c)
  BY DEF CallInv, TypedParts
<1>2. Len(body[c]) \in Nat /\ DOMAIN body[c] = 1..Len(body[c])
  BY <1>1, BodyFacts DEF ClientOK
<1>3. at[c] \in 1..Len(body[c])
  BY <1>1, <1>2 DEF ClientOK, CallInv, AtRequest, More
<1> QED
  BY <1>1, <1>2, <1>3, BodyFacts DEF ClientOK, Current

LEMMA RepliedTyped ==
  ASSUME CallInv, NEW cs \in SUBSET Clients, NEW reply, reply.kind \in Kinds,
         \A c \in cs : at[c] \in DOMAIN body[c],
         Replied(cs, reply), body' = body
  PROVE  /\ DOMAIN at' = Clients /\ DOMAIN replies' = Clients
         /\ pc' \in [Clients -> Labels]
         /\ asked' \in [Clients -> Keys] /\ on' \in [Clients -> Clients]
         /\ answer' \in [Clients -> Heights \cup {Null}]
         /\ \A c \in Clients : /\ at'[c] \in 1..Len(body[c]) + 1
                               /\ DOMAIN replies'[c] = DOMAIN body[c]
                               /\ \A i \in DOMAIN replies'[c] : replies'[c][i].kind \in Kinds
         /\ AtRequest'
<1>0. /\ Shape /\ pc \in [Clients -> Labels] /\ asked \in [Clients -> Keys]
      /\ on \in [Clients -> Clients] /\ answer \in [Clients -> Heights \cup {Null}]
      /\ \A c \in Clients : ClientOK(c)
  BY DEF CallInv, TypedParts
<1>1. DOMAIN at' = Clients /\ DOMAIN replies' = Clients /\ pc' \in [Clients -> Labels]
  BY <1>0 DEF Replied, Labels
<1>2. /\ asked' \in [Clients -> Keys] /\ on' \in [Clients -> Clients]
      /\ answer' \in [Clients -> Heights \cup {Null}]
  BY <1>0, NoRequestIsKey, HeightsFacts DEF Replied, Returned
<1>3. ASSUME NEW c \in Clients
      PROVE  /\ at'[c] \in 1..Len(body[c]) + 1
             /\ DOMAIN replies'[c] = DOMAIN body[c]
             /\ \A i \in DOMAIN replies'[c] : replies'[c][i].kind \in Kinds
  <2>1. ClientOK(c) /\ Len(body[c]) \in Nat /\ DOMAIN body[c] = 1..Len(body[c])
    BY <1>0, BodyFacts DEF ClientOK
  <2>2. at'[c] \in 1..Len(body[c]) + 1
    BY <2>1 DEF Replied, ClientOK
  <2>3. replies'[c] = IF c \in cs THEN [replies[c] EXCEPT ![at[c]] = reply] ELSE replies[c]
    BY DEF Replied
  <2> QED
    BY <2>1, <2>2, <2>3 DEF ClientOK
<1>4. AtRequest'
  BY DEF Replied, AtRequest, CallInv, Under
<1> QED
  BY <1>1, <1>2, <1>3, <1>4

\* The history of forwards grows by numbers.
LEMMA ForwardedTyped ==
  ASSUME CallInv, NEW c \in Clients, at[c] \in DOMAIN body[c], Forwarded(c)
  PROVE  /\ DOMAIN forwards' = Clients
         /\ \A d \in Clients : forwards'[d] \in [DOMAIN body[d] -> Nat]
<1>1. DOMAIN forwards = Clients /\ \A d \in Clients : forwards[d] \in [DOMAIN body[d] -> Nat]
  BY DEF CallInv, TypedParts, Shape, ClientOK
<1>2. forwards' = [forwards EXCEPT ![c] = [forwards[c] EXCEPT ![at[c]] = forwards[c][at[c]] + 1]]
  BY DEF Forwarded
<1>3. [forwards[c] EXCEPT ![at[c]] = forwards[c][at[c]] + 1] \in [DOMAIN body[c] -> Nat]
  BY <1>1
<1> QED
  BY <1>1, <1>2, <1>3

\* One client's task has come to another label, and nothing else of its body changed.
LEMMA GotoKeeps ==
  ASSUME CallInv, NEW c \in Clients, NEW label \in Labels \ {"idle"},
         label \in Under => at[c] \in DOMAIN body[c],
         Goto(c, label), UNCHANGED <<at, body>>
  PROVE  pc' \in [Clients -> Labels] /\ AtRequest'
BY DEF Goto, CallInv, TypedParts, AtRequest

LEMMA CallInvNext == CallInv /\ [Next]_vars => CallInv'
<1> SUFFICES ASSUME CallInv, [Next]_vars PROVE CallInv'
  OBVIOUS
<1>0. TypedParts /\ AtRequest /\ Shape
  BY DEF CallInv, TypedParts
<1> USE DEF CallInv
<1>1. CASE Track
  <2>1. latest' \in Heights
    BY <1>1 DEF Track
  <2> QED
    BY <1>0, <1>1, <2>1 DEF Track, cache, call, batch, TypedParts, AtRequest, Shape, ClientOK
<1>2. ASSUME NEW k \in Keys, Evict(k) PROVE CallInv'
  <2>1. entries' \in [Keys -> Heights \cup {Null, Absent}] /\ sadded' = sadded
    BY <1>0, <1>2 DEF Evict, TypedParts
  <2> QED
    BY <1>0, <1>2, <2>1 DEF Evict, call, batch, TypedParts, AtRequest, Shape, ClientOK
<1>3. ASSUME NEW cs \in SUBSET Clients, Ended(cs), entries' = entries, sadded' \subseteq Keys,
             latest' \in Heights
      PROVE  CallInv'
  <2>1. Shape'
    BY <1>3 DEF Ended, Shape
  <2>2. ASSUME NEW d \in Clients PROVE ClientOK(d)'
    <3>1. CASE d \in cs
      <4>1. body'[d] = <<>> /\ at'[d] = 1 /\ replies'[d] = <<>> /\ forwards'[d] = <<>>
        BY <1>3, <3>1 DEF Ended
      <4>2. <<>> \in Bodies(d) /\ Len(<<>>) = 0 /\ DOMAIN <<>> = {}
        BY EmptyBody
      <4>3. Bodies(d)' = Bodies(d) /\ Kinds' = Kinds
        BY DEF Bodies, Kinds
      <4> QED
        BY <4>1, <4>2, <4>3 DEF ClientOK
    <3>2. CASE d \notin cs
      <4>1. body'[d] = body[d] /\ at'[d] = at[d] /\ replies'[d] = replies[d] /\ forwards'[d] = forwards[d]
        BY <1>3, <3>2 DEF Ended
      <4> QED
        BY <1>0, <4>1 DEF ClientOK, TypedParts
    <3> QED
      BY <3>1, <3>2
  <2>3. /\ asked' \in [Clients -> Keys] /\ on' \in [Clients -> Clients]
        /\ answer' \in [Clients -> Heights \cup {Null}]
    BY <1>0, <1>3, NoRequestIsKey, HeightsFacts DEF Ended, Returned, TypedParts
  <2>4. pc' \in [Clients -> Labels] /\ early' \in [Clients -> BOOLEAN] /\ AtRequest'
    BY <1>0, <1>3 DEF Ended, TypedParts, Labels, AtRequest, Under
  <2> QED
    BY <1>0, <1>3, <2>1, <2>2, <2>3, <2>4 DEF TypedParts
<1>4. CASE Restart
  <2>1. HalfWritten \subseteq Keys
    BY <1>0 DEF HalfWritten, cache_key, TypedParts
  <2> QED
    BY <1>0, <1>3, <1>4, <2>1, HeightsFacts DEF Restart, TypedParts
<1>5. ASSUME NEW c \in Clients, Submit(c) PROVE CallInv'
  <2>1. PICK requests \in Bodies(c) :
          /\ body' = [body EXCEPT ![c] = requests]
          /\ replies' = [replies EXCEPT ![c] = [i \in DOMAIN requests |-> Pending(c)]]
          /\ forwards' = [forwards EXCEPT ![c] = [i \in DOMAIN requests |-> 0]]
    BY <1>5 DEF Submit
  <2>2. /\ at' = at /\ latest' = latest /\ pc[c] = "idle" /\ pc' = [pc EXCEPT ![c] = "next"]
        /\ UNCHANGED <<cache, call>> /\ early' = [early EXCEPT ![c] = latest = 0]
    BY <1>5 DEF Submit, Goto
  <2>3. Shape'
    BY <1>0, <2>1, <2>2 DEF Shape
  <2>4. ASSUME NEW d \in Clients PROVE ClientOK(d)'
    <3>1. CASE d = c
      <4>1. /\ body'[d] = requests /\ replies'[d] = [i \in DOMAIN requests |-> Pending(c)]
            /\ forwards'[d] = [i \in DOMAIN requests |-> 0] /\ at'[d] = 1
        BY <1>0, <2>1, <2>2, <3>1 DEF Shape, AtRequest
      <4>2. Len(requests) \in Nat
        BY BodyFacts
      <4>3. Bodies(d)' = Bodies(d) /\ Kinds' = Kinds /\ Pending(c).kind \in Kinds
        BY DEF Bodies, Kinds, Pending, Reply
      <4> QED
        BY <3>1, <4>1, <4>2, <4>3 DEF ClientOK
    <3>2. CASE d # c
      <4>1. body'[d] = body[d] /\ at'[d] = at[d] /\ replies'[d] = replies[d] /\ forwards'[d] = forwards[d]
        BY <1>0, <2>1, <2>2, <3>2 DEF Shape
      <4> QED
        BY <1>0, <4>1 DEF ClientOK, TypedParts
    <3> QED
      BY <3>1, <3>2
  <2>5. pc' \in [Clients -> Labels] /\ early' \in [Clients -> BOOLEAN]
    BY <1>0, <2>2 DEF TypedParts, Labels
  <2>6. AtRequest'
    BY <1>0, <2>1, <2>2 DEF AtRequest, Under, TypedParts, Shape
  <2> QED
    BY <1>0, <2>2, <2>3, <2>4, <2>5, <2>6 DEF TypedParts, cache, call
<1>6. ASSUME NEW c \in Clients, Skip(c) PROVE CallInv'
  <2>1. at[c] \in 1..Len(body[c]) /\ Len(body[c]) \in Nat /\ pc[c] = "next"
    BY <1>6, CurrentFacts DEF Skip, More
  <2>2. at' = [at EXCEPT ![c] = at[c] + 1] /\ UNCHANGED <<latest, cache, pc, replies, call, batch>>
    BY <1>6 DEF Skip
  <2>3. \A d \in Clients : ClientOK(d)'
    BY <1>0, <2>1, <2>2 DEF TypedParts, Shape, ClientOK, batch
  <2>4. AtRequest'
    BY <1>0, <2>1, <2>2 DEF AtRequest, Under, Shape, batch
  <2> QED
    BY <1>0, <2>2, <2>3, <2>4 DEF TypedParts, Shape, cache, call, batch
<1>7. ASSUME NEW cs \in SUBSET Clients, NEW reply, reply.kind \in Kinds,
             \A d \in cs : at[d] \in DOMAIN body[d],
             Replied(cs, reply), UNCHANGED <<latest, body, early>>,
             entries' \in [Keys -> Heights \cup {Null, Absent}], sadded' \subseteq Keys,
             DOMAIN forwards' = Clients,
             \A d \in Clients : forwards'[d] \in [DOMAIN body[d] -> Nat]
      PROVE  CallInv'
  <2>1. /\ DOMAIN at' = Clients /\ DOMAIN replies' = Clients
        /\ pc' \in [Clients -> Labels]
        /\ asked' \in [Clients -> Keys] /\ on' \in [Clients -> Clients]
        /\ answer' \in [Clients -> Heights \cup {Null}]
        /\ \A d \in Clients : /\ at'[d] \in 1..Len(body[d]) + 1
                              /\ DOMAIN replies'[d] = DOMAIN body[d]
                              /\ \A i \in DOMAIN replies'[d] : replies'[d][i].kind \in Kinds
        /\ AtRequest'
    BY <1>7, RepliedTyped
  <2>2. \A d \in Clients : ClientOK(d)'
    BY <1>0, <1>7, <2>1 DEF TypedParts, ClientOK
  <2> QED
    BY <1>0, <1>7, <2>1, <2>2 DEF TypedParts, Shape
<1>8. /\ DOMAIN forwards = Clients /\ \A d \in Clients : forwards[d] \in [DOMAIN body[d] -> Nat]
      /\ entries \in [Keys -> Heights \cup {Null, Absent}] /\ sadded \subseteq Keys
  BY <1>0 DEF TypedParts, ClientOK, Shape
<1>9. ASSUME NEW c \in Clients, Deny(c) PROVE CallInv'
  <2>1. PICK r : r = Reply("denied", Id(c, at[c]), Current(c), Null)
    OBVIOUS
  <2>2. r.kind \in Kinds
    BY <2>1 DEF Reply, Kinds
  <2>3. {c} \in SUBSET Clients /\ \A d \in {c} : at[d] \in DOMAIN body[d]
    BY <1>9, CurrentFacts DEF Deny
  <2>4. Replied({c}, r) /\ UNCHANGED <<latest, cache, batch>>
    BY <1>9, <2>1 DEF Deny
  <2> QED
    BY <1>7, <1>8, <2>2, <2>3, <2>4 DEF cache, batch
<1>10. ASSUME NEW c \in Clients, Intercept(c) PROVE CallInv'
  <2>1. PICK r : r = Reply("known", Id(c, at[c]), Current(c), latest)
    OBVIOUS
  <2>2. r.kind \in Kinds
    BY <2>1 DEF Reply, Kinds
  <2>3. {c} \in SUBSET Clients /\ \A d \in {c} : at[d] \in DOMAIN body[d]
    BY <1>10, CurrentFacts DEF Intercept
  <2>4. Replied({c}, r) /\ UNCHANGED <<latest, cache, batch>>
    BY <1>10, <2>1 DEF Intercept
  <2> QED
    BY <1>7, <1>8, <2>2, <2>3, <2>4 DEF cache, batch
<1>11. ASSUME NEW c \in Clients, Hit(c) PROVE CallInv'
  <2>1. PICK r : r = Reply("answer", Id(c, at[c]), asked[c], entries[asked[c]])
    OBVIOUS
  <2>2. r.kind \in Kinds
    BY <2>1 DEF Reply, Kinds
  <2>3. {c} \in SUBSET Clients /\ \A d \in {c} : at[d] \in DOMAIN body[d]
    BY <1>11, CurrentFacts DEF Hit, Under
  <2>4. Replied({c}, r) /\ UNCHANGED <<latest, cache, batch>>
    BY <1>11, <2>1 DEF Hit
  <2> QED
    BY <1>7, <1>8, <2>2, <2>3, <2>4 DEF cache, batch
<1>12. ASSUME NEW c \in Clients, NEW label \in Labels \ {"idle"},
              label \in Under => at[c] \in DOMAIN body[c], Goto(c, label),
              UNCHANGED <<latest, at, body, early>>,
              entries' \in [Keys -> Heights \cup {Null, Absent}], sadded' \subseteq Keys,
              DOMAIN replies' = Clients, DOMAIN forwards' = Clients,
              \A d \in Clients : /\ DOMAIN replies'[d] = DOMAIN body[d]
                                 /\ \A i \in DOMAIN replies'[d] : replies'[d][i].kind \in Kinds
                                 /\ forwards'[d] \in [DOMAIN body[d] -> Nat],
              asked' \in [Clients -> Keys], on' \in [Clients -> Clients],
              answer' \in [Clients -> Heights \cup {Null}]
       PROVE  CallInv'
  <2>1. pc' \in [Clients -> Labels] /\ AtRequest'
    BY <1>12, GotoKeeps
  <2>2. ASSUME NEW d \in Clients PROVE ClientOK(d)'
    <3>1. body' = body /\ at' = at /\ ClientOK(d) /\ Bodies(d)' = Bodies(d) /\ Kinds' = Kinds
      BY <1>0, <1>12 DEF TypedParts, Bodies, Kinds
    <3>2. /\ DOMAIN replies'[d] = DOMAIN body[d]
          /\ \A i \in DOMAIN replies'[d] : replies'[d][i].kind \in Kinds
          /\ forwards'[d] \in [DOMAIN body[d] -> Nat]
      BY <1>12
    <3>3. body'[d] \in Bodies(d)' /\ at'[d] \in 1..Len(body'[d]) + 1
      BY <3>1 DEF ClientOK
    <3>4. /\ DOMAIN replies'[d] = DOMAIN body'[d]
          /\ \A i \in DOMAIN replies'[d] : replies'[d][i].kind \in Kinds'
          /\ forwards'[d] \in [DOMAIN body'[d] -> Nat]
      BY <3>1, <3>2
    <3> QED
      BY <3>3, <3>4 DEF ClientOK
  <2> QED
    BY <1>0, <1>12, <2>1, <2>2 DEF TypedParts, Shape
<1>13. /\ DOMAIN replies = Clients
       /\ \A d \in Clients : /\ DOMAIN replies[d] = DOMAIN body[d]
                             /\ \A i \in DOMAIN replies[d] : replies[d][i].kind \in Kinds
                             /\ forwards[d] \in [DOMAIN body[d] -> Nat]
       /\ asked \in [Clients -> Keys] /\ on \in [Clients -> Clients]
       /\ answer \in [Clients -> Heights \cup {Null}]
  BY <1>0 DEF TypedParts, ClientOK, Shape
<1>14. ASSUME NEW c \in Clients, Resolve(c) PROVE CallInv'
  <2>1. at[c] \in DOMAIN body[c] /\ Current(c) \in Made /\ latest \in Heights
    BY <1>0, <1>14, CurrentFacts DEF Resolve, TypedParts
  <2>2. PICK label \in {"ask", "get"} : Goto(c, label)
    BY <1>14 DEF Resolve
  <2>3. PICK k \in Keys : asked' = [asked EXCEPT ![c] = k]
    BY <1>14, <2>1, ResolvedIsKey, RequestFacts DEF Resolve, As
  <2>4. UNCHANGED <<latest, cache, at, replies, on, answer, batch>>
    BY <1>14 DEF Resolve
  <2>5. asked' \in [Clients -> Keys] /\ label \in Labels \ {"idle"}
    BY <1>13, <2>3 DEF Labels
  <2> QED
    BY <1>8, <1>12, <1>13, <2>1, <2>2, <2>4, <2>5 DEF batch, cache
<1>15. ASSUME NEW c \in Clients, Miss(c) PROVE CallInv'
  <2>1. at[c] \in DOMAIN body[c] /\ Goto(c, "ask") /\ "ask" \in Labels \ {"idle"}
    BY <1>15, CurrentFacts DEF Miss, Under, Labels
  <2>2. UNCHANGED <<latest, cache, at, replies, call, batch>>
    BY <1>15 DEF Miss
  <2> QED
    BY <1>8, <1>12, <1>13, <2>1, <2>2 DEF batch, call, cache
<1>16. ASSUME NEW c \in Clients, Join(c) PROVE CallInv'
  <2>1. at[c] \in DOMAIN body[c] /\ Goto(c, "wait") /\ "wait" \in Labels \ {"idle"}
    BY <1>16, CurrentFacts DEF Join, Under, Labels
  <2>2. UNCHANGED <<latest, cache, at, replies, asked, answer, batch>>
    BY <1>16 DEF Join
  <2>3. on' \in [Clients -> Clients]
    BY <1>13, <1>16 DEF Join
  <2> QED
    BY <1>8, <1>12, <1>13, <2>1, <2>2, <2>3 DEF batch, cache
<1>17. ASSUME NEW c \in Clients, Answer(c) PROVE CallInv'
  <2>1. at[c] \in DOMAIN body[c] /\ Goto(c, "set") /\ "set" \in Labels \ {"idle"}
    BY <1>17, CurrentFacts DEF Answer, Under, Labels
  <2>2. UNCHANGED <<latest, cache, at, replies, body, asked, on, early>> /\ Forwarded(c)
    BY <1>17 DEF Answer
  <2>3. answer' \in [Clients -> Heights \cup {Null}]
    <3>1. PICK h \in Heights : answer' = [answer EXCEPT ![c] = NodeAnswer(asked[c], h)]
      BY <1>17 DEF Answer
    <3>2. asked[c].ref.number \in Heights
      <4>1. asked[c] \in Keys
        BY <1>13
      <4> QED
        BY <4>1, RequestFacts DEF Keys, Number, Request
    <3>3. NodeAnswer(asked[c], h) \in Heights \cup {Null}
      BY <3>1, <3>2, HeightsFacts DEF NodeAnswer, Height
    <3> QED
      BY <1>13, <3>1, <3>3
  <2>4. DOMAIN forwards' = Clients /\ \A d \in Clients : forwards'[d] \in [DOMAIN body[d] -> Nat]
    BY <2>1, <2>2, ForwardedTyped
  <2> QED
    BY <1>8, <1>12, <1>13, <2>1, <2>2, <2>3, <2>4 DEF cache
<1>18. ASSUME NEW c \in Clients, pc[c] \in Under
       PROVE  Callers(c) \in SUBSET Clients /\ \A d \in Callers(c) : at[d] \in DOMAIN body[d]
  BY <1>0, <1>18 DEF Callers, AtRequest, Under
<1>19. ASSUME NEW c \in Clients, Fail(c) PROVE CallInv'
  <2>1. PICK r : r = Reply("failed", Id(c, at[c]), asked[c], Null)
    OBVIOUS
  <2>2. r.kind \in Kinds
    BY <2>1 DEF Reply, Kinds
  <2>3. at[c] \in DOMAIN body[c] /\ pc[c] \in Under
    BY <1>19, CurrentFacts DEF Fail, Under
  <2>4. PICK cs \in SUBSET Clients : cs = Callers(c)
    BY <1>18, <2>3
  <2>5. Replied(cs, r) /\ UNCHANGED <<latest, cache, body, early>> /\ Forwarded(c)
    BY <1>19, <2>1, <2>4 DEF Fail
  <2>6. DOMAIN forwards' = Clients /\ \A d \in Clients : forwards'[d] \in [DOMAIN body[d] -> Nat]
    BY <2>3, <2>5, ForwardedTyped
  <2>7. \A d \in cs : at[d] \in DOMAIN body[d]
    BY <1>18, <2>3, <2>4
  <2> QED
    BY <1>7, <1>8, <2>2, <2>5, <2>6, <2>7 DEF cache
<1>20. ASSUME NEW c \in Clients, pc[c] \in {"set", "sadd"}, Return(c), UNCHANGED <<latest, batch>>,
              entries' \in [Keys -> Heights \cup {Null, Absent}], sadded' \subseteq Keys
       PROVE  CallInv'
  <2>1. PICK r : r = Reply("answer", Id(c, at[c]), asked[c], answer[c])
    OBVIOUS
  <2>2. r.kind \in Kinds
    BY <2>1 DEF Reply, Kinds
  <2>3. pc[c] \in Under
    BY <1>20 DEF Under
  <2>4. PICK cs \in SUBSET Clients : cs = Callers(c)
    BY <1>18, <2>3
  <2>5. Replied(cs, r)
    BY <1>20, <2>1, <2>4 DEF Return
  <2>6. \A d \in cs : at[d] \in DOMAIN body[d]
    BY <1>18, <2>3, <2>4
  <2> QED
    BY <1>7, <1>8, <1>20, <2>2, <2>5, <2>6 DEF batch
<1>24. ASSUME NEW c \in Clients, Set(c) PROVE CallInv'
  <2>1. pc[c] = "set" /\ at[c] \in DOMAIN body[c] /\ UNCHANGED <<latest, batch>>
    BY <1>24, CurrentFacts DEF Set, Under
  <2>2. entries' \in [Keys -> Heights \cup {Null, Absent}] /\ sadded' \subseteq Keys
    BY <1>8, <1>13, <1>24 DEF Set, cache, cache_key
  <2>3. CASE Goto(c, "sadd") /\ UNCHANGED <<at, replies, call>>
    <3>1. "sadd" \in Labels \ {"idle"}
      BY DEF Labels
    <3> QED
      BY <1>8, <1>12, <1>13, <2>1, <2>2, <2>3, <3>1 DEF batch, call
  <2>4. CASE Return(c)
    BY <1>20, <2>1, <2>2, <2>4
  <2> QED
    BY <1>24, <2>3, <2>4 DEF Set
<1>25. ASSUME NEW c \in Clients, Sadd(c) PROVE CallInv'
  <2>1. sadded' \subseteq Keys
    BY <1>8, <1>13, <1>25 DEF Sadd, cache_key
  <2> QED
    BY <1>8, <1>20, <1>25, <2>1 DEF Sadd
<1>26. ASSUME NEW c \in Clients, Pass(c) PROVE CallInv'
  BY <1>8, <1>20, <1>26 DEF Pass, cache
<1>21. ASSUME NEW c \in Clients, Fill(c) PROVE CallInv'
  <2>1. Goto(c, "replied") /\ "replied" \in Labels \ {"idle"} /\ "replied" \notin Under
    BY <1>21 DEF Fill, Labels, Under
  <2>2. UNCHANGED <<latest, cache, at, call, batch>>
    BY <1>21 DEF Fill
  <2>3. PICK R : /\ R = [i \in DOMAIN body[c] |->
                          IF First(c, i) = i THEN replies[c][i]
                          ELSE [replies[c][First(c, i)] EXCEPT !.id = Id(c, i)]]
                 /\ replies' = [replies EXCEPT ![c] = R]
    BY <1>21 DEF Fill
  <2>4. DOMAIN R = DOMAIN body[c] /\ \A i \in DOMAIN R : R[i].kind \in Kinds
    <3>1. body[c] \in Bodies(c) /\ \A i \in DOMAIN body[c] : replies[c][i].kind \in Kinds
      BY <1>0, <1>13 DEF TypedParts, ClientOK
    <3>2. ASSUME NEW i \in DOMAIN body[c] PROVE R[i].kind \in Kinds
      <4>1. First(c, i) \in DOMAIN body[c] /\ replies[c][First(c, i)].kind \in Kinds
        BY <3>1, FirstFacts
      <4>2. CASE First(c, i) = i
        BY <2>3, <3>1, <4>2
      <4>3. CASE First(c, i) # i
        BY <2>3, <4>1, <4>3
      <4> QED
        BY <4>2, <4>3
    <3> QED
      BY <2>3, <3>2
  <2>5. /\ DOMAIN replies' = Clients
        /\ \A d \in Clients : /\ DOMAIN replies'[d] = DOMAIN body[d]
                              /\ \A i \in DOMAIN replies'[d] : replies'[d][i].kind \in Kinds
    BY <1>13, <2>3, <2>4
  <2> QED
    BY <1>8, <1>12, <1>13, <2>1, <2>2, <2>5 DEF batch, call, cache
<1>22. ASSUME NEW c \in Clients, Deliver(c) PROVE CallInv'
  <2>1. Ended({c}) /\ UNCHANGED <<latest, cache>> /\ {c} \in SUBSET Clients
    BY <1>22 DEF Deliver
  <2> QED
    BY <1>0, <1>3, <2>1 DEF TypedParts, cache
<1>23. CASE UNCHANGED vars
  BY <1>0, <1>23 DEF vars, cache, call, batch, TypedParts, AtRequest, Shape, ClientOK
<1> QED
  BY <1>1, <1>2, <1>4, <1>5, <1>6, <1>9, <1>10, <1>11, <1>14, <1>15, <1>16, <1>17, <1>19,
     <1>21, <1>22, <1>23, <1>24, <1>25, <1>26 DEF Next, Handle

\* The variables keep their types.
THEOREM TypeCorrect == Spec => []TypeOK
<1>1. CallInv => TypeOK
  BY TypedPartsImply DEF CallInv
<1> QED
  BY <1>1, CallInvInit, CallInvNext, PTL DEF Spec

-------------------------------------------------------------------------------
\* Nobody waits for a waiter.

LEMMA RepliedWaits ==
  ASSUME CallInv, WaitsForExecution, NEW c \in Clients, NEW cs \in SUBSET Clients, NEW reply,
         pc[c] \in {"ask", "set", "sadd"}, cs = Callers(c), Replied(cs, reply)
  PROVE  WaitsForExecution'
<1> SUFFICES ASSUME NEW d \in Clients, pc'[d] = "wait"
             PROVE  Executes(on[d], asked[d])'
  BY DEF WaitsForExecution, cache_key
<1>1. d \notin cs /\ pc[d] = "wait"
  BY DEF Replied, CallInv, TypedParts
<1>2. on[d] \in Clients /\ Executes(on[d], asked[d])
  BY <1>1 DEF WaitsForExecution, CallInv, TypedParts, cache_key
<1>3. on[d] # c /\ on[d] \notin cs
  BY <1>1, <1>2 DEF Callers, Executes
<1>4. on'[d] = on[d] /\ asked'[d] = asked[d]
  BY <1>1 DEF Replied, Returned
<1>5. PICK e \in Clients : e = on[d]
  BY <1>2
<1>6. asked'[e] = asked[e] /\ pc'[e] = pc[e]
  BY <1>3, <1>5 DEF Replied, Returned, CallInv, TypedParts
<1> QED
  BY <1>2, <1>4, <1>5, <1>6 DEF Executes

\* A client that executes nothing has its reply, or its body comes or goes.
LEMMA IdleWaits ==
  ASSUME CallInv, WaitsForExecution, NEW c \in Clients, pc[c] \notin {"ask", "set", "sadd"},
         pc' \in [Clients -> Labels], pc'[c] # "wait",
         \A d \in Clients \ {c} :
           pc'[d] = pc[d] /\ asked'[d] = asked[d] /\ on'[d] = on[d]
  PROVE  WaitsForExecution'
<1> SUFFICES ASSUME NEW d \in Clients, pc'[d] = "wait"
             PROVE  Executes(on[d], asked[d])'
  BY DEF WaitsForExecution, cache_key
<1>1. d # c /\ pc[d] = "wait" /\ asked'[d] = asked[d] /\ on'[d] = on[d]
  OBVIOUS
<1>2. on[d] \in Clients /\ Executes(on[d], asked[d])
  BY <1>1 DEF WaitsForExecution, CallInv, TypedParts, cache_key
<1>3. PICK e \in Clients : e = on[d]
  BY <1>2
<1>4. e # c /\ asked'[e] = asked[e] /\ pc'[e] = pc[e]
  BY <1>2, <1>3 DEF Executes
<1> QED
  BY <1>1, <1>2, <1>3, <1>4 DEF Executes

LEMMA WaitsNext == CallInv /\ WaitsForExecution /\ [Next]_vars => WaitsForExecution'
<1> SUFFICES ASSUME CallInv, WaitsForExecution, [Next]_vars PROVE WaitsForExecution'
  OBVIOUS
<1>0. /\ pc \in [Clients -> Labels] /\ on \in [Clients -> Clients] /\ asked \in [Clients -> Keys]
      /\ pc' \in [Clients -> Labels]
  BY CallInvNext DEF CallInv, TypedParts
<1>1. CASE Track \/ (\E k \in Keys : Evict(k)) \/ UNCHANGED vars
  BY <1>1 DEF Track, Evict, vars, call, WaitsForExecution, Executes
<1>2. CASE Restart
  BY <1>0, <1>2 DEF Restart, Ended, WaitsForExecution
<1>3. ASSUME NEW c \in Clients, Submit(c) PROVE WaitsForExecution'
  BY <1>0, <1>3, IdleWaits DEF Submit, Goto, call
<1>4. ASSUME NEW c \in Clients, Skip(c) PROVE WaitsForExecution'
  BY <1>4 DEF Skip, call, WaitsForExecution, Executes
<1>5. ASSUME NEW c \in Clients, pc[c] \notin {"ask", "set", "sadd"}, NEW reply, Replied({c}, reply)
      PROVE  WaitsForExecution'
  <2>1. pc'[c] = "next"
    BY <1>5 DEF Replied
  <2>2. \A d \in Clients \ {c} : pc'[d] = pc[d] /\ asked'[d] = asked[d] /\ on'[d] = on[d]
    BY <1>0, <1>5 DEF Replied, Returned
  <2> QED
    BY <1>0, <1>5, <2>1, <2>2, IdleWaits
<1>6. ASSUME NEW c \in Clients, Deny(c) \/ Intercept(c) \/ Hit(c) PROVE WaitsForExecution'
  <2>1. PICK r : Replied({c}, r)
    BY <1>6 DEF Deny, Intercept, Hit
  <2>2. pc[c] \notin {"ask", "set", "sadd"}
    BY <1>6 DEF Deny, Intercept, Hit, More
  <2> QED
    BY <1>5, <2>1, <2>2
<1>7. ASSUME NEW c \in Clients, Resolve(c) PROVE WaitsForExecution'
  <2>1. pc[c] = "next" /\ pc'[c] # "wait"
    BY <1>0, <1>7 DEF Resolve, Goto, More
  <2>2. \A d \in Clients \ {c} : pc'[d] = pc[d] /\ asked'[d] = asked[d] /\ on'[d] = on[d]
    BY <1>0, <1>7 DEF Resolve, Goto
  <2> QED
    BY <1>0, <2>1, <2>2, IdleWaits
<1>8. ASSUME NEW c \in Clients, Miss(c) PROVE WaitsForExecution'
  BY <1>0, <1>8, IdleWaits DEF Miss, Goto, call
<1>9. ASSUME NEW c \in Clients, Join(c) PROVE WaitsForExecution'
  <2>1. PICK d \in Clients \ {c} : Executes(d, asked[c]) /\ on' = [on EXCEPT ![c] = d]
    BY <1>9 DEF Join, cache_key
  <2>2. pc[c] = "get" /\ pc' = [pc EXCEPT ![c] = "wait"] /\ asked' = asked
    BY <1>9 DEF Join, Goto
  <2> SUFFICES ASSUME NEW e \in Clients, pc'[e] = "wait"
               PROVE  Executes(on[e], asked[e])'
    BY DEF WaitsForExecution, cache_key
  <2>3. CASE e = c
    <3>1. on'[e] = d /\ pc'[d] = pc[d]
      BY <1>0, <2>1, <2>2, <2>3
    <3> QED
      BY <2>1, <2>2, <2>3, <3>1 DEF Executes
  <2>4. CASE e # c
    <3>1. pc[e] = "wait" /\ on'[e] = on[e] /\ Executes(on[e], asked[e])
      BY <1>0, <2>1, <2>2, <2>4 DEF WaitsForExecution, cache_key
    <3>2. PICK x \in Clients : x = on[e]
      BY <1>0
    <3>3. pc'[x] = pc[x]
      BY <1>0, <2>2, <3>1, <3>2 DEF Executes
    <3> QED
      BY <2>2, <3>1, <3>2, <3>3 DEF Executes
  <2> QED
    BY <2>3, <2>4
<1>10. ASSUME NEW c \in Clients, NEW label \in {"set", "sadd"}, pc[c] \in {"ask", "set"},
              Goto(c, label), UNCHANGED <<asked, on>>
       PROVE  WaitsForExecution'
  <2>1. pc' = [pc EXCEPT ![c] = label] /\ asked' = asked /\ on' = on
    BY <1>10 DEF Goto
  <2> SUFFICES ASSUME NEW e \in Clients, pc'[e] = "wait"
               PROVE  Executes(on[e], asked[e])'
    BY DEF WaitsForExecution, cache_key
  <2>2. pc[e] = "wait" /\ Executes(on[e], asked[e])
    BY <1>0, <1>10, <2>1 DEF WaitsForExecution, cache_key
  <2>3. PICK x \in Clients : x = on[e]
    BY <1>0
  <2>4. pc'[x] \in {"ask", "set", "sadd"}
    BY <1>0, <1>10, <2>1, <2>2, <2>3 DEF Executes
  <2> QED
    BY <2>1, <2>2, <2>3, <2>4 DEF Executes
<1>11. ASSUME NEW c \in Clients, Fail(c) \/ Return(c), pc[c] \in {"ask", "set", "sadd"}
       PROVE  WaitsForExecution'
  <2>1. PICK cs \in SUBSET Clients : cs = Callers(c)
    BY <1>11 DEF Callers
  <2>2. PICK r : Replied(cs, r)
    BY <1>11, <2>1 DEF Fail, Return
  <2> QED
    BY <1>11, <2>1, <2>2, RepliedWaits
<1>14. ASSUME NEW c \in Clients, Answer(c) PROVE WaitsForExecution'
  BY <1>10, <1>14 DEF Answer
<1>15. ASSUME NEW c \in Clients, Set(c) PROVE WaitsForExecution'
  BY <1>10, <1>11, <1>15 DEF Set, call
<1>16. ASSUME NEW c \in Clients, Fail(c) \/ Sadd(c) \/ Pass(c) PROVE WaitsForExecution'
  BY <1>11, <1>16 DEF Fail, Sadd, Pass
<1>12. ASSUME NEW c \in Clients, Fill(c) PROVE WaitsForExecution'
  BY <1>0, <1>12, IdleWaits DEF Fill, Goto, call
<1>13. ASSUME NEW c \in Clients, Deliver(c) PROVE WaitsForExecution'
  <2>1. pc[c] = "replied" /\ pc'[c] = "idle"
    BY <1>13 DEF Deliver, Ended
  <2>2. \A d \in Clients \ {c} : pc'[d] = pc[d] /\ asked'[d] = asked[d] /\ on'[d] = on[d]
    BY <1>0, <1>13 DEF Deliver, Ended, Returned
  <2> QED
    BY <1>0, <2>1, <2>2, IdleWaits
<1> QED
  BY <1>1, <1>2, <1>3, <1>4, <1>6, <1>7, <1>8, <1>9, <1>12, <1>13, <1>14, <1>15, <1>16
  DEF Next, Handle

\* For any clients, batches and interleavings, a task waits only for one that executes
\* its own request and waits for nobody (handler.rs:301-331, 340-358).
THEOREM NoWaitingCycle == Spec => []WaitsForExecution
<1>1. Init => CallInv /\ WaitsForExecution
  BY CallInvInit DEF Init, WaitsForExecution
<1>2. CallInv /\ WaitsForExecution /\ [Next]_vars => (CallInv /\ WaitsForExecution)'
  BY CallInvNext, WaitsNext
<1> QED
  BY <1>1, <1>2, PTL DEF Spec

-------------------------------------------------------------------------------
\* What a call asks for, and what it may store.

\* The heads by which a client's tags may have been resolved.
HeadsFor(c) == IF early[c] THEN Heights ELSE Heights \ {0}

IsOf(c, i, req) == \E n \in HeadsFor(c) : req = As(body[c][i], n)

OfItsBlock(req, height) == req.ref.tag = "number" => height \in {req.ref.number, Null}

AskOK(c) ==
  /\ pc[c] # "idle" /\ ~early[c] => latest # 0
  /\ pc[c] \in Under =>
       /\ IsFirst(c) /\ ~Denied(c)
       /\ IsOf(c, at[c], asked[c]) /\ asked[c].method = Current(c).method
  /\ pc[c] \in {"get", "wait"} => ~is_uncacheable(Current(c).method)
  /\ pc[c] \in {"set", "sadd"} => OfItsBlock(asked[c], answer[c])

AskInv == CallInv /\ \A c \in Clients : AskOK(c)

\* One client's part depends on its own variables and on whether a head is sadded.
LEMMA AskFrame ==
  ASSUME NEW c \in Clients, AskOK(c), latest # 0 => latest' # 0,
         pc'[c] = pc[c], early'[c] = early[c], body'[c] = body[c], at'[c] = at[c],
         asked'[c] = asked[c], answer'[c] = answer[c]
  PROVE  AskOK(c)'
BY DEF AskOK, IsFirst, Denied, First, Current, IsOf, HeadsFor, As, OfItsBlock

\* A client whose call has ended, or has not begun.
LEMMA AskEnds ==
  ASSUME NEW c \in Clients, pc'[c] \in {"next", "replied", "idle"},
         pc'[c] # "idle" /\ ~early'[c] => latest' # 0
  PROVE  AskOK(c)'
BY DEF AskOK, Under

LEMMA AskInit == Init => AskInv
BY CallInvInit DEF Init, AskInv, AskOK, Under

LEMMA AskNext == AskInv /\ [Next]_vars => AskInv'
<1> SUFFICES ASSUME AskInv, [Next]_vars PROVE \A c \in Clients : AskOK(c)'
  BY CallInvNext DEF AskInv
<1>0. /\ CallInv /\ CallInv' /\ \A c \in Clients : AskOK(c)
      /\ pc \in [Clients -> Labels] /\ on \in [Clients -> Clients] /\ asked \in [Clients -> Keys]
      /\ DOMAIN at = Clients /\ DOMAIN body = Clients /\ early \in [Clients -> BOOLEAN]
      /\ answer \in [Clients -> Heights \cup {Null}] /\ latest \in Heights
  BY CallInvNext DEF AskInv, CallInv, TypedParts, Shape
<1>1. CASE Track
  BY <1>0, <1>1, AskFrame DEF Track, call, batch
<1>2. CASE (\E k \in Keys : Evict(k)) \/ UNCHANGED vars
  BY <1>0, <1>2, AskFrame DEF Evict, vars, call, batch
<1>3. CASE Restart
  BY <1>3, AskEnds DEF Restart, Ended
<1>4. ASSUME NEW c \in Clients, Submit(c) PROVE \A d \in Clients : AskOK(d)'
  <2>1. /\ UNCHANGED <<latest, at, asked, answer>> /\ pc' = [pc EXCEPT ![c] = "next"]
        /\ early' = [early EXCEPT ![c] = latest = 0]
        /\ \A d \in Clients \ {c} : body'[d] = body[d]
    BY <1>0, <1>4 DEF Submit, Goto, call
  <2>2. AskOK(c)'
    BY <1>0, <2>1, AskEnds
  <2> QED
    BY <1>0, <2>1, <2>2, AskFrame
<1>5. ASSUME NEW c \in Clients, Skip(c) PROVE \A d \in Clients : AskOK(d)'
  <2>1. /\ UNCHANGED <<latest, pc, body, early, asked, answer>> /\ pc[c] = "next"
        /\ \A d \in Clients \ {c} : at'[d] = at[d]
    BY <1>0, <1>5 DEF Skip, More, call, batch
  <2>2. AskOK(c)'
    BY <1>0, <2>1, AskEnds DEF AskOK
  <2> QED
    BY <1>0, <2>1, <2>2, AskFrame
<1>6. ASSUME NEW cs \in SUBSET Clients, NEW reply, Replied(cs, reply),
             \A d \in cs : pc[d] # "idle", UNCHANGED <<latest, body, early>>
      PROVE  \A d \in Clients : AskOK(d)'
  <2> SUFFICES ASSUME NEW d \in Clients PROVE AskOK(d)'
    OBVIOUS
  <2>1. CASE d \in cs
    BY <1>0, <1>6, <2>1, AskEnds DEF Replied, AskOK
  <2>2. CASE d \notin cs
    <3>1. pc'[d] = pc[d] /\ at'[d] = at[d] /\ asked'[d] = asked[d] /\ answer'[d] = answer[d]
      BY <1>6, <2>2 DEF Replied, Returned
    <3> QED
      BY <1>0, <1>6, <3>1, AskFrame
  <2> QED
    BY <2>1, <2>2
<1>7. ASSUME NEW c \in Clients, Deny(c) \/ Intercept(c) \/ Hit(c)
      PROVE  \A d \in Clients : AskOK(d)'
  <2>1. PICK r : Replied({c}, r)
    BY <1>7 DEF Deny, Intercept, Hit
  <2>2. \A d \in {c} : pc[d] # "idle"
    BY <1>7 DEF Deny, Intercept, Hit, More
  <2>3. UNCHANGED <<latest, body, early>>
    BY <1>7 DEF Deny, Intercept, Hit, batch
  <2> QED
    BY <1>6, <2>1, <2>2, <2>3
<1>8. ASSUME NEW c \in Clients, Resolve(c) PROVE \A d \in Clients : AskOK(d)'
  <2>1. /\ UNCHANGED <<latest, at, body, early, answer>>
        /\ \A d \in Clients \ {c} : pc'[d] = pc[d] /\ asked'[d] = asked[d]
    BY <1>0, <1>8 DEF Resolve, Goto, batch
  <2>2. /\ pc[c] = "next" /\ IsFirst(c) /\ ~Denied(c) /\ Current(c) \in Made
        /\ pc'[c] = IF is_uncacheable(Current(c).method) THEN "ask" ELSE "get"
        /\ asked'[c] = As(Current(c), latest)
    BY <1>0, <1>8, CurrentFacts DEF Resolve, Goto, More, As
  <2>3. asked'[c].method = Current(c).method
    BY <1>0, <2>2, ResolvedIsKey DEF As
  <2>4. latest \in HeadsFor(c)
    BY <1>0, <2>2 DEF HeadsFor, AskOK
  <2>5. IsOf(c, at[c], asked'[c])
    BY <2>2, <2>4 DEF IsOf, Current
  <2>6. /\ IsFirst(c)' = IsFirst(c) /\ Denied(c)' = Denied(c) /\ Current(c)' = Current(c)
        /\ IsOf(c, at[c], asked[c])' = IsOf(c, at[c], asked'[c])
    BY <2>1 DEF IsFirst, Denied, Current, First, IsOf, HeadsFor, As
  <2>7. AskOK(c)'
    BY <1>0, <2>1, <2>2, <2>3, <2>5, <2>6 DEF AskOK
  <2> QED
    BY <1>0, <2>1, <2>7, AskFrame
<1>9. ASSUME NEW c \in Clients, Miss(c) \/ Join(c) PROVE \A d \in Clients : AskOK(d)'
  <2>1. /\ UNCHANGED <<latest, at, body, early, asked, answer>>
        /\ \A d \in Clients \ {c} : pc'[d] = pc[d]
        /\ pc[c] = "get" /\ pc'[c] \in {"ask", "wait"}
    BY <1>0, <1>9 DEF Miss, Join, Goto, call, batch
  <2>2. /\ IsFirst(c)' = IsFirst(c) /\ Denied(c)' = Denied(c) /\ Current(c)' = Current(c)
        /\ IsOf(c, at[c], asked[c])' = IsOf(c, at[c], asked[c])
    BY <2>1 DEF IsFirst, Denied, Current, First, IsOf, HeadsFor, As
  <2>3. AskOK(c)'
    BY <1>0, <2>1, <2>2 DEF AskOK, Under
  <2> QED
    BY <1>0, <2>1, <2>3, AskFrame
<1>10. ASSUME NEW c \in Clients, Answer(c) PROVE \A d \in Clients : AskOK(d)'
  <2>1. /\ UNCHANGED <<latest, at, body, early, asked>>
        /\ \A d \in Clients \ {c} : pc'[d] = pc[d] /\ answer'[d] = answer[d]
        /\ pc[c] = "ask" /\ pc'[c] = "set"
    BY <1>0, <1>10 DEF Answer, Goto
  <2>2. /\ IsFirst(c)' = IsFirst(c) /\ Denied(c)' = Denied(c) /\ Current(c)' = Current(c)
        /\ IsOf(c, at[c], asked[c])' = IsOf(c, at[c], asked[c])
    BY <2>1 DEF IsFirst, Denied, Current, First, IsOf, HeadsFor, As
  <2>3. OfItsBlock(asked[c], answer[c])'
    <3>1. PICK h \in Heights : answer'[c] = NodeAnswer(asked[c], h)
      BY <1>0, <1>10 DEF Answer
    <3>2. OfItsBlock(asked[c], answer'[c])
      BY <3>1 DEF OfItsBlock, NodeAnswer, Height
    <3> QED
      BY <2>1, <3>2 DEF OfItsBlock
  <2>4. AskOK(c)'
    BY <1>0, <2>1, <2>2, <2>3 DEF AskOK, Under
  <2> QED
    BY <1>0, <2>1, <2>4, AskFrame
<1>11. ASSUME NEW c \in Clients, Fail(c) \/ Return(c), pc[c] # "idle",
              UNCHANGED <<latest, body, early>>
       PROVE  \A d \in Clients : AskOK(d)'
  <2>1. PICK cs \in SUBSET Clients : cs = Callers(c)
    BY <1>11 DEF Callers
  <2>2. \A d \in cs : pc[d] # "idle"
    BY <1>11, <2>1 DEF Callers
  <2>3. PICK r : Replied(cs, r)
    BY <1>11, <2>1 DEF Fail, Return
  <2> QED
    BY <1>6, <1>11, <2>2, <2>3
<1>14. ASSUME NEW c \in Clients, Fail(c) \/ Sadd(c) \/ Pass(c) PROVE \A d \in Clients : AskOK(d)'
  BY <1>11, <1>14 DEF Fail, Sadd, Pass, batch
<1>15. ASSUME NEW c \in Clients, Set(c) PROVE \A d \in Clients : AskOK(d)'
  <2>1. CASE Goto(c, "sadd") /\ UNCHANGED <<at, replies, call>>
    <3>1. /\ UNCHANGED <<latest, at, body, early, asked, answer>>
          /\ \A d \in Clients \ {c} : pc'[d] = pc[d]
          /\ pc[c] = "set" /\ pc'[c] = "sadd"
      BY <1>0, <1>15, <2>1 DEF Set, Goto, call, batch
    <3>2. /\ IsFirst(c)' = IsFirst(c) /\ Denied(c)' = Denied(c) /\ Current(c)' = Current(c)
          /\ IsOf(c, at[c], asked[c])' = IsOf(c, at[c], asked[c])
          /\ OfItsBlock(asked[c], answer[c])' = OfItsBlock(asked[c], answer[c])
      BY <3>1 DEF IsFirst, Denied, Current, First, IsOf, HeadsFor, As, OfItsBlock
    <3>3. AskOK(c)'
      BY <1>0, <3>1, <3>2 DEF AskOK, Under
    <3> QED
      BY <1>0, <3>1, <3>3, AskFrame
  <2>2. CASE Return(c)
    BY <1>11, <1>15, <2>2 DEF Set, batch
  <2> QED
    BY <1>15, <2>1, <2>2 DEF Set
<1>12. ASSUME NEW c \in Clients, Fill(c) PROVE \A d \in Clients : AskOK(d)'
  <2>1. /\ UNCHANGED <<latest, at, body, early, asked, answer>>
        /\ pc[c] = "next" /\ pc' = [pc EXCEPT ![c] = "replied"]
    BY <1>12 DEF Fill, Goto, call, batch
  <2>2. AskOK(c)'
    BY <1>0, <2>1, AskEnds DEF AskOK
  <2> QED
    BY <1>0, <2>1, <2>2, AskFrame
<1>13. ASSUME NEW c \in Clients, Deliver(c) PROVE \A d \in Clients : AskOK(d)'
  <2>1. Ended({c}) /\ latest' = latest
    BY <1>13 DEF Deliver
  <2>2. AskOK(c)'
    BY <1>0, <2>1, AskEnds DEF Ended
  <2>3. ASSUME NEW d \in Clients \ {c} PROVE AskOK(d)'
    <3>1. /\ pc'[d] = pc[d] /\ at'[d] = at[d] /\ body'[d] = body[d] /\ early'[d] = early[d]
          /\ asked'[d] = asked[d] /\ answer'[d] = answer[d]
      BY <2>1 DEF Ended, Returned
    <3> QED
      BY <1>0, <2>1, <3>1, AskFrame
  <2> QED
    BY <2>2, <2>3
<1> QED
  BY <1>1, <1>2, <1>3, <1>4, <1>5, <1>7, <1>8, <1>9, <1>10, <1>12, <1>13, <1>14, <1>15
  DEF Next, Handle

\* What the cache may hold under a key, but for the SADD.
Storeable(k, height) ==
  /\ ~is_uncacheable(k.method) /\ ~is_method_blocked(k.method, blocked_methods)
  /\ resolve_ttl(policies, k.method, block_ref_is_unfinalized(k)) # Never
  /\ OfItsBlock(k, height)

LEMMA EntriesFrame ==
  ASSUME EntriesAreSound, sadded \cup HalfWritten \subseteq (sadded \cup HalfWritten)',
         \A k \in Keys : entries'[k] \in {entries[k], Absent}
  PROVE  EntriesAreSound'
BY DEF EntriesAreSound

\* A key of a call between SET and SADD counts as such until SADD is called.
LEMMA HalfWrittenKept ==
  ASSUME CallInv, \A d \in Clients : pc[d] = "sadd" => pc'[d] = "sadd" /\ asked'[d] = asked[d]
  PROVE  HalfWritten \subseteq HalfWritten'
BY DEF HalfWritten

LEMMA EntriesNext == AskInv /\ EntriesAreSound /\ [Next]_vars => EntriesAreSound'
<1> SUFFICES ASSUME AskInv, EntriesAreSound, [Next]_vars PROVE EntriesAreSound'
  OBVIOUS
<1>0. /\ CallInv /\ \A c \in Clients : AskOK(c)
      /\ pc \in [Clients -> Labels] /\ asked \in [Clients -> Keys]
      /\ entries \in [Keys -> Heights \cup {Null, Absent}]
  BY DEF AskInv, CallInv, TypedParts
<1>1. CASE UNCHANGED vars \/ Track
  <2>1. UNCHANGED <<cache, pc, asked>>
    BY <1>1 DEF vars, Track, call
  <2> QED
    BY <2>1, EntriesFrame DEF HalfWritten, cache, cache_key
<1>2. ASSUME NEW k \in Keys, Evict(k) PROVE EntriesAreSound'
  <2>1. sadded' = sadded /\ HalfWritten' = HalfWritten
    BY <1>2 DEF Evict, HalfWritten, call, cache_key
  <2>2. \A q \in Keys : entries'[q] \in {entries[q], Absent}
    BY <1>0, <1>2 DEF Evict
  <2> QED
    BY <2>1, <2>2, EntriesFrame
<1>3. CASE Restart
  BY <1>3, EntriesFrame DEF Restart
<1>4. ASSUME UNCHANGED cache,
             \A d \in Clients : pc[d] = "sadd" => pc'[d] = "sadd" /\ asked'[d] = asked[d]
      PROVE  EntriesAreSound'
  BY <1>0, <1>4, HalfWrittenKept, EntriesFrame DEF cache
<1>5. ASSUME NEW c \in Clients,
             \/ Submit(c) \/ Skip(c) \/ Deny(c) \/ Intercept(c) \/ Resolve(c) \/ Hit(c)
             \/ Miss(c) \/ Join(c) \/ Answer(c) \/ Fail(c) \/ Pass(c) \/ Fill(c) \/ Deliver(c)
      PROVE  EntriesAreSound'
  <2>1. UNCHANGED cache /\ pc[c] # "sadd"
    BY <1>5 DEF Submit, Skip, Deny, Intercept, Resolve, Hit, Miss, Join, Answer, Fail, Pass, Fill,
       Deliver, More
  <2>2. CASE Submit(c) \/ Resolve(c) \/ Miss(c) \/ Join(c) \/ Answer(c) \/ Fill(c)
    BY <1>0, <1>4, <2>1, <2>2 DEF Submit, Resolve, Miss, Join, Answer, Fill, Goto, call
  <2>3. CASE Skip(c)
    BY <1>4, <2>1, <2>3 DEF Skip, call
  <2>4. CASE Deny(c) \/ Intercept(c) \/ Hit(c)
    <3>1. PICK r : Replied({c}, r)
      BY <2>4 DEF Deny, Intercept, Hit
    <3> QED
      BY <1>4, <2>1, <3>1 DEF Replied, Returned
  <2>5. CASE Fail(c) \/ Pass(c)
    <3>1. PICK r : Replied(Callers(c), r)
      BY <2>5 DEF Fail, Pass, Return
    <3>2. \A d \in Clients : pc[d] = "sadd" => d \notin Callers(c)
      BY <2>1 DEF Callers
    <3> QED
      BY <1>4, <2>1, <3>1, <3>2 DEF Replied, Returned
  <2>6. CASE Deliver(c)
    BY <1>4, <2>1, <2>6 DEF Deliver, Ended, Returned
  <2> QED
    BY <1>5, <2>2, <2>3, <2>4, <2>5, <2>6
<1>6. ASSUME NEW c \in Clients, Sadd(c) PROVE EntriesAreSound'
  <2>1. /\ pc[c] = "sadd" /\ sadded' = sadded \cup {asked[c]} /\ entries' = entries
        /\ \E r : Replied(Callers(c), r)
    BY <1>6 DEF Sadd, Return, cache_key
  <2>2. \A d \in Clients \ {c} : pc[d] = "sadd" => pc'[d] = "sadd" /\ asked'[d] = asked[d]
    BY <2>1 DEF Replied, Returned, Callers
  <2>3. HalfWritten \subseteq {asked[c]} \cup HalfWritten'
    BY <2>2 DEF HalfWritten, cache_key
  <2> QED
    BY <2>1, <2>3, EntriesFrame
<1>7. ASSUME NEW c \in Clients, Set(c) PROVE EntriesAreSound'
  <2>1. PICK k \in Keys : k = asked[c]
    BY <1>0
  <2>2. /\ pc[c] = "set" /\ Storeable(k, answer[c])
        /\ ~block_ref_is_unfinalized(k) => k.ref.tag \in {"earliest", "finalized"}
    BY <1>0, <1>7, <2>1 DEF Set, Storable, Storeable, AskOK, Under, Denied, block_ref_is_unfinalized
  <2>3. /\ \A d \in Clients : pc[d] = "sadd" => pc'[d] = "sadd" /\ asked'[d] = asked[d]
        /\ block_ref_is_unfinalized(k) => k \in HalfWritten'
    <3>1. CASE block_ref_is_unfinalized(k) /\ Goto(c, "sadd") /\ UNCHANGED call
      BY <1>0, <2>1, <2>2, <3>1 DEF Goto, call, HalfWritten, cache_key
    <3>2. CASE ~block_ref_is_unfinalized(k) /\ Return(c)
      <4>1. PICK r : Replied(Callers(c), r)
        BY <3>2 DEF Return
      <4>2. \A d \in Clients : pc[d] = "sadd" => d \notin Callers(c)
        BY <2>2 DEF Callers
      <4> QED
        BY <3>2, <4>1, <4>2 DEF Replied, Returned
    <3> QED
      BY <1>7, <2>1, <3>1, <3>2 DEF Set
  <2>4. HalfWritten \subseteq HalfWritten'
    BY <1>0, <2>3, HalfWrittenKept
  <2>5. CASE UNCHANGED cache
    BY <2>4, <2>5, EntriesFrame DEF cache
  <2>6. CASE entries' = [entries EXCEPT ![k] = answer[c]] /\ sadded' = sadded \ {k}
    <3> SUFFICES ASSUME NEW q \in Keys, entries'[q] # Absent
                 PROVE  /\ Storeable(q, entries'[q])
                        /\ \/ q \in (sadded \cup HalfWritten)'
                           \/ q.ref.tag \in {"earliest", "finalized"}
      BY DEF EntriesAreSound, Storeable, OfItsBlock
    <3>1. CASE q = k
      <4>1. entries'[q] = answer[c]
        BY <1>0, <2>6, <3>1
      <4> QED
        BY <2>2, <2>3, <3>1, <4>1
    <3>2. CASE q # k
      <4>1. entries'[q] = entries[q] /\ (q \in sadded => q \in sadded')
        BY <1>0, <2>6, <3>2
      <4> QED
        BY <2>4, <4>1 DEF EntriesAreSound, Storeable, OfItsBlock
    <3> QED
      BY <3>1, <3>2
  <2> QED
    BY <1>7, <2>1, <2>5, <2>6 DEF Set, cache_key
<1> QED
  BY <1>1, <1>2, <1>3, <1>5, <1>6, <1>7 DEF Next, Handle

LEMMA EntriesInit == Init => EntriesAreSound
BY DEF Init, EntriesAreSound

\* For any policies, clients and interleavings the cache holds only answers to requests
\* that may be cached, for their block, and SADD was called, or is about to be unless a
\* crash cuts it off, for all that do not name "earliest" or "finalized"
\* (handler.rs:384-398, types.rs:175-229, cache/mod.rs:36-63).
THEOREM CacheIsSound == Spec => []EntriesAreSound
<1>1. Init => AskInv /\ EntriesAreSound
  BY AskInit, EntriesInit
<1>2. AskInv /\ EntriesAreSound /\ [Next]_vars => (AskInv /\ EntriesAreSound)'
  BY AskNext, EntriesNext
<1> QED
  BY <1>1, <1>2, PTL DEF Spec

-------------------------------------------------------------------------------
\* The replies.

Fits(c, i, reply) ==
  /\ \/ reply.id = Id(c, i)
     \/ reply.id.client # c /\ First(c, i) = i /\ ~is_uncacheable(body[c][i].method)
  /\ \/ reply.kind \in {"denied", "known"} /\ reply.of = body[c][i]
     \/ /\ reply.kind \in {"answer", "failed"}
        /\ IsOf(c, i, reply.of) /\ OfItsBlock(reply.of, reply.height)

\* The first occurrences up to the current request have their replies; once they are
\* filled in, so do the others.
ReplyOK(c) ==
  \A i \in DOMAIN body[c] :
    /\ replies[c][i] = Reply(replies[c][i].kind, replies[c][i].id, replies[c][i].of,
                             replies[c][i].height)
    /\ pc[c] # "replied" /\ i < at[c] /\ First(c, i) = i => Fits(c, i, replies[c][i])
    /\ pc[c] = "replied" => Fits(c, i, replies[c][i])

ReplyInv == \A c \in Clients : ReplyOK(c)

PathInv == AskInv /\ WaitsForExecution /\ EntriesAreSound

LEMMA PathInvInit == Init => PathInv
BY AskInit, EntriesInit DEF PathInv, Init, WaitsForExecution

LEMMA PathInvNext == PathInv /\ [Next]_vars => PathInv'
BY AskNext, EntriesNext, WaitsNext DEF PathInv, AskInv

LEMMA IsReply ==
  ASSUME NEW k, NEW id, NEW req, NEW h
  PROVE  LET r == Reply(k, id, req, h)
         IN  /\ r.kind = k /\ r.id = id /\ r.of = req /\ r.height = h
             /\ r = Reply(r.kind, r.id, r.of, r.height)
BY DEF Reply

LEMMA ReplyFrame ==
  ASSUME NEW c \in Clients, ReplyOK(c), pc'[c] = "replied" <=> pc[c] = "replied",
         early'[c] = early[c], body'[c] = body[c], at'[c] = at[c], replies'[c] = replies[c]
  PROVE  ReplyOK(c)'
BY DEF ReplyOK, Fits, First, IsOf, HeadsFor, As, OfItsBlock

LEMMA RepliesFit ==
  ASSUME CallInv, ReplyInv, NEW cs \in SUBSET Clients, NEW r, Replied(cs, r),
         UNCHANGED <<body, early>>, r = Reply(r.kind, r.id, r.of, r.height),
         \A d \in cs : pc[d] # "replied" /\ at[d] \in DOMAIN body[d] /\ Fits(d, at[d], r)
  PROVE  ReplyInv'
<1> SUFFICES ASSUME NEW d \in Clients PROVE ReplyOK(d)'
  BY DEF ReplyInv
<1>1. CASE d \notin cs
  <2>1. pc'[d] = pc[d] /\ at'[d] = at[d] /\ replies'[d] = replies[d]
    BY <1>1 DEF Replied
  <2> QED
    BY <2>1, ReplyFrame DEF ReplyInv
<1>2. CASE d \in cs
  <2>1. /\ pc'[d] = "next" /\ at'[d] = at[d] + 1
        /\ replies'[d] = [replies[d] EXCEPT ![at[d]] = r]
    BY <1>2 DEF Replied
  <2>2. /\ DOMAIN replies[d] = DOMAIN body[d] /\ DOMAIN body[d] = 1..Len(body[d])
        /\ at[d] \in DOMAIN body[d] /\ Len(body[d]) \in Nat
    BY <1>2, BodyFacts DEF CallInv, TypedParts, ClientOK
  <2> SUFFICES ASSUME NEW i \in DOMAIN body[d]
               PROVE  /\ replies'[d][i] = Reply(replies'[d][i].kind, replies'[d][i].id,
                                               replies'[d][i].of, replies'[d][i].height)
                      /\ i < at'[d] /\ First(d, i) = i => Fits(d, i, replies'[d][i])
    <3>1. \A i \in DOMAIN body[d] : Fits(d, i, replies[d][i])' <=> Fits(d, i, replies'[d][i])
      BY DEF Fits, First, IsOf, HeadsFor, As, OfItsBlock
    <3>2. \A i : First(d, i)' = First(d, i)
      BY DEF First
    <3> QED
      BY <2>1, <3>1, <3>2 DEF ReplyOK, Reply, Fits, First, IsOf, HeadsFor, As, OfItsBlock
  <2>3. CASE i = at[d]
    BY <1>2, <2>1, <2>2, <2>3
  <2>4. CASE i # at[d]
    <3>1. replies'[d][i] = replies[d][i] /\ ReplyOK(d)
      BY <2>1, <2>2, <2>4 DEF ReplyInv
    <3>2. i < at'[d] => i < at[d]
      BY <2>1, <2>2, <2>4
    <3> QED
      BY <1>2, <3>1, <3>2 DEF ReplyOK
  <2> QED
    BY <2>3, <2>4
<1> QED
  BY <1>1, <1>2

\* The reply of a call fits the current requests of all those it goes to.
LEMMA CallFits ==
  ASSUME PathInv, NEW c \in Clients, pc[c] \in {"ask", "set", "sadd"}, NEW kind \in {"answer", "failed"},
         NEW height, OfItsBlock(asked[c], height), NEW d \in Callers(c)
  PROVE  /\ d \in Clients /\ pc[d] \in Under /\ at[d] \in DOMAIN body[d]
         /\ Fits(d, at[d], Reply(kind, Id(c, at[c]), asked[c], height))
<1> DEFINE r == Reply(kind, Id(c, at[c]), asked[c], height)
<1>1. /\ d \in Clients /\ pc[d] \in Under /\ asked[d] = asked[c]
      /\ d = c \/ pc[d] = "wait"
  BY DEF Callers, PathInv, WaitsForExecution, Executes, cache_key, Under
<1>2. at[d] \in DOMAIN body[d]
  BY <1>1 DEF PathInv, AskInv, CallInv, AtRequest
<1>3. AskOK(d)
  BY <1>1 DEF PathInv, AskInv
<1>4. IsOf(d, at[d], asked[c])
  BY <1>1, <1>3 DEF AskOK
<1>5. r.kind = kind /\ r.id.client = c /\ r.of = asked[c] /\ r.height = height
  BY DEF Reply, Id
<1>6. CASE d = c
  <2>1. r.id = Id(d, at[d])
    BY <1>6 DEF Reply
  <2> QED
    BY <1>1, <1>2, <1>4, <1>5, <2>1 DEF Fits
<1>7. CASE d # c
  <2>1. First(d, at[d]) = at[d] /\ ~is_uncacheable(body[d][at[d]].method)
    BY <1>1, <1>3, <1>7 DEF AskOK, IsFirst, Current
  <2> QED
    BY <1>1, <1>2, <1>4, <1>5, <1>7, <2>1 DEF Fits
<1> QED
  BY <1>6, <1>7

LEMMA ReplyNext == PathInv /\ ReplyInv /\ [Next]_vars => ReplyInv'
<1> SUFFICES ASSUME PathInv, ReplyInv, [Next]_vars PROVE ReplyInv'
  OBVIOUS
<1>0. /\ AskInv /\ CallInv /\ WaitsForExecution /\ EntriesAreSound
      /\ \A c \in Clients : AskOK(c) /\ ReplyOK(c) /\ ClientOK(c)
      /\ pc \in [Clients -> Labels] /\ asked \in [Clients -> Keys] /\ AtRequest
      /\ DOMAIN at = Clients /\ DOMAIN body = Clients /\ DOMAIN replies = Clients
      /\ early \in [Clients -> BOOLEAN]
  BY DEF PathInv, AskInv, CallInv, TypedParts, Shape, ReplyInv
<1>1. CASE Track \/ (\E k \in Keys : Evict(k)) \/ UNCHANGED vars
  BY <1>0, <1>1, ReplyFrame DEF Track, Evict, vars, batch, ReplyInv
<1>2. ASSUME NEW c \in Clients, body'[c] = <<>> PROVE ReplyOK(c)'
  BY <1>2 DEF ReplyOK
<1>3. CASE Restart
  BY <1>2, <1>3 DEF Restart, Ended, ReplyInv
<1>4. ASSUME NEW c \in Clients, Submit(c) PROVE ReplyInv'
  <2>1. PICK requests \in Bodies(c) :
          /\ body' = [body EXCEPT ![c] = requests]
          /\ replies' = [replies EXCEPT ![c] = [i \in DOMAIN requests |-> Pending(c)]]
    BY <1>4 DEF Submit
  <2>2. /\ at' = at /\ pc[c] = "idle" /\ pc' = [pc EXCEPT ![c] = "next"]
        /\ early' = [early EXCEPT ![c] = latest = 0]
    BY <1>4 DEF Submit, Goto
  <2>3. ReplyOK(c)'
    <3>1. body'[c] = requests /\ pc'[c] = "next" /\ at'[c] = 1 /\ DOMAIN requests = 1..Len(requests)
      BY <1>0, <2>1, <2>2, BodyFacts DEF AtRequest
    <3>2. \A i \in DOMAIN requests : replies'[c][i] = Pending(c)
      BY <1>0, <2>1
    <3>3. Pending(c) = Reply(Pending(c).kind, Pending(c).id, Pending(c).of, Pending(c).height)
      BY DEF Pending, Reply
    <3>4. \A i \in DOMAIN body'[c] : ~(i < at'[c])
      BY <3>1, BodyFacts
    <3>5. ASSUME NEW i \in DOMAIN body'[c]
          PROVE  replies'[c][i] = Reply(replies'[c][i].kind, replies'[c][i].id, replies'[c][i].of,
                                        replies'[c][i].height)
      BY <3>1, <3>2, <3>3, <3>5
    <3> QED
      BY <3>1, <3>4, <3>5 DEF ReplyOK, Reply
  <2>4. ASSUME NEW d \in Clients \ {c} PROVE ReplyOK(d)'
    <3>1. /\ pc'[d] = pc[d] /\ early'[d] = early[d] /\ body'[d] = body[d] /\ at'[d] = at[d]
          /\ replies'[d] = replies[d]
      BY <1>0, <2>1, <2>2
    <3> QED
      BY <1>0, <3>1, ReplyFrame
  <2> QED
    BY <2>3, <2>4 DEF ReplyInv
<1>5. ASSUME NEW c \in Clients, Skip(c) PROVE ReplyInv'
  <2>1. /\ UNCHANGED <<pc, body, early, replies>> /\ pc[c] = "next"
        /\ at' = [at EXCEPT ![c] = at[c] + 1] /\ First(c, at[c]) # at[c]
        /\ at[c] \in Nat /\ DOMAIN body[c] = 1..Len(body[c]) /\ Len(body[c]) \in Nat
    BY <1>0, <1>5, CurrentFacts DEF Skip, More, batch, IsFirst
  <2>2. ReplyOK(c)'
    <3>1. \A i \in DOMAIN body[c] : i < at'[c] /\ First(c, i) = i => i < at[c]
      BY <1>0, <2>1
    <3>2. \A i : Fits(c, i, replies[c][i]) => Fits(c, i, replies[c][i])'
      BY <2>1 DEF Fits, First, IsOf, HeadsFor, As, OfItsBlock
    <3>3. \A i \in DOMAIN body[c] : First(c, i)' = First(c, i) /\ pc'[c] # "replied"
      BY <2>1 DEF First
    <3>4. ASSUME NEW i \in DOMAIN body[c]
          PROVE  replies'[c][i] = Reply(replies'[c][i].kind, replies'[c][i].id, replies'[c][i].of,
                                        replies'[c][i].height)
      BY <1>0, <2>1 DEF ReplyOK
    <3>5. ASSUME NEW i \in DOMAIN body[c], i < at'[c], First(c, i) = i
          PROVE  Fits(c, i, replies[c][i])'
      BY <1>0, <2>1, <3>1, <3>2, <3>5 DEF ReplyOK
    <3> QED
      BY <2>1, <3>3, <3>4, <3>5 DEF ReplyOK, Reply
  <2>3. \A d \in Clients \ {c} : ReplyOK(d)'
    BY <1>0, <2>1, ReplyFrame
  <2> QED
    BY <2>2, <2>3 DEF ReplyInv
<1>6. ASSUME NEW c \in Clients, NEW r, Replied({c}, r), UNCHANGED <<body, early>>,
             r = Reply(r.kind, r.id, r.of, r.height), pc[c] \in Under \/ More(c),
             Fits(c, at[c], r)
      PROVE  ReplyInv'
  <2>1. \A d \in {c} : pc[d] # "replied" /\ at[d] \in DOMAIN body[d] /\ Fits(d, at[d], r)
    BY <1>0, <1>6, CurrentFacts DEF Under, More
  <2>2. {c} \in SUBSET Clients
    OBVIOUS
  <2> QED
    BY <1>0, <1>6, <2>1, <2>2, RepliesFit
<1>7. ASSUME NEW c \in Clients, Deny(c) PROVE ReplyInv'
  <2>1. PICK r : r = Reply("denied", Id(c, at[c]), Current(c), Null)
    OBVIOUS
  <2>2. /\ Fits(c, at[c], r) /\ r = Reply(r.kind, r.id, r.of, r.height)
        /\ Replied({c}, r) /\ More(c) /\ UNCHANGED <<body, early>>
    BY <1>7, <2>1 DEF Deny, Reply, Fits, Current, batch
  <2> QED
    BY <1>6, <2>2
<1>8. ASSUME NEW c \in Clients, Intercept(c) PROVE ReplyInv'
  <2>1. PICK r : r = Reply("known", Id(c, at[c]), Current(c), latest)
    OBVIOUS
  <2>2. /\ Fits(c, at[c], r) /\ r = Reply(r.kind, r.id, r.of, r.height)
        /\ Replied({c}, r) /\ More(c) /\ UNCHANGED <<body, early>>
    BY <1>8, <2>1 DEF Intercept, Reply, Fits, Current, batch
  <2> QED
    BY <1>6, <2>2
<1>9. ASSUME NEW c \in Clients, Hit(c) PROVE ReplyInv'
  <2>1. PICK r : r = Reply("answer", Id(c, at[c]), asked[c], entries[asked[c]])
    OBVIOUS
  <2>2. pc[c] = "get" /\ entries[asked[c]] # Absent /\ Replied({c}, r) /\ UNCHANGED <<body, early>>
    BY <1>9, <2>1 DEF Hit, batch
  <2>3. OfItsBlock(asked[c], entries[asked[c]])
    <3>1. PICK k \in Keys : k = asked[c]
      BY <1>0
    <3> QED
      BY <1>0, <2>2, <3>1 DEF EntriesAreSound, OfItsBlock
  <2>4. pc[c] \in Under /\ IsOf(c, at[c], asked[c])
    BY <1>0, <2>2 DEF AskOK, Under
  <2>5. r.kind = "answer" /\ r.id = Id(c, at[c]) /\ r.of = asked[c] /\ r.height = entries[asked[c]]
    BY <2>1 DEF Reply
  <2>6. Fits(c, at[c], r)
    BY <2>3, <2>4, <2>5 DEF Fits
  <2> QED
    BY <1>6, <2>1, <2>2, <2>4, <2>5, <2>6
<1>10. ASSUME NEW c \in Clients, Resolve(c) \/ Miss(c) \/ Join(c) \/ Answer(c) PROVE ReplyInv'
  <2>1. /\ UNCHANGED <<body, early, replies, at>> /\ pc[c] # "replied" /\ pc'[c] # "replied"
        /\ \A d \in Clients \ {c} : pc'[d] = pc[d]
    BY <1>0, <1>10 DEF Resolve, Miss, Join, Answer, Goto, batch, More
  <2> QED
    BY <1>0, <2>1, ReplyFrame DEF ReplyInv
<1>11. ASSUME NEW c \in Clients, NEW kind \in {"answer", "failed"}, NEW height,
              pc[c] \in {"ask", "set", "sadd"}, OfItsBlock(asked[c], height),
              Replied(Callers(c), Reply(kind, Id(c, at[c]), asked[c], height)),
              UNCHANGED <<body, early>>
       PROVE  ReplyInv'
  <2>1. PICK cs \in SUBSET Clients : cs = Callers(c)
    BY DEF Callers
  <2>2. PICK r : r = Reply(kind, Id(c, at[c]), asked[c], height)
    OBVIOUS
  <2>3. \A d \in cs : pc[d] # "replied" /\ at[d] \in DOMAIN body[d] /\ Fits(d, at[d], r)
    BY <1>0, <1>11, <2>1, <2>2, CallFits DEF Under
  <2>4. r = Reply(r.kind, r.id, r.of, r.height)
    BY <2>2, IsReply
  <2> QED
    BY <1>0, <1>11, <2>1, <2>2, <2>3, <2>4, RepliesFit
<1>12. ASSUME NEW c \in Clients, Fail(c) PROVE ReplyInv'
  <2>1. OfItsBlock(asked[c], Null)
    BY DEF OfItsBlock
  <2> QED
    BY <1>11, <1>12, <2>1 DEF Fail
<1>13. ASSUME NEW c \in Clients, pc[c] \in {"set", "sadd"}, Return(c), UNCHANGED batch PROVE ReplyInv'
  <2>1. OfItsBlock(asked[c], answer[c])
    BY <1>0, <1>13 DEF AskOK
  <2> QED
    BY <1>11, <1>13, <2>1 DEF Return, batch
<1>16. ASSUME NEW c \in Clients, Set(c) PROVE ReplyInv'
  <2>1. CASE Goto(c, "sadd") /\ UNCHANGED <<at, replies, call>>
    <3>1. /\ UNCHANGED <<body, early, replies, at>> /\ pc[c] # "replied" /\ pc'[c] # "replied"
          /\ \A d \in Clients \ {c} : pc'[d] = pc[d]
      BY <1>0, <1>16, <2>1 DEF Set, Goto, batch
    <3> QED
      BY <1>0, <3>1, ReplyFrame DEF ReplyInv
  <2>2. CASE Return(c)
    BY <1>13, <1>16, <2>2 DEF Set
  <2> QED
    BY <1>16, <2>1, <2>2 DEF Set
<1>17. ASSUME NEW c \in Clients, Sadd(c) \/ Pass(c) PROVE ReplyInv'
  BY <1>13, <1>17 DEF Sadd, Pass
<1>14. ASSUME NEW c \in Clients, Fill(c) PROVE ReplyInv'
  <2>1. /\ pc[c] = "next" /\ at[c] > Len(body[c]) /\ UNCHANGED <<at, body, early>>
        /\ pc' = [pc EXCEPT ![c] = "replied"]
    BY <1>14 DEF Fill, Goto, batch
  <2>2. PICK R : /\ R = [i \in DOMAIN body[c] |->
                          IF First(c, i) = i THEN replies[c][i]
                          ELSE [replies[c][First(c, i)] EXCEPT !.id = Id(c, i)]]
                 /\ replies' = [replies EXCEPT ![c] = R]
    BY <1>14 DEF Fill
  <2>3. body[c] \in Bodies(c) /\ DOMAIN body[c] = 1..Len(body[c]) /\ Len(body[c]) \in Nat
    BY <1>0, BodyFacts DEF ClientOK
  <2>4. ASSUME NEW i \in DOMAIN body[c]
        PROVE  Fits(c, i, R[i]) /\ R[i] = Reply(R[i].kind, R[i].id, R[i].of, R[i].height)
    <3>1. PICK f \in DOMAIN body[c] : f = First(c, i) /\ First(c, f) = f /\ body[c][f] = body[c][i]
      BY <2>3, FirstFacts
    <3>2. PICK r : r = replies[c][f]
      OBVIOUS
    <3>3. Fits(c, f, r) /\ r = Reply(r.kind, r.id, r.of, r.height)
      BY <1>0, <2>1, <2>3, <3>1, <3>2 DEF ReplyOK, ClientOK
    <3>4. CASE f = i
      BY <2>2, <3>1, <3>2, <3>3, <3>4
    <3>5. CASE f # i
      <4>1. R[i] = [r EXCEPT !.id = Id(c, i)]
        BY <2>2, <3>1, <3>2, <3>5
      <4>2. R[i] = Reply(r.kind, Id(c, i), r.of, r.height)
        BY <3>3, <4>1 DEF Reply
      <4>3. /\ R[i].kind = r.kind /\ R[i].id = Id(c, i) /\ R[i].of = r.of /\ R[i].height = r.height
        BY <4>2 DEF Reply
      <4>4. \/ r.kind \in {"denied", "known"} /\ r.of = body[c][i]
            \/ /\ r.kind \in {"answer", "failed"}
               /\ IsOf(c, i, r.of) /\ OfItsBlock(r.of, r.height)
        BY <3>1, <3>3 DEF Fits, IsOf
      <4> QED
        BY <4>2, <4>3, <4>4 DEF Fits
    <3> QED
      BY <3>4, <3>5
  <2>5. ReplyOK(c)'
    <3>1. replies'[c] = R /\ pc'[c] = "replied" /\ body'[c] = body[c]
      BY <1>0, <2>1, <2>2
    <3>2. \A i \in DOMAIN body[c] : Fits(c, i, R[i]) => Fits(c, i, replies[c][i])'
      BY <2>1, <3>1 DEF Fits, First, IsOf, HeadsFor, As, OfItsBlock
    <3> QED
      BY <2>4, <3>1, <3>2 DEF ReplyOK, Reply
  <2>6. ASSUME NEW d \in Clients \ {c} PROVE ReplyOK(d)'
    <3>1. /\ pc'[d] = pc[d] /\ early'[d] = early[d] /\ body'[d] = body[d] /\ at'[d] = at[d]
          /\ replies'[d] = replies[d]
      BY <1>0, <2>1, <2>2
    <3> QED
      BY <1>0, <3>1, ReplyFrame
  <2> QED
    BY <2>5, <2>6 DEF ReplyInv
<1>15. ASSUME NEW c \in Clients, Deliver(c) PROVE ReplyInv'
  <2>1. Ended({c}) /\ body'[c] = <<>>
    BY <1>15 DEF Deliver, Ended
  <2>2. ASSUME NEW d \in Clients \ {c} PROVE ReplyOK(d)'
    <3>1. /\ pc'[d] = pc[d] /\ early'[d] = early[d] /\ body'[d] = body[d] /\ at'[d] = at[d]
          /\ replies'[d] = replies[d]
      BY <2>1 DEF Ended
    <3> QED
      BY <1>0, <3>1, ReplyFrame
  <2> QED
    BY <1>2, <2>1, <2>2 DEF ReplyInv
<1> QED
  BY <1>1, <1>3, <1>4, <1>5, <1>7, <1>8, <1>9, <1>10, <1>12, <1>14, <1>15, <1>16, <1>17
  DEF Next, Handle

LEMMA ReplyInit == Init => ReplyInv
<1> SUFFICES ASSUME Init, NEW c \in Clients PROVE ReplyOK(c)
  BY DEF ReplyInv
<1>1. body[c] = <<>>
  BY DEF Init
<1> QED
  BY <1>1 DEF ReplyOK

LEMMA ReplyImplies == PathInv /\ ReplyInv => AnswersItsRequest
<1> SUFFICES ASSUME ReplyInv, NEW c \in Clients, pc[c] = "replied", NEW i \in DOMAIN body[c]
             PROVE  LET reply == replies[c][i]
                    IN  /\ \/ reply.id = Id(c, i)
                           \/ /\ reply.id.client # c /\ First(c, i) = i
                              /\ ~is_uncacheable(body[c][i].method)
                        /\ \/ reply.kind \in {"denied", "known"} /\ reply.of = body[c][i]
                           \/ /\ reply.kind \in {"answer", "failed"}
                              /\ \E n \in IF early[c] THEN Heights ELSE Heights \ {0} :
                                   reply.of = As(body[c][i], n)
                              /\ reply.of.ref.tag = "number" =>
                                   reply.height \in {reply.of.ref.number, Null}
  BY DEF AnswersItsRequest
<1>1. Fits(c, i, replies[c][i])
  BY DEF ReplyInv, ReplyOK
<1> QED
  BY <1>1 DEF Fits, IsOf, HeadsFor, OfItsBlock

\* For any clients, bodies and interleavings with the tracker, the cache and each other,
\* a reply is for its own request with the tag resolved, with its own id but for the one
\* exception (handler.rs:139-202, 266-358).
THEOREM RepliesAreOwn == Spec => []AnswersItsRequest
<1>1. Init => PathInv /\ ReplyInv
  BY PathInvInit, ReplyInit
<1>2. PathInv /\ ReplyInv /\ [Next]_vars => (PathInv /\ ReplyInv)'
  BY PathInvNext, ReplyNext
<1>3. PathInv /\ ReplyInv => AnswersItsRequest
  BY ReplyImplies
<1> QED
  BY <1>1, <1>2, <1>3, PTL DEF Spec

-------------------------------------------------------------------------------
\* How often a request is handed to forward_request.

Due(c, i, n) ==
  LET method == body[c][i].method
  IN  IF is_method_blocked(method, blocked_methods) THEN n = 0
      ELSE IF is_uncacheable(method) THEN n = 1
      ELSE n \in {0, 1} /\ (First(c, i) # i => n = 0)

\* The requests before the current one were forwarded as they should, those after it
\* not at all, and the current one if forward_request has returned.
ForwardOK(c) ==
  /\ pc[c] = "replied" => at[c] > Len(body[c])
  /\ \A i \in DOMAIN body[c] :
       /\ i < at[c] => Due(c, i, forwards[c][i])
       /\ i = at[c] => forwards[c][i] = IF pc[c] \in {"set", "sadd"} THEN 1 ELSE 0
       /\ i > at[c] => forwards[c][i] = 0

ForwardInv == AskInv /\ \A c \in Clients : ForwardOK(c)

LEMMA ForwardFrame ==
  ASSUME NEW c \in Clients, ForwardOK(c), pc'[c] = "replied" => pc[c] = "replied",
         pc'[c] \in {"set", "sadd"} <=> pc[c] \in {"set", "sadd"},
         body'[c] = body[c], at'[c] = at[c], forwards'[c] = forwards[c]
  PROVE  ForwardOK(c)'
BY DEF ForwardOK, Due, First

\* The current request is done with: it was forwarded as it should.
LEMMA ForwardDone ==
  ASSUME NEW c \in Clients, CallInv, ForwardOK(c), pc'[c] = "next", body'[c] = body[c],
         at[c] \in DOMAIN body[c], at'[c] = at[c] + 1,
         \A i \in DOMAIN body[c] \ {at[c]} : forwards'[c][i] = forwards[c][i],
         Due(c, at[c], forwards'[c][at[c]])
  PROVE  ForwardOK(c)'
<1>1. DOMAIN body[c] = 1..Len(body[c]) /\ Len(body[c]) \in Nat
  BY BodyFacts DEF CallInv, TypedParts, ClientOK
<1>2. ASSUME NEW i \in DOMAIN body[c]
      PROVE  /\ i < at'[c] => Due(c, i, forwards'[c][i])
             /\ i >= at'[c] => forwards'[c][i] = 0
  <2>1. CASE i = at[c]
    BY <1>1, <2>1
  <2>2. CASE i # at[c]
    BY <1>1, <2>2 DEF ForwardOK
  <2> QED
    BY <2>1, <2>2
<1>3. \A i \in DOMAIN body[c] : Due(c, i, forwards'[c][i]) => Due(c, i, forwards[c][i])'
  BY DEF Due, First
<1> QED
  BY <1>1, <1>2, <1>3 DEF ForwardOK

LEMMA ForwardInit == Init => ForwardInv
<1> SUFFICES ASSUME Init PROVE ForwardInv
  OBVIOUS
<1>1. \A c \in Clients : pc[c] = "idle" /\ body[c] = <<>>
  BY DEF Init
<1> QED
  BY <1>1, AskInit DEF ForwardInv, ForwardOK

LEMMA ForwardNext == ForwardInv /\ [Next]_vars => ForwardInv'
<1> SUFFICES ASSUME ForwardInv, [Next]_vars PROVE \A c \in Clients : ForwardOK(c)'
  BY AskNext DEF ForwardInv
<1>0. /\ CallInv /\ \A c \in Clients : AskOK(c) /\ ForwardOK(c) /\ ClientOK(c)
      /\ pc \in [Clients -> Labels] /\ AtRequest
      /\ DOMAIN at = Clients /\ DOMAIN body = Clients /\ DOMAIN forwards = Clients
  BY DEF ForwardInv, AskInv, CallInv, TypedParts, Shape
<1>1. CASE Track \/ (\E k \in Keys : Evict(k)) \/ UNCHANGED vars
  BY <1>0, <1>1, ForwardFrame DEF Track, Evict, vars, batch
<1>2. ASSUME NEW c \in Clients, body'[c] = <<>>, pc'[c] = "idle" PROVE ForwardOK(c)'
  BY <1>2 DEF ForwardOK
<1>3. CASE Restart
  BY <1>2, <1>3 DEF Restart, Ended
<1>4. ASSUME NEW c \in Clients, Submit(c) PROVE \A d \in Clients : ForwardOK(d)'
  <2>1. PICK requests \in Bodies(c) :
          /\ body' = [body EXCEPT ![c] = requests]
          /\ forwards' = [forwards EXCEPT ![c] = [i \in DOMAIN requests |-> 0]]
    BY <1>4 DEF Submit
  <2>2. at' = at /\ pc[c] = "idle" /\ pc' = [pc EXCEPT ![c] = "next"]
    BY <1>4 DEF Submit, Goto
  <2>3. ForwardOK(c)'
    <3>1. body'[c] = requests /\ pc'[c] = "next" /\ at'[c] = 1 /\ DOMAIN requests = 1..Len(requests)
      BY <1>0, <2>1, <2>2, BodyFacts DEF AtRequest
    <3>2. \A i \in DOMAIN requests : forwards'[c][i] = 0 /\ ~(i < at'[c])
      BY <1>0, <2>1, <3>1, BodyFacts
    <3> QED
      BY <3>1, <3>2 DEF ForwardOK
  <2>4. ASSUME NEW d \in Clients \ {c} PROVE ForwardOK(d)'
    BY <1>0, <2>1, <2>2, ForwardFrame
  <2> QED
    BY <2>3, <2>4
<1>5. ASSUME NEW c \in Clients, Skip(c) PROVE \A d \in Clients : ForwardOK(d)'
  <2>1. /\ UNCHANGED <<pc, body, forwards>> /\ pc[c] = "next"
        /\ at' = [at EXCEPT ![c] = at[c] + 1] /\ First(c, at[c]) # at[c]
        /\ at[c] \in DOMAIN body[c]
    BY <1>0, <1>5, CurrentFacts DEF Skip, More, batch, IsFirst
  <2>2. Due(c, at[c], forwards[c][at[c]])
    BY <1>0, <2>1, FirstFacts DEF Due, ForwardOK, ClientOK
  <2> QED
    BY <1>0, <2>1, <2>2, ForwardDone, ForwardFrame
<1>6. ASSUME NEW c \in Clients, NEW r, Replied({c}, r), UNCHANGED <<body, forwards>>,
             pc[c] \in Under \/ More(c), Due(c, at[c], forwards[c][at[c]])
      PROVE  \A d \in Clients : ForwardOK(d)'
  <2>1. at[c] \in DOMAIN body[c] /\ at'[c] = at[c] + 1 /\ pc'[c] = "next"
    BY <1>0, <1>6, CurrentFacts DEF Replied
  <2>2. \A d \in Clients \ {c} : pc'[d] = pc[d] /\ at'[d] = at[d]
    BY <1>6 DEF Replied
  <2> QED
    BY <1>0, <1>6, <2>1, <2>2, ForwardDone, ForwardFrame
<1>7. ASSUME NEW c \in Clients, Deny(c) \/ Intercept(c) PROVE \A d \in Clients : ForwardOK(d)'
  <2>1. PICK r : Replied({c}, r)
    BY <1>7 DEF Deny, Intercept
  <2>2. /\ UNCHANGED <<body, forwards>> /\ pc[c] = "next" /\ More(c) /\ IsFirst(c)
        /\ Denied(c) \/ InMemory(c)
    BY <1>7 DEF Deny, Intercept, batch, More
  <2>3. at[c] \in DOMAIN body[c] /\ forwards[c][at[c]] = 0
    BY <1>0, <2>2, CurrentFacts DEF ForwardOK
  <2>4. InMemory(c) => ~is_uncacheable(Current(c).method)
    BY DEF InMemory, is_uncacheable
  <2>5. Due(c, at[c], 0)
    BY <2>2, <2>4 DEF Due, IsFirst, Denied, Current
  <2> QED
    BY <1>6, <2>1, <2>2, <2>3, <2>5
<1>8. ASSUME NEW c \in Clients, pc[c] \in {"get", "wait"}
      PROVE  at[c] \in DOMAIN body[c] /\ forwards[c][at[c]] = 0 /\ Due(c, at[c], 0)
  <2>1. at[c] \in DOMAIN body[c] /\ forwards[c][at[c]] = 0
    BY <1>0, <1>8, CurrentFacts DEF ForwardOK, Under
  <2>2. IsFirst(c) /\ ~Denied(c) /\ ~is_uncacheable(Current(c).method)
    BY <1>0, <1>8 DEF AskOK, Under
  <2> QED
    BY <2>1, <2>2 DEF Due, IsFirst, Denied, Current
<1>9. ASSUME NEW c \in Clients, Hit(c) PROVE \A d \in Clients : ForwardOK(d)'
  <2>1. PICK r : Replied({c}, r)
    BY <1>9 DEF Hit
  <2>2. UNCHANGED <<body, forwards>> /\ pc[c] = "get" /\ pc[c] \in Under
    BY <1>9 DEF Hit, batch, Under
  <2> QED
    BY <1>6, <1>8, <2>1, <2>2
<1>10. ASSUME NEW c \in Clients, Resolve(c) \/ Miss(c) \/ Join(c)
       PROVE  \A d \in Clients : ForwardOK(d)'
  <2>1. /\ UNCHANGED <<body, forwards, at>> /\ pc[c] \in {"next", "get"}
        /\ pc'[c] \in {"get", "ask", "wait"} /\ \A d \in Clients \ {c} : pc'[d] = pc[d]
    BY <1>0, <1>10 DEF Resolve, Miss, Join, Goto, batch, More
  <2> QED
    BY <1>0, <2>1, ForwardFrame
<1>11. ASSUME NEW c \in Clients, at[c] \in DOMAIN body[c], Forwarded(c)
       PROVE  /\ \A d \in Clients \ {c} : forwards'[d] = forwards[d]
              /\ \A i \in DOMAIN body[c] \ {at[c]} : forwards'[c][i] = forwards[c][i]
              /\ forwards'[c][at[c]] = forwards[c][at[c]] + 1
  <2>1. DOMAIN forwards = Clients /\ forwards[c] \in [DOMAIN body[c] -> Nat]
    BY <1>0 DEF ClientOK
  <2>2. forwards' = [forwards EXCEPT ![c] = [forwards[c] EXCEPT ![at[c]] = forwards[c][at[c]] + 1]]
    BY <1>11 DEF Forwarded
  <2> QED
    BY <1>11, <2>1, <2>2
<1>12. ASSUME NEW c \in Clients, Answer(c) PROVE \A d \in Clients : ForwardOK(d)'
  <2>1. /\ UNCHANGED <<body, at>> /\ pc[c] = "ask" /\ pc' = [pc EXCEPT ![c] = "set"] /\ Forwarded(c)
    BY <1>12 DEF Answer, Goto
  <2>2. at[c] \in DOMAIN body[c] /\ DOMAIN body[c] = 1..Len(body[c]) /\ Len(body[c]) \in Nat
    BY <1>0, <2>1, CurrentFacts DEF Under
  <2>3. ForwardOK(c)'
    <3>1. forwards[c][at[c]] = 0 /\ forwards'[c][at[c]] = 1 /\ pc'[c] = "set"
      BY <1>0, <1>11, <2>1, <2>2 DEF ForwardOK
    <3>2. ASSUME NEW i \in DOMAIN body[c]
          PROVE  /\ i < at[c] => Due(c, i, forwards'[c][i])
                 /\ i = at[c] => forwards'[c][i] = 1
                 /\ i > at[c] => forwards'[c][i] = 0
      <4>1. CASE i = at[c]
        BY <2>2, <3>1, <4>1
      <4>2. CASE i # at[c]
        BY <1>0, <1>11, <2>1, <2>2, <4>2 DEF ForwardOK
      <4> QED
        BY <4>1, <4>2
    <3>3. \A i \in DOMAIN body[c] : Due(c, i, forwards'[c][i]) => Due(c, i, forwards[c][i])'
      BY <2>1 DEF Due, First
    <3> QED
      BY <2>1, <3>1, <3>2, <3>3 DEF ForwardOK
  <2>4. \A d \in Clients \ {c} : ForwardOK(d)'
    BY <1>0, <1>11, <2>1, <2>2, ForwardFrame
  <2> QED
    BY <2>3, <2>4
<1>13. ASSUME NEW c \in Clients, NEW r, Replied(Callers(c), r), body' = body,
              pc[c] \in {"ask", "set", "sadd"},
              \A d \in Clients \ {c} : forwards'[d] = forwards[d],
              \A i \in DOMAIN body[c] \ {at[c]} : forwards'[c][i] = forwards[c][i],
              forwards'[c][at[c]] = 1
       PROVE  \A d \in Clients : ForwardOK(d)'
  <2>1. PICK cs \in SUBSET Clients : cs = Callers(c)
    BY DEF Callers
  <2>2. c \in cs /\ \A d \in cs \ {c} : pc[d] = "wait"
    BY <2>1 DEF Callers
  <2>3. \A d \in Clients \ cs : pc'[d] = pc[d] /\ at'[d] = at[d]
    BY <1>13, <2>1 DEF Replied
  <2>4. \A d \in cs : pc'[d] = "next" /\ at'[d] = at[d] + 1
    BY <1>13, <2>1 DEF Replied
  <2>5. ForwardOK(c)'
    <3>1. at[c] \in DOMAIN body[c] /\ IsFirst(c) /\ ~Denied(c)
      BY <1>0, <1>13, CurrentFacts DEF AskOK, Under
    <3>2. Due(c, at[c], 1)
      BY <3>1 DEF Due, IsFirst, Denied, Current
    <3> QED
      BY <1>0, <1>13, <2>2, <2>4, <3>1, <3>2, ForwardDone
  <2>6. ASSUME NEW d \in cs \ {c} PROVE ForwardOK(d)'
    <3>1. at[d] \in DOMAIN body[d] /\ forwards'[d] = forwards[d] /\ Due(d, at[d], forwards'[d][at[d]])
      BY <1>8, <1>13, <2>2
    <3> QED
      BY <1>0, <1>13, <2>4, <3>1, ForwardDone
  <2>7. ASSUME NEW d \in Clients \ cs PROVE ForwardOK(d)'
    BY <1>0, <1>13, <2>2, <2>3, ForwardFrame
  <2> QED
    BY <2>5, <2>6, <2>7
<1>14. ASSUME NEW c \in Clients, pc[c] \in {"ask", "set", "sadd"}
       PROVE  at[c] \in DOMAIN body[c] /\ forwards[c][at[c]] = IF pc[c] = "ask" THEN 0 ELSE 1
  BY <1>0, <1>14, CurrentFacts DEF ForwardOK, Under
<1>15. ASSUME NEW c \in Clients, Fail(c) PROVE \A d \in Clients : ForwardOK(d)'
  <2>1. PICK r : Replied(Callers(c), r)
    BY <1>15 DEF Fail
  <2>2. pc[c] = "ask" /\ Forwarded(c) /\ body' = body
    BY <1>15 DEF Fail
  <2> QED
    BY <1>11, <1>13, <1>14, <2>1, <2>2
<1>16. ASSUME NEW c \in Clients, pc[c] \in {"set", "sadd"}, Return(c), UNCHANGED batch
       PROVE  \A d \in Clients : ForwardOK(d)'
  <2>1. PICK r : Replied(Callers(c), r)
    BY <1>16 DEF Return
  <2>2. forwards' = forwards /\ body' = body
    BY <1>16 DEF batch
  <2> QED
    BY <1>13, <1>14, <1>16, <2>1, <2>2
<1>19. ASSUME NEW c \in Clients, Set(c) PROVE \A d \in Clients : ForwardOK(d)'
  <2>1. CASE Goto(c, "sadd") /\ UNCHANGED <<at, replies, call>>
    <3>1. /\ UNCHANGED <<body, forwards, at>> /\ pc[c] = "set" /\ pc'[c] = "sadd"
          /\ \A d \in Clients \ {c} : pc'[d] = pc[d]
      BY <1>0, <1>19, <2>1 DEF Set, Goto, batch
    <3> QED
      BY <1>0, <3>1, ForwardFrame
  <2>2. CASE Return(c)
    BY <1>16, <1>19, <2>2 DEF Set
  <2> QED
    BY <1>19, <2>1, <2>2 DEF Set
<1>20. ASSUME NEW c \in Clients, Sadd(c) \/ Pass(c) PROVE \A d \in Clients : ForwardOK(d)'
  BY <1>16, <1>20 DEF Sadd, Pass
<1>17. ASSUME NEW c \in Clients, Fill(c) PROVE \A d \in Clients : ForwardOK(d)'
  <2>1. /\ UNCHANGED <<at, body, forwards>> /\ pc[c] = "next" /\ at[c] > Len(body[c])
        /\ pc' = [pc EXCEPT ![c] = "replied"]
    BY <1>17 DEF Fill, Goto, batch
  <2>2. ForwardOK(c)'
    <3>1. pc'[c] = "replied" /\ at'[c] > Len(body'[c])
      BY <1>0, <2>1
    <3>2. \A i \in DOMAIN body[c] : Due(c, i, forwards[c][i]) <=> Due(c, i, forwards[c][i])'
      BY <2>1 DEF Due, First
    <3> QED
      BY <1>0, <2>1, <3>1, <3>2 DEF ForwardOK
  <2>3. \A d \in Clients \ {c} : ForwardOK(d)'
    BY <1>0, <2>1, ForwardFrame
  <2> QED
    BY <2>2, <2>3
<1>18. ASSUME NEW c \in Clients, Deliver(c) PROVE \A d \in Clients : ForwardOK(d)'
  <2>1. Ended({c}) /\ body'[c] = <<>> /\ pc'[c] = "idle"
    BY <1>18 DEF Deliver, Ended
  <2>2. ASSUME NEW d \in Clients \ {c} PROVE ForwardOK(d)'
    <3>1. pc'[d] = pc[d] /\ body'[d] = body[d] /\ at'[d] = at[d] /\ forwards'[d] = forwards[d]
      BY <2>1 DEF Ended
    <3> QED
      BY <1>0, <3>1, ForwardFrame
  <2> QED
    BY <1>2, <2>1, <2>2
<1> QED
  BY <1>1, <1>3, <1>4, <1>5, <1>7, <1>9, <1>10, <1>12, <1>15, <1>17, <1>18, <1>19, <1>20
  DEF Next, Handle

LEMMA ForwardImplies == ForwardInv => ForwardedAsOftenAsMeant
<1> SUFFICES ASSUME ForwardInv, NEW c \in Clients, pc[c] = "replied", NEW i \in DOMAIN body[c]
             PROVE  LET method == body[c][i].method
                    IN  IF is_method_blocked(method, blocked_methods) THEN forwards[c][i] = 0
                        ELSE IF is_uncacheable(method) THEN forwards[c][i] = 1
                        ELSE /\ forwards[c][i] <= 1
                             /\ \A j \in DOMAIN body[c] \ {i} :
                                  cache_key(body[c][j]) = cache_key(body[c][i])
                                    => forwards[c][i] + forwards[c][j] <= 1
  BY DEF ForwardedAsOftenAsMeant
<1>1. body[c] \in Bodies(c) /\ DOMAIN body[c] = 1..Len(body[c]) /\ Len(body[c]) \in Nat
  BY BodyFacts DEF ForwardInv, AskInv, CallInv, TypedParts, ClientOK
<1>2. at[c] > Len(body[c]) /\ at[c] \in Nat
  BY <1>1 DEF ForwardInv, ForwardOK, AskInv, CallInv, TypedParts, ClientOK
<1>3. \A j \in DOMAIN body[c] : Due(c, j, forwards[c][j])
  BY <1>1, <1>2 DEF ForwardInv, ForwardOK
<1>4. ASSUME NEW j \in DOMAIN body[c] \ {i}, body[c][j] = body[c][i],
             ~is_method_blocked(body[c][i].method, blocked_methods),
             ~is_uncacheable(body[c][i].method)
      PROVE  forwards[c][i] + forwards[c][j] <= 1
  <2>1. First(c, i) # i \/ First(c, j) # j
    BY <1>1, <1>4, FirstFacts
  <2> QED
    BY <1>3, <1>4, <2>1 DEF Due
<1> QED
  BY <1>3, <1>4 DEF Due, cache_key

\* For any clients, bodies and interleavings, a transaction is handed to forward_request
\* once for each time it occurs, and a repetition of a cacheable request never
\* (handler.rs:139-150, 301-331).
THEOREM ForwardsAreMeant == Spec => []ForwardedAsOftenAsMeant
<1>1. Init => ForwardInv
  BY ForwardInit
<1>2. ForwardInv /\ [Next]_vars => ForwardInv'
  BY ForwardNext
<1> QED
  BY <1>1, <1>2, ForwardImplies, PTL DEF Spec
===============================================================================
