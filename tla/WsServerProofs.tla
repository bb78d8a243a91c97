----------------------------- MODULE WsServerProofs -----------------------------
(***************************************************************************)
(* Proofs about WsServer: its variables keep their types, no notification  *)
(* follows the reply that ends its subscription, no subscription goes      *)
(* uncounted, only races exceed the limit of connections, no subscription  *)
(* misses an event while its dispatcher keeps up, and a connection         *)
(* implements SubscriptionFeed, for any number of connections, requests    *)
(* and events.                                                             *)
(***************************************************************************)
EXTENDS WsServer, SequenceTheorems, FiniteSetTheorems, WellFoundedInduction, TLAPS

\* A non-empty set of naturals has a least element.
LEMMA Least ==
  ASSUME NEW S \in SUBSET Nat, S # {}
  PROVE  \E m \in S : \A n \in S : m <= n
<1>1. PICK m \in S : \A n \in S : <<n, m>> \notin OpToRel(<, Nat)
  BY WFMin, NatLessThanWellFounded
<1>2. \A n \in S : ~(n < m)
  BY <1>1 DEF OpToRel
<1> QED
  BY <1>2

\* Flattening concatenates one sequence after the other.
LEMMA FlattenSteps ==
  ASSUME NEW M, NEW seqs \in Seq(Seq(M))
  PROVE  \E G \in [0..Len(seqs) -> Seq(M)] :
           /\ G[0] = <<>>
           /\ \A n \in 1..Len(seqs) : G[n] = G[n - 1] \o seqs[n]
           /\ FlattenSeq(seqs) = G[Len(seqs)]
<1> DEFINE L == Len(seqs)
           Step(f, n) == [i \in 1..n |-> IF i = 1 THEN seqs[i] ELSE f[i-1] \o seqs[i]]
           Missing == {n \in Nat : ~(\E f : f = Step(f, n))}
<1>1. L \in Nat /\ seqs \in [1..L -> Seq(M)]
  OBVIOUS
<1>2. Missing = {}
  <2> SUFFICES ASSUME Missing # {} PROVE FALSE
    OBVIOUS
  <2>1. PICK n \in Missing : \A k \in Missing : n <= k
    BY Least
  <2>2. n # 0
    <3>1. <<>> = Step(<<>>, 0)
      OBVIOUS
    <3> QED
      BY <3>1
  <2>3. n - 1 \in Nat /\ n - 1 \notin Missing
    <3>1. n \in Nat
      OBVIOUS
    <3>2. n - 1 \in Nat /\ ~(n <= n - 1)
      BY <3>1, <2>2
    <3> HIDE DEF Missing
    <3> QED
      BY <3>2, <2>1
  <2>4. PICK f : f = Step(f, n - 1)
    BY <2>3
  <2> DEFINE g == Step(f, n)
  <2>5. \A i \in 1..n - 1 : g[i] = f[i]
    <3>1. \A i \in 1..n - 1 : f[i] = IF i = 1 THEN seqs[i] ELSE f[i-1] \o seqs[i]
      BY <2>4
    <3> QED
      BY <2>3, <3>1
  <2>6. \A i \in 1..n : i = 1 \/ i - 1 \in 1..n - 1
    BY <2>3
  <2>7. g = Step(g, n)
    BY <2>5, <2>6
  <2> QED
    BY <2>7, <2>1
<1>3. PICK f : f = (CHOOSE h : h = Step(h, L)) /\ f = Step(f, L)
  <2>1. \E h : h = Step(h, L)
    BY <1>1, <1>2
  <2> QED
    BY <2>1
<1>4. \A i \in 1..L : f[i] = IF i = 1 THEN seqs[i] ELSE f[i-1] \o seqs[i]
  BY <1>3
<1> DEFINE G == [n \in 0..L |-> IF n = 0 THEN <<>> ELSE f[n]]
<1>5. \A n \in 1..L : f[n] \in Seq(M)
  <2> DEFINE Bad == {i \in 1..L : f[i] \notin Seq(M)}
  <2> SUFFICES ASSUME Bad # {} PROVE FALSE
    OBVIOUS
  <2>1. PICK i \in Bad : \A k \in Bad : i <= k
    <3>1. Bad \in SUBSET Nat
      BY <1>1
    <3> HIDE DEF Bad
    <3> QED
      BY Least, <3>1
  <2>2. i = 1 \/ (i - 1 \in 1..L /\ f[i-1] \in Seq(M))
    BY <2>1, <1>1
  <2>3. f[i] = IF i = 1 THEN seqs[i] ELSE f[i-1] \o seqs[i]
    BY <1>4, <2>1
  <2>4. seqs[i] \in Seq(M)
    BY <1>1, <2>1
  <2>5. f[i] \in Seq(M)
    BY <2>2, <2>3, <2>4
  <2> QED
    BY <2>5, <2>1
<1>6. G \in [0..L -> Seq(M)] /\ G[0] = <<>>
  BY <1>1, <1>5
<1>7. ASSUME NEW n \in 1..L PROVE G[n] = G[n - 1] \o seqs[n]
  <2>1. G[n] = f[n] /\ seqs[n] \in Seq(M) /\ n - 1 \in 0..L
    BY <1>1
  <2>2. CASE n = 1
    <3>1. G[n - 1] = <<>> /\ G[n] = seqs[n]
      BY <1>1, <1>4, <2>1, <2>2
    <3>2. <<>> \o seqs[n] = seqs[n]
      BY <2>1, ConcatEmptySeq
    <3> QED
      BY <3>1, <3>2
  <2>3. CASE n # 1
    <3>1. G[n - 1] = f[n - 1]
      BY <1>1, <2>1, <2>3
    <3> QED
      BY <1>4, <2>1, <2>3, <3>1
  <2> QED
    BY <2>2, <2>3
<1>8. FlattenSeq(seqs) = G[L]
  <2>1. CASE L = 0
    BY <1>6, <2>1 DEF FlattenSeq
  <2>2. CASE L # 0
    <3>1. FlattenSeq(seqs) = f[L]
      BY <1>3, <2>2 DEF FlattenSeq
    <3> QED
      BY <3>1, <1>1, <2>2
  <2> QED
    BY <2>1, <2>2
<1> HIDE DEF G
<1> QED
  BY <1>6, <1>7, <1>8

\* Flattening sequences over a set gives a sequence over it.
LEMMA FlattenInSeq ==
  ASSUME NEW M, NEW seqs \in Seq(Seq(M))
  PROVE  FlattenSeq(seqs) \in Seq(M)
<1>1. PICK G \in [0..Len(seqs) -> Seq(M)] : FlattenSeq(seqs) = G[Len(seqs)]
  BY FlattenSteps
<1>2. Len(seqs) \in 0..Len(seqs)
  OBVIOUS
<1> QED
  BY <1>1, <1>2

\* What two batches of messages deliver, one after the other.
LEMMA DeliversConcat ==
  ASSUME NEW o \in Seq(Messages), NEW more \in Seq(Messages), NEW s, NEW D, NEW E,
         Delivers(o, s, D), Delivers(more, s, E),
         \A m1 \in D, m2 \in E : Precedes(m1, m2)
  PROVE  Delivers(o \o more, s, D \cup E)
<1> DEFINE both == o \o more
           first == {j \in DOMAIN o : IsNoticeOf(o[j], s)}
           second == {j \in DOMAIN more : IsNoticeOf(more[j], s)}
           mine == {j \in DOMAIN both : IsNoticeOf(both[j], s)}
<1>1. /\ {o[j] : j \in first} = D /\ \A i, j \in first : i < j => Precedes(o[i], o[j])
      /\ {more[j] : j \in second} = E
      /\ \A i, j \in second : i < j => Precedes(more[i], more[j])
  BY DEF Delivers
<1>2. /\ Len(o) \in Nat /\ DOMAIN o = 1..Len(o)
      /\ Len(more) \in Nat /\ DOMAIN more = 1..Len(more)
      /\ DOMAIN both = 1..Len(o) + Len(more)
  OBVIOUS
<1>3. \A j \in DOMAIN o : j \in DOMAIN both /\ both[j] = o[j]
  BY <1>2
<1>4. \A j \in DOMAIN more : j + Len(o) \in DOMAIN both /\ both[j + Len(o)] = more[j]
  BY <1>2
<1>5. \A j \in DOMAIN both : j \in DOMAIN o \/ (j > Len(o) /\ j - Len(o) \in DOMAIN more)
  BY <1>2
<1> HIDE DEF both
<1>6. \A j \in mine : j \in first \/ (j > Len(o) /\ j - Len(o) \in second)
  <2> TAKE j \in mine
  <2>1. CASE j \in DOMAIN o
    BY <2>1, <1>3
  <2>2. CASE j > Len(o) /\ j - Len(o) \in DOMAIN more
    <3>1. both[j - Len(o) + Len(o)] = more[j - Len(o)] /\ j - Len(o) + Len(o) = j
      BY <2>2, <1>2, <1>4
    <3> QED
      BY <3>1, <2>2
  <2> QED
    BY <2>1, <2>2, <1>5
<1>7. \A j \in mine : both[j] = IF j \in first THEN o[j] ELSE more[j - Len(o)]
  <2> TAKE j \in mine
  <2>1. CASE j \in first
    BY <2>1, <1>3
  <2>2. CASE j \notin first
    <3>1. j > Len(o) /\ j - Len(o) \in second
      BY <2>2, <1>6
    <3>2. both[j - Len(o) + Len(o)] = more[j - Len(o)] /\ j - Len(o) + Len(o) = j
      BY <3>1, <1>2, <1>4
    <3> QED
      BY <3>2, <2>2
  <2> QED
    BY <2>1, <2>2
<1>8. {both[j] : j \in mine} = D \cup E
  <2>1. \A j \in mine : both[j] \in D \cup E
    BY <1>1, <1>6, <1>7
  <2>2. \A m \in D : \E j \in mine : both[j] = m
    BY <1>1, <1>3
  <2>3. \A m \in E : \E j \in mine : both[j] = m
    BY <1>1, <1>4
  <2> HIDE DEF mine
  <2> QED
    BY <2>1, <2>2, <2>3
<1>9. ASSUME NEW i \in mine, NEW j \in mine, i < j PROVE Precedes(both[i], both[j])
  <2>1. CASE i \in first /\ j \in first
    BY <2>1, <1>1, <1>7, <1>9
  <2>2. CASE i \in first /\ j \notin first
    <3>1. both[i] \in D /\ both[j] \in E
      BY <2>2, <1>1, <1>6, <1>7
    <3> QED
      BY <3>1
  <2>3. CASE i \notin first /\ j \in first
    BY <2>3, <1>2, <1>6, <1>9
  <2>4. CASE i \notin first /\ j \notin first
    <3>1. i - Len(o) \in second /\ j - Len(o) \in second /\ i - Len(o) < j - Len(o)
      BY <2>4, <1>2, <1>6, <1>9
    <3>2. both[i] = more[i - Len(o)] /\ both[j] = more[j - Len(o)]
      BY <2>4, <1>7
    <3> QED
      BY <3>1, <3>2, <1>1
  <2> QED
    BY <2>1, <2>2, <2>3, <2>4
<1> QED
  BY <1>8, <1>9 DEF Delivers, both

LEMMA DeliversNothing ==
  ASSUME NEW s PROVE Delivers(<<>>, s, {})
BY DEF Delivers

\* What many batches deliver, one after the other.
LEMMA FlattenDelivers ==
  ASSUME NEW seqs \in Seq(Seq(Messages)), NEW s, NEW due,
         \A k \in 1..Len(seqs) : Delivers(seqs[k], s, due[k]),
         \A k, l \in 1..Len(seqs) : k < l =>
           \A m1 \in due[k], m2 \in due[l] : Precedes(m1, m2)
  PROVE  Delivers(FlattenSeq(seqs), s, UNION {due[k] : k \in 1..Len(seqs)})
<1> DEFINE L == Len(seqs)
<1>1. L \in Nat /\ \A k \in 1..L : seqs[k] \in Seq(Messages)
  OBVIOUS
<1>2. PICK G \in [0..L -> Seq(Messages)] :
        /\ G[0] = <<>>
        /\ \A n \in 1..L : G[n] = G[n - 1] \o seqs[n]
        /\ FlattenSeq(seqs) = G[L]
  BY FlattenSteps
<1> DEFINE Upto(n) == UNION {due[k] : k \in 1..n}
           Bad == {n \in 0..L : ~Delivers(G[n], s, Upto(n))}
<1>3. Bad = {}
  <2> SUFFICES ASSUME Bad # {} PROVE FALSE
    OBVIOUS
  <2>1. PICK n \in Bad : \A k \in Bad : n <= k
    <3>1. Bad \in SUBSET Nat
      BY <1>1
    <3> HIDE DEF Bad
    <3> QED
      BY Least, <3>1
  <2>2. n # 0
    <3>1. Upto(0) = {}
      OBVIOUS
    <3> QED
      BY <3>1, <1>2, DeliversNothing
  <2>3. n \in 1..L /\ n - 1 \in 0..L /\ n - 1 \notin Bad
    <3>1. n \in 1..L /\ n - 1 \in 0..L /\ ~(n <= n - 1)
      BY <1>1, <2>2
    <3> HIDE DEF Bad
    <3> QED
      BY <3>1, <2>1
  <2>4. Delivers(G[n - 1], s, Upto(n - 1))
    BY <2>3
  <2>5. Upto(n) = Upto(n - 1) \cup due[n]
    <3>1. 1..n = (1..n - 1) \cup {n}
      BY <2>3
    <3> QED
      BY <3>1
  <2>6. \A m1 \in Upto(n - 1), m2 \in due[n] : Precedes(m1, m2)
    <3> SUFFICES ASSUME NEW k \in 1..n - 1, NEW m1 \in due[k], NEW m2 \in due[n]
                 PROVE  Precedes(m1, m2)
      OBVIOUS
    <3>1. k \in 1..L /\ k < n
      BY <2>3
    <3> QED
      BY <3>1, <2>3
  <2>7. G[n] = G[n - 1] \o seqs[n] /\ G[n - 1] \in Seq(Messages) /\ seqs[n] \in Seq(Messages)
    BY <1>1, <1>2, <2>3
  <2>8. Delivers(seqs[n], s, due[n])
    BY <2>3
  <2> HIDE DEF Upto, Bad
  <2>9. Delivers(G[n - 1] \o seqs[n], s, Upto(n - 1) \cup due[n])
    BY <2>4, <2>6, <2>7, <2>8, DeliversConcat
  <2>10. Delivers(G[n], s, Upto(n))
    BY <2>5, <2>7, <2>9
  <2> QED
    BY <2>10, <2>1 DEF Bad
<1>4. L \in 0..L
  BY <1>1
<1> QED
  BY <1>2, <1>3, <1>4
-------------------------------------------------------------------------------
\* The notifications of event n to a subscription, and those that the next event may
\* bring to a connection's subscriptions.
NoticesTo(s, n) == {m \in Messages : m.kind = "notice" /\ m.sub = s /\ m.event = n}
Live(c) == UNION {NoticesTo(s, cursor[c] + 1) : s \in DOMAIN subs[c]}

LEMMA FeedFacts == MaxEvents \in Nat
BY WsServerAssumption DEF WsServerAssumption, MaxEvents

LEMMA LogsFacts ==
  ASSUME NEW n \in 1..MaxEvents
  PROVE  Len(Feed[n].logs) \in Nat /\ DOMAIN Feed[n].logs = 1..Len(Feed[n].logs)
BY WsServerAssumption DEF WsServerAssumption, MaxEvents

LEMMA SubsFinite ==
  ASSUME TasksOK, NEW c \in Connections
  PROVE  /\ IsFiniteSet(DOMAIN subs[c])
         /\ Cardinality(DOMAIN subs[c]) \in Nat
         /\ DOMAIN subs[c] \subseteq 1..Len(given[c])
         /\ Len(given[c]) \in Nat
<1>1. given[c] \in Seq([params : Params, since : 0..MaxEvents])
  BY DEF TasksOK
<1>2. Len(given[c]) \in Nat /\ DOMAIN given[c] = 1..Len(given[c])
  BY <1>1
<1>3. DOMAIN subs[c] \subseteq 1..Len(given[c])
  BY <1>2 DEF TasksOK, ManagerOK
<1>4. IsFiniteSet(1..Len(given[c]))
  BY <1>2, FS_Interval
<1> QED
  BY <1>2, <1>3, <1>4, FS_Subset, FS_CardinalityType

\* What an event brings to a subscription is for it.
LEMMA HandledFits ==
  ASSUME TasksOK, NEW c \in Connections, NEW s \in DOMAIN subs[c], NEW n \in 1..MaxEvents
  PROVE  handle_event(c, s, n) \in Seq(NoticesTo(s, n))
<1>1. MaxEvents \in Nat
  BY FeedFacts
<1>2. s \in Nat
  BY SubsFinite
<1>3. \A i \in Nat : Notice(s, n, i) \in NoticesTo(s, n)
  BY <1>1, <1>2 DEF NoticesTo, Notice, Message, Messages
<1>4. <<>> \in Seq(NoticesTo(s, n)) /\ \A i \in Nat : <<Notice(s, n, i)>> \in Seq(NoticesTo(s, n))
  BY <1>3
<1>5. dispatch_new_heads(c, s, n) \in Seq(NoticesTo(s, n))
  BY <1>4 DEF dispatch_new_heads
<1>6. dispatch_logs(c, s, n) \in Seq(NoticesTo(s, n))
  <2> DEFINE logs == Feed[n].logs
             sent(i) == subs[c][s].type = "logs" /\ matches(subs[c][s].filter, logs[i])
             parts == [i \in DOMAIN logs |-> IF sent(i) THEN <<Notice(s, n, i)>> ELSE <<>>]
  <2>1. Len(logs) \in Nat /\ DOMAIN logs = 1..Len(logs)
    BY LogsFacts
  <2>2. parts \in [1..Len(logs) -> Seq(NoticesTo(s, n))]
    <3> HIDE DEF sent, logs
    <3> QED
      BY <2>1, <1>4
  <2>3. parts \in Seq(Seq(NoticesTo(s, n)))
    <3> HIDE DEF parts, logs
    <3> QED
      BY <2>1, <2>2
  <2>4. FlattenSeq(parts) \in Seq(NoticesTo(s, n))
    <3> HIDE DEF parts
    <3> QED
      BY <2>3, FlattenInSeq
  <2> QED
    BY <2>4 DEF dispatch_logs
<1> QED
  BY <1>5, <1>6 DEF handle_event

LEMMA DispatchFits ==
  ASSUME TasksOK, NEW c \in Connections, NEW n \in 1..MaxEvents, n = cursor[c] + 1,
         NEW order \in SetToSeqs(DOMAIN subs[c])
  PROVE  FlattenSeq([k \in DOMAIN order |-> handle_event(c, order[k], n)]) \in Seq(Live(c))
<1> DEFINE size == Cardinality(DOMAIN subs[c])
           parts == [k \in DOMAIN order |-> handle_event(c, order[k], n)]
<1>1. size \in Nat
  BY SubsFinite
<1>2. order \in [1..size -> DOMAIN subs[c]]
  BY DEF SetToSeqs
<1>3. \A k \in 1..size : handle_event(c, order[k], n) \in Seq(Live(c))
  <2> SUFFICES ASSUME NEW k \in 1..size PROVE handle_event(c, order[k], n) \in Seq(Live(c))
    OBVIOUS
  <2> HIDE DEF size
  <2>1. PICK s \in DOMAIN subs[c] : s = order[k]
    BY <1>2
  <2>2. handle_event(c, s, n) \in Seq(NoticesTo(s, n)) /\ NoticesTo(s, n) \subseteq Live(c)
    BY HandledFits DEF Live
  <2> QED
    BY <2>1, <2>2
<1>4. parts \in Seq(Seq(Live(c)))
  <2> HIDE DEF size
  <2> QED
    BY <1>1, <1>2, <1>3
<1>5. FlattenSeq(parts) \in Seq(Live(c))
  <2> HIDE DEF parts
  <2> QED
    BY <1>4, FlattenInSeq
<1> QED
  BY <1>5

\* The filter made of criteria passes the logs that these ask for.
LEMMA FilterFaithful ==
  ASSUME NEW criteria, NEW log, Len(criteria.topics) \in Nat,
         DOMAIN criteria.topics = 1..Len(criteria.topics)
  PROVE  matches(from_value(criteria), log) <=> AsksFor(criteria, log)
<1> DEFINE filter == from_value(criteria)
           Passes(i) == Named(criteria, i).kind # "other"
                          => Part(log, i) \cap Named(criteria, i).texts # {}
<1>1. (\A addrs \in filter.address : log.address \in addrs) <=> Passes(0)
  <2>1. filter.address = Condition(criteria.address)
    BY DEF from_value
  <2>2. Named(criteria, 0) = criteria.address /\ Part(log, 0) = {log.address}
    BY DEF Named, Part
  <2> QED
    BY <2>1, <2>2 DEF Condition
<1>2. DOMAIN filter.topics = 1..Len(criteria.topics)
  BY DEF from_value
<1>3. ASSUME NEW i \in 1..Len(criteria.topics)
      PROVE  (\A values \in filter.topics[i] : i \in DOMAIN log.topics /\ log.topics[i] \in values)
               <=> Passes(i)
  <2>1. filter.topics[i] = Condition(criteria.topics[i])
    BY DEF from_value
  <2>2. Named(criteria, i) = criteria.topics[i]
    BY DEF Named
  <2>3. Part(log, i) = {log.topics[j] : j \in DOMAIN log.topics \cap {i}}
    BY DEF Part
  <2> QED
    BY <2>1, <2>2, <2>3 DEF Condition
<1>4. matches(filter, log) <=> (Passes(0) /\ \A i \in 1..Len(criteria.topics) : Passes(i))
  <2> HIDE DEF filter, Passes
  <2> QED
    BY <1>1, <1>2, <1>3 DEF matches
<1>5. AsksFor(criteria, log) <=> \A i \in 0..Len(criteria.topics) : Passes(i)
  BY DEF AsksFor
<1>6. 0..Len(criteria.topics) = {0} \cup 1..Len(criteria.topics)
  OBVIOUS
<1> QED
  BY <1>4, <1>5, <1>6

LEMMA CriteriaFacts ==
  ASSUME NEW params \in Params
  PROVE  /\ Len(params.criteria.topics) \in Nat
         /\ DOMAIN params.criteria.topics = 1..Len(params.criteria.topics)
BY WsServerAssumption DEF WsServerAssumption, Params

LEMMA OneNotice ==
  ASSUME NEW s \in Nat, NEW n \in 1..MaxEvents, NEW i \in Nat
  PROVE  /\ <<Notice(s, n, i)>> \in Seq(Messages)
         /\ Delivers(<<Notice(s, n, i)>>, s, {Notice(s, n, i)})
<1> DEFINE m == Notice(s, n, i)
<1>1. m \in Messages /\ IsNoticeOf(m, s)
  BY FeedFacts DEF Notice, Message, Messages, IsNoticeOf
<1> HIDE DEF m
<1>2. DOMAIN <<m>> = {1} /\ <<m>>[1] = m
  OBVIOUS
<1>3. {j \in DOMAIN <<m>> : IsNoticeOf(<<m>>[j], s)} = {1}
  BY <1>1, <1>2
<1>4. Delivers(<<m>>, s, {m})
  BY <1>2, <1>3 DEF Delivers
<1> QED
  BY <1>1, <1>4 DEF m

\* What is sent of an event to a subscription is what its parameters ask for.
LEMMA HandledDelivers ==
  ASSUME TasksOK, NEW c \in Connections, NEW s \in DOMAIN subs[c], NEW n \in 1..MaxEvents,
         NEW params \in Params, subs[c][s] = Subscription(params)
  PROVE  Delivers(handle_event(c, s, n), s, Wanted(s, params, n))
<1>1. subs[c][s].type = params.type /\ subs[c][s].filter = from_value(params.criteria)
  BY DEF Subscription
<1>2. s \in Nat
  BY SubsFinite
<1> DEFINE logs == Feed[n].logs
           asked == {i \in DOMAIN logs : params.type = "logs" /\ AsksFor(params.criteria, logs[i])}
           due == [i \in DOMAIN logs |-> IF i \in asked THEN {Notice(s, n, i)} ELSE {}]
           parts == [i \in DOMAIN logs |-> IF i \in asked THEN <<Notice(s, n, i)>> ELSE <<>>]
<1>3. Len(logs) \in Nat /\ DOMAIN logs = 1..Len(logs)
  BY LogsFacts
<1>4. Feed[n].kind = "NewBlock" => logs = <<>>
  BY WsServerAssumption DEF WsServerAssumption, MaxEvents
<1>5. dispatch_logs(c, s, n) = FlattenSeq(parts)
  <2>1. \A i \in DOMAIN logs :
          (subs[c][s].type = "logs" /\ matches(subs[c][s].filter, logs[i])) <=> i \in asked
    BY <1>1, CriteriaFacts, FilterFaithful
  <2> DEFINE sent(i) == subs[c][s].type = "logs" /\ matches(subs[c][s].filter, logs[i])
  <2>2. [i \in DOMAIN logs |-> IF sent(i) THEN <<Notice(s, n, i)>> ELSE <<>>] = parts
    <3>1. \A i \in DOMAIN logs : sent(i) <=> i \in asked
      BY <2>1
    <3> HIDE DEF sent, asked, logs
    <3> QED
      BY <3>1
  <2> QED
    BY <2>2 DEF dispatch_logs
<1>6. Wanted(s, params, n) = IF params.type = "newHeads" /\ Feed[n].kind = "NewBlock"
                             THEN {Notice(s, n, 0)} ELSE {Notice(s, n, i) : i \in asked}
  <2>1. CASE params.type = "logs"
    BY <2>1 DEF Wanted, Asked
  <2>2. CASE params.type # "logs"
    BY <2>2 DEF Wanted, Asked
  <2> QED
    BY <2>1, <2>2
<1>7. CASE Feed[n].kind = "NewBlock"
  <2>1. asked = {}
    BY <1>4, <1>7
  <2>2. CASE params.type = "newHeads"
    BY <1>1, <1>2, <1>6, <1>7, <2>2, OneNotice DEF handle_event, dispatch_new_heads
  <2>3. CASE params.type # "newHeads"
    <3>1. Wanted(s, params, n) = {}
      BY <1>6, <2>1, <2>3
    <3>2. handle_event(c, s, n) = <<>>
      BY <1>1, <1>7, <2>3 DEF handle_event, dispatch_new_heads
    <3> QED
      BY <3>1, <3>2, DeliversNothing
  <2> QED
    BY <2>2, <2>3
<1>8. CASE Feed[n].kind # "NewBlock"
  <2> HIDE DEF logs, asked
  <2>1. parts \in Seq(Seq(Messages)) /\ Len(parts) = Len(logs)
    <3>1. \A i \in DOMAIN logs : parts[i] \in Seq(Messages)
      <4>1. \A i \in Nat : <<Notice(s, n, i)>> \in Seq(Messages)
        BY <1>2, OneNotice
      <4>2. <<>> \in Seq(Messages)
        OBVIOUS
      <4> QED
        BY <1>3, <4>1, <4>2
    <3>2. parts = [i \in 1..Len(logs) |-> parts[i]]
      BY <1>3
    <3> HIDE DEF parts
    <3> QED
      BY <1>3, <3>1, <3>2
  <2>2. \A k \in 1..Len(parts) : Delivers(parts[k], s, due[k])
    BY <1>2, <1>3, <2>1, OneNotice, DeliversNothing
  <2>3. \A k, l \in 1..Len(parts) : k < l =>
          \A m1 \in due[k], m2 \in due[l] : Precedes(m1, m2)
    <3> SUFFICES ASSUME NEW k \in 1..Len(parts), NEW l \in 1..Len(parts), k < l,
                        NEW m1 \in due[k], NEW m2 \in due[l]
                 PROVE  Precedes(m1, m2)
      OBVIOUS
    <3>1. m1 = Notice(s, n, k) /\ m2 = Notice(s, n, l)
      BY <1>3, <2>1
    <3> QED
      BY <3>1 DEF Notice, Message, Precedes
  <2>4. UNION {due[k] : k \in 1..Len(parts)} = {Notice(s, n, i) : i \in asked}
    <3>1. asked \subseteq DOMAIN logs
      BY DEF asked
    <3> QED
      BY <3>1, <1>3, <2>1
  <2> HIDE DEF due, parts
  <2>5. Delivers(FlattenSeq(parts), s, UNION {due[k] : k \in 1..Len(parts)})
    <3>1. PICK p, d : p = parts /\ d = due
      OBVIOUS
    <3>2. p \in Seq(Seq(Messages)) /\ \A k \in 1..Len(p) : Delivers(p[k], s, d[k])
      BY <2>1, <2>2, <3>1
    <3>3. \A k, l \in 1..Len(p) : k < l => \A m1 \in d[k], m2 \in d[l] : Precedes(m1, m2)
      BY <2>3, <3>1
    <3>4. Delivers(FlattenSeq(p), s, UNION {d[k] : k \in 1..Len(p)})
      BY <3>2, <3>3, FlattenDelivers
    <3> QED
      BY <3>1, <3>4
  <2> QED
    BY <1>5, <1>6, <1>8, <2>4, <2>5 DEF handle_event
<1> QED
  BY <1>7, <1>8

LEMMA OthersNothing ==
  ASSUME NEW s, NEW t, s # t, NEW n, NEW o \in Seq(NoticesTo(t, n))
  PROVE  Delivers(o, s, {})
<1>1. \A j \in DOMAIN o : ~IsNoticeOf(o[j], s)
  BY DEF NoticesTo, IsNoticeOf
<1> QED
  BY <1>1 DEF Delivers

\* The order in which subscriptions are served leaves none out.
LEMMA OrderServesAll ==
  ASSUME NEW S, IsFiniteSet(S), NEW order \in SetToSeqs(S), NEW s \in S
  PROVE  /\ order \in [1..Cardinality(S) -> S]
         /\ \E k \in 1..Cardinality(S) : order[k] = s
         /\ \A k, l \in 1..Cardinality(S) : k # l => order[k] # order[l]
<1> DEFINE D == 1..Cardinality(S)
<1>1. Cardinality(S) \in Nat
  BY FS_CardinalityType
<1>2. order \in [D -> S] /\ \A k, l \in D : k # l => order[k] # order[l]
  BY DEF SetToSeqs
<1>3. order \in Injection(D, S)
  BY <1>2 DEF Injection, IsInjective
<1>4. Cardinality(D) = Cardinality(S)
  BY <1>1, FS_Interval
<1>5. order \in Surjection(D, S)
  BY <1>3, <1>4, FS_Injection
<1> QED
  BY <1>2, <1>5 DEF Surjection

LEMMA BatchDelivers ==
  ASSUME TasksOK, NEW c \in Connections, NEW n \in 1..MaxEvents,
         NEW order \in SetToSeqs(DOMAIN subs[c]), NEW s \in DOMAIN subs[c],
         NEW params \in Params, subs[c][s] = Subscription(params)
  PROVE  Delivers(FlattenSeq([k \in DOMAIN order |-> handle_event(c, order[k], n)]), s,
                  Wanted(s, params, n))
<1>1. PICK size, wanted : size = Cardinality(DOMAIN subs[c]) /\ wanted = Wanted(s, params, n)
  OBVIOUS
<1>2. /\ size \in Nat
      /\ order \in [1..size -> DOMAIN subs[c]]
      /\ \E k \in 1..size : order[k] = s
      /\ \A k, l \in 1..size : k # l => order[k] # order[l]
  BY <1>1, SubsFinite, OrderServesAll
<1>3. PICK parts, due : /\ parts = [k \in 1..size |-> handle_event(c, order[k], n)]
                        /\ due = [k \in 1..size |-> IF order[k] = s THEN wanted ELSE {}]
  OBVIOUS
<1>4. ASSUME NEW k \in 1..size
      PROVE  parts[k] \in Seq(Messages) /\ Delivers(parts[k], s, due[k])
  <2>1. PICK t \in DOMAIN subs[c] : t = order[k]
    BY <1>2
  <2>2. PICK o : o = handle_event(c, t, n)
    OBVIOUS
  <2>3. o \in Seq(NoticesTo(t, n)) /\ o \in Seq(Messages)
    BY <2>2, HandledFits DEF NoticesTo
  <2>4. parts[k] = o /\ due[k] = IF t = s THEN wanted ELSE {}
    BY <1>3, <2>1, <2>2
  <2>5. t = s => Delivers(o, s, wanted)
    BY <1>1, <2>2, HandledDelivers
  <2>6. t # s => Delivers(o, s, {})
    BY <2>3, OthersNothing
  <2> QED
    BY <2>3, <2>4, <2>5, <2>6
<1>5. parts \in Seq(Seq(Messages)) /\ Len(parts) = size
  <2>1. parts \in [1..size -> Seq(Messages)]
    BY <1>3, <1>4
  <2> QED
    BY <1>2, <2>1
<1>6. \A k, l \in 1..size : k < l => \A m1 \in due[k], m2 \in due[l] : Precedes(m1, m2)
  BY <1>2, <1>3
<1>7. UNION {due[k] : k \in 1..size} = wanted
  BY <1>2, <1>3
<1>8. Delivers(FlattenSeq(parts), s, UNION {due[k] : k \in 1..size})
  <2>1. \A k \in 1..Len(parts) : Delivers(parts[k], s, due[k])
    BY <1>4, <1>5
  <2>2. \A k, l \in 1..Len(parts) : k < l =>
          \A m1 \in due[k], m2 \in due[l] : Precedes(m1, m2)
    BY <1>5, <1>6
  <2>3. Delivers(FlattenSeq(parts), s, UNION {due[k] : k \in 1..Len(parts)})
    BY <1>5, <2>1, <2>2, FlattenDelivers
  <2> QED
    BY <1>5, <2>3
<1>9. [k \in DOMAIN order |-> handle_event(c, order[k], n)] = parts
  BY <1>2, <1>3
<1> QED
  BY <1>1, <1>7, <1>8, <1>9

\* What a step of the dispatcher puts into the queue.
LEMMA DispatchesLive ==
  ASSUME TasksOK, NEW c \in Connections, Dispatch(c)
  PROVE  \E messages \in Seq(Live(c)) :
           /\ Enqueue(c, messages)
           /\ \A s \in DOMAIN subs[c], params \in Params : subs[c][s] = Subscription(params) =>
                Delivers(messages, s, Wanted(s, params, cursor[c] + 1))
<1>1. cursor[c] + 1 \in 1..MaxEvents
  BY FeedFacts DEF Dispatch, Dispatching, TasksOK
<1>2. PICK n \in 1..MaxEvents : n = cursor[c] + 1
  BY <1>1
<1>3. PICK order \in SetToSeqs(DOMAIN subs[c]) :
        Enqueue(c, FlattenSeq([k \in DOMAIN order |-> handle_event(c, order[k], n)]))
  BY <1>2 DEF Dispatch
<1>4. PICK messages :
        messages = FlattenSeq([k \in DOMAIN order |-> handle_event(c, order[k], n)])
  OBVIOUS
<1>5. messages \in Seq(Live(c)) /\ Enqueue(c, messages)
  BY <1>2, <1>3, <1>4, DispatchFits
<1>6. \A s \in DOMAIN subs[c], params \in Params : subs[c][s] = Subscription(params) =>
        Delivers(messages, s, Wanted(s, params, n))
  BY <1>4, BatchDelivers
<1> QED
  BY <1>2, <1>5, <1>6

-------------------------------------------------------------------------------
LEMMA HandledTyped ==
  ASSUME TasksOK, NEW c \in Connections, NEW map, NEW change \in {-1, 0, 1},
         NEW reply \in Messages, Handled(c, map, change, reply), UNCHANGED given,
         work[c] \in Seq(Requests), work[c] # <<>>,
         DOMAIN map \subseteq DOMAIN given[c],
         map \in [DOMAIN map -> {Subscription(p) : p \in Params}]
  PROVE  TasksOK'
<1>1. /\ subs' = [subs EXCEPT ![c] = map]
      /\ delta' = [delta EXCEPT ![c] = change]
      /\ replies' = [replies EXCEPT ![c] = Append(replies[c], reply)]
      /\ work' = [work EXCEPT ![c] = Tail(work[c])]
      /\ UNCHANGED <<events, conn, cursor, lagged, queue>>
  BY DEF Handled
<1>2. work' \in [Connections -> Seq(Requests)]
  BY <1>1 DEF TasksOK
<1>3. replies' \in [Connections -> Seq(Messages)]
  BY <1>1 DEF TasksOK
<1>4. delta' \in [Connections -> {-1, 0, 1}]
  BY <1>1 DEF TasksOK
<1>5. DOMAIN subs' = Connections
  BY <1>1 DEF TasksOK
<1>6. ASSUME NEW d \in Connections PROVE ManagerOK(d)'
  <2>1. subs'[d] = IF d = c THEN map ELSE subs[d]
    BY <1>1 DEF TasksOK
  <2> QED
    BY <2>1 DEF ManagerOK, TasksOK
<1> QED
  BY <1>1, <1>2, <1>3, <1>4, <1>5, <1>6 DEF queue, TasksOK

\* A step that gives the variables their types again, action by action.
LEMMA EmptyManager ==
  ASSUME NEW c \in Connections, subs[c] = <<>>
  PROVE  ManagerOK(c)
<1>1. DOMAIN subs[c] = {}
  OBVIOUS
<1>2. \A S : subs[c] \in [{} -> S]
  OBVIOUS
<1> QED
  BY <1>1, <1>2 DEF ManagerOK

LEMMA TasksInit == Init => TasksOK
<1> SUFFICES ASSUME Init PROVE TasksOK
  OBVIOUS
<1>1. DOMAIN subs = Connections /\ \A c \in Connections : ManagerOK(c)
  BY EmptyManager DEF Init
<1>2. given \in [Connections -> Seq([params : Params, since : 0..MaxEvents])]
  BY DEF Init
<1>3. /\ work \in [Connections -> Seq(Requests)]
      /\ replies \in [Connections -> Seq(Messages)]
      /\ out \in [Connections -> Seq(Messages)]
  BY DEF Init
<1>4. events \in 0..MaxEvents /\ cursor \in [Connections -> 0..MaxEvents]
  BY FeedFacts DEF Init
<1> QED
  BY <1>1, <1>2, <1>3, <1>4 DEF Init, TasksOK

LEMMA TasksStep == TasksOK /\ [Next]_vars => TasksOK'
<1> SUFFICES ASSUME TasksOK, [Next]_vars PROVE TasksOK'
  OBVIOUS
<1> USE FeedFacts
<1>1. CASE UNCHANGED vars
  BY <1>1 DEF vars, counters, handling, queue, TasksOK, ManagerOK
<1>2. CASE Emit
  <2>1. events' \in 0..MaxEvents
    BY <1>2 DEF Emit, TasksOK
  <2>2. UNCHANGED <<conn, handling, cursor, lagged, queue>>
    BY <1>2 DEF Emit
  <2> QED
    BY <2>1, <2>2 DEF handling, queue, TasksOK, ManagerOK
<1>3. ASSUME NEW c \in Connections, Check(c) \/ UpgradeFails(c) \/ Upgraded(c) \/ Leave(c)
      PROVE  TasksOK'
  <2>1. \E label \in {"upgrading", "closed", "open", "left"} : ConnGoto(c, label)
    BY <1>3 DEF Check, UpgradeFails, Upgraded, Leave
  <2>2. conn' \in [Connections -> {"none", "upgrading", "open", "left", "cleaned", "closed"}]
    BY <2>1 DEF ConnGoto, TasksOK
  <2>3. cursor' \in [Connections -> 0..MaxEvents] /\ writing' \in [Connections -> BOOLEAN]
    <3>1. \/ UNCHANGED <<cursor, writing>>
          \/ /\ cursor' = [cursor EXCEPT ![c] = events]
             /\ writing' = [writing EXCEPT ![c] = TRUE]
      BY <1>3 DEF Check, UpgradeFails, Upgraded, Leave, queue
    <3> QED
      BY <3>1 DEF TasksOK
  <2>4. UNCHANGED <<events, handling, lagged, out, forwarded>>
    BY <1>3 DEF Check, UpgradeFails, Upgraded, Leave, queue
  <2> QED
    BY <2>2, <2>3, <2>4 DEF handling, TasksOK, ManagerOK
<1>4. ASSUME NEW c \in Connections, Receive(c) PROVE TasksOK'
  <2>1. PICK requests \in BoundedSeq(Requests, MAX_BATCH) : work' = [work EXCEPT ![c] = requests]
    BY <1>4 DEF Receive
  <2>2. requests \in Seq(Requests)
    BY <2>1, WsServerAssumption DEF WsServerAssumption, BoundedSeq, SeqOf
  <2>3. work' \in [Connections -> Seq(Requests)]
    BY <2>1, <2>2 DEF TasksOK
  <2>4. UNCHANGED <<events, conn, subs, given, replies, delta, cursor, lagged, queue>>
    BY <1>4 DEF Receive
  <2> QED
    BY <2>3, <2>4 DEF queue, TasksOK, ManagerOK
<1>5. ASSUME NEW c \in Connections, Subscribe(c) PROVE TasksOK'
  <2> DEFINE params == Head(work[c]).params
             s == Len(given[c]) + 1
             entry == [params |-> params, since |-> cursor[c]]
             reply == Answered("subscribed", s)
  <2>1. /\ given' = [given EXCEPT ![c] = Append(given[c], entry)]
        /\ subs' = [subs EXCEPT ![c] = Inserted(subs[c], s, Subscription(params))]
        /\ delta' = [delta EXCEPT ![c] = 1]
        /\ replies' = [replies EXCEPT ![c] = Append(replies[c], reply)]
        /\ work' = [work EXCEPT ![c] = Tail(work[c])]
        /\ UNCHANGED <<events, conn, cursor, lagged, queue>>
    BY <1>5 DEF Subscribe, Handled
  <2>2. work[c] \in Seq(Requests) /\ work[c] # <<>>
    BY <1>5 DEF Subscribe, Takes, TasksOK
  <2>3. params \in Params
    BY <1>5, <2>2 DEF Subscribe, Takes, Params
  <2>4. given[c] \in Seq([params : Params, since : 0..MaxEvents])
    BY DEF TasksOK
  <2>5. entry \in [params : Params, since : 0..MaxEvents] /\ s \in Nat
    BY <2>3, <2>4 DEF TasksOK
  <2>6. reply \in Messages
    BY <2>5 DEF Answered, Message, Messages
  <2> HIDE DEF params, entry, reply
  <2>7. /\ Append(given[c], entry) \in Seq([params : Params, since : 0..MaxEvents])
        /\ DOMAIN Append(given[c], entry) = DOMAIN given[c] \cup {s}
    BY <2>4, <2>5
  <2> HIDE DEF s
  <2>8. given' \in [Connections -> Seq([params : Params, since : 0..MaxEvents])]
    BY <2>1, <2>7 DEF TasksOK
  <2>9. work' \in [Connections -> Seq(Requests)]
    BY <2>1, <2>2 DEF TasksOK
  <2>10. replies' \in [Connections -> Seq(Messages)]
    BY <2>1, <2>6 DEF TasksOK
  <2>11. delta' \in [Connections -> {-1, 0, 1}]
    BY <2>1 DEF TasksOK
  <2>12. DOMAIN subs' = Connections /\ \A d \in Connections : ManagerOK(d)'
    <3>1. DOMAIN subs' = Connections
      BY <2>1 DEF TasksOK
    <3>2. ASSUME NEW d \in Connections, d # c PROVE ManagerOK(d)'
      <4>1. subs'[d] = subs[d] /\ given'[d] = given[d]
        BY <2>1, <3>2 DEF TasksOK
      <4> QED
        BY <4>1 DEF TasksOK, ManagerOK
    <3>3. ManagerOK(c)'
      <4>1. subs'[c] = Inserted(subs[c], s, Subscription(params))
        BY <2>1 DEF TasksOK
      <4>2. DOMAIN given'[c] = DOMAIN given[c] \cup {s}
        BY <2>1, <2>7 DEF TasksOK
      <4>3. ManagerOK(c)
        BY DEF TasksOK
      <4> QED
        BY <4>1, <4>2, <4>3, <2>3 DEF ManagerOK, Inserted
    <3> QED
      BY <3>1, <3>2, <3>3
  <2> QED
    BY <2>1, <2>8, <2>9, <2>10, <2>11, <2>12 DEF queue, TasksOK
<1>6. ASSUME NEW c \in Connections, Unsubscribe(c) PROVE TasksOK'
  <2> DEFINE s == Head(work[c]).id
  <2>1. work[c] \in Seq(Requests) /\ work[c] # <<>>
    BY <1>6 DEF Unsubscribe, Takes, TasksOK
  <2>2. Head(work[c]) \in Requests /\ Head(work[c]).kind = "eth_unsubscribe"
    BY <1>6, <2>1 DEF Unsubscribe, Takes
  <2>3. s \in Nat
    BY <2>2, WsServerAssumption DEF WsServerAssumption
  <2>4. PICK map \in {subs[c], Removed(subs[c], s)}, change \in {-1, 0, 1},
             kind \in {"unsubscribed", "unknown"} :
          Handled(c, map, change, Answered(kind, s)) /\ UNCHANGED given
    <3> HIDE DEF s
    <3>1. \/ Handled(c, Removed(subs[c], s), -1, Answered("unsubscribed", s))
          \/ Handled(c, subs[c], 0, Answered("unknown", s))
      BY <1>6 DEF Unsubscribe, s
    <3>2. UNCHANGED given
      BY <1>6 DEF Unsubscribe
    <3> QED
      BY <3>1, <3>2
  <2>5. Answered(kind, s) \in Messages
    BY <2>3 DEF Answered, Message, Messages
  <2> HIDE DEF s
  <2>6. ManagerOK(c) /\ DOMAIN subs = Connections
    BY DEF TasksOK
  <2>7. /\ DOMAIN map \subseteq DOMAIN given[c]
        /\ map \in [DOMAIN map -> {Subscription(p) : p \in Params}]
    BY <2>4, <2>6 DEF ManagerOK, Removed, Restrict
  <2> QED
    BY <2>1, <2>4, <2>5, <2>7, HandledTyped
<1>7. ASSUME NEW c \in Connections, HandleOther(c) PROVE TasksOK'
  <2>1. work[c] \in Seq(Requests) /\ work[c] # <<>>
    BY <1>7 DEF HandleOther, Takes, TasksOK
  <2>2. PICK reply \in Messages : reply = Answered("answer", 0)
    <3>1. Answered("answer", 0) \in Messages
      BY DEF Answered, Message, Messages
    <3> QED
      BY <3>1
  <2>3. PICK map : map = subs[c]
    OBVIOUS
  <2>4. Handled(c, map, 0, reply) /\ UNCHANGED given
    BY <1>7, <2>2, <2>3 DEF HandleOther
  <2>5. /\ DOMAIN map \subseteq DOMAIN given[c]
        /\ map \in [DOMAIN map -> {Subscription(p) : p \in Params}]
    BY <2>3 DEF TasksOK, ManagerOK
  <2> QED
    BY <2>1, <2>2, <2>4, <2>5, HandledTyped
<1>8. ASSUME NEW c \in Connections, Count(c) PROVE TasksOK'
  <2>1. delta' \in [Connections -> {-1, 0, 1}]
    BY <1>8 DEF Count, TasksOK
  <2>2. UNCHANGED <<events, conn, subs, given, work, replies, cursor, lagged, queue>>
    BY <1>8 DEF Count
  <2> QED
    BY <2>1, <2>2 DEF queue, TasksOK, ManagerOK
<1>9. ASSUME NEW c \in Connections, Reply(c) PROVE TasksOK'
  <2>1. out' \in [Connections -> Seq(Messages)]
    BY <1>9 DEF Reply, Enqueue, TasksOK
  <2>2. replies' \in [Connections -> Seq(Messages)]
    BY <1>9 DEF Reply, TasksOK
  <2>3. UNCHANGED <<events, conn, subs, given, work, delta, cursor, lagged, forwarded, writing>>
    BY <1>9 DEF Reply
  <2> QED
    BY <2>1, <2>2, <2>3 DEF TasksOK, ManagerOK
<1>10. ASSUME NEW c \in Connections, Lag(c) PROVE TasksOK'
  <2>1. events - CAPACITY \in 0..MaxEvents
    <3>1. CAPACITY \in Nat /\ events \in 0..MaxEvents /\ cursor[c] \in 0..MaxEvents
      BY WsServerAssumption DEF WsServerAssumption, TasksOK
    <3>2. events - cursor[c] > CAPACITY
      BY <1>10 DEF Lag
    <3> QED
      BY <3>1, <3>2
  <2>2. cursor' \in [Connections -> 0..MaxEvents] /\ lagged' \in [Connections -> BOOLEAN]
    BY <1>10, <2>1 DEF Lag, TasksOK
  <2>3. UNCHANGED <<events, conn, handling, queue>>
    BY <1>10 DEF Lag
  <2> QED
    BY <2>2, <2>3 DEF handling, queue, TasksOK, ManagerOK
<1>11. ASSUME NEW c \in Connections, Dispatch(c) PROVE TasksOK'
  <2>1. PICK messages \in Seq(Live(c)) : Enqueue(c, messages)
    BY <1>11, DispatchesLive
  <2>2. messages \in Seq(Messages)
    BY DEF Live, NoticesTo
  <2>3. out' \in [Connections -> Seq(Messages)]
    BY <2>1, <2>2 DEF Enqueue, TasksOK
  <2>4. cursor' \in [Connections -> 0..MaxEvents]
    BY <1>11 DEF Dispatch, Dispatching, TasksOK
  <2>5. UNCHANGED <<events, conn, handling, lagged, forwarded, writing>>
    BY <1>11 DEF Dispatch
  <2> QED
    BY <2>3, <2>4, <2>5 DEF handling, TasksOK, ManagerOK
<1>12. ASSUME NEW c \in Connections, Forward(c) \/ ForwardFails(c) PROVE TasksOK'
  <2>1. forwarded' \in [Connections -> Nat] /\ writing' \in [Connections -> BOOLEAN]
    <3>1. \/ forwarded' = [forwarded EXCEPT ![c] = @ + 1] /\ UNCHANGED writing
          \/ writing' = [writing EXCEPT ![c] = FALSE] /\ UNCHANGED forwarded
      BY <1>12 DEF Forward, ForwardFails
    <3>2. forwarded \in [Connections -> Nat] /\ writing \in [Connections -> BOOLEAN]
      BY DEF TasksOK
    <3>3. CASE forwarded' = [forwarded EXCEPT ![c] = @ + 1] /\ UNCHANGED writing
      BY <3>2, <3>3
    <3>4. CASE writing' = [writing EXCEPT ![c] = FALSE] /\ UNCHANGED forwarded
      BY <3>2, <3>4
    <3> QED
      BY <3>1, <3>3, <3>4
  <2>2. UNCHANGED <<events, conn, handling, cursor, lagged, out>>
    BY <1>12 DEF Forward, ForwardFails
  <2> QED
    BY <2>1, <2>2 DEF handling, TasksOK, ManagerOK
<1>13. ASSUME NEW c \in Connections, Cleanup(c) \/ Closed(c) PROVE TasksOK'
  <2>1. PICK map \in {subs[c], <<>>} : subs' = [subs EXCEPT ![c] = map]
    BY <1>13 DEF Cleanup, Closed
  <2>2. UNCHANGED <<events, given, work, replies, delta, cursor, lagged, out, forwarded>>
    BY <1>13 DEF Cleanup, Closed, queue
  <2>3. /\ writing' \in [Connections -> BOOLEAN]
        /\ conn' \in [Connections -> {"none", "upgrading", "open", "left", "cleaned", "closed"}]
    BY <1>13 DEF Cleanup, Closed, ConnGoto, queue, TasksOK
  <2>4. DOMAIN subs' = Connections
    BY <2>1 DEF TasksOK
  <2>5. ASSUME NEW d \in Connections PROVE ManagerOK(d)'
    <3>1. CASE subs'[d] = subs[d]
      BY <3>1, <2>2 DEF ManagerOK, TasksOK
    <3>2. CASE subs'[d] = <<>>
      <4>1. DOMAIN subs'[d] = {} /\ \A S : subs'[d] \in [{} -> S]
        BY <3>2
      <4> QED
        BY <4>1 DEF ManagerOK
    <3> QED
      BY <3>1, <3>2, <2>1 DEF TasksOK
  <2> QED
    BY <2>2, <2>3, <2>4, <2>5 DEF TasksOK
<1> QED
  BY <1>1, <1>2, <1>3, <1>4, <1>5, <1>6, <1>7, <1>8, <1>9, <1>10, <1>11, <1>12, <1>13
  DEF Next, Serve, Handle
-------------------------------------------------------------------------------
\* Between messages a task has nothing to do, and what it is about to count is an id
\* that it has just given.
Tasks ==
  \A c \in Connections :
    /\ conn[c] # "open" => work[c] = <<>> /\ replies[c] = <<>>
    /\ delta[c] # 0 => replies[c] # <<>>
    /\ delta[c] = 1 => Len(given[c]) \in DOMAIN subs[c]

LEMMA TasksHandled ==
  ASSUME TasksOK, Tasks, NEW c \in Connections, NEW map, NEW change, NEW reply,
         Handled(c, map, change, reply), work[c] # <<>>,
         change = 1 => Len(given'[c]) \in DOMAIN map,
         \A d \in Connections \ {c} : given'[d] = given[d]
  PROVE  Tasks'
<1>1. /\ subs' = [subs EXCEPT ![c] = map]
      /\ delta' = [delta EXCEPT ![c] = change]
      /\ replies' = [replies EXCEPT ![c] = Append(replies[c], reply)]
      /\ work' = [work EXCEPT ![c] = Tail(work[c])]
      /\ UNCHANGED conn
  BY DEF Handled
<1>2. ASSUME NEW d \in Connections
      PROVE  /\ conn'[d] # "open" => work'[d] = <<>> /\ replies'[d] = <<>>
             /\ delta'[d] # 0 => replies'[d] # <<>>
             /\ delta'[d] = 1 => Len(given'[d]) \in DOMAIN subs'[d]
  <2>1. CASE d = c
    <3>1. conn'[c] = "open"
      BY <1>1 DEF Tasks
    <3>2. replies'[c] # <<>>
      <4>1. replies[c] \in Seq(Messages) /\ replies'[c] = Append(replies[c], reply)
        BY <1>1 DEF TasksOK
      <4> QED
        BY <4>1
    <3>3. delta'[c] = change /\ subs'[c] = map
      BY <1>1 DEF TasksOK
    <3> QED
      BY <2>1, <3>1, <3>2, <3>3
  <2>2. CASE d # c
    <3>1. /\ subs'[d] = subs[d] /\ delta'[d] = delta[d] /\ replies'[d] = replies[d]
          /\ work'[d] = work[d] /\ given'[d] = given[d] /\ conn'[d] = conn[d]
      BY <1>1, <2>2 DEF TasksOK
    <3> QED
      BY <3>1 DEF Tasks
  <2> QED
    BY <2>1, <2>2
<1> QED
  BY <1>2 DEF Tasks

LEMMA TasksInductive == TasksOK /\ Tasks /\ [Next]_vars => Tasks'
<1> SUFFICES ASSUME TasksOK, Tasks, [Next]_vars PROVE Tasks'
  OBVIOUS
<1>1. CASE UNCHANGED vars
  BY <1>1 DEF vars, handling, Tasks
<1>2. CASE Emit
  BY <1>2 DEF Emit, handling, Tasks
<1>3. ASSUME NEW c \in Connections,
             \/ Check(c) \/ UpgradeFails(c) \/ Upgraded(c) \/ Leave(c) \/ Lag(c) \/ Dispatch(c)
             \/ Forward(c) \/ ForwardFails(c)
      PROVE  Tasks'
  <2>1. UNCHANGED handling
    BY <1>3 DEF Check, UpgradeFails, Upgraded, Leave, Lag, Dispatch, Forward, ForwardFails
  <2>2. \/ UNCHANGED conn
        \/ \E label \in {"upgrading", "closed", "open"} : ConnGoto(c, label) /\ conn[c] # "open"
        \/ ConnGoto(c, "left") /\ ~Busy(c)
    BY <1>3 DEF Check, UpgradeFails, Upgraded, Leave, Lag, Dispatch, Forward, ForwardFails
  <2>3. \A d \in Connections : conn'[d] # "open" => work[d] = <<>> /\ replies[d] = <<>>
    BY <2>2 DEF ConnGoto, Busy, Tasks, TasksOK
  <2> QED
    BY <2>1, <2>3 DEF handling, Tasks
<1>4. ASSUME NEW c \in Connections, Receive(c) PROVE Tasks'
  <2>1. PICK requests : work' = [work EXCEPT ![c] = requests]
    BY <1>4 DEF Receive
  <2>2. conn[c] = "open" /\ UNCHANGED <<conn, subs, given, replies, delta>>
    BY <1>4 DEF Receive
  <2>3. \A d \in Connections \ {c} : work'[d] = work[d]
    BY <2>1 DEF TasksOK
  <2> QED
    BY <2>2, <2>3 DEF Tasks
<1>5. ASSUME NEW c \in Connections, Subscribe(c) PROVE Tasks'
  <2> DEFINE params == Head(work[c]).params
             s == Len(given[c]) + 1
             entry == [params |-> params, since |-> cursor[c]]
  <2>1. /\ work[c] # <<>>
        /\ given' = [given EXCEPT ![c] = Append(given[c], entry)]
        /\ Handled(c, Inserted(subs[c], s, Subscription(params)), 1, Answered("subscribed", s))
    BY <1>5 DEF Subscribe, Takes
  <2>2. PICK map, reply : /\ map = Inserted(subs[c], s, Subscription(params))
                          /\ reply = Answered("subscribed", s)
    OBVIOUS
  <2>3. Handled(c, map, 1, reply)
    BY <2>1, <2>2
  <2>4. s \in DOMAIN map
    BY <2>2 DEF Inserted
  <2>5. Len(given'[c]) = s /\ \A d \in Connections \ {c} : given'[d] = given[d]
    <3>1. given[c] \in Seq([params : Params, since : 0..MaxEvents])
      BY DEF TasksOK
    <3>2. Len(Append(given[c], entry)) = s
      BY <3>1
    <3> HIDE DEF entry, s
    <3> QED
      BY <2>1, <3>2 DEF TasksOK
  <2> HIDE DEF s, params, entry
  <2> QED
    BY <2>1, <2>3, <2>4, <2>5, TasksHandled
<1>6. ASSUME NEW c \in Connections, Unsubscribe(c) \/ HandleOther(c) PROVE Tasks'
  <2>1. work[c] # <<>> /\ UNCHANGED given
    BY <1>6 DEF Unsubscribe, HandleOther, Takes
  <2>2. \E map, reply : \E change \in {-1, 0} : Handled(c, map, change, reply)
    <3> DEFINE s == Head(work[c]).id
    <3>1. \/ Handled(c, Removed(subs[c], s), -1, Answered("unsubscribed", s))
          \/ Handled(c, subs[c], 0, Answered("unknown", s))
          \/ Handled(c, subs[c], 0, Answered("answer", 0))
      BY <1>6 DEF Unsubscribe, HandleOther
    <3> HIDE DEF s
    <3> QED
      BY <3>1
  <2>3. PICK map, reply : \E change \in {-1, 0} : Handled(c, map, change, reply)
    BY <2>2
  <2>4. PICK change \in {-1, 0} : Handled(c, map, change, reply) /\ change # 1
    BY <2>3
  <2> QED
    BY <2>1, <2>4, TasksHandled
<1>7. ASSUME NEW c \in Connections, Count(c) PROVE Tasks'
  BY <1>7 DEF Count, Tasks, TasksOK
<1>8. ASSUME NEW c \in Connections, Reply(c) PROVE Tasks'
  BY <1>8 DEF Reply, Tasks, TasksOK
<1>9. ASSUME NEW c \in Connections, Cleanup(c) \/ Closed(c) PROVE Tasks'
  <2>1. conn[c] # "open" /\ UNCHANGED <<work, replies, delta, given>>
    BY <1>9 DEF Cleanup, Closed
  <2>2. delta[c] = 0
    BY <2>1 DEF Tasks, TasksOK
  <2>3. \A d \in Connections \ {c} : subs'[d] = subs[d] /\ conn'[d] = conn[d]
    BY <1>9 DEF Cleanup, Closed, ConnGoto, TasksOK
  <2>4. work[c] = <<>> /\ replies[c] = <<>>
    BY <2>1 DEF Tasks
  <2> QED
    BY <2>1, <2>2, <2>3, <2>4 DEF Tasks
<1> QED
  BY <1>1, <1>2, <1>3, <1>4, <1>5, <1>6, <1>7, <1>8, <1>9 DEF Next, Serve, Handle
-------------------------------------------------------------------------------
CountInv == IsFiniteSet(AllCounted) /\ ws_subscriptions \in Nat /\ NotUndercounted

LEMMA CountedKept ==
  ASSUME \A d \in Connections : Counted(d)' = Counted(d)
  PROVE  AllCounted' = AllCounted
BY DEF AllCounted

LEMMA CountedChanged ==
  ASSUME NEW c \in Connections, NEW S, NEW T,
         Counted(c)' = (Counted(c) \ S) \cup T,
         \A d \in Connections \ {c} : Counted(d)' = Counted(d)
  PROVE  AllCounted' = (AllCounted \ ({c} \X S)) \cup ({c} \X T)
<1>1. PICK A, B, K, L : /\ A = AllCounted /\ B = AllCounted'
                        /\ K = [d \in Connections |-> Counted(d)]
                        /\ L = [d \in Connections |-> Counted(d)']
  OBVIOUS
<1>2. A = UNION {{d} \X K[d] : d \in Connections} /\ B = UNION {{d} \X L[d] : d \in Connections}
  BY <1>1 DEF AllCounted
<1>3. L[c] = (K[c] \ S) \cup T /\ \A d \in Connections \ {c} : L[d] = K[d]
  BY <1>1
<1>4. B \subseteq (A \ ({c} \X S)) \cup ({c} \X T)
  <2> SUFFICES ASSUME NEW d \in Connections, NEW s \in L[d]
               PROVE  <<d, s>> \in (A \ ({c} \X S)) \cup ({c} \X T)
    BY <1>2
  <2>1. CASE d = c
    BY <2>1, <1>2, <1>3
  <2>2. CASE d # c
    BY <2>2, <1>2, <1>3
  <2> QED
    BY <2>1, <2>2
<1>5. {c} \X T \subseteq B
  BY <1>2, <1>3
<1>6. A \ ({c} \X S) \subseteq B
  <2> SUFFICES ASSUME NEW d \in Connections, NEW s \in K[d], <<d, s>> \notin {c} \X S
               PROVE  <<d, s>> \in B
    BY <1>2
  <2>1. CASE d = c
    <3>1. s \notin S
      BY <2>1
    <3> QED
      BY <3>1, <2>1, <1>2, <1>3
  <2>2. CASE d # c
    BY <2>2, <1>2, <1>3
  <2> QED
    BY <2>1, <2>2
<1>7. B = (A \ ({c} \X S)) \cup ({c} \X T)
  BY <1>4, <1>5, <1>6
<1> QED
  BY <1>1, <1>7

LEMMA CountInductive == TasksOK /\ Tasks /\ CountInv /\ [Next]_vars => CountInv'
<1> SUFFICES ASSUME TasksOK, Tasks, CountInv, [Next]_vars PROVE CountInv'
  OBVIOUS
<1>1. PICK A, a, n : A = AllCounted /\ a = Cardinality(A) /\ n = ws_subscriptions
  OBVIOUS
<1>2. IsFiniteSet(A) /\ a \in Nat /\ n \in Nat /\ n >= a
  BY <1>1, FS_CardinalityType DEF CountInv, NotUndercounted
<1>3. ASSUME UNCHANGED ws_subscriptions, \A d \in Connections : Counted(d)' = Counted(d)
      PROVE  CountInv'
  BY <1>3, CountedKept DEF CountInv, NotUndercounted
<1>4. CASE UNCHANGED vars
  BY <1>3, <1>4 DEF vars, counters, handling, Counted
<1>5. CASE Emit
  BY <1>3, <1>5 DEF Emit, counters, handling, Counted
<1>6. ASSUME NEW c \in Connections,
             \/ Check(c) \/ UpgradeFails(c) \/ Upgraded(c) \/ Leave(c) \/ Lag(c) \/ Dispatch(c)
             \/ Forward(c) \/ ForwardFails(c) \/ Receive(c) \/ Reply(c)
      PROVE  CountInv'
  <2>1. UNCHANGED <<ws_subscriptions, subs, given, delta>>
    BY <1>6 DEF Check, UpgradeFails, Upgraded, Leave, Lag, Dispatch, Forward, ForwardFails,
                Receive, Reply, counters, handling
  <2> QED
    BY <2>1, <1>3 DEF Counted
<1>7. ASSUME NEW c \in Connections, NEW map, NEW change, NEW reply,
             Handled(c, map, change, reply)
      PROVE  /\ UNCHANGED ws_subscriptions
             /\ subs'[c] = map /\ delta'[c] = change
             /\ \A d \in Connections \ {c} : subs'[d] = subs[d] /\ delta'[d] = delta[d]
  BY <1>7 DEF Handled, counters, TasksOK
<1>8. ASSUME NEW c \in Connections, Subscribe(c) PROVE CountInv'
  <2> DEFINE params == Head(work[c]).params
             s == Len(given[c]) + 1
             entry == [params |-> params, since |-> cursor[c]]
  <2>1. PICK map, reply : /\ map = Inserted(subs[c], s, Subscription(params))
                          /\ reply = Answered("subscribed", s)
    OBVIOUS
  <2>2. Handled(c, map, 1, reply) /\ delta[c] = 0
    BY <1>8, <2>1 DEF Subscribe, Takes
  <2>3. given' = [given EXCEPT ![c] = Append(given[c], entry)]
    BY <1>8 DEF Subscribe
  <2>4. /\ UNCHANGED ws_subscriptions
        /\ subs'[c] = map /\ delta'[c] = 1
        /\ \A d \in Connections \ {c} : subs'[d] = subs[d] /\ delta'[d] = delta[d]
    BY <2>2, <1>7
  <2>5. Len(given'[c]) = s /\ \A d \in Connections \ {c} : given'[d] = given[d]
    <3>1. given[c] \in Seq([params : Params, since : 0..MaxEvents])
      BY DEF TasksOK
    <3>2. Len(Append(given[c], entry)) = s
      BY <3>1
    <3> HIDE DEF entry, s
    <3> QED
      BY <2>3, <3>2 DEF TasksOK
  <2>6. DOMAIN map = DOMAIN subs[c] \cup {s} /\ s \notin DOMAIN subs[c]
    <3>1. DOMAIN subs[c] \subseteq 1..Len(given[c]) /\ Len(given[c]) \in Nat
      BY SubsFinite
    <3> QED
      BY <2>1, <3>1 DEF Inserted
  <2> HIDE DEF s, params, entry
  <2>7. Counted(c)' = Counted(c)
    BY <2>2, <2>4, <2>5, <2>6 DEF Counted
  <2>8. \A d \in Connections \ {c} : Counted(d)' = Counted(d)
    BY <2>4, <2>5 DEF Counted
  <2> QED
    BY <2>4, <2>7, <2>8, <1>3
<1>9. ASSUME NEW c \in Connections, Unsubscribe(c) \/ HandleOther(c) PROVE CountInv'
  <2>1. PICK s : s = Head(work[c]).id
    OBVIOUS
  <2>2. /\ delta[c] = 0 /\ UNCHANGED given
        /\ \/ s \in DOMAIN subs[c] /\ Handled(c, Removed(subs[c], s), -1, Answered("unsubscribed", s))
           \/ Handled(c, subs[c], 0, Answered("unknown", s))
           \/ Handled(c, subs[c], 0, Answered("answer", 0))
    BY <1>9, <2>1 DEF Unsubscribe, HandleOther, Takes
  <2>3. CASE \E reply : Handled(c, subs[c], 0, reply)
    <3>1. PICK map, reply : map = subs[c] /\ Handled(c, map, 0, reply)
      BY <2>3
    <3>2. /\ UNCHANGED ws_subscriptions
          /\ subs'[c] = map /\ delta'[c] = 0
          /\ \A d \in Connections \ {c} : subs'[d] = subs[d] /\ delta'[d] = delta[d]
      BY <3>1, <1>7
    <3>3. \A d \in Connections : Counted(d)' = Counted(d)
      BY <2>2, <3>1, <3>2 DEF Counted
    <3> QED
      BY <3>2, <3>3, <1>3
  <2>4. CASE s \in DOMAIN subs[c] /\ \E reply : Handled(c, Removed(subs[c], s), -1, reply)
    <3>1. PICK map, reply : map = Removed(subs[c], s) /\ Handled(c, map, -1, reply)
      BY <2>4
    <3>2. /\ UNCHANGED ws_subscriptions
          /\ subs'[c] = map /\ delta'[c] = -1
          /\ \A d \in Connections \ {c} : subs'[d] = subs[d] /\ delta'[d] = delta[d]
      BY <3>1, <1>7
    <3>3. DOMAIN map = DOMAIN subs[c] \ {s}
      BY <3>1 DEF Removed, Restrict
    <3>4. Counted(c) = DOMAIN subs[c] /\ Counted(c)' = (Counted(c) \ {s}) \cup {0}
      BY <2>2, <3>2, <3>3 DEF Counted
    <3>5. \A d \in Connections \ {c} : Counted(d)' = Counted(d)
      BY <2>2, <3>2 DEF Counted
    <3>6. AllCounted' = (A \ ({c} \X {s})) \cup ({c} \X {0})
      <4>1. PICK S, T : S = {s} /\ T = {0}
        OBVIOUS
      <4>2. AllCounted' = (AllCounted \ ({c} \X S)) \cup ({c} \X T)
        BY <3>4, <3>5, <4>1, CountedChanged
      <4> QED
        BY <4>1, <4>2, <1>1
    <3>7. {c} \X {s} = {<<c, s>>} /\ {c} \X {0} = {<<c, 0>>}
      OBVIOUS
    <3>8. <<c, s>> \in A
      BY <2>4, <3>4, <1>1 DEF AllCounted
    <3>9. IsFiniteSet(A \ {<<c, s>>}) /\ Cardinality(A \ {<<c, s>>}) = a - 1
      BY <3>8, <1>1, <1>2, FS_RemoveElement
    <3>10. PICK B : B = A \ {<<c, s>>}
      OBVIOUS
    <3>11. IsFiniteSet(B \cup {<<c, 0>>}) /\ Cardinality(B \cup {<<c, 0>>}) <= a
      <4>1. IsFiniteSet(B) /\ Cardinality(B) = a - 1
        BY <3>9, <3>10
      <4>2. /\ IsFiniteSet(B \cup {<<c, 0>>})
            /\ \/ Cardinality(B \cup {<<c, 0>>}) = Cardinality(B)
               \/ Cardinality(B \cup {<<c, 0>>}) = Cardinality(B) + 1
        BY <4>1, FS_AddElement
      <4> QED
        BY <4>1, <4>2, <1>2
    <3>12. AllCounted' = B \cup {<<c, 0>>}
      BY <3>6, <3>7, <3>10
    <3>13. n >= Cardinality(B \cup {<<c, 0>>})
      <4>1. Cardinality(B \cup {<<c, 0>>}) \in Nat
        BY <3>11, FS_CardinalityType
      <4> QED
        BY <3>11, <4>1, <1>2
    <3> QED
      BY <3>2, <3>11, <3>12, <3>13, <1>1, <1>2 DEF CountInv, NotUndercounted
  <2> QED
    BY <2>2, <2>3, <2>4
<1>10. ASSUME NEW c \in Connections, Count(c) PROVE CountInv'
  <2>1. /\ delta[c] \in {-1, 1}
        /\ ws_subscriptions' = ws_subscriptions + delta[c]
        /\ delta'[c] = 0
        /\ \A d \in Connections \ {c} : delta'[d] = delta[d]
        /\ UNCHANGED <<subs, given>>
    BY <1>10 DEF Count, TasksOK
  <2>2. \A d \in Connections \ {c} : Counted(d)' = Counted(d)
    BY <2>1 DEF Counted
  <2>3. CASE delta[c] = 1
    <3>1. PICK s : s = Len(given[c])
      OBVIOUS
    <3>2. s \in DOMAIN subs[c]
      BY <2>3, <3>1 DEF Tasks
    <3>3. Counted(c)' = (Counted(c) \ {}) \cup {s}
      BY <2>1, <2>3, <3>1, <3>2 DEF Counted
    <3>4. AllCounted' = (A \ ({c} \X {})) \cup ({c} \X {s})
      <4>1. PICK S, T : S = {} /\ T = {s}
        OBVIOUS
      <4>2. AllCounted' = (AllCounted \ ({c} \X S)) \cup ({c} \X T)
        BY <2>2, <3>3, <4>1, CountedChanged
      <4> QED
        BY <4>1, <4>2, <1>1
    <3>5. AllCounted' = A \cup {<<c, s>>}
      BY <3>4
    <3>6. IsFiniteSet(A \cup {<<c, s>>}) /\ Cardinality(A \cup {<<c, s>>}) <= a + 1
      <4>1. /\ IsFiniteSet(A \cup {<<c, s>>})
            /\ \/ Cardinality(A \cup {<<c, s>>}) = Cardinality(A)
               \/ Cardinality(A \cup {<<c, s>>}) = Cardinality(A) + 1
        BY <1>2, FS_AddElement
      <4> QED
        BY <4>1, <1>1, <1>2
    <3>7. Cardinality(A \cup {<<c, s>>}) \in Nat
      BY <3>6, FS_CardinalityType
    <3>8. n + 1 \in Nat /\ n + 1 >= Cardinality(A \cup {<<c, s>>})
      BY <3>6, <3>7, <1>2
    <3>9. ws_subscriptions' = n + 1
      BY <2>1, <2>3, <1>1
    <3> QED
      BY <3>5, <3>6, <3>8, <3>9 DEF CountInv, NotUndercounted
  <2>4. CASE delta[c] = -1
    <3>1. Counted(c) = DOMAIN subs[c] \cup {0} /\ 0 \notin DOMAIN subs[c]
      BY <2>4, SubsFinite DEF Counted
    <3>2. Counted(c)' = (Counted(c) \ {0}) \cup {}
      BY <2>1, <3>1 DEF Counted
    <3>3. AllCounted' = (A \ ({c} \X {0})) \cup ({c} \X {})
      <4>1. PICK S, T : S = {0} /\ T = {}
        OBVIOUS
      <4>2. AllCounted' = (AllCounted \ ({c} \X S)) \cup ({c} \X T)
        BY <2>2, <3>2, <4>1, CountedChanged
      <4> QED
        BY <4>1, <4>2, <1>1
    <3>4. AllCounted' = A \ {<<c, 0>>}
      BY <3>3
    <3>5. <<c, 0>> \in A
      BY <3>1, <1>1 DEF AllCounted
    <3>6. IsFiniteSet(A \ {<<c, 0>>}) /\ Cardinality(A \ {<<c, 0>>}) = a - 1
      BY <3>5, <1>1, <1>2, FS_RemoveElement
    <3>7. Cardinality(A \ {<<c, 0>>}) \in Nat
      BY <3>6, FS_CardinalityType
    <3>8. n - 1 \in Nat /\ n - 1 >= Cardinality(A \ {<<c, 0>>})
      BY <3>6, <3>7, <1>2
    <3>9. ws_subscriptions' = n - 1
      BY <2>1, <2>4, <1>1, <1>2
    <3> QED
      BY <3>4, <3>6, <3>8, <3>9 DEF CountInv, NotUndercounted
  <2> QED
    BY <2>1, <2>3, <2>4
<1>11. ASSUME NEW c \in Connections, Cleanup(c) PROVE CountInv'
  <2>1. PICK kept \in {subs[c], <<>>} :
          /\ subs' = [subs EXCEPT ![c] = kept]
          /\ ws_subscriptions' = ws_subscriptions - Cardinality(DOMAIN subs[c] \ DOMAIN kept)
    BY <1>11 DEF Cleanup
  <2>2. PICK D : D = DOMAIN subs[c] \ DOMAIN kept
    OBVIOUS
  <2>3. UNCHANGED <<given, delta>> /\ delta[c] = 0
    BY <1>11 DEF Cleanup, Tasks, TasksOK
  <2>4. subs'[c] = kept /\ \A d \in Connections \ {c} : subs'[d] = subs[d]
    BY <2>1 DEF TasksOK
  <2>5. DOMAIN kept \subseteq DOMAIN subs[c]
    BY <2>1
  <2>6. Counted(c) = DOMAIN subs[c] /\ Counted(c)' = (Counted(c) \ D) \cup {}
    <3>1. Counted(c) = DOMAIN subs[c] /\ Counted(c)' = DOMAIN kept
      BY <2>3, <2>4 DEF Counted
    <3>2. DOMAIN kept = (DOMAIN subs[c] \ D) \cup {}
      BY <2>2, <2>5
    <3> QED
      BY <3>1, <3>2
  <2>7. \A d \in Connections \ {c} : Counted(d)' = Counted(d)
    BY <2>3, <2>4 DEF Counted
  <2>8. AllCounted' = (A \ ({c} \X D)) \cup ({c} \X {})
    <3>1. PICK T : T = {}
      OBVIOUS
    <3>2. Counted(c)' = (Counted(c) \ D) \cup T
      BY <2>6, <3>1
    <3>3. AllCounted' = (AllCounted \ ({c} \X D)) \cup ({c} \X T)
      BY <2>7, <3>2, CountedChanged
    <3> QED
      BY <3>1, <3>3, <1>1
  <2>9. PICK P : P = {c} \X D
    OBVIOUS
  <2>10. AllCounted' = A \ P /\ A \cap P = P
    <3>1. P \subseteq A
      BY <2>2, <2>6, <2>9, <1>1 DEF AllCounted
    <3> QED
      BY <2>8, <2>9, <3>1
  <2>11. IsFiniteSet(D) /\ Cardinality(D) \in Nat
    <3>1. IsFiniteSet(DOMAIN subs[c])
      BY SubsFinite
    <3>2. PICK S : S = DOMAIN subs[c] /\ IsFiniteSet(S) /\ D \in SUBSET S
      BY <3>1, <2>2
    <3> QED
      BY <3>2, FS_Subset, FS_CardinalityType
  <2>12. IsFiniteSet(P) /\ Cardinality(P) = Cardinality(D)
    <3>1. IsFiniteSet({c}) /\ Cardinality({c}) = 1
      BY FS_Singleton
    <3>2. Cardinality(P) = 1 * Cardinality(D) /\ IsFiniteSet(P)
      BY <3>1, <2>9, <2>11, FS_Product
    <3> QED
      BY <3>2, <2>11
  <2>13. IsFiniteSet(A \ P) /\ Cardinality(A \ P) = a - Cardinality(D)
    <3>1. IsFiniteSet(A \ P) /\ Cardinality(A \ P) = Cardinality(A) - Cardinality(A \cap P)
      BY <1>2, FS_Difference
    <3>2. Cardinality(A \cap P) = Cardinality(D)
      BY <2>10, <2>12
    <3> QED
      BY <3>1, <3>2, <1>1
  <2>14. Cardinality(A \ P) \in Nat
    BY <2>13, FS_CardinalityType
  <2>15. ws_subscriptions' = n - Cardinality(D)
    BY <2>1, <2>2, <1>1
  <2>16. n - Cardinality(D) \in Nat /\ n - Cardinality(D) >= Cardinality(A \ P)
    BY <2>11, <2>13, <2>14, <1>2
  <2> QED
    BY <2>10, <2>13, <2>15, <2>16 DEF CountInv, NotUndercounted
<1>12. ASSUME NEW c \in Connections, Closed(c) PROVE CountInv'
  <2>1. UNCHANGED <<ws_subscriptions, given, delta>> /\ delta[c] = 0
    BY <1>12 DEF Closed, Tasks, TasksOK
  <2>2. subs'[c] = <<>> /\ \A d \in Connections \ {c} : subs'[d] = subs[d]
    BY <1>12 DEF Closed, TasksOK
  <2>3. \A d \in Connections : Counted(d)' \subseteq Counted(d)
    BY <2>1, <2>2 DEF Counted
  <2>4. AllCounted' \subseteq A
    BY <2>3, <1>1 DEF AllCounted
  <2>5. PICK B : B = AllCounted' /\ B \in SUBSET A
    BY <2>4
  <2>6. IsFiniteSet(B) /\ Cardinality(B) <= a /\ Cardinality(B) \in Nat
    BY <2>5, <1>1, <1>2, FS_Subset, FS_CardinalityType
  <2>7. n >= Cardinality(B)
    BY <2>6, <1>2
  <2> QED
    BY <2>1, <2>5, <2>6, <2>7, <1>1, <1>2 DEF CountInv, NotUndercounted
<1> QED
  BY <1>4, <1>5, <1>6, <1>8, <1>9, <1>10, <1>11, <1>12 DEF Next, Serve, Handle

LEMMA CountInit == Init => Tasks /\ CountInv
<1> SUFFICES ASSUME Init PROVE Tasks /\ CountInv
  OBVIOUS
<1>1. Tasks
  BY DEF Init, Tasks
<1>2. \A c \in Connections : Counted(c) = {}
  BY DEF Init, Counted
<1>3. AllCounted = {}
  BY <1>2 DEF AllCounted
<1>4. IsFiniteSet(AllCounted) /\ Cardinality(AllCounted) = 0
  BY <1>3, FS_EmptySet
<1> QED
  BY <1>1, <1>4 DEF Init, CountInv, NotUndercounted
-------------------------------------------------------------------------------
\* The count of connections is that of the open ones.
OpenOnes == {c \in Connections : Open(c)}
ConnectionsCounted == ws_connection_count = Cardinality(OpenOnes)

LEMMA OpenOnesFinite == IsFiniteSet(OpenOnes) /\ Cardinality(OpenOnes) \in Nat
<1>1. PICK S : S = OpenOnes /\ S \in SUBSET Connections
  BY DEF OpenOnes
<1> QED
  BY <1>1, FS_Subset, FS_CardinalityType, WsServerAssumption DEF WsServerAssumption

LEMMA ConnectionsInit == Init => ConnectionsCounted
<1> SUFFICES ASSUME Init PROVE ConnectionsCounted
  OBVIOUS
<1>1. OpenOnes = {}
  BY DEF Init, OpenOnes, Open
<1> QED
  BY <1>1, FS_EmptySet DEF Init, ConnectionsCounted

LEMMA ConnectionsInductive ==
  TasksOK /\ ConnectionsCounted /\ [Next]_vars => ConnectionsCounted'
<1> SUFFICES ASSUME TasksOK, ConnectionsCounted, [Next]_vars PROVE ConnectionsCounted'
  OBVIOUS
<1>1. PICK S : S = OpenOnes /\ IsFiniteSet(S) /\ Cardinality(S) \in Nat
  BY OpenOnesFinite
<1>2. ASSUME UNCHANGED ws_connection_count, \A d \in Connections : Open(d)' = Open(d)
      PROVE  ConnectionsCounted'
  BY <1>2 DEF ConnectionsCounted, OpenOnes
<1>3. CASE UNCHANGED vars
  BY <1>2, <1>3 DEF vars, counters, Open
<1>4. CASE Emit
  BY <1>2, <1>4 DEF Emit, counters, Open
<1>5. ASSUME NEW c \in Connections,
             \/ Receive(c) \/ Handle(c) \/ Lag(c) \/ Dispatch(c) \/ Forward(c) \/ ForwardFails(c)
      PROVE  ConnectionsCounted'
  <2>1. UNCHANGED <<ws_connection_count, conn>>
    BY <1>5 DEF Receive, Handle, Subscribe, Unsubscribe, HandleOther, Handled, Count, Reply, Lag,
                Dispatch, Forward, ForwardFails, counters
  <2> QED
    BY <2>1, <1>2 DEF Open
<1>6. ASSUME NEW c \in Connections, Check(c) \/ UpgradeFails(c) \/ Leave(c) \/ Cleanup(c)
      PROVE  ConnectionsCounted'
  <2>1. UNCHANGED ws_connection_count
    BY <1>6 DEF Check, UpgradeFails, Leave, Cleanup, counters
  <2>2. \A d \in Connections : Open(d)' = Open(d)
    BY <1>6 DEF Check, UpgradeFails, Leave, Cleanup, ConnGoto, Open, TasksOK
  <2> QED
    BY <2>1, <2>2, <1>2
<1>7. ASSUME NEW c \in Connections, Upgraded(c) PROVE ConnectionsCounted'
  <2>1. OpenOnes' = S \cup {c} /\ c \notin S
    BY <1>7, <1>1 DEF Upgraded, ConnGoto, OpenOnes, Open, TasksOK
  <2>2. Cardinality(S \cup {c}) = Cardinality(S) + 1
    BY <2>1, <1>1, FS_AddElement
  <2> QED
    BY <2>1, <2>2, <1>1, <1>7 DEF Upgraded, ConnectionsCounted
<1>8. ASSUME NEW c \in Connections, Closed(c) PROVE ConnectionsCounted'
  <2>1. OpenOnes' = S \ {c} /\ c \in S
    BY <1>8, <1>1 DEF Closed, ConnGoto, OpenOnes, Open, TasksOK
  <2>2. Cardinality(S \ {c}) = Cardinality(S) - 1
    BY <2>1, <1>1, FS_RemoveElement
  <2> QED
    BY <2>1, <2>2, <1>1, <1>8 DEF Closed, ConnectionsCounted
<1> QED
  BY <1>3, <1>4, <1>5, <1>6, <1>7, <1>8 DEF Next, Serve
-------------------------------------------------------------------------------
\* A handshake that no other connection has overtaken still has the room that it found.
Unraced == {c \in Connections : Open(c) /\ ~raced[c]}
LimitInv ==
  /\ raced \in [Connections -> BOOLEAN]
  /\ \A c \in Connections : conn[c] = "upgrading" /\ ~raced[c] =>
       ws_connection_count < MAX_WS_CONNECTIONS
  /\ LimitUnlessRaced

LEMMA UnracedFinite ==
  /\ IsFiniteSet(Unraced)
  /\ Cardinality(Unraced) \in Nat
  /\ Cardinality(Unraced) <= Cardinality(OpenOnes)
<1>1. PICK S, T : S = OpenOnes /\ T = Unraced /\ T \subseteq S
  BY DEF OpenOnes, Unraced
<1>2. IsFiniteSet(S) /\ Cardinality(S) \in Nat
  BY <1>1, OpenOnesFinite
<1>3. IsFiniteSet(T) /\ Cardinality(T) <= Cardinality(S)
  BY <1>1, <1>2, FS_Subset
<1> QED
  BY <1>1, <1>3, FS_CardinalityType

LEMMA LimitInit == Init => LimitInv
<1> SUFFICES ASSUME Init PROVE LimitInv
  OBVIOUS
<1>1. {c \in Connections : Open(c) /\ ~raced[c]} = {}
  BY DEF Init, Open
<1>2. LimitUnlessRaced
  <2>1. MAX_WS_CONNECTIONS \in Nat
    BY WsServerAssumption DEF WsServerAssumption
  <2>2. Cardinality({c \in Connections : Open(c) /\ ~raced[c]}) = 0
    BY <1>1, FS_EmptySet
  <2> QED
    BY <2>1, <2>2 DEF LimitUnlessRaced
<1> QED
  BY <1>2 DEF Init, LimitInv

LEMMA LimitInductive ==
  TasksOK /\ ConnectionsCounted /\ LimitInv /\ [Next]_vars => LimitInv'
<1> SUFFICES ASSUME TasksOK, ConnectionsCounted, LimitInv, [Next]_vars PROVE LimitInv'
  OBVIOUS
<1>1. PICK U, count, max :
        /\ U = Unraced /\ IsFiniteSet(U) /\ Cardinality(U) \in Nat /\ Cardinality(U) <= max
        /\ count = ws_connection_count /\ count \in Nat /\ Cardinality(U) <= count
        /\ max = MAX_WS_CONNECTIONS /\ max \in Nat
  BY UnracedFinite, OpenOnesFinite, WsServerAssumption
  DEF WsServerAssumption, LimitInv, LimitUnlessRaced, Unraced, ConnectionsCounted
<1>2. ASSUME raced' \in [Connections -> BOOLEAN], Unraced' \subseteq U,
             \A d \in Connections : conn'[d] = "upgrading" /\ ~raced'[d] =>
               ws_connection_count' < max
      PROVE  LimitInv'
  <2>1. Cardinality(Unraced') <= Cardinality(U) /\ Cardinality(Unraced') \in Nat
    BY <1>1, <1>2, FS_Subset, FS_CardinalityType
  <2>2. Cardinality(Unraced') <= max
    BY <1>1, <2>1
  <2>3. LimitUnlessRaced'
    BY <1>1, <2>2 DEF LimitUnlessRaced, Unraced
  <2> QED
    BY <1>1, <1>2, <2>3 DEF LimitInv
<1>3. ASSUME UNCHANGED <<ws_connection_count, conn, raced>> PROVE LimitInv'
  BY <1>3 DEF LimitInv, LimitUnlessRaced, Open
<1>4. CASE UNCHANGED vars
  BY <1>3, <1>4 DEF vars, counters
<1>5. CASE Emit
  BY <1>3, <1>5 DEF Emit, counters
<1>6. ASSUME NEW c \in Connections,
             \/ Receive(c) \/ Handle(c) \/ Lag(c) \/ Dispatch(c) \/ Forward(c) \/ ForwardFails(c)
      PROVE  LimitInv'
  BY <1>3, <1>6 DEF Receive, Handle, Subscribe, Unsubscribe, HandleOther, Handled, Count, Reply,
                    Lag, Dispatch, Forward, ForwardFails, counters
<1>7. ASSUME NEW c \in Connections, Check(c) PROVE LimitInv'
  <2>1. UNCHANGED <<ws_connection_count, raced>> /\ count < max
    BY <1>1, <1>7 DEF Check, counters
  <2>2. Unraced' \subseteq U
    BY <1>1, <1>7, <2>1 DEF Check, ConnGoto, Unraced, Open, TasksOK
  <2> QED
    BY <1>1, <1>2, <2>1, <2>2 DEF LimitInv
<1>8. ASSUME NEW c \in Connections, UpgradeFails(c) \/ Leave(c) \/ Cleanup(c) PROVE LimitInv'
  <2>1. UNCHANGED <<ws_connection_count, raced>>
    BY <1>8 DEF UpgradeFails, Leave, Cleanup, counters
  <2>2. /\ Unraced' \subseteq U
        /\ \A d \in Connections : conn'[d] = "upgrading" => conn[d] = "upgrading"
    BY <1>1, <1>8, <2>1 DEF UpgradeFails, Leave, Cleanup, ConnGoto, Unraced, Open, TasksOK
  <2> QED
    BY <1>1, <1>2, <2>1, <2>2 DEF LimitInv
<1>9. ASSUME NEW c \in Connections, Closed(c) PROVE LimitInv'
  <2>1. ws_connection_count' = count - 1 /\ UNCHANGED raced
    BY <1>1, <1>9 DEF Closed
  <2>2. /\ Unraced' \subseteq U
        /\ \A d \in Connections : conn'[d] = "upgrading" => conn[d] = "upgrading"
    BY <1>1, <1>9, <2>1 DEF Closed, ConnGoto, Unraced, Open, TasksOK
  <2>3. \A d \in Connections : conn[d] = "upgrading" /\ ~raced[d] => count < max
    BY <1>1 DEF LimitInv
  <2>4. count < max => count - 1 < max
    BY <1>1
  <2> QED
    BY <1>2, <2>1, <2>2, <2>3, <2>4 DEF LimitInv
<1>10. ASSUME NEW c \in Connections, Upgraded(c) PROVE LimitInv'
  <2>1. /\ raced' = [d \in Connections |-> raced[d] \/ (d # c /\ conn[d] = "upgrading")]
        /\ conn[c] = "upgrading" /\ conn' = [conn EXCEPT ![c] = "open"]
    BY <1>10 DEF Upgraded, ConnGoto
  <2>2. \A d \in Connections : conn'[d] # "upgrading" \/ raced'[d]
    BY <2>1 DEF TasksOK
  <2>3. raced' \in [Connections -> BOOLEAN]
    BY <2>1 DEF LimitInv
  <2>4. CASE raced[c]
    <3>1. Unraced' \subseteq U
      BY <1>1, <2>1, <2>4 DEF Unraced, Open, TasksOK
    <3> QED
      BY <1>2, <2>2, <2>3, <3>1
  <2>5. CASE ~raced[c]
    <3>1. count < max
      BY <1>1, <2>1, <2>5 DEF LimitInv
    <3>2. Unraced' \subseteq U \cup {c} /\ c \notin U
      BY <1>1, <2>1 DEF Unraced, Open, TasksOK
    <3>3. IsFiniteSet(U \cup {c}) /\ Cardinality(U \cup {c}) = Cardinality(U) + 1
      BY <1>1, <3>2, FS_AddElement
    <3>4. IsFiniteSet(Unraced') /\ Cardinality(Unraced') <= Cardinality(U) + 1
      BY <3>2, <3>3, FS_Subset
    <3>5. Cardinality(Unraced') <= max
      <4>1. Cardinality(Unraced') \in Nat
        BY <3>4, FS_CardinalityType
      <4> QED
        BY <1>1, <3>1, <3>4, <4>1
    <3>6. LimitUnlessRaced'
      BY <1>1, <3>5 DEF LimitUnlessRaced, Unraced
    <3> QED
      BY <2>2, <2>3, <3>6 DEF LimitInv
  <2> QED
    BY <2>4, <2>5
<1> QED
  BY <1>4, <1>5, <1>6, <1>7, <1>8, <1>9, <1>10 DEF Next, Serve

-------------------------------------------------------------------------------
\* No reply is a notification, and the subscription of one that confirms an
\* unsubscribe has been given and is no more: what is in either queue can be followed
\* by any notification for the subscriptions there are.
Gone(c) == DOMAIN given[c] \ DOMAIN subs[c]
Over(m, gone) == m.kind = "unsubscribed" => m.sub \in gone
Confirmed ==
  \A c \in Connections :
    /\ \A i \in DOMAIN replies[c] : replies[c][i].kind # "notice" /\ Over(replies[c][i], Gone(c))
    /\ \A i \in DOMAIN out[c] : Over(out[c][i], Gone(c))

QuietSeq(o) ==
  \A i, j \in DOMAIN o : o[i].kind = "unsubscribed" /\ i < j => ~IsNoticeOf(o[j], o[i].sub)

LEMMA QuietConcat ==
  ASSUME NEW o \in Seq(Messages), NEW more \in Seq(Messages), QuietSeq(o),
         \/ \A j \in DOMAIN more : more[j].kind # "notice"
         \/ \E gone : /\ \A i \in DOMAIN o : Over(o[i], gone)
                      /\ \A j \in DOMAIN more : more[j].kind = "notice" /\ more[j].sub \notin gone
  PROVE  QuietSeq(o \o more)
<1>1. Len(o) \in Nat /\ DOMAIN o = 1..Len(o) /\ Len(more) \in Nat /\ DOMAIN more = 1..Len(more)
  OBVIOUS
<1>2. DOMAIN (o \o more) = 1..Len(o) + Len(more)
  BY <1>1
<1> SUFFICES ASSUME NEW i \in 1..Len(o) + Len(more), NEW j \in 1..Len(o) + Len(more),
                    (o \o more)[i].kind = "unsubscribed", i < j
             PROVE  ~IsNoticeOf((o \o more)[j], (o \o more)[i].sub)
  BY <1>2 DEF QuietSeq
<1>3. \A k \in 1..Len(o) : (o \o more)[k] = o[k]
  OBVIOUS
<1>4. \A k \in 1..Len(o) + Len(more) : k > Len(o) =>
        k - Len(o) \in DOMAIN more /\ (o \o more)[k] = more[k - Len(o)]
  BY <1>1
<1>5. CASE j <= Len(o)
  BY <1>5, <1>1, <1>3 DEF QuietSeq
<1>6. CASE j > Len(o) /\ i <= Len(o)
  <2>1. (o \o more)[i] = o[i] /\ i \in DOMAIN o
    BY <1>6, <1>1, <1>3
  <2>2. PICK k \in DOMAIN more : (o \o more)[j] = more[k]
    BY <1>6, <1>1, <1>4
  <2>3. CASE \A l \in DOMAIN more : more[l].kind # "notice"
    BY <2>2, <2>3 DEF IsNoticeOf
  <2>4. ASSUME NEW gone, \A l \in DOMAIN o : Over(o[l], gone),
               \A l \in DOMAIN more : more[l].sub \notin gone
        PROVE  ~IsNoticeOf((o \o more)[j], (o \o more)[i].sub)
    <3>1. o[i].sub \in gone /\ more[k].sub \notin gone
      BY <2>1, <2>4 DEF Over
    <3> QED
      BY <3>1, <2>1, <2>2 DEF IsNoticeOf
  <2> QED
    BY <2>3, <2>4
<1>7. CASE j > Len(o) /\ i > Len(o)
  BY <1>7, <1>1, <1>4 DEF IsNoticeOf
<1> QED
  BY <1>1, <1>5, <1>6, <1>7

\* What has gone does not come back: an id is given once.
LEMMA GoneForGood ==
  ASSUME TasksOK, [Next]_vars, NEW c \in Connections
  PROVE  Gone(c) \subseteq Gone(c)'
<1>1. CASE UNCHANGED <<given, subs>>
  BY <1>1 DEF Gone
<1>2. ASSUME NEW d \in Connections, Subscribe(d) PROVE Gone(c) \subseteq Gone(c)'
  <2> DEFINE params == Head(work[d]).params
             s == Len(given[d]) + 1
             entry == [params |-> params, since |-> cursor[d]]
  <2>1. /\ given' = [given EXCEPT ![d] = Append(given[d], entry)]
        /\ subs' = [subs EXCEPT ![d] = Inserted(subs[d], s, Subscription(params))]
    BY <1>2 DEF Subscribe, Handled
  <2>2. given[d] \in Seq([params : Params, since : 0..MaxEvents])
    BY DEF TasksOK
  <2>3. DOMAIN Append(given[d], entry) = DOMAIN given[d] \cup {s} /\ s \notin DOMAIN given[d]
    <3> HIDE DEF entry
    <3> QED
      BY <2>2
  <2> HIDE DEF s, params, entry
  <2>4. CASE c = d
    <3>1. DOMAIN given'[c] = DOMAIN given[c] \cup {s} /\ DOMAIN subs'[c] = DOMAIN subs[c] \cup {s}
      BY <2>1, <2>3, <2>4 DEF TasksOK, Inserted
    <3> QED
      BY <3>1, <2>3, <2>4 DEF Gone
  <2>5. CASE c # d
    BY <2>1, <2>5 DEF TasksOK, Gone
  <2> QED
    BY <2>4, <2>5
<1>3. ASSUME NEW d \in Connections, Unsubscribe(d) \/ HandleOther(d) \/ Cleanup(d) \/ Closed(d)
      PROVE  Gone(c) \subseteq Gone(c)'
  <2>1. PICK s : s = Head(work[d]).id
    OBVIOUS
  <2>2. UNCHANGED given
    BY <1>3 DEF Unsubscribe, HandleOther, Cleanup, Closed
  <2>3. PICK map \in {subs[d], <<>>, Removed(subs[d], s)} : subs' = [subs EXCEPT ![d] = map]
    BY <1>3, <2>1 DEF Unsubscribe, HandleOther, Handled, Cleanup, Closed
  <2>4. DOMAIN map \subseteq DOMAIN subs[d]
    BY <2>3 DEF Removed, Restrict
  <2> QED
    BY <2>2, <2>3, <2>4 DEF TasksOK, Gone
<1>4. CASE UNCHANGED vars
  BY <1>1, <1>4 DEF vars, handling
<1>5. CASE Emit
  BY <1>1, <1>5 DEF Emit, handling
<1>6. ASSUME NEW d \in Connections,
             \/ Check(d) \/ UpgradeFails(d) \/ Upgraded(d) \/ Receive(d) \/ Leave(d) \/ Lag(d)
             \/ Dispatch(d) \/ Forward(d) \/ ForwardFails(d) \/ Count(d) \/ Reply(d)
      PROVE  Gone(c) \subseteq Gone(c)'
  BY <1>1, <1>6 DEF Check, UpgradeFails, Upgraded, Receive, Leave, Lag, Dispatch, Forward,
                    ForwardFails, Count, Reply, handling
<1> QED
  BY <1>2, <1>3, <1>4, <1>5, <1>6 DEF Next, Serve, Handle

LEMMA QuietInit == Init => Confirmed /\ UnsubscribedIsQuiet
BY DEF Init, Confirmed, UnsubscribedIsQuiet

LEMMA QuietInductive ==
  TasksOK /\ Confirmed /\ UnsubscribedIsQuiet /\ [Next]_vars
    => Confirmed' /\ UnsubscribedIsQuiet'
<1> SUFFICES ASSUME TasksOK, Confirmed, UnsubscribedIsQuiet, [Next]_vars
             PROVE  Confirmed' /\ UnsubscribedIsQuiet'
  OBVIOUS
<1>1. \A d \in Connections : \A m : Over(m, Gone(d)) => Over(m, Gone(d)')
  <2>1. \A d \in Connections : Gone(d) \subseteq Gone(d)'
    BY GoneForGood
  <2> QED
    BY <2>1 DEF Over
<1>2. ASSUME UNCHANGED <<replies, out>> PROVE Confirmed' /\ UnsubscribedIsQuiet'
  BY <1>1, <1>2 DEF Confirmed, UnsubscribedIsQuiet
<1>3. ASSUME NEW c \in Connections, NEW reply, UNCHANGED out,
             replies' = [replies EXCEPT ![c] = Append(replies[c], reply)],
             reply.kind # "notice", Over(reply, Gone(c)')
      PROVE  Confirmed' /\ UnsubscribedIsQuiet'
  <2>1. UnsubscribedIsQuiet'
    BY <1>3 DEF UnsubscribedIsQuiet
  <2>2. ASSUME NEW d \in Connections, NEW i \in DOMAIN replies'[d]
        PROVE  replies'[d][i].kind # "notice" /\ Over(replies'[d][i], Gone(d)')
    <3>1. CASE d # c
      <4>1. replies'[d] = replies[d]
        BY <1>3, <3>1 DEF TasksOK
      <4> QED
        BY <4>1, <1>1, <2>2 DEF Confirmed
    <3>2. CASE d = c
      <4>1. PICK old : old = replies[c] /\ old \in Seq(Messages) /\ replies'[c] = Append(old, reply)
        BY <1>3 DEF TasksOK
      <4>2. (i \in DOMAIN old /\ replies'[c][i] = old[i]) \/ replies'[c][i] = reply
        BY <4>1, <2>2, <3>2
      <4> QED
        BY <4>1, <4>2, <3>2, <1>1, <1>3 DEF Confirmed
    <3> QED
      BY <3>1, <3>2
  <2>3. \A d \in Connections : \A i \in DOMAIN out'[d] : Over(out'[d][i], Gone(d)')
    BY <1>1, <1>3 DEF Confirmed
  <2> QED
    BY <2>1, <2>2, <2>3 DEF Confirmed
<1>4. ASSUME NEW c \in Connections, NEW more \in Seq(Messages), Enqueue(c, more),
             \A j \in DOMAIN more : Over(more[j], Gone(c)),
             UNCHANGED replies \/ replies' = [replies EXCEPT ![c] = <<>>],
             \/ \A j \in DOMAIN more : more[j].kind # "notice"
             \/ \A j \in DOMAIN more : more[j].kind = "notice" /\ more[j].sub \notin Gone(c)
      PROVE  Confirmed' /\ UnsubscribedIsQuiet'
  <2>1. \A d \in Connections : out[d] \in Seq(Messages) /\ QuietSeq(out[d])
    BY DEF TasksOK, UnsubscribedIsQuiet, QuietSeq
  <2>2. \A d \in Connections : replies'[d] = replies[d] \/ replies'[d] = <<>>
    BY <1>4 DEF TasksOK
  <2>3. \A d \in Connections \ {c} : out'[d] = out[d]
    BY <1>4 DEF Enqueue, TasksOK
  <2>4. PICK old : old = out[c] /\ old \in Seq(Messages) /\ QuietSeq(old)
    BY <2>1
  <2>5. out'[c] = old \/ out'[c] = old \o more
    BY <1>4, <2>4 DEF Enqueue, TasksOK
  <2>6. \A i \in DOMAIN old : Over(old[i], Gone(c))
    BY <2>4 DEF Confirmed
  <2>7. QuietSeq(old \o more)
    <3>1. PICK gone : gone = Gone(c)
      OBVIOUS
    <3>2. \A i \in DOMAIN old : Over(old[i], gone)
      BY <2>6, <3>1
    <3>3. \/ \A j \in DOMAIN more : more[j].kind # "notice"
          \/ \A j \in DOMAIN more : more[j].kind = "notice" /\ more[j].sub \notin gone
      BY <1>4, <3>1
    <3> QED
      BY <2>4, <3>2, <3>3, QuietConcat
  <2>8. \A i \in DOMAIN (old \o more) : Over((old \o more)[i], Gone(c))
    <3> TAKE i \in DOMAIN (old \o more)
    <3>1. \/ i \in DOMAIN old /\ (old \o more)[i] = old[i]
          \/ \E j \in DOMAIN more : (old \o more)[i] = more[j]
      BY <2>4
    <3> QED
      BY <3>1, <2>6, <1>4
  <2>9. \A d \in Connections : QuietSeq(out'[d])
    BY <2>1, <2>3, <2>4, <2>5, <2>7
  <2>10. \A d \in Connections : \A i \in DOMAIN out'[d] : Over(out'[d][i], Gone(d)')
    BY <1>1, <2>3, <2>5, <2>6, <2>8 DEF Confirmed
  <2>11. UnsubscribedIsQuiet'
    BY <2>9 DEF UnsubscribedIsQuiet, QuietSeq
  <2>12. \A d \in Connections : \A i \in DOMAIN replies'[d] :
           replies'[d][i].kind # "notice" /\ Over(replies'[d][i], Gone(d)')
    BY <1>1, <2>2 DEF Confirmed
  <2> QED
    BY <2>10, <2>11, <2>12 DEF Confirmed
<1>5. CASE UNCHANGED vars
  BY <1>2, <1>5 DEF vars, handling, queue
<1>6. CASE Emit
  BY <1>2, <1>6 DEF Emit, handling, queue
<1>7. ASSUME NEW c \in Connections,
             \/ Check(c) \/ UpgradeFails(c) \/ Upgraded(c) \/ Receive(c) \/ Leave(c) \/ Lag(c)
             \/ Forward(c) \/ ForwardFails(c) \/ Count(c) \/ Cleanup(c) \/ Closed(c)
      PROVE  Confirmed' /\ UnsubscribedIsQuiet'
  BY <1>2, <1>7 DEF Check, UpgradeFails, Upgraded, Receive, Leave, Lag, Forward, ForwardFails,
                    Count, Cleanup, Closed, handling, queue
<1>8. ASSUME NEW c \in Connections, Subscribe(c) PROVE Confirmed' /\ UnsubscribedIsQuiet'
  <2>1. PICK reply : /\ reply = Answered("subscribed", Len(given[c]) + 1)
                     /\ replies' = [replies EXCEPT ![c] = Append(replies[c], reply)]
                     /\ UNCHANGED out
    BY <1>8 DEF Subscribe, Handled, queue
  <2>2. reply.kind = "subscribed"
    BY <2>1 DEF Answered, Message
  <2> QED
    BY <2>1, <2>2, <1>3 DEF Over
<1>9. ASSUME NEW c \in Connections, HandleOther(c) PROVE Confirmed' /\ UnsubscribedIsQuiet'
  <2>1. PICK reply : /\ reply = Answered("answer", 0)
                     /\ replies' = [replies EXCEPT ![c] = Append(replies[c], reply)]
                     /\ UNCHANGED out
    BY <1>9 DEF HandleOther, Handled, queue
  <2>2. reply.kind = "answer"
    BY <2>1 DEF Answered, Message
  <2> QED
    BY <2>1, <2>2, <1>3 DEF Over
<1>10. ASSUME NEW c \in Connections, Unsubscribe(c) PROVE Confirmed' /\ UnsubscribedIsQuiet'
  <2>1. PICK s : s = Head(work[c]).id
    OBVIOUS
  <2>2. UNCHANGED given
    BY <1>10 DEF Unsubscribe
  <2>3. CASE s \in DOMAIN subs[c] /\ Handled(c, Removed(subs[c], s), -1, Answered("unsubscribed", s))
    <3>1. PICK reply : /\ reply = Answered("unsubscribed", s)
                       /\ replies' = [replies EXCEPT ![c] = Append(replies[c], reply)]
                       /\ UNCHANGED out
      BY <2>3 DEF Handled, queue
    <3>2. reply.kind = "unsubscribed" /\ reply.sub = s
      BY <3>1 DEF Answered, Message
    <3>3. s \in DOMAIN given[c] /\ DOMAIN subs'[c] = DOMAIN subs[c] \ {s}
      BY <2>3 DEF Handled, Removed, Restrict, TasksOK, ManagerOK
    <3>4. Over(reply, Gone(c)')
      BY <3>2, <3>3, <2>2 DEF Over, Gone
    <3> QED
      BY <3>1, <3>2, <3>4, <1>3
  <2>4. CASE Handled(c, subs[c], 0, Answered("unknown", s))
    <3>1. PICK reply : /\ reply = Answered("unknown", s)
                       /\ replies' = [replies EXCEPT ![c] = Append(replies[c], reply)]
                       /\ UNCHANGED out
      BY <2>4 DEF Handled, queue
    <3>2. reply.kind = "unknown"
      BY <3>1 DEF Answered, Message
    <3> QED
      BY <3>1, <3>2, <1>3 DEF Over
  <2> QED
    BY <1>10, <2>1, <2>3, <2>4 DEF Unsubscribe
<1>11. ASSUME NEW c \in Connections, Reply(c) PROVE Confirmed' /\ UnsubscribedIsQuiet'
  <2>1. PICK more : more = replies[c] /\ more \in Seq(Messages)
    BY DEF TasksOK
  <2>2. Enqueue(c, more) /\ replies' = [replies EXCEPT ![c] = <<>>]
    BY <1>11, <2>1 DEF Reply
  <2>3. \A j \in DOMAIN more : more[j].kind # "notice" /\ Over(more[j], Gone(c))
    BY <2>1 DEF Confirmed
  <2> QED
    BY <2>1, <2>2, <2>3, <1>4
<1>12. ASSUME NEW c \in Connections, Dispatch(c) PROVE Confirmed' /\ UnsubscribedIsQuiet'
  <2>1. PICK more \in Seq(Live(c)) : Enqueue(c, more)
    BY <1>12, DispatchesLive
  <2>2. more \in Seq(Messages)
    BY DEF Live, NoticesTo
  <2>3. \A j \in DOMAIN more : more[j].kind = "notice" /\ more[j].sub \in DOMAIN subs[c]
    BY DEF Live, NoticesTo
  <2>4. UNCHANGED replies
    BY <1>12 DEF Dispatch, handling
  <2> QED
    BY <2>1, <2>2, <2>3, <2>4, <1>4 DEF Over, Gone
<1> QED
  BY <1>5, <1>6, <1>7, <1>8, <1>9, <1>10, <1>11, <1>12 DEF Next, Serve, Handle
-------------------------------------------------------------------------------
\* Nothing was registered before the connection is open, a subscription is what its
\* parameters ask for, and the dispatcher, which only moves on, is past the events of
\* all notifications: the next event's follow them.
Registered(c) ==
  /\ conn[c] \in {"none", "upgrading"} => given[c] = <<>>
  /\ \A s \in DOMAIN given[c] : given[c][s].since <= cursor[c]
  /\ \A s \in DOMAIN subs[c] : subs[c][s] = Subscription(given[c][s].params)
  /\ \A i \in DOMAIN out[c] : out[c][i].kind = "notice" =>
       out[c][i].sub \in DOMAIN given[c] /\ out[c][i].event <= cursor[c]
Gapless(c) ==
  \A s \in DOMAIN subs[c] : ~lagged[c] /\ writing[c] => Delivers(out[c], s, Due(c, s))
Streams == \A c \in Connections : Registered(c) /\ Gapless(c)

LEMMA StreamsInit == Init => Streams
<1> SUFFICES ASSUME Init, NEW c \in Connections PROVE Registered(c) /\ Gapless(c)
  BY DEF Streams
<1>1. subs[c] = <<>> /\ given[c] = <<>> /\ out[c] = <<>>
  BY DEF Init
<1> QED
  BY <1>1 DEF Registered, Gapless

\* A step that takes subscriptions away, or nothing, and sends nothing.
LEMMA StreamsKept ==
  ASSUME NEW c \in Connections, Registered(c), Gapless(c),
         given'[c] = given[c], out'[c] = out[c], cursor'[c] = cursor[c],
         lagged'[c] = lagged[c], writing'[c] => writing[c],
         conn'[c] \in {"none", "upgrading"} => conn[c] \in {"none", "upgrading"},
         DOMAIN subs'[c] \subseteq DOMAIN subs[c],
         \A s \in DOMAIN subs'[c] : subs'[c][s] = subs[c][s]
  PROVE  Registered(c)' /\ Gapless(c)'
<1>1. Registered(c)'
  BY DEF Registered
<1>2. ASSUME NEW s \in DOMAIN subs[c] PROVE Due(c, s)' = Due(c, s)
  BY DEF Due, Wanted
<1> QED
  BY <1>1, <1>2 DEF Gapless

LEMMA EventFacts ==
  ASSUME NEW o \in Seq(Messages), NEW i \in DOMAIN o
  PROVE  o[i].event \in Nat
<1>1. PICK m \in Messages : m = o[i]
  OBVIOUS
<1>2. m.event \in 0..MaxEvents
  BY DEF Messages
<1> QED
  BY <1>1, <1>2, FeedFacts

LEMMA GivenFacts ==
  ASSUME TasksOK, NEW c \in Connections
  PROVE  /\ cursor[c] \in Nat
         /\ \A s \in DOMAIN given[c] : given[c][s].params \in Params /\ given[c][s].since \in Nat
<1>1. PICK top \in Nat : top = MaxEvents
  BY FeedFacts
<1>2. cursor[c] \in 0..top
  BY <1>1 DEF TasksOK
<1>3. PICK T, g : T = [params : Params, since : 0..top] /\ g = given[c] /\ g \in Seq(T)
  BY <1>1 DEF TasksOK
<1>4. \A s \in DOMAIN g : g[s] \in T
  BY <1>3, ElementOfSeq, LenProperties
<1>5. \A s \in DOMAIN g : g[s].params \in Params /\ g[s].since \in Nat
  BY <1>1, <1>3, <1>4
<1> QED
  BY <1>1, <1>2, <1>3, <1>5

LEMMA WantedFacts ==
  ASSUME NEW s, NEW params, NEW n, NEW m \in Wanted(s, params, n)
  PROVE  m.kind = "notice" /\ m.sub = s /\ m.event = n
BY DEF Wanted, Notice, Message

\* What is put into the queue, with the events that it is about.
LEMMA StreamsEnqueue ==
  ASSUME TasksOK, NEW c \in Connections, Registered(c), Gapless(c),
         NEW more \in Seq(Messages), Enqueue(c, more), NEW cur \in Nat,
         cursor'[c] = cur, cursor[c] <= cur,
         given'[c] = given[c], subs'[c] = subs[c], lagged'[c] = lagged[c],
         writing'[c] = writing[c], conn'[c] = conn[c],
         \A i \in DOMAIN more : more[i].kind = "notice" =>
           more[i].sub \in DOMAIN given[c] /\ more[i].event <= cur,
         \A s \in DOMAIN subs[c] :
           \E E : /\ Delivers(more, s, E)
                  /\ \A m \in E : cursor[c] < m.event
                  /\ Due(c, s)' = Due(c, s) \cup E
  PROVE  Registered(c)' /\ Gapless(c)'
<1>1. PICK old : old = out[c] /\ old \in Seq(Messages)
  BY DEF TasksOK
<1>2. out'[c] = IF writing[c] THEN old \o more ELSE old
  BY <1>1 DEF Enqueue, TasksOK
<1>3. cursor[c] \in Nat /\ \A s \in DOMAIN given[c] : given[c][s].since \in Nat
  BY GivenFacts
<1>4. \A i \in DOMAIN old : old[i].kind = "notice" =>
        old[i].sub \in DOMAIN given[c] /\ old[i].event \in Nat /\ old[i].event <= cursor[c]
  BY <1>1, EventFacts DEF Registered
<1>5. \A i \in DOMAIN (old \o more) :
        \/ i \in DOMAIN old /\ (old \o more)[i] = old[i]
        \/ \E j \in DOMAIN more : (old \o more)[i] = more[j]
  BY <1>1
<1>6. Registered(c)'
  <2>1. \A i \in DOMAIN out'[c] : out'[c][i].kind = "notice" =>
          out'[c][i].sub \in DOMAIN given[c] /\ out'[c][i].event <= cur
    <3>1. \A i \in DOMAIN old : old[i].kind = "notice" =>
            old[i].sub \in DOMAIN given[c] /\ old[i].event <= cur
      BY <1>3, <1>4
    <3> QED
      BY <1>2, <1>5, <3>1
  <2>2. \A s \in DOMAIN given[c] : given[c][s].since <= cur
    BY <1>3 DEF Registered
  <2> QED
    BY <2>1, <2>2 DEF Registered
<1>7. ASSUME NEW s \in DOMAIN subs[c], ~lagged[c], writing[c]
      PROVE  Delivers(old \o more, s, Due(c, s)')
  <2>1. PICK D, E : /\ D = Due(c, s) /\ Delivers(more, s, E)
                    /\ \A m \in E : cursor[c] < m.event
                    /\ Due(c, s)' = D \cup E
    OBVIOUS
  <2>2. Delivers(old, s, D)
    BY <1>1, <1>7, <2>1 DEF Gapless
  <2>3. \A m \in D : m.event \in Nat /\ m.event <= cursor[c]
    BY <2>2, <1>4 DEF Delivers, IsNoticeOf
  <2>4. \A m \in E : m.event \in Nat
    <3>1. \A m \in E : \E j \in DOMAIN more : more[j] = m
      BY <2>1 DEF Delivers
    <3> QED
      BY <3>1, EventFacts
  <2>5. \A m1 \in D, m2 \in E : Precedes(m1, m2)
    BY <1>3, <2>1, <2>3, <2>4 DEF Precedes
  <2>6. Delivers(old \o more, s, D \cup E)
    BY <1>1, <2>1, <2>2, <2>5, DeliversConcat
  <2> QED
    BY <2>1, <2>6
<1> QED
  BY <1>2, <1>6, <1>7 DEF Gapless

LEMMA StreamsSubscribe ==
  ASSUME TasksOK, NEW c \in Connections, conn[c] = "open", Registered(c), Gapless(c),
         Subscribe(c)
  PROVE  Registered(c)' /\ Gapless(c)'
<1>0. PICK params, s, entry :
        /\ params = Head(work[c]).params
        /\ s = Len(given[c]) + 1
        /\ entry = [params |-> params, since |-> cursor[c]]
  OBVIOUS
<1>1. /\ given' = [given EXCEPT ![c] = Append(given[c], entry)]
      /\ subs' = [subs EXCEPT ![c] = Inserted(subs[c], s, Subscription(params))]
      /\ UNCHANGED <<conn, cursor, lagged, queue>>
  BY <1>0 DEF Subscribe, Handled
<1>2. PICK g : g = given[c] /\ g \in Seq([params : Params, since : 0..MaxEvents])
  BY DEF TasksOK
<1>3. given'[c] = Append(g, entry) /\ s = Len(g) + 1
  BY <1>0, <1>1, <1>2 DEF TasksOK
<1>4. subs'[c] = Inserted(subs[c], s, Subscription(params))
  BY <1>1 DEF TasksOK
<1>5. /\ DOMAIN given'[c] = DOMAIN g \cup {s} /\ s \notin DOMAIN g
      /\ given'[c][s] = entry /\ \A t \in DOMAIN g : given'[c][t] = g[t]
  BY <1>2, <1>3
<1>6. entry.params = params /\ entry.since = cursor[c]
  BY <1>0
<1>7. UNCHANGED <<conn, cursor, lagged, out, writing>>
  BY <1>1 DEF queue
<1>8. /\ DOMAIN subs'[c] = DOMAIN subs[c] \cup {s}
      /\ subs'[c][s] = Subscription(params)
      /\ \A t \in DOMAIN subs[c] \ {s} : subs'[c][t] = subs[c][t]
  BY <1>4 DEF Inserted
<1>9. cursor[c] \in Nat /\ DOMAIN subs[c] \subseteq DOMAIN g
  BY <1>2, GivenFacts DEF TasksOK, ManagerOK
<1>10. Registered(c)'
  <2>1. \A t \in DOMAIN given'[c] : given'[c][t].since <= cursor[c]
    BY <1>2, <1>5, <1>6, <1>9 DEF Registered
  <2>2. \A t \in DOMAIN subs'[c] : subs'[c][t] = Subscription(given'[c][t].params)
    BY <1>2, <1>5, <1>6, <1>8, <1>9 DEF Registered
  <2>3. \A i \in DOMAIN out[c] : out[c][i].kind = "notice" =>
          out[c][i].sub \in DOMAIN given'[c] /\ out[c][i].event <= cursor[c]
    BY <1>2, <1>5 DEF Registered
  <2> QED
    BY <2>1, <2>2, <2>3, <1>7 DEF Registered
<1>11. ASSUME NEW t \in DOMAIN subs[c] PROVE t # s /\ Due(c, t)' = Due(c, t)
  <2>1. given'[c][t] = given[c][t] /\ t # s
    BY <1>2, <1>5, <1>9
  <2> QED
    BY <2>1, <1>7 DEF Due, Wanted
<1>12. Delivers(out[c], s, Due(c, s)')
  <2>1. \A j \in DOMAIN out[c] : ~IsNoticeOf(out[c][j], s)
    BY <1>2, <1>5 DEF Registered, IsNoticeOf
  <2>2. given'[c][s].since + 1..cursor'[c] = {}
    BY <1>5, <1>6, <1>7, <1>9
  <2>3. Due(c, s)' = {}
    <3>1. PICK params1, events1 :
            params1 = given'[c][s].params /\ events1 = given'[c][s].since + 1..cursor'[c]
      OBVIOUS
    <3>2. Due(c, s)' = UNION {Wanted(s, params1, n) : n \in events1}
      BY <3>1 DEF Due, Wanted
    <3>3. events1 = {}
      BY <2>2, <3>1
    <3> QED
      BY <3>2, <3>3
  <2> QED
    BY <2>1, <2>3 DEF Delivers
<1>13. ASSUME NEW t \in DOMAIN subs'[c], ~lagged[c], writing[c]
       PROVE  Delivers(out[c], t, Due(c, t)')
  <2>1. CASE t = s
    BY <2>1, <1>12
  <2>2. CASE t # s
    <3>1. t \in DOMAIN subs[c]
      BY <1>8, <2>2
    <3>2. Delivers(out[c], t, Due(c, t))
      BY <3>1, <1>13 DEF Gapless
    <3> QED
      BY <3>1, <3>2, <1>11
  <2> QED
    BY <2>1, <2>2
<1> QED
  BY <1>7, <1>10, <1>13 DEF Gapless

LEMMA StreamsReply ==
  ASSUME TasksOK, Confirmed, NEW c \in Connections, Registered(c), Gapless(c), Reply(c)
  PROVE  Registered(c)' /\ Gapless(c)'
<1>1. PICK more : more = replies[c] /\ more \in Seq(Messages)
  BY DEF TasksOK
<1>2. Enqueue(c, more) /\ UNCHANGED <<conn, subs, given, cursor, lagged, writing>>
  BY <1>1 DEF Reply
<1>3. \A i \in DOMAIN more : more[i].kind # "notice"
  BY <1>1 DEF Confirmed
<1>4. PICK cur \in Nat : cur = cursor[c]
  BY GivenFacts
<1>5. ASSUME NEW s \in DOMAIN subs[c] PROVE Delivers(more, s, {}) /\ Due(c, s)' = Due(c, s)
  <2>1. Delivers(more, s, {})
    BY <1>3 DEF Delivers, IsNoticeOf
  <2> QED
    BY <2>1, <1>2 DEF Due, Wanted
<1>6. \A s \in DOMAIN subs[c] :
        \E E : /\ Delivers(more, s, E)
               /\ \A m \in E : cursor[c] < m.event
               /\ Due(c, s)' = Due(c, s) \cup E
  <2> SUFFICES ASSUME NEW s \in DOMAIN subs[c]
               PROVE  \E E : /\ Delivers(more, s, E)
                             /\ \A m \in E : cursor[c] < m.event
                             /\ Due(c, s)' = Due(c, s) \cup E
    OBVIOUS
  <2> WITNESS {}
  <2> QED
    BY <1>5
<1>7. /\ cursor'[c] = cur /\ cursor[c] <= cur /\ given'[c] = given[c] /\ subs'[c] = subs[c]
      /\ lagged'[c] = lagged[c] /\ writing'[c] = writing[c] /\ conn'[c] = conn[c]
  BY <1>2, <1>4
<1>8. \A i \in DOMAIN more : more[i].kind = "notice" =>
        more[i].sub \in DOMAIN given[c] /\ more[i].event <= cur
  BY <1>3
<1> QED
  BY <1>1, <1>2, <1>6, <1>7, <1>8, StreamsEnqueue

LEMMA StreamsDispatch ==
  ASSUME TasksOK, NEW c \in Connections, Registered(c), Gapless(c), Dispatch(c)
  PROVE  Registered(c)' /\ Gapless(c)'
<1>1. PICK more \in Seq(Live(c)) :
        /\ Enqueue(c, more)
        /\ \A s \in DOMAIN subs[c], params \in Params : subs[c][s] = Subscription(params) =>
             Delivers(more, s, Wanted(s, params, cursor[c] + 1))
  BY DispatchesLive
<1>2. more \in Seq(Messages)
  BY DEF Live, NoticesTo
<1>3. PICK cur \in Nat : cur = cursor[c] + 1
  BY GivenFacts
<1>4. cursor[c] \in Nat /\ cursor[c] < cur /\ cursor'[c] = cur
  BY <1>3, GivenFacts DEF Dispatch, TasksOK
<1>5. UNCHANGED <<conn, subs, given, lagged, writing>>
  BY DEF Dispatch, handling
<1>6. DOMAIN subs[c] \subseteq DOMAIN given[c]
  BY DEF TasksOK, ManagerOK
<1>7. \A i \in DOMAIN more : more[i].kind = "notice" =>
        more[i].sub \in DOMAIN given[c] /\ more[i].event <= cur
  <2>1. \A i \in DOMAIN more : more[i].sub \in DOMAIN subs[c] /\ more[i].event = cur
    BY <1>3 DEF Live, NoticesTo
  <2> QED
    BY <2>1, <1>6
<1>8. \A s \in DOMAIN subs[c] :
        \E E : /\ Delivers(more, s, E)
               /\ \A m \in E : cursor[c] < m.event
               /\ Due(c, s)' = Due(c, s) \cup E
  <2> TAKE s \in DOMAIN subs[c]
  <2>1. PICK params \in Params : params = given[c][s].params
    BY <1>6, GivenFacts
  <2>2. PICK since \in Nat : since = given[c][s].since /\ since <= cursor[c]
    BY <1>6, GivenFacts DEF Registered
  <2>3. Delivers(more, s, Wanted(s, params, cur))
    BY <1>1, <1>3, <2>1 DEF Registered
  <2>4. \A m \in Wanted(s, params, cur) : cursor[c] < m.event
    BY <1>4, WantedFacts
  <2>5. Due(c, s) = UNION {Wanted(s, params, n) : n \in since + 1..cursor[c]}
    BY <2>1, <2>2 DEF Due
  <2>6. Due(c, s)' = UNION {Wanted(s, params, n) : n \in since + 1..cur}
    BY <2>1, <2>2, <1>4, <1>5 DEF Due, Wanted
  <2>7. since + 1..cur = (since + 1..cursor[c]) \cup {cur}
    BY <1>3, <1>4, <2>2
  <2>8. Due(c, s)' = Due(c, s) \cup Wanted(s, params, cur)
    BY <2>5, <2>6, <2>7
  <2> QED
    BY <2>3, <2>4, <2>8
<1>9. /\ cursor'[c] = cur /\ cursor[c] <= cur /\ given'[c] = given[c] /\ subs'[c] = subs[c]
      /\ lagged'[c] = lagged[c] /\ writing'[c] = writing[c] /\ conn'[c] = conn[c]
  BY <1>4, <1>5
<1> QED
  BY <1>1, <1>2, <1>7, <1>8, <1>9, StreamsEnqueue

\* What a step of one connection leaves alone of another.
LEMMA OneMoves ==
  ASSUME TasksOK, NEW c \in Connections, NEW d \in Connections, c # d,
         \/ Check(c) \/ UpgradeFails(c) \/ Upgraded(c) \/ Leave(c) \/ Lag(c) \/ Dispatch(c)
         \/ ForwardFails(c) \/ Subscribe(c) \/ Unsubscribe(c) \/ HandleOther(c) \/ Reply(c)
         \/ Cleanup(c) \/ Closed(c)
  PROVE  /\ conn'[d] = conn[d] /\ subs'[d] = subs[d] /\ given'[d] = given[d]
         /\ cursor'[d] = cursor[d] /\ lagged'[d] = lagged[d] /\ out'[d] = out[d]
         /\ writing'[d] = writing[d]
BY DEF Check, UpgradeFails, Upgraded, Leave, Lag, Dispatch, ForwardFails, Subscribe, Unsubscribe,
       HandleOther, Handled, Reply, Enqueue, Cleanup, Closed, ConnGoto, handling, queue, TasksOK

LEMMA StreamsInductive ==
  TasksOK /\ Tasks /\ Confirmed /\ Streams /\ [Next]_vars => Streams'
<1> SUFFICES ASSUME TasksOK, Tasks, Confirmed, Streams, [Next]_vars,
                    NEW d \in Connections
             PROVE  Registered(d)' /\ Gapless(d)'
  BY DEF Streams
<1> USE DEF Streams
<1>1. ASSUME UNCHANGED <<conn, subs, given, cursor, lagged, out, writing>>
      PROVE  Registered(d)' /\ Gapless(d)'
  BY <1>1, StreamsKept
<1>2. CASE UNCHANGED vars
  BY <1>1, <1>2 DEF vars, handling, queue
<1>3. CASE Emit
  BY <1>1, <1>3 DEF Emit, handling, queue
<1>4. ASSUME NEW c \in Connections, Receive(c) \/ Count(c) \/ Forward(c)
      PROVE  Registered(d)' /\ Gapless(d)'
  BY <1>1, <1>4 DEF Receive, Count, Forward, handling, queue
<1>5. ASSUME NEW c \in Connections, c # d,
             \/ Check(c) \/ UpgradeFails(c) \/ Upgraded(c) \/ Leave(c) \/ Lag(c) \/ Dispatch(c)
             \/ ForwardFails(c) \/ Subscribe(c) \/ Unsubscribe(c) \/ HandleOther(c) \/ Reply(c)
             \/ Cleanup(c) \/ Closed(c)
      PROVE  Registered(d)' /\ Gapless(d)'
  BY <1>5, OneMoves, StreamsKept
<1>6. CASE Check(d) \/ UpgradeFails(d) \/ Leave(d) \/ ForwardFails(d)
  <2>1. UNCHANGED <<subs, given, cursor, lagged, out>>
    BY <1>6 DEF Check, UpgradeFails, Leave, ForwardFails, handling, queue
  <2>2. writing'[d] => writing[d]
    BY <1>6 DEF Check, UpgradeFails, Leave, ForwardFails, queue, TasksOK
  <2>3. conn'[d] \in {"none", "upgrading"} => conn[d] \in {"none", "upgrading"}
    BY <1>6 DEF Check, UpgradeFails, Leave, ForwardFails, ConnGoto, TasksOK
  <2> QED
    BY <2>1, <2>2, <2>3, StreamsKept
<1>7. CASE Unsubscribe(d) \/ HandleOther(d) \/ Cleanup(d) \/ Closed(d)
  <2>1. PICK s : s = Head(work[d]).id
    OBVIOUS
  <2>2. PICK map \in {subs[d], <<>>, Removed(subs[d], s)} : subs' = [subs EXCEPT ![d] = map]
    BY <1>7, <2>1 DEF Unsubscribe, HandleOther, Handled, Cleanup, Closed
  <2>3. DOMAIN map \subseteq DOMAIN subs[d] /\ \A t \in DOMAIN map : map[t] = subs[d][t]
    BY <2>2 DEF Removed, Restrict
  <2>4. subs'[d] = map
    BY <2>2 DEF TasksOK
  <2>5. UNCHANGED <<given, cursor, lagged, out>>
    BY <1>7 DEF Unsubscribe, HandleOther, Handled, Cleanup, Closed, queue
  <2>6. writing'[d] => writing[d]
    BY <1>7 DEF Unsubscribe, HandleOther, Handled, Cleanup, Closed, queue, TasksOK
  <2>7. conn'[d] \in {"none", "upgrading"} => conn[d] \in {"none", "upgrading"}
    BY <1>7 DEF Unsubscribe, HandleOther, Handled, Cleanup, Closed, ConnGoto, TasksOK
  <2> QED
    BY <2>3, <2>4, <2>5, <2>6, <2>7, StreamsKept
<1>8. CASE Upgraded(d)
  <2>1. given[d] = <<>> /\ UNCHANGED <<subs, given, lagged, out>>
    BY <1>8 DEF Upgraded, Registered, handling
  <2>2. DOMAIN given[d] = {} /\ DOMAIN subs[d] = {}
    BY <2>1 DEF TasksOK, ManagerOK
  <2>3. Registered(d)'
    BY <2>1, <2>2 DEF Registered
  <2> QED
    BY <2>1, <2>2, <2>3 DEF Gapless
<1>9. CASE Lag(d)
  <2>1. /\ UNCHANGED <<conn, subs, given, out>>
        /\ lagged'[d] = TRUE /\ cursor'[d] = events - CAPACITY
    BY <1>9 DEF Lag, handling, queue, TasksOK
  <2>2. PICK old, new : old = cursor[d] /\ new = cursor'[d] /\ old \in Nat /\ new \in Nat /\ old <= new
    <3>1. events \in Nat /\ CAPACITY \in Nat /\ cursor[d] \in Nat
      BY FeedFacts, GivenFacts, WsServerAssumption DEF WsServerAssumption, TasksOK
    <3>2. events - cursor[d] > CAPACITY
      BY <1>9 DEF Lag
    <3> QED
      BY <3>1, <3>2, <2>1
  <2>3. \A s \in DOMAIN given[d] : given[d][s].since <= new
    BY <2>2, GivenFacts DEF Registered
  <2>4. \A i \in DOMAIN out[d] : out[d][i].kind = "notice" =>
          out[d][i].sub \in DOMAIN given[d] /\ out[d][i].event <= new
    <3>1. out[d] \in Seq(Messages)
      BY DEF TasksOK
    <3>2. \A i \in DOMAIN out[d] : out[d][i].event \in Nat
      BY <3>1, EventFacts
    <3> QED
      BY <3>2, <2>2 DEF Registered
  <2>5. Registered(d)'
    BY <2>1, <2>2, <2>3, <2>4 DEF Registered
  <2> QED
    BY <2>1, <2>5 DEF Gapless
<1>10. CASE Subscribe(d)
  <2>1. conn[d] = "open"
    BY <1>10 DEF Subscribe, Takes, Tasks
  <2> QED
    BY <1>10, <2>1, StreamsSubscribe
<1>11. CASE Reply(d)
  BY <1>11, StreamsReply
<1>12. CASE Dispatch(d)
  BY <1>12, StreamsDispatch
<1> QED
  BY <1>2, <1>3, <1>4, <1>5, <1>6, <1>7, <1>8, <1>9, <1>10, <1>11, <1>12
  DEF Next, Serve, Handle

-------------------------------------------------------------------------------
\* The inductive invariant.  The types of the tasks' own state need nothing else; the
\* types of the two counters, and with them that neither wraps, need what each counts.
\* NoGap is Gapless of every connection, and needs the rest of Streams.
IInv ==
  /\ TasksOK
  /\ Tasks
  /\ CountInv
  /\ ConnectionsCounted
  /\ LimitInv
  /\ Confirmed
  /\ UnsubscribedIsQuiet
  /\ Streams

LEMMA IInvAlways == Spec => []IInv
<1>1. Init => IInv
  BY TasksInit, CountInit, ConnectionsInit, LimitInit, QuietInit, StreamsInit DEF IInv
<1>2. IInv /\ [Next]_vars => IInv'
  BY TasksStep, TasksInductive, CountInductive, ConnectionsInductive, LimitInductive,
     QuietInductive, StreamsInductive DEF IInv
<1> QED
  BY <1>1, <1>2, PTL DEF Spec

\* The variables keep their types: neither ws_connection_count nor ws_subscriptions,
\* both of type usize, is ever taken below zero (handler.rs:36-38, 96-110, 252-280), and
\* a manager holds only subscriptions that its client asked for.
THEOREM TypeCorrect == Spec => []TypeOK
<1>1. IInv => TypeOK
  <2>1. ConnectionsCounted => ws_connection_count \in Nat
    BY OpenOnesFinite DEF ConnectionsCounted
  <2> QED
    BY <2>1 DEF IInv, CountInv, LimitInv, TypeOK, CountersOK
<1> QED
  BY <1>1, IInvAlways, PTL

\* The reply that confirms an unsubscribe is the last a client hears of the
\* subscription, however the dispatcher and the connection's task take turns at the
\* queue (subscription.rs:179-198, 261-315, handler.rs:274-286).
THEOREM QuietAfterUnsubscribe == Spec => []UnsubscribedIsQuiet
<1>1. IInv => UnsubscribedIsQuiet
  BY DEF IInv
<1> QED
  BY <1>1, IInvAlways, PTL

\* The count of subscriptions is never below their number, for any number of
\* connections that subscribe, unsubscribe and end at once (handler.rs:96-110, 252-280).
THEOREM NoneUncounted == Spec => []NotUndercounted
<1>1. IInv => NotUndercounted
  BY DEF IInv, CountInv
<1> QED
  BY <1>1, IInvAlways, PTL

\* However many connections there are, no more of those whose handshake was not
\* overtaken are open at once than the limit says (handler.rs:27-55, 109).
THEOREM RacesOnlyExceedLimit == Spec => []LimitUnlessRaced
<1>1. IInv => LimitUnlessRaced
  BY DEF IInv, LimitInv
<1> QED
  BY <1>1, IInvAlways, PTL

\* No subscription misses an event, gets one twice or out of order, while its
\* dispatcher has kept up, for any requests, filters, events and interleavings
\* (subscription.rs:37-117, 210-315).
THEOREM NothingMissed == Spec => []NoGap
<1>1. IInv => NoGap
  BY DEF IInv, Streams, Gapless, NoGap
<1> QED
  BY <1>1, IInvAlways, PTL
-------------------------------------------------------------------------------
\* What is heard of messages, one batch after the other, and of a batch about one event.
LEMMA HeardConcat ==
  ASSUME NEW o \in Seq(Messages), NEW more \in Seq(Messages)
  PROVE  Heard(o \o more) = Heard(o) \cup Heard(more)
<1> DEFINE both == o \o more
           Item(m) == <<m.sub, m.event, m.log>>
<1>1. /\ Len(o) \in Nat /\ DOMAIN o = 1..Len(o)
      /\ Len(more) \in Nat /\ DOMAIN more = 1..Len(more)
      /\ DOMAIN both = 1..Len(o) + Len(more)
  OBVIOUS
<1>2. \A j \in DOMAIN o : j \in DOMAIN both /\ both[j] = o[j]
  BY <1>1
<1>3. \A j \in DOMAIN more : j + Len(o) \in DOMAIN both /\ both[j + Len(o)] = more[j]
  BY <1>1
<1>4. \A j \in DOMAIN both :
        \/ j \in DOMAIN o /\ both[j] = o[j]
        \/ \E k \in DOMAIN more : both[j] = more[k]
  BY <1>1
<1> HIDE DEF both
<1>5. Heard(both) \subseteq Heard(o) \cup Heard(more)
  BY <1>4 DEF Heard
<1>6. Heard(o) \subseteq Heard(both)
  BY <1>2 DEF Heard
<1>7. Heard(more) \subseteq Heard(both)
  BY <1>3 DEF Heard
<1> QED
  BY <1>5, <1>6, <1>7 DEF both

ToldOf(n, A) == UNION {{<<s, n, i>> : i \in A[s]} : s \in DOMAIN A}

LEMMA ToldElements ==
  ASSUME NEW n, NEW A
  PROVE  \A x : x \in ToldOf(n, A) <=> \E s \in DOMAIN A : \E i \in A[s] : x = <<s, n, i>>
BY DEF ToldOf

LEMMA HeardOfEvent ==
  ASSUME NEW more \in Seq(Messages), NEW n, NEW A,
         \A j \in DOMAIN more :
           more[j].kind = "notice" /\ more[j].sub \in DOMAIN A /\ more[j].event = n,
         \A s \in DOMAIN A : Delivers(more, s, {Notice(s, n, i) : i \in A[s]})
  PROVE  Heard(more) = ToldOf(n, A)
<1>1. ASSUME NEW j \in DOMAIN more
      PROVE  <<more[j].sub, more[j].event, more[j].log>> \in ToldOf(n, A)
  <2>1. PICK s \in DOMAIN A : s = more[j].sub /\ IsNoticeOf(more[j], s)
    BY DEF IsNoticeOf
  <2>2. PICK i \in A[s] : more[j] = Notice(s, n, i)
    BY <2>1 DEF Delivers
  <2>3. more[j].sub = s /\ more[j].event = n /\ more[j].log = i
    BY <2>2 DEF Notice, Message
  <2> QED
    BY <2>3, ToldElements
<1>2. ASSUME NEW s \in DOMAIN A, NEW i \in A[s] PROVE <<s, n, i>> \in Heard(more)
  <2>1. PICK j \in DOMAIN more : more[j] = Notice(s, n, i)
    BY DEF Delivers
  <2>2. more[j].sub = s /\ more[j].event = n /\ more[j].log = i
    BY <2>1 DEF Notice, Message
  <2>3. <<more[j].sub, more[j].event, more[j].log>> \in Heard(more)
    BY DEF Heard
  <2> QED
    BY <2>2, <2>3
<1>3. Heard(more) \subseteq ToldOf(n, A)
  BY <1>1 DEF Heard
<1>4. ToldOf(n, A) \subseteq Heard(more)
  BY <1>2, ToldElements
<1> QED
  BY <1>3, <1>4

\* What the client hears of the next event.
LEMMA DispatchHeard ==
  ASSUME TasksOK, NEW c \in Connections, Registered(c), Dispatch(c), writing[c],
         NEW n, n = cursor[c] + 1
  PROVE  HeardBy(c)' = HeardBy(c) \cup
           ToldOf(n, [s \in DOMAIN subs[c] |-> Asked(given[c][s].params, n)])
<1>1. PICK more \in Seq(Live(c)) :
        /\ Enqueue(c, more)
        /\ \A s \in DOMAIN subs[c], params \in Params : subs[c][s] = Subscription(params) =>
             Delivers(more, s, Wanted(s, params, cursor[c] + 1))
  BY DispatchesLive
<1>2. more \in Seq(Messages)
  BY DEF Live, NoticesTo
<1>3. PICK old : old = out[c] /\ old \in Seq(Messages)
  BY DEF TasksOK
<1>4. out'[c] = old \o more
  BY <1>1, <1>3 DEF Enqueue, TasksOK
<1>5. PICK A : A = [s \in DOMAIN subs[c] |-> Asked(given[c][s].params, n)]
  OBVIOUS
<1>6. \A j \in DOMAIN more :
        more[j].kind = "notice" /\ more[j].sub \in DOMAIN A /\ more[j].event = n
  BY <1>5 DEF Live, NoticesTo
<1>7. \A s \in DOMAIN A : Delivers(more, s, {Notice(s, n, i) : i \in A[s]})
  <2> TAKE s \in DOMAIN A
  <2>1. PICK params \in Params : params = given[c][s].params
    BY <1>5, GivenFacts DEF TasksOK, ManagerOK
  <2>2. Delivers(more, s, Wanted(s, params, n))
    BY <1>1, <1>5, <2>1 DEF Registered
  <2> QED
    BY <1>5, <2>1, <2>2 DEF Wanted
<1>8. Heard(more) = ToldOf(n, A)
  BY <1>2, <1>6, <1>7, HeardOfEvent
<1> QED
  BY <1>2, <1>3, <1>4, <1>5, <1>8, HeardConcat DEF HeardBy

LEMMA InitRefines == Init => Abstract!AInit
<1> SUFFICES ASSUME Init PROVE Abstract!AInit
  OBVIOUS
<1>1. ASSUME NEW c \in Connections
      PROVE  /\ WishesOf(c) = <<>> /\ DOMAIN subs[c] = {} /\ cursor[c] = 0
             /\ Missed(c) = FALSE /\ HeardBy(c) = {}
  BY DEF Init, WishesOf, Missed, HeardBy, Heard
<1> QED
  BY <1>1 DEF Init, Abstract!AInit

LEMMA NextRefines == IInv /\ [Next]_vars => [Abstract!ANext]_(Abstract!absvars)
<1> SUFFICES ASSUME IInv, [Next]_vars
             PROVE  Abstract!ANext \/ UNCHANGED Abstract!absvars
  BY DEF Abstract!absvars
<1>1. TasksOK /\ Tasks /\ Confirmed /\ \A c \in Connections : Registered(c) /\ Gapless(c)
  BY DEF IInv, Streams
\* Steps that change nothing a client is promised.
<1>2. ASSUME UNCHANGED <<given, cursor>>,
             \A d \in Connections : /\ DOMAIN subs'[d] = DOMAIN subs[d]
                                    /\ Missed(d)' = Missed(d) /\ HeardBy(d)' = HeardBy(d)
      PROVE  UNCHANGED Abstract!absvars
  BY <1>2 DEF Abstract!absvars, WishesOf
<1>3. ASSUME UNCHANGED <<conn, subs, given, cursor, lagged, out, writing>>
      PROVE  UNCHANGED Abstract!absvars
  BY <1>2, <1>3 DEF Missed, HeardBy
<1>4. CASE UNCHANGED vars
  BY <1>3, <1>4 DEF vars, handling, queue
<1>5. CASE Emit
  BY <1>3, <1>5 DEF Emit, handling, queue
<1>6. ASSUME NEW c \in Connections, Receive(c) \/ Count(c) \/ Forward(c)
      PROVE  UNCHANGED Abstract!absvars
  BY <1>3, <1>6 DEF Receive, Count, Forward, handling, queue
<1>7. ASSUME NEW c \in Connections,
             \/ Check(c) \/ UpgradeFails(c) \/ Upgraded(c) \/ Leave(c) \/ Lag(c) \/ Dispatch(c)
             \/ ForwardFails(c) \/ Subscribe(c) \/ Unsubscribe(c) \/ HandleOther(c) \/ Reply(c)
             \/ Cleanup(c) \/ Closed(c),
             NEW d \in Connections, c # d
      PROVE  /\ WishesOf(d)' = WishesOf(d) /\ subs'[d] = subs[d] /\ cursor'[d] = cursor[d]
             /\ Missed(d)' = Missed(d) /\ HeardBy(d)' = HeardBy(d)
  BY <1>1, <1>7, OneMoves DEF WishesOf, Missed, HeardBy
<1>8. ASSUME NEW c \in Connections, Check(c) \/ Leave(c) \/ HandleOther(c)
      PROVE  UNCHANGED Abstract!absvars
  <2>1. UNCHANGED <<given, cursor, lagged, out, writing>> /\ subs'[c] = subs[c]
    BY <1>1, <1>8 DEF Check, Leave, HandleOther, Handled, handling, queue, TasksOK
  <2>2. conn'[c] = conn[c] \/ (conn[c] = "none" /\ conn'[c] = "upgrading")
          \/ (conn[c] = "open" /\ conn'[c] = "left")
    BY <1>1, <1>8 DEF Check, Leave, HandleOther, Handled, ConnGoto, TasksOK
  <2>3. Missed(c)' = Missed(c) /\ HeardBy(c)' = HeardBy(c)
    BY <2>1, <2>2 DEF Missed, HeardBy
  <2> QED
    BY <1>2, <1>7, <1>8, <2>1, <2>3
\* A reply is no notification.
<1>9. ASSUME NEW c \in Connections, Reply(c) PROVE UNCHANGED Abstract!absvars
  <2>1. PICK old, more : /\ old = out[c] /\ old \in Seq(Messages)
                         /\ more = replies[c] /\ more \in Seq(Messages)
    BY <1>1 DEF TasksOK
  <2>2. out'[c] = old \/ out'[c] = old \o more
    BY <1>1, <1>9, <2>1 DEF Reply, Enqueue, TasksOK
  <2>3. Heard(more) = {}
    BY <1>1, <2>1 DEF Confirmed, Heard
  <2>4. HeardBy(c)' = HeardBy(c)
    <3>1. Heard(old \o more) = Heard(old) \cup Heard(more)
      BY <2>1, HeardConcat
    <3>2. Heard(old \o more) = Heard(old)
      BY <2>3, <3>1
    <3>3. HeardBy(c) = Heard(old)
      BY <2>1 DEF HeardBy
    <3> QED
      BY <2>2, <3>2, <3>3 DEF HeardBy
  <2>5. UNCHANGED <<conn, subs, given, cursor, lagged, writing>>
    BY <1>9 DEF Reply
  <2>6. Missed(c)' = Missed(c)
    BY <2>5 DEF Missed
  <2> QED
    BY <1>2, <1>7, <1>9, <2>4, <2>5, <2>6
<1>10. ASSUME NEW c \in Connections, Upgraded(c) PROVE Abstract!Join(c)
  <2>1. given[c] = <<>> /\ UNCHANGED <<subs, given, lagged, out>>
    BY <1>1, <1>10 DEF Upgraded, Registered, handling
  <2>2. WishesOf(c) = <<>> /\ \A d \in Connections : WishesOf(d)' = WishesOf(d)
    BY <2>1 DEF WishesOf
  <2>3. Missed(c)' = Missed(c) /\ HeardBy(c)' = HeardBy(c)
    BY <1>1, <1>10, <2>1 DEF Upgraded, ConnGoto, Missed, HeardBy, TasksOK
  <2>4. cursor' = [cursor EXCEPT ![c] = events] /\ events \in 0..MaxEvents
    BY <1>1, <1>10 DEF Upgraded, TasksOK
  <2> QED
    BY <1>7, <1>10, <2>1, <2>2, <2>3, <2>4 DEF Abstract!Join
<1>11. ASSUME NEW c \in Connections, Subscribe(c)
       PROVE  \E w \in Params : Abstract!Register(c, w)
  <2>1. PICK w, s, entry, g : /\ w = Head(work[c]).params /\ s = Len(given[c]) + 1
                              /\ entry = [params |-> w, since |-> cursor[c]]
                              /\ g = given[c]
    OBVIOUS
  <2>2. /\ given' = [given EXCEPT ![c] = Append(g, entry)]
        /\ subs' = [subs EXCEPT ![c] = Inserted(subs[c], s, Subscription(w))]
        /\ UNCHANGED <<conn, cursor, lagged, queue>>
    BY <1>11, <2>1 DEF Subscribe, Handled
  <2>3. g \in Seq([params : Params, since : 0..MaxEvents])
    BY <1>1, <2>1 DEF TasksOK
  <2>4. Len(g) \in Nat /\ DOMAIN g = 1..Len(g) /\ s = Len(g) + 1
    BY <2>1, <2>3
  <2>5. w \in Params
    <3>1. work[c] \in Seq(Requests) /\ work[c] # <<>> /\ Head(work[c]).kind = "eth_subscribe"
      BY <1>1, <1>11 DEF Subscribe, Takes, TasksOK
    <3> QED
      BY <2>1, <3>1 DEF Params
  <2>6. given'[c] = Append(g, entry) /\ entry.params = w
    BY <1>1, <2>1, <2>2 DEF TasksOK
  <2>7. WishesOf(c) = [t \in 1..Len(g) |-> g[t].params]
    BY <2>1, <2>4 DEF WishesOf
  <2>8. WishesOf(c)' = [t \in 1..s |-> IF t = s THEN w ELSE g[t].params]
    <3>1. /\ DOMAIN given'[c] = 1..s /\ given'[c][s] = entry
          /\ \A t \in 1..Len(g) : given'[c][t] = g[t]
      BY <2>3, <2>4, <2>6
    <3>2. \A t \in 1..s : given'[c][t].params = IF t = s THEN w ELSE g[t].params
      BY <2>4, <2>6, <3>1
    <3> QED
      BY <3>1, <3>2 DEF WishesOf
  <2>9. Len(WishesOf(c)) = Len(g) /\ WishesOf(c)' = Append(WishesOf(c), w)
    BY <2>4, <2>7, <2>8
  <2>10. DOMAIN subs'[c] = DOMAIN subs[c] \cup {s}
    BY <1>1, <2>2 DEF Inserted, TasksOK
  <2>11. Missed(c)' = Missed(c) /\ HeardBy(c)' = HeardBy(c) /\ UNCHANGED cursor
    BY <2>2 DEF Missed, HeardBy, queue
  <2>12. Abstract!Register(c, w)
    BY <1>7, <1>11, <2>4, <2>9, <2>10, <2>11 DEF Abstract!Register
  <2> QED
    BY <2>5, <2>12
<1>12. ASSUME NEW c \in Connections, Unsubscribe(c) \/ Cleanup(c) \/ Closed(c)
       PROVE  \E some \in SUBSET DOMAIN subs[c] : Abstract!End(c, some)
  <2>1. PICK s : s = Head(work[c]).id
    OBVIOUS
  <2>2. PICK map \in {subs[c], <<>>, Removed(subs[c], s)} : subs' = [subs EXCEPT ![c] = map]
    BY <1>12, <2>1 DEF Unsubscribe, Handled, Cleanup, Closed
  <2>3. DOMAIN map \subseteq DOMAIN subs[c] /\ subs'[c] = map
    BY <1>1, <2>2 DEF Removed, Restrict, TasksOK
  <2>4. PICK some \in SUBSET DOMAIN subs[c] : DOMAIN subs'[c] = DOMAIN subs[c] \ some
    <3>1. DOMAIN subs'[c] = DOMAIN subs[c] \ (DOMAIN subs[c] \ DOMAIN map)
      BY <2>3
    <3> QED
      BY <3>1
  <2>5. UNCHANGED <<given, cursor, lagged, out>>
    BY <1>12 DEF Unsubscribe, Handled, Cleanup, Closed, queue
  <2>6. Missed(c)' \in {Missed(c), TRUE}
    <3>1. CASE Unsubscribe(c)
      BY <3>1 DEF Unsubscribe, Handled, Missed, queue
    <3>2. CASE Cleanup(c)
      BY <1>1, <3>2 DEF Cleanup, ConnGoto, Missed, queue, TasksOK
    <3>3. CASE Closed(c)
      BY <1>1, <3>3 DEF Closed, ConnGoto, Missed, TasksOK
    <3> QED
      BY <1>12, <3>1, <3>2, <3>3
  <2>7. Abstract!End(c, some)
    BY <1>7, <1>12, <2>4, <2>5, <2>6 DEF Abstract!End, WishesOf, HeardBy
  <2> QED
    BY <2>7
<1>13. ASSUME NEW c \in Connections, UpgradeFails(c) \/ ForwardFails(c)
       PROVE  Abstract!Miss(c) \/ UNCHANGED Abstract!absvars
  <2>1. UNCHANGED <<subs, given, cursor, lagged, out>>
    BY <1>13 DEF UpgradeFails, ForwardFails, handling, queue
  <2>2. Missed(c)' = Missed(c) \/ Missed(c)' = TRUE
    BY <1>1, <1>13 DEF UpgradeFails, ForwardFails, ConnGoto, Open, Missed, queue, TasksOK
  <2>3. cursor[c] \in cursor[c]..MaxEvents /\ cursor' = [cursor EXCEPT ![c] = cursor[c]]
    BY <1>1, <2>1, FeedFacts DEF TasksOK
  <2>4. CASE Missed(c)' = Missed(c)
    BY <1>2, <1>7, <1>13, <2>1, <2>4 DEF HeardBy
  <2>5. CASE Missed(c)' = TRUE
    BY <1>7, <1>13, <2>1, <2>3, <2>5 DEF Abstract!Miss, WishesOf, HeardBy
  <2> QED
    BY <2>2, <2>4, <2>5
<1>14. ASSUME NEW c \in Connections, Lag(c) PROVE Abstract!Miss(c)
  <2>1. PICK new : new = events - CAPACITY /\ cursor' = [cursor EXCEPT ![c] = new]
    BY <1>14 DEF Lag
  <2>2. new \in cursor[c]..MaxEvents
    <3>1. CAPACITY \in Nat /\ events \in 0..MaxEvents /\ cursor[c] \in 0..MaxEvents
      BY <1>1, WsServerAssumption DEF WsServerAssumption, TasksOK
    <3>2. events - cursor[c] > CAPACITY
      BY <1>14 DEF Lag
    <3> QED
      BY <2>1, <3>1, <3>2, FeedFacts
  <2>3. UNCHANGED <<subs, given, out>> /\ Missed(c)' = TRUE
    BY <1>1, <1>14 DEF Lag, Missed, handling, queue, TasksOK
  <2> QED
    BY <1>7, <1>14, <2>1, <2>2, <2>3 DEF Abstract!Miss, WishesOf, HeardBy
<1>15. ASSUME NEW c \in Connections, Dispatch(c) PROVE Abstract!Serve(c) \/ Abstract!Miss(c)
  <2>1. PICK n : n = cursor[c] + 1 /\ cursor' = [cursor EXCEPT ![c] = n]
    BY <1>15 DEF Dispatch
  <2>2. n \in cursor[c]..MaxEvents /\ n \in 1..MaxEvents /\ cursor[c] < MaxEvents
    BY <1>1, <1>15, <2>1, FeedFacts DEF Dispatch, Dispatching, TasksOK
  <2>3. UNCHANGED <<conn, subs, given, lagged, writing>>
    BY <1>15 DEF Dispatch, handling
  <2>4. Missed(c)' = Missed(c)
    BY <2>3 DEF Missed
  <2>5. CASE ~writing[c]
    <3>1. out'[c] = out[c]
      BY <1>1, <1>15, <2>5 DEF Dispatch, Enqueue, TasksOK
    <3>2. Missed(c)' = TRUE /\ HeardBy(c)' = HeardBy(c)
      BY <1>15, <2>3, <2>5, <3>1 DEF Dispatch, Dispatching, Open, Missed, HeardBy
    <3> QED
      BY <1>7, <1>15, <2>1, <2>2, <2>3, <3>2 DEF Abstract!Miss, WishesOf
  <2>6. CASE writing[c]
    <3>1. PICK A : A = [s \in DOMAIN subs[c] |-> Asked(given[c][s].params, n)]
      OBVIOUS
    <3>2. HeardBy(c)' = HeardBy(c) \cup ToldOf(n, A)
      BY <1>1, <1>15, <2>1, <2>6, <3>1, DispatchHeard
    <3>3. Abstract!Told(c, n) = ToldOf(n, A)
      <4> DEFINE brings == [params \in Params |-> [m \in 1..MaxEvents |-> Asked(params, m)]]
                 wishes == [d \in Connections |-> WishesOf(d)]
                 live == [d \in Connections |-> DOMAIN subs[d]]
      <4>1. \A s \in DOMAIN subs[c] :
              /\ s \in DOMAIN given[c] /\ given[c][s].params \in Params
              /\ WishesOf(c)[s] = given[c][s].params
        BY <1>1, GivenFacts DEF TasksOK, ManagerOK, WishesOf
      <4>2. \A s \in DOMAIN subs[c] : brings[wishes[c][s]][n] = A[s]
        BY <2>2, <3>1, <4>1
      <4>3. live[c] = DOMAIN A
        BY <3>1
      <4>4. Abstract!Told(c, n) = UNION {{<<s, n, i>> : i \in brings[wishes[c][s]][n]} : s \in live[c]}
        BY DEF Abstract!Told
      <4> HIDE DEF brings, wishes, live
      <4>5. \A x : x \in UNION {{<<s, n, i>> : i \in brings[wishes[c][s]][n]} : s \in live[c]}
                <=> \E s \in live[c] : \E i \in brings[wishes[c][s]][n] : x = <<s, n, i>>
        OBVIOUS
      <4>6. \A x : (\E s \in live[c] : \E i \in brings[wishes[c][s]][n] : x = <<s, n, i>>)
                <=> (\E s \in DOMAIN A : \E i \in A[s] : x = <<s, n, i>>)
        BY <3>1, <4>2, <4>3
      <4> QED
        BY <4>4, <4>5, <4>6, ToldElements
    <3> QED
      BY <1>7, <1>15, <2>1, <2>2, <2>3, <2>4, <3>2, <3>3 DEF Abstract!Serve, WishesOf
  <2> QED
    BY <2>5, <2>6
<1>16. ASSUME NEW c \in Connections,
              \/ Check(c) \/ UpgradeFails(c) \/ Receive(c) \/ Leave(c) \/ Serve(c) \/ Lag(c)
              \/ Dispatch(c) \/ Forward(c) \/ ForwardFails(c)
       PROVE  Abstract!ANext \/ UNCHANGED Abstract!absvars
  <2>1. CASE Upgraded(c)
    BY <1>10, <2>1 DEF Abstract!ANext
  <2>2. CASE Subscribe(c)
    BY <1>11, <2>2 DEF Abstract!ANext
  <2>3. CASE Unsubscribe(c) \/ Cleanup(c) \/ Closed(c)
    BY <1>12, <2>3 DEF Abstract!ANext
  <2>4. CASE UpgradeFails(c) \/ ForwardFails(c)
    BY <1>13, <2>4 DEF Abstract!ANext
  <2>5. CASE Lag(c)
    BY <1>14, <2>5 DEF Abstract!ANext
  <2>6. CASE Dispatch(c)
    BY <1>15, <2>6 DEF Abstract!ANext
  <2> QED
    BY <1>6, <1>8, <1>9, <1>16, <2>1, <2>2, <2>3, <2>4, <2>5, <2>6 DEF Serve, Handle
<1> QED
  BY <1>4, <1>5, <1>16 DEF Next

\* What the subscriptions of a connection bring is what SubscriptionFeed promises, for any
\* requests, filters, events and interleavings, and also once the dispatcher has lagged
\* (subscription.rs:37-117, 210-315, handler.rs:38-110).
THEOREM FeedRefinement == Spec => ImplementsFeed
  BY InitRefines, NextRefines, IInvAlways, PTL DEF Spec, ImplementsFeed, Abstract!ASpec
===============================================================================
