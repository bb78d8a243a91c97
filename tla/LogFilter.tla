------------------------------- MODULE LogFilter -------------------------------
(***************************************************************************)
(* The criteria of a subscription to logs (LogFilter, src/ws/subscription  *)
(* .rs) and what they ask for.  Addresses and topics are compared without  *)
(* regard to case, so texts are taken up to case.                          *)
(***************************************************************************)
EXTENDS Integers, Sequences

\* A JSON value the criteria hold: a text, an array, of which only the texts count,
\* or anything else, null and an absent member included.
OneText(t) == [kind |-> "string", texts |-> {t}]
Texts(ts) == [kind |-> "array", texts |-> ts]
Anything == [kind |-> "other", texts |-> {}]

\* The criteria's address and the elements of its topics; topics that are not an
\* array say as much as none.
Criteria(address, topics) == [address |-> address, topics |-> topics]

Log(address, topics) == [address |-> address, topics |-> topics]

\* An Option<Vec<String>>: no set, or one, of the texts that pass.
Condition(v) == IF v.kind = "other" THEN {} ELSE {v.texts}

from_value(v) ==
  [address |-> Condition(v.address),
   topics  |-> [i \in DOMAIN v.topics |-> Condition(v.topics[i])]]

\* Mutant: a log without a topic at the position passes.
MatchesShort(filter, log) ==
  /\ \A addrs \in filter.address : log.address \in addrs
  /\ \A i \in DOMAIN filter.topics : \A values \in filter.topics[i] :
       i \in DOMAIN log.topics => log.topics[i] \in values

matches(filter, log) ==
  /\ \A addrs \in filter.address : log.address \in addrs
  /\ \A i \in DOMAIN filter.topics : \A values \in filter.topics[i] :
       i \in DOMAIN log.topics /\ log.topics[i] \in values

\* What criteria mean: the log has, at each position for which they name texts, one
\* of these; position 0 is the address.
Part(log, i) == IF i = 0 THEN {log.address}
                ELSE {log.topics[j] : j \in DOMAIN log.topics \cap {i}}
Named(criteria, i) == IF i = 0 THEN criteria.address ELSE criteria.topics[i]
AsksFor(criteria, log) ==
  \A i \in 0..Len(criteria.topics) :
    Named(criteria, i).kind # "other" => Part(log, i) \cap Named(criteria, i).texts # {}
===============================================================================
