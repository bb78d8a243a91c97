---------------------------- MODULE SubscriptionFeed ----------------------------
(***************************************************************************)
(* What the subscriptions of clients promise, without queues, tasks or     *)
(* sockets: a client is served the events in their order, and of each one  *)
(* either all that the subscriptions it has at that time ask for, or       *)
(* nothing, and then it counts as one that has missed events.              *)
(***************************************************************************)
EXTENDS Integers, Sequences

CONSTANTS
  Clients,
  Wishes,   \* what subscriptions may ask for
  MaxEvent, \* the number of the last event
  Brings    \* Brings[w][n]: the items of event n that wish w asks for

VARIABLES
  wishes,   \* wishes[c]: those of its subscriptions, by their ids
  live,     \* live[c]: the ids of those that have not ended
  seen,     \* seen[c]: the last event that it was served or has missed
  missed,   \* missed[c]: whether it has missed events
  heard     \* heard[c]: what it was told of, as <<id, event, item>>

absvars == <<wishes, live, seen, missed, heard>>

AInit ==
  /\ wishes = [c \in Clients |-> <<>>]
  /\ live = [c \in Clients |-> {}]
  /\ seen = [c \in Clients |-> 0]
  /\ missed = [c \in Clients |-> FALSE]
  /\ heard = [c \in Clients |-> {}]

\* It is served the events from the next one on.
Join(c) ==
  /\ wishes[c] = <<>>
  /\ \E n \in 0..MaxEvent : seen' = [seen EXCEPT ![c] = n]
  /\ UNCHANGED <<wishes, live, missed, heard>>

Register(c, w) ==
  /\ wishes' = [wishes EXCEPT ![c] = Append(@, w)]
  /\ live' = [live EXCEPT ![c] = @ \cup {Len(wishes[c]) + 1}]
  /\ UNCHANGED <<seen, missed, heard>>

\* Some subscriptions end; the client itself may have gone.
End(c, some) ==
  /\ live' = [live EXCEPT ![c] = @ \ some]
  /\ \E m \in {missed[c], TRUE} : missed' = [missed EXCEPT ![c] = m]
  /\ UNCHANGED <<wishes, seen, heard>>

Told(c, n) ==
  UNION {{<<s, n, i>> : i \in Brings[wishes[c][s]][n]} : s \in live[c]}

Serve(c) ==
  /\ seen[c] < MaxEvent
  /\ seen' = [seen EXCEPT ![c] = @ + 1]
  /\ heard' = [heard EXCEPT ![c] = @ \cup Told(c, seen[c] + 1)]
  /\ UNCHANGED <<wishes, live, missed>>

Miss(c) ==
  /\ \E n \in seen[c]..MaxEvent : seen' = [seen EXCEPT ![c] = n]
  /\ missed' = [missed EXCEPT ![c] = TRUE]
  /\ UNCHANGED <<wishes, live, heard>>

ANext ==
  \E c \in Clients :
    \/ Join(c)
    \/ \E w \in Wishes : Register(c, w)
    \/ \E some \in SUBSET live[c] : End(c, some)
    \/ Serve(c)
    \/ Miss(c)

ASpec == AInit /\ [][ANext]_absvars
===============================================================================
