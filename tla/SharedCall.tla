------------------------------ MODULE SharedCall ------------------------------
(***************************************************************************)
(* What request coalescing promises, without saying how: a call for a key  *)
(* is answered with an upstream response that was produced for the same    *)
(* key and published after the call was made.  Who produces the response   *)
(* (the caller itself or another caller of the same key), and how many     *)
(* upstream calls there are, is left open.                                 *)
(***************************************************************************)
CONSTANTS Tasks, Keys, NoKey, NoTask

VARIABLES
  status,     \* status[t]: "idle", "called", "done" or "cancelled"
  wants,      \* wants[t]: the key t called with, NoKey before the call
  published,  \* the tasks that have published an upstream response of theirs
  old,        \* old[t]: what had been published when t made its call
  source      \* source[t]: the task whose response answered t

absvars == <<status, wants, published, old, source>>

AInit ==
  /\ status = [t \in Tasks |-> "idle"]
  /\ wants = [t \in Tasks |-> NoKey]
  /\ published = {}
  /\ old = [t \in Tasks |-> {}]
  /\ source = [t \in Tasks |-> NoTask]

Call(t, k) ==
  /\ status[t] = "idle"
  /\ status' = [status EXCEPT ![t] = "called"]
  /\ wants' = [wants EXCEPT ![t] = k]
  /\ old' = [old EXCEPT ![t] = published]
  /\ UNCHANGED <<published, source>>

Publish(t) ==
  /\ status[t] = "called"
  /\ t \notin published
  /\ published' = published \cup {t}
  /\ UNCHANGED <<status, wants, old, source>>

\* t is answered with c's response: of the same key, and not an old one.
Answer(t, c) ==
  /\ status[t] = "called"
  /\ c \in published \ old[t]
  /\ wants[c] = wants[t]
  /\ status' = [status EXCEPT ![t] = "done"]
  /\ source' = [source EXCEPT ![t] = c]
  /\ UNCHANGED <<wants, published, old>>

Abort(t) ==
  /\ status[t] = "called"
  /\ status' = [status EXCEPT ![t] = "cancelled"]
  /\ UNCHANGED <<wants, published, old, source>>

ANext ==
  \E t \in Tasks :
    \/ \E k \in Keys : Call(t, k)
    \/ Publish(t)
    \/ \E c \in Tasks : Answer(t, c)
    \/ Abort(t)

ASpec == AInit /\ [][ANext]_absvars
===============================================================================
