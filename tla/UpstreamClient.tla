---------------------------- MODULE UpstreamClient ----------------------------
(***************************************************************************)
(* The health of one upstream (src/upstream/client.rs) under everyone who  *)
(* uses it at the same time: its health check loop (health.rs), the client *)
(* requests forwarded to it (manager.rs), and the block tracker's polls    *)
(* (tracker.rs).  healthy, disabled and consecutive_failures are atomics,  *)
(* next_check_at and http_error_times have a mutex each; record_success,   *)
(* record_failure and record_http_error go through several of them, and    *)
(* every such access is a step of its own here.                            *)
(*                                                                         *)
(* Time is discrete.  An Instant is represented by how far it is from now: *)
(* next_check_at by the time left until it, an error's by its age.  A      *)
(* failure count of at least MAX_CONSECUTIVE_FAILURES is kept as that, and *)
(* of the error times only the youngest MAX_HTTP_ERRORS are, which is all  *)
(* that the comparisons of the code can tell.                              *)
(***************************************************************************)
EXTENDS Integers, Sequences, FiniteSets

CONSTANTS
  Health,                    \* the health check loop
  Users,                     \* the others who send it requests, at the same time
  MAX_CONSECUTIVE_FAILURES,  \* 6 in the code
  MAX_HTTP_ERRORS,           \* 5 in the code
  HTTP_ERROR_WINDOW,         \* 1 h
  BASE_BACKOFF, MAX_BACKOFF, \* 10 s, 600 s
  DisabledRetry              \* disabled_retry_interval, 24 h by default

Actors == {Health} \cup Users

ASSUME UpstreamClientAssumption ==
  /\ Health \notin Users
  /\ {MAX_CONSECUTIVE_FAILURES, MAX_HTTP_ERRORS, HTTP_ERROR_WINDOW, BASE_BACKOFF,
      MAX_BACKOFF, DisabledRetry} \subseteq Nat \ {0}

VARIABLES
  mode,       \* the node behind the URL: "up", "down" or "refusing"
  healthy, disabled,
  consecutive_failures,
  next_check_in,     \* next_check_at - now, 0 when it has passed
  http_error_times,  \* the ages of the recorded errors, youngest first
  pc,         \* pc[a]: the next access of actor a
  failures,   \* failures[a]: record_failure's local of that name
  errors,     \* history: http_error_times as it would be were it not cleared until
              \* the upstream is enabled
  overlap     \* history: overlap[a], during the record_success that a is in an HTTP
              \* error was recorded, the upstream disabled, or a success recorded

client == <<healthy, disabled, consecutive_failures, next_check_in, http_error_times>>
vars == <<mode, client, pc, failures, errors, overlap>>

InHttpError == {"he_disable", "he_unhealthy", "he_schedule"}
InSuccess == {"rs_load", "rs_window", "rs_postpone", "rs_clear", "rs_enable", "rs_due"}
InFailure == {"rf_disable", "rf_unhealthy", "rf_postpone", "rf_backoff"}
Labels == {"idle", "gate", "sent", "he_push", "rs_reset", "rf_count",
           "hc_guard", "hc_window", "hc_set", "hc_clear"}
          \cup InHttpError \cup InSuccess \cup InFailure

Ages == 0..HTTP_ERROR_WINDOW - 1
AgeLists == UNION {[1..n -> Ages] : n \in 0..MAX_HTTP_ERRORS}

\* The variables of UpstreamClient and of its users have their types; the next
\* check is never further away than the longest interval.
TypeOK ==
  /\ mode \in {"up", "down", "refusing"}
  /\ healthy \in BOOLEAN
  /\ disabled \in BOOLEAN
  /\ consecutive_failures \in 0..MAX_CONSECUTIVE_FAILURES
  /\ next_check_in \in 0..DisabledRetry \cup 0..MAX_BACKOFF
  /\ http_error_times \in AgeLists
  /\ pc \in [Actors -> Labels]
  /\ failures \in [Actors -> 0..MAX_CONSECUTIVE_FAILURES]
  /\ errors \in AgeLists
  /\ overlap \in [Actors -> BOOLEAN]

Init ==
  /\ mode = "up"
  /\ healthy = TRUE
  /\ disabled = FALSE
  /\ consecutive_failures = 0
  /\ next_check_in = 0
  /\ http_error_times = <<>>
  /\ pc = [a \in Actors |-> "idle"]
  /\ failures = [a \in Actors |-> 0]
  /\ errors = <<>>
  /\ overlap = [a \in Actors |-> FALSE]

Least(x, y) == IF x < y THEN x ELSE y
Goto(a, label) == pc' = [pc EXCEPT ![a] = label]

-------------------------------------------------------------------------------
\* The surroundings.

SetMode ==
  /\ mode' \in {"up", "down", "refusing"}
  /\ UNCHANGED <<client, pc, failures, errors, overlap>>

\* The retain() of the error times, done by each of their readers, for all of them:
\* those that are young enough are the first ones.
Aged(times) ==
  LET young == {i \in DOMAIN times : times[i] + 1 < HTTP_ERROR_WINDOW}
  IN  [i \in 1..Cardinality(young) |-> times[i] + 1]

Tick ==
  /\ next_check_in' = IF next_check_in = 0 THEN 0 ELSE next_check_in - 1
  /\ http_error_times' = Aged(http_error_times)
  /\ errors' = Aged(errors)
  /\ UNCHANGED <<mode, healthy, disabled, consecutive_failures, pc, failures, overlap>>

-------------------------------------------------------------------------------
\* Who sends a request, and what becomes of it.

\* Mutant: a disabled upstream is never checked again.
StartCheckIfEnabled ==
  /\ pc[Health] = "idle"
  /\ next_check_in = 0
  /\ ~disabled
  /\ Goto(Health, "sent")
  /\ UNCHANGED <<mode, client, failures, errors, overlap>>

\* The loop's poll finds is_due_for_check() true.
StartCheck ==
  /\ pc[Health] = "idle"
  /\ next_check_in = 0
  /\ Goto(Health, "sent")
  /\ UNCHANGED <<mode, client, failures, errors, overlap>>

\* is_healthy(): the first load, and the second one.
LoadDisabled(a) ==
  /\ a \in Users
  /\ pc[a] = "idle"
  /\ ~disabled
  /\ Goto(a, "gate")
  /\ UNCHANGED <<mode, client, failures, errors, overlap>>

LoadHealthy(a) ==
  /\ pc[a] = "gate"
  /\ Goto(a, IF healthy THEN "sent" ELSE "idle")
  /\ UNCHANGED <<mode, client, failures, errors, overlap>>

\* Where a goes on when its request was answered with a result (good) or with a
\* JSON-RPC error, which is a success to forward_request and a failure to
\* check_upstream; and when send_request returns an error.  A user is a request
\* being forwarded, or a poll of the tracker, which records nothing else.
AfterAnswer(a, good) ==
  CASE a = Health -> IF good THEN {"hc_guard"} ELSE {"hc_clear"}
    [] a \in Users -> {"rs_reset", "idle"}
AfterError(a) == IF a = Health THEN {"hc_clear"} ELSE {"rf_count", "idle"}

\* Mutant: an answer that is not JSON passes for one.
AnsweredAnyBody(a) ==
  /\ pc[a] = "sent"
  /\ \/ \E to \in AfterAnswer(a, mode # "refusing") : Goto(a, to)
     \/ mode = "down" /\ Goto(a, "he_push")
  /\ UNCHANGED <<mode, client, failures, errors, overlap>>

\* send_request returns.  A node that is up answers; one that refuses answers
\* every call with a JSON-RPC error; one that is down cannot be reached or returns
\* an error status (record_http_error), or something that is not JSON.
Answered(a) ==
  /\ pc[a] = "sent"
  /\ \/ mode # "down" /\ \E to \in AfterAnswer(a, mode = "up") : Goto(a, to)
     \/ mode = "down" /\ Goto(a, "he_push")
     \/ mode = "down" /\ \E to \in AfterError(a) : Goto(a, to)
  /\ UNCHANGED <<mode, client, failures, errors, overlap>>

\* The future of a client's request is dropped while it awaits the answer.
Dropped(a) ==
  /\ a \in Users
  /\ pc[a] = "sent"
  /\ Goto(a, "idle")
  /\ UNCHANGED <<mode, client, failures, errors, overlap>>

-------------------------------------------------------------------------------
\* record_http_error

Recorded(times) == SubSeq(<<0>> \o times, 1, Least(Len(times) + 1, MAX_HTTP_ERRORS))

Full(times) == Len(times) >= MAX_HTTP_ERRORS

MarkOverlaps == overlap' = [b \in Actors |-> overlap[b] \/ pc[b] \in InSuccess]

PushHttpError(a) ==
  /\ pc[a] = "he_push"
  /\ http_error_times' = Recorded(http_error_times)
  /\ errors' = Recorded(errors)
  /\ MarkOverlaps
  /\ \E to \in IF Full(http_error_times') THEN {"he_disable"} ELSE AfterError(a) : Goto(a, to)
  /\ UNCHANGED <<mode, healthy, disabled, consecutive_failures, next_check_in, failures>>

\* disabled.store(true), by record_http_error and by record_failure.
Disable(a, from, to) ==
  /\ pc[a] = from
  /\ disabled' = TRUE
  /\ MarkOverlaps
  /\ Goto(a, to)
  /\ UNCHANGED <<mode, healthy, consecutive_failures, next_check_in, http_error_times,
                 failures, errors>>

\* healthy.store(false), by record_http_error, record_failure and the loop, and
\* set_healthy(true), by the loop.
SetHealthy(a, from, value, to) ==
  /\ pc[a] = from
  /\ healthy' = value
  /\ Goto(a, to)
  /\ UNCHANGED <<mode, disabled, consecutive_failures, next_check_in, http_error_times,
                 failures, errors, overlap>>

\* *next_check_at.lock() = Instant::now() + delay.
Schedule(a, from, delay, to) ==
  /\ pc[a] = from
  /\ next_check_in' = delay
  /\ Goto(a, to)
  /\ overlap' = [overlap EXCEPT ![a] = FALSE]
  /\ UNCHANGED <<mode, healthy, disabled, consecutive_failures, http_error_times,
                 failures, errors>>

RecordHttpError(a) ==
  \/ PushHttpError(a)
  \/ Disable(a, "he_disable", "he_unhealthy")
  \/ SetHealthy(a, "he_unhealthy", FALSE, "he_schedule")
  \/ \E to \in AfterError(a) : Schedule(a, "he_schedule", DisabledRetry, to)

-------------------------------------------------------------------------------
\* record_success

ResetFailures(a) ==
  /\ pc[a] = "rs_reset"
  /\ consecutive_failures' = 0
  /\ overlap' = [b \in Actors |->
                   IF b = a THEN \E c \in Actors : pc[c] \in InSuccess
                   ELSE overlap[b] \/ pc[b] \in InSuccess]
  /\ Goto(a, "rs_load")
  /\ UNCHANGED <<mode, healthy, disabled, next_check_in, http_error_times, failures, errors>>

\* if self.disabled
LoadDisabledOnSuccess(a) ==
  /\ pc[a] = "rs_load"
  /\ Goto(a, IF disabled THEN "rs_window" ELSE "rs_enable")
  /\ UNCHANGED <<mode, client, failures, errors, overlap>>

\* Mutant: the error window is not consulted.
CheckWindowIgnored(a) ==
  /\ pc[a] = "rs_window"
  /\ Goto(a, "rs_clear")
  /\ UNCHANGED <<mode, client, failures, errors, overlap>>

\* if self.has_too_many_http_errors()
CheckWindow(a) ==
  /\ pc[a] = "rs_window"
  /\ Goto(a, IF Full(http_error_times) THEN "rs_postpone" ELSE "rs_clear")
  /\ UNCHANGED <<mode, client, failures, errors, overlap>>

ClearErrors(a) ==
  /\ pc[a] = "rs_clear"
  /\ http_error_times' = <<>>
  /\ Goto(a, "rs_enable")
  /\ UNCHANGED <<mode, healthy, disabled, consecutive_failures, next_check_in, failures,
                 errors, overlap>>

Enable(a) ==
  /\ pc[a] = "rs_enable"
  /\ disabled' = FALSE
  /\ errors' = http_error_times
  /\ Goto(a, "rs_due")
  /\ UNCHANGED <<mode, healthy, consecutive_failures, next_check_in, http_error_times,
                 failures, overlap>>

RecordSuccess(a) ==
  \/ ResetFailures(a)
  \/ LoadDisabledOnSuccess(a)
  \/ CheckWindow(a)
  \/ Schedule(a, "rs_postpone", DisabledRetry, "idle")
  \/ ClearErrors(a)
  \/ Enable(a)
  \/ Schedule(a, "rs_due", 0, "idle")

-------------------------------------------------------------------------------
\* record_failure

CountFailure(a) ==
  /\ pc[a] = "rf_count"
  /\ consecutive_failures' = Least(consecutive_failures + 1, MAX_CONSECUTIVE_FAILURES)
  /\ failures' = [failures EXCEPT ![a] = consecutive_failures']
  /\ Goto(a, IF consecutive_failures' = MAX_CONSECUTIVE_FAILURES
             THEN "rf_disable" ELSE "rf_backoff")
  /\ UNCHANGED <<mode, healthy, disabled, next_check_in, http_error_times, errors, overlap>>

\* Mutant: the doubling starts one failure early, and has no cap.
BackoffUncapped(n) == BASE_BACKOFF * 2^n

\* BASE_BACKOFF, shifted by the failures but one.
Doubled[n \in 1..MAX_CONSECUTIVE_FAILURES] ==
  IF n = 1 THEN BASE_BACKOFF ELSE 2 * Doubled[n - 1]

Backoff(n) == Least(Doubled[n], MAX_BACKOFF)

RecordFailure(a) ==
  \/ CountFailure(a)
  \/ Disable(a, "rf_disable", "rf_unhealthy")
  \/ SetHealthy(a, "rf_unhealthy", FALSE, "rf_postpone")
  \/ Schedule(a, "rf_postpone", DisabledRetry, "idle")
  \/ Schedule(a, "rf_backoff", Backoff(failures[a]), "idle")

-------------------------------------------------------------------------------
\* The rest of health_check_loop: a check that passed does not set healthy while
\* the upstream is disabled with too many errors, and calls record_success anyway.
GuardDisabled(a) ==
  /\ pc[a] = "hc_guard"
  /\ Goto(a, IF disabled THEN "hc_window" ELSE "hc_set")
  /\ UNCHANGED <<mode, client, failures, errors, overlap>>

GuardWindow(a) ==
  /\ pc[a] = "hc_window"
  /\ Goto(a, IF Full(http_error_times) THEN "rs_reset" ELSE "hc_set")
  /\ UNCHANGED <<mode, client, failures, errors, overlap>>

CheckDone(a) ==
  \/ GuardDisabled(a)
  \/ GuardWindow(a)
  \/ SetHealthy(a, "hc_set", TRUE, "rs_reset")
  \/ SetHealthy(a, "hc_clear", FALSE, "rf_count")

-------------------------------------------------------------------------------
\* What an actor does once it has sent its request, or is about to.
Step(a) ==
  \/ LoadHealthy(a)
  \/ Answered(a)
  \/ RecordHttpError(a)
  \/ RecordSuccess(a)
  \/ RecordFailure(a)
  \/ CheckDone(a)

Next ==
  \/ SetMode
  \/ Tick
  \/ StartCheck
  \/ \E a \in Actors : LoadDisabled(a) \/ Dropped(a) \/ Step(a)

Spec == Init /\ [][Next]_vars

\* Time passes, the loop's interval fires (every 5 s) and finds the check due,
\* every request ends within its 30 s timeout, and a task that runs goes on.
\* Nobody need send requests, and the node need not ever be up.
FairSpec ==
  /\ Spec
  /\ WF_vars(Tick)
  /\ WF_vars(StartCheck)
  /\ \A a \in Actors : WF_vars(Step(a))

-------------------------------------------------------------------------------
Serving == ~disabled /\ healthy

\* A node that stays up ends up in service for good, whatever state the races of
\* the requests, polls and checks have left the flags and the schedule in
\* (client.rs:117-135, health.rs:20-95).
Recovers == <>[](mode = "up") => <>[]Serving

\* A node that stays down ends up out of service for good (client.rs:140-219).
LeavesService == <>[](mode = "down") => <>[]~Serving

\* record_success "will NOT re-enable the upstream if it was disabled due to HTTP
\* errors (the 1h window must expire first)" (client.rs:118-120), and only a race
\* breaks that: a record_success during which no HTTP error is
\* recorded, nobody disables the upstream and no other success is recorded never
\* re-enables it within the window, in whatever state earlier races have left the
\* flags, the error times and the schedule (client.rs:121-135).
WindowHonouredUnlessRaced ==
  [][disabled /\ ~disabled' /\ Full(errors) =>
       \E a \in Actors : pc[a] = "rs_enable" /\ pc'[a] = "rs_due" /\ overlap[a]]_vars

\* "Disabled upstreams are scheduled for retry after `disabled_retry_interval`"
\* (client.rs:139, README.md:186): a failure recorded of a disabled upstream does
\* not bring its retry forward.
FailureKeepsRetry ==
  [][\A a \in Actors :
       disabled /\ pc[a] = "rf_backoff" /\ pc'[a] = "idle" => next_check_in' >= next_check_in]_vars
===============================================================================
