-------------------------- MODULE UpstreamClientProofs --------------------------
(***************************************************************************)
(* The proofs, for any number of users and any thresholds, that only a     *)
(* race re-enables an upstream within its error window, and that the       *)
(* variables keep their types.                                             *)
(*                                                                         *)
(* A record_success is clean as long as nothing has overlapped it.  While  *)
(* one is clean, no other is under way, so that what it read of the errors *)
(* and of disabled is still so when it stores disabled.                    *)
(***************************************************************************)
EXTENDS UpstreamClient, FiniteSetTheorems, WellFoundedInduction, TLAPS

Types ==
  /\ disabled \in BOOLEAN
  /\ http_error_times \in Seq(Nat)
  /\ errors \in Seq(Nat)
  /\ pc \in [Actors -> Labels]
  /\ overlap \in [Actors -> BOOLEAN]

Clean(a) == pc[a] \in InSuccess /\ ~overlap[a]

Alone == \A a, b \in Actors : Clean(a) /\ a # b => pc[b] \notin InSuccess

\* The errors are those the history has, unless they were cleared by a success that
\* has yet to enable the upstream.
SameErrors == (\A b \in Actors : pc[b] # "rs_enable") => errors = http_error_times

WindowInv ==
  \A a \in Actors :
    Clean(a) =>
      /\ pc[a] = "rs_clear" => ~Full(errors)
      /\ pc[a] = "rs_enable" => ~disabled \/ ~Full(errors)

IInv == Types /\ Alone /\ SameErrors /\ WindowInv

-------------------------------------------------------------------------------
\* Time adds no errors.
LEMMA AgedShrinks ==
  ASSUME NEW times \in Seq(Nat)
  PROVE  Aged(times) \in Seq(Nat) /\ Len(Aged(times)) <= Len(times)
<1> DEFINE young == {i \in DOMAIN times : times[i] + 1 < HTTP_ERROR_WINDOW}
<1>1. Len(times) \in Nat /\ DOMAIN times = 1..Len(times)
  OBVIOUS
<1>2. young \subseteq 1..Len(times)
  BY <1>1
<1>3. IsFiniteSet(1..Len(times)) /\ Cardinality(1..Len(times)) = Len(times)
  <2> DEFINE n == Len(times)
  <2>1. n \in Int /\ 1 \in Int
    BY <1>1
  <2> HIDE DEF n
  <2>2. IsFiniteSet(1..n) /\ Cardinality(1..n) = IF 1 > n THEN 0 ELSE n - 1 + 1
    BY <2>1, FS_Interval, Zenon
  <2>3. n >= 0
    BY <1>1 DEF n
  <2>4. Cardinality(1..n) = n
    BY <2>1, <2>2, <2>3
  <2> QED
    BY <2>2, <2>4 DEF n
<1>4. IsFiniteSet(young) /\ Cardinality(young) <= Len(times)
  BY <1>2, <1>3, FS_Subset
<1>5. Cardinality(young) \in Nat
  BY <1>4, FS_CardinalityType
<1>6. Aged(times) = [i \in 1..Cardinality(young) |-> times[i] + 1]
  BY DEF Aged
<1> HIDE DEF young
<1>7. \A i \in 1..Cardinality(young) : times[i] + 1 \in Nat
  BY <1>1, <1>4, <1>5
<1> QED
  BY <1>4, <1>5, <1>6, <1>7

LEMMA RecordedType ==
  ASSUME NEW times \in Seq(Nat)
  PROVE  Recorded(times) \in Seq(Nat)
BY UpstreamClientAssumption DEF Recorded, Least

LEMMA InitIInv == Init => IInv
<1> SUFFICES ASSUME Init PROVE IInv
  OBVIOUS
<1>1. \A a \in Actors : pc[a] = "idle" /\ pc[a] \notin InSuccess
  BY DEF Init, InSuccess
<1>2. Types
  <2>1. pc \in [Actors -> Labels]
    BY DEF Init, Labels
  <2>2. overlap \in [Actors -> BOOLEAN]
    BY DEF Init
  <2>3. <<>> \in Seq(Nat)
    OBVIOUS
  <2>4. disabled \in BOOLEAN /\ http_error_times \in Seq(Nat) /\ errors \in Seq(Nat)
    BY <2>3 DEF Init
  <2> QED
    BY <2>1, <2>2, <2>4 DEF Types
<1>3. Alone /\ SameErrors /\ WindowInv
  BY <1>1 DEF Init, Alone, SameErrors, WindowInv, Clean
<1> QED
  BY <1>2, <1>3 DEF IInv

-------------------------------------------------------------------------------
\* The steps, by what they do to the flag, the errors and the history.

\* Actor a goes on and leaves these alone.
LEMMA MoveIInv ==
  ASSUME IInv, NEW a \in Actors, NEW to \in Labels,
         pc' = [pc EXCEPT ![a] = to],
         pc[a] # "rs_enable",
         to \in InSuccess => pc[a] \in InSuccess,
         Clean(a) => /\ to = "rs_clear" => ~Full(errors)
                     /\ to = "rs_enable" => ~disabled \/ ~Full(errors),
         UNCHANGED <<disabled, http_error_times, errors, overlap>>
  PROVE  IInv'
<1>1. Types'
  BY DEF IInv, Types
<1>2. Alone'
  BY DEF IInv, Types, Alone, Clean
<1>3. SameErrors'
  BY DEF IInv, Types, SameErrors
<1>4. WindowInv'
  BY DEF IInv, Types, WindowInv, Clean, Full
<1> QED
  BY <1>1, <1>2, <1>3, <1>4 DEF IInv

LEMMA LocalIInv ==
  ASSUME IInv, NEW a \in Actors,
         \/ LoadDisabled(a) \/ LoadHealthy(a) \/ Answered(a) \/ Dropped(a)
         \/ CountFailure(a) \/ GuardDisabled(a) \/ GuardWindow(a)
         \/ LoadDisabledOnSuccess(a)
  PROVE  IInv'
<1>1. PICK to \in Labels :
        /\ pc' = [pc EXCEPT ![a] = to]
        /\ to \in InSuccess => to \in {"rs_window", "rs_enable"} /\ pc[a] = "rs_load"
        /\ to = "rs_enable" => ~disabled
  BY DEF LoadDisabled, LoadHealthy, Answered, AfterAnswer, AfterError, Dropped, CountFailure,
         GuardDisabled, GuardWindow, LoadDisabledOnSuccess, Goto, Labels, InSuccess, InFailure,
         InHttpError, Actors
<1>2. pc[a] # "rs_enable" /\ UNCHANGED <<disabled, http_error_times, errors, overlap>>
  BY DEF LoadDisabled, LoadHealthy, Answered, Dropped, CountFailure, GuardDisabled, GuardWindow,
         LoadDisabledOnSuccess, client
<1>3. to \in InSuccess => pc[a] \in InSuccess
  BY <1>1 DEF InSuccess
<1>4. to # "rs_clear"
  BY <1>1 DEF InSuccess
<1> QED
  BY <1>1, <1>2, <1>3, <1>4, MoveIInv

\* While a clean success looks at the window, nobody has cleared errors.
LEMMA CheckWindowIInv == ASSUME IInv, NEW a \in Actors, CheckWindow(a) PROVE IInv'
<1> DEFINE to == IF Full(http_error_times) THEN "rs_postpone" ELSE "rs_clear"
<1>1. /\ pc[a] = "rs_window" /\ pc' = [pc EXCEPT ![a] = to]
      /\ UNCHANGED <<disabled, http_error_times, errors, overlap>>
  BY DEF CheckWindow, Goto, client
<1>2. to \in Labels /\ to # "rs_enable" /\ (to \in InSuccess => pc[a] \in InSuccess)
  BY <1>1 DEF Labels, InSuccess
<1>3. Clean(a) => errors = http_error_times
  BY <1>1 DEF IInv, Alone, SameErrors, InSuccess
<1>4. Clean(a) /\ to = "rs_clear" => ~Full(errors)
  BY <1>3
<1> QED
  BY <1>1, <1>2, <1>4, MoveIInv

LEMMA SetHealthyIInv ==
  ASSUME IInv, NEW a \in Actors, NEW from \in Labels, NEW value, NEW to \in Labels,
         SetHealthy(a, from, value, to), from # "rs_enable", to \notin InSuccess
  PROVE  IInv'
<1>1. pc' = [pc EXCEPT ![a] = to] /\ pc[a] # "rs_enable"
  BY DEF SetHealthy, Goto
<1>2. UNCHANGED <<disabled, http_error_times, errors, overlap>>
  BY DEF SetHealthy
<1>3. to # "rs_clear" /\ to # "rs_enable"
  BY DEF InSuccess
<1> QED
  BY <1>1, <1>2, <1>3, MoveIInv

LEMMA StartCheckIInv == ASSUME IInv, StartCheck PROVE IInv'
<1>1. /\ Health \in Actors /\ pc' = [pc EXCEPT ![Health] = "sent"]
      /\ pc[Health] # "rs_enable" /\ UNCHANGED <<disabled, http_error_times, errors, overlap>>
  BY DEF StartCheck, Goto, Actors, client
<1>2. "sent" \in Labels /\ "sent" \notin InSuccess
  BY DEF Labels, InSuccess
<1> QED
  BY <1>1, <1>2, MoveIInv DEF InSuccess

-------------------------------------------------------------------------------
LEMMA SetModeIInv == ASSUME IInv, SetMode PROVE IInv'
BY DEF SetMode, client, IInv, Types, Alone, SameErrors, WindowInv, Clean, Full

LEMMA TickIInv == ASSUME IInv, Tick PROVE IInv'
<1>0. /\ UNCHANGED <<disabled, pc, overlap>>
      /\ http_error_times' = Aged(http_error_times) /\ errors' = Aged(errors)
  BY DEF Tick
<1>1. Types'
  BY <1>0, AgedShrinks DEF IInv, Types
<1>2. Len(errors') <= Len(errors) /\ Len(errors') \in Nat /\ Len(errors) \in Nat
  BY <1>0, <1>1, AgedShrinks DEF IInv, Types
<1>3. Full(errors)' => Full(errors)
  BY <1>2, UpstreamClientAssumption DEF Full
<1>4. Alone' /\ SameErrors'
  BY <1>0 DEF IInv, Alone, SameErrors, Clean
<1>5. WindowInv'
  BY <1>0, <1>3 DEF IInv, WindowInv, Clean
<1> QED
  BY <1>1, <1>4, <1>5 DEF IInv

\* After a step that marks the successes under way, none is clean.
LEMMA MarkedIInv ==
  ASSUME IInv, NEW a \in Actors, NEW to \in Labels, to \notin InSuccess,
         pc[a] \notin InSuccess, pc' = [pc EXCEPT ![a] = to], MarkOverlaps,
         Types', SameErrors'
  PROVE  IInv'
<1>1. \A b \in Actors : ~Clean(b)'
  BY DEF IInv, Types, MarkOverlaps, Clean
<1> QED
  BY <1>1 DEF IInv, Alone, WindowInv

LEMMA PushHttpErrorIInv == ASSUME IInv, NEW a \in Actors, PushHttpError(a) PROVE IInv'
<1>1. PICK to \in Labels : pc' = [pc EXCEPT ![a] = to] /\ to \notin InSuccess
  BY DEF PushHttpError, Goto, AfterError, Labels, InHttpError, InSuccess
<1>2. /\ pc[a] = "he_push" /\ pc[a] \notin InSuccess
      /\ http_error_times' = Recorded(http_error_times) /\ errors' = Recorded(errors)
      /\ MarkOverlaps /\ UNCHANGED disabled
  BY DEF PushHttpError, InSuccess
<1>3. Types'
  BY <1>1, <1>2, RecordedType DEF IInv, Types, MarkOverlaps
<1>4. SameErrors'
  BY <1>1, <1>2 DEF IInv, Types, SameErrors, InSuccess
<1> QED
  BY <1>1, <1>2, <1>3, <1>4, MarkedIInv

LEMMA DisableIInv ==
  ASSUME IInv, NEW a \in Actors, NEW from \in Labels, NEW to \in Labels,
         from \notin InSuccess, to \notin InSuccess, Disable(a, from, to)
  PROVE  IInv'
<1>1. /\ pc[a] = from /\ pc' = [pc EXCEPT ![a] = to] /\ disabled' = TRUE
      /\ MarkOverlaps /\ UNCHANGED <<http_error_times, errors>>
  BY DEF Disable, Goto
<1>2. Types'
  BY <1>1 DEF IInv, Types, MarkOverlaps
<1>3. SameErrors'
  BY <1>1 DEF IInv, Types, SameErrors, InSuccess
<1> QED
  BY <1>1, <1>2, <1>3, MarkedIInv

LEMMA ScheduleIInv ==
  ASSUME IInv, NEW a \in Actors, NEW from \in Labels, NEW delay, NEW to \in Labels,
         from # "rs_enable", to \notin InSuccess, Schedule(a, from, delay, to)
  PROVE  IInv'
<1>1. /\ pc[a] = from /\ pc' = [pc EXCEPT ![a] = to]
      /\ overlap' = [overlap EXCEPT ![a] = FALSE]
      /\ UNCHANGED <<disabled, http_error_times, errors>>
  BY DEF Schedule, Goto
<1>2. Types'
  BY <1>1 DEF IInv, Types
<1>3. /\ ~Clean(a)' /\ pc'[a] \notin InSuccess
      /\ \A b \in Actors \ {a} : pc'[b] = pc[b] /\ (Clean(b)' <=> Clean(b))
  BY <1>1 DEF IInv, Types, Clean
<1>4. Alone' /\ WindowInv'
  BY <1>1, <1>3 DEF IInv, Alone, WindowInv, Full
<1>5. SameErrors'
  BY <1>1, <1>3 DEF IInv, SameErrors, InSuccess
<1> QED
  BY <1>2, <1>4, <1>5 DEF IInv

LEMMA ResetFailuresIInv == ASSUME IInv, NEW a \in Actors, ResetFailures(a) PROVE IInv'
<1>1. /\ pc[a] = "rs_reset" /\ pc' = [pc EXCEPT ![a] = "rs_load"]
      /\ overlap' = [b \in Actors |->
                       IF b = a THEN \E c \in Actors : pc[c] \in InSuccess
                       ELSE overlap[b] \/ pc[b] \in InSuccess]
      /\ UNCHANGED <<disabled, http_error_times, errors>>
  BY DEF ResetFailures, Goto
<1>2. Types'
  BY <1>1 DEF IInv, Types, Labels, InSuccess
<1>3. \A b \in Actors : Clean(b)' => b = a
  BY <1>1, Zenon DEF IInv, Types, Clean
<1>4. Clean(a)' => \A c \in Actors : pc[c] \notin InSuccess
  BY <1>1 DEF Clean
<1>5. Alone'
  BY <1>1, <1>3, <1>4 DEF IInv, Types, Alone
<1>6. SameErrors' /\ WindowInv'
  BY <1>1, <1>3 DEF IInv, Types, SameErrors, WindowInv
<1> QED
  BY <1>2, <1>5, <1>6 DEF IInv

\* Actor a goes on within record_success, and nothing is marked.
LEMMA StaysAlone ==
  ASSUME IInv, NEW a \in Actors, NEW to \in InSuccess, pc[a] \in InSuccess,
         pc' = [pc EXCEPT ![a] = to], UNCHANGED overlap
  PROVE  /\ Alone'
         /\ \A b \in Actors : pc'[b] \in InSuccess /\ ~overlap'[b] => Clean(b)
         /\ \A b \in Actors \ {a} : Clean(b) => pc[a] \notin InSuccess
<1>1. \A b \in Actors : pc'[b] \in InSuccess /\ ~overlap'[b] => Clean(b)
  BY DEF IInv, Types, Clean
<1>2. Alone'
  BY <1>1 DEF IInv, Types, Alone, Clean
<1>3. \A b \in Actors \ {a} : Clean(b) => pc[a] \notin InSuccess
  BY DEF IInv, Alone
<1> QED
  BY <1>1, <1>2, <1>3

LEMMA ClearErrorsIInv == ASSUME IInv, NEW a \in Actors, ClearErrors(a) PROVE IInv'
<1>1. /\ pc[a] = "rs_clear" /\ pc' = [pc EXCEPT ![a] = "rs_enable"]
      /\ http_error_times' = <<>>
      /\ UNCHANGED <<disabled, errors, overlap>>
  BY DEF ClearErrors, Goto
<1>2. Types'
  <2>1. <<>> \in Seq(Nat) /\ "rs_enable" \in Labels
    BY DEF Labels, InSuccess
  <2> QED
    BY <1>1, <2>1 DEF IInv, Types
<1>3. "rs_enable" \in InSuccess /\ "rs_clear" \in InSuccess
  BY DEF InSuccess
<1>4. /\ Alone'
      /\ \A b \in Actors : pc'[b] \in InSuccess /\ ~overlap'[b] => Clean(b) /\ b = a
  BY <1>1, <1>3, StaysAlone
<1>5. SameErrors'
  BY <1>1 DEF IInv, Types, SameErrors
<1>6. Clean(a) => ~Full(errors)
  BY <1>1 DEF IInv, WindowInv
<1>7. WindowInv'
  BY <1>1, <1>4, <1>6 DEF WindowInv, Clean, Full
<1> QED
  BY <1>2, <1>4, <1>5, <1>7 DEF IInv

LEMMA EnableIInv == ASSUME IInv, NEW a \in Actors, Enable(a) PROVE IInv'
<1>1. /\ pc[a] = "rs_enable" /\ pc' = [pc EXCEPT ![a] = "rs_due"]
      /\ disabled' = FALSE /\ errors' = http_error_times
      /\ UNCHANGED <<http_error_times, overlap>>
  BY DEF Enable, Goto
<1>2. Types'
  <2>1. "rs_due" \in Labels
    BY DEF Labels, InSuccess
  <2> QED
    BY <1>1, <2>1 DEF IInv, Types
<1>3. "rs_enable" \in InSuccess /\ "rs_due" \in InSuccess
  BY DEF InSuccess
<1>4. /\ Alone'
      /\ \A b \in Actors : pc'[b] \in InSuccess /\ ~overlap'[b] => Clean(b) /\ b = a
  BY <1>1, <1>3, StaysAlone
<1>5. SameErrors'
  BY <1>1 DEF SameErrors
<1>6. pc'[a] = "rs_due"
  BY <1>1 DEF IInv, Types
<1>7. WindowInv'
  BY <1>4, <1>6 DEF WindowInv, Clean
<1> QED
  BY <1>2, <1>4, <1>5, <1>7 DEF IInv

-------------------------------------------------------------------------------
LEMMA RecordHttpErrorIInv == ASSUME IInv, NEW a \in Actors, RecordHttpError(a) PROVE IInv'
<1>1. /\ {"he_disable", "he_unhealthy", "he_schedule"} \cap InSuccess = {}
      /\ {"he_disable", "he_unhealthy", "he_schedule"} \subseteq Labels
  BY DEF InSuccess, InHttpError, Labels
<1>2. CASE PushHttpError(a)
  BY <1>2, PushHttpErrorIInv
<1>3. CASE Disable(a, "he_disable", "he_unhealthy")
  BY <1>1, <1>3, DisableIInv
<1>4. CASE SetHealthy(a, "he_unhealthy", FALSE, "he_schedule")
  BY <1>1, <1>4, SetHealthyIInv
<1>5. CASE \E to \in AfterError(a) : Schedule(a, "he_schedule", DisabledRetry, to)
  <2>1. PICK to \in AfterError(a) : Schedule(a, "he_schedule", DisabledRetry, to)
    BY <1>5
  <2>2. to \in Labels /\ to \notin InSuccess
    BY DEF AfterError, Labels, InSuccess
  <2> QED
    BY <1>1, <2>1, <2>2, ScheduleIInv
<1> QED
  BY <1>2, <1>3, <1>4, <1>5 DEF RecordHttpError

LEMMA RecordSuccessIInv == ASSUME IInv, NEW a \in Actors, RecordSuccess(a) PROVE IInv'
<1>1. {"idle", "rs_postpone", "rs_due"} \subseteq Labels /\ "idle" \notin InSuccess
  BY DEF InSuccess, Labels
<1>2. CASE ResetFailures(a)
  BY <1>2, ResetFailuresIInv
<1>3. CASE LoadDisabledOnSuccess(a)
  BY <1>3, LocalIInv
<1>4. CASE CheckWindow(a)
  BY <1>4, CheckWindowIInv
<1>5. CASE Schedule(a, "rs_postpone", DisabledRetry, "idle")
  BY <1>1, <1>5, ScheduleIInv
<1>6. CASE ClearErrors(a)
  BY <1>6, ClearErrorsIInv
<1>7. CASE Enable(a)
  BY <1>7, EnableIInv
<1>8. CASE Schedule(a, "rs_due", 0, "idle")
  BY <1>1, <1>8, ScheduleIInv
<1> QED
  BY <1>2, <1>3, <1>4, <1>5, <1>6, <1>7, <1>8 DEF RecordSuccess

LEMMA RecordFailureIInv == ASSUME IInv, NEW a \in Actors, RecordFailure(a) PROVE IInv'
<1>1. /\ {"rf_disable", "rf_unhealthy", "rf_postpone", "rf_backoff", "idle"} \cap InSuccess = {}
      /\ {"rf_disable", "rf_unhealthy", "rf_postpone", "rf_backoff", "idle"} \subseteq Labels
  BY DEF InSuccess, InFailure, Labels
<1>2. CASE CountFailure(a)
  BY <1>2, LocalIInv
<1>3. CASE Disable(a, "rf_disable", "rf_unhealthy")
  BY <1>1, <1>3, DisableIInv
<1>4. CASE SetHealthy(a, "rf_unhealthy", FALSE, "rf_postpone")
  BY <1>1, <1>4, SetHealthyIInv
<1>5. CASE Schedule(a, "rf_postpone", DisabledRetry, "idle")
  BY <1>1, <1>5, ScheduleIInv
<1>6. CASE Schedule(a, "rf_backoff", Backoff(failures[a]), "idle")
  BY <1>1, <1>6, ScheduleIInv
<1> QED
  BY <1>2, <1>3, <1>4, <1>5, <1>6 DEF RecordFailure

LEMMA CheckDoneIInv == ASSUME IInv, NEW a \in Actors, CheckDone(a) PROVE IInv'
<1>1. /\ {"hc_set", "hc_clear", "rs_reset", "rf_count"} \cap InSuccess = {}
      /\ {"hc_set", "hc_clear", "rs_reset", "rf_count"} \subseteq Labels
  BY DEF InSuccess, Labels
<1>2. CASE GuardDisabled(a) \/ GuardWindow(a)
  BY <1>2, LocalIInv
<1>3. CASE SetHealthy(a, "hc_set", TRUE, "rs_reset")
  BY <1>1, <1>3, SetHealthyIInv
<1>4. CASE SetHealthy(a, "hc_clear", FALSE, "rf_count")
  BY <1>1, <1>4, SetHealthyIInv
<1> QED
  BY <1>2, <1>3, <1>4 DEF CheckDone

LEMMA NextIInv == ASSUME IInv, [Next]_vars PROVE IInv'
<1>1. CASE UNCHANGED vars
  BY <1>1 DEF vars, client, IInv, Types, Alone, SameErrors, WindowInv, Clean, Full
<1>2. CASE SetMode \/ Tick \/ StartCheck
  BY <1>2, SetModeIInv, TickIInv, StartCheckIInv
<1>3. ASSUME NEW a \in Actors, LoadDisabled(a) \/ Dropped(a) \/ Step(a) PROVE IInv'
  BY <1>3, LocalIInv, RecordHttpErrorIInv, RecordSuccessIInv, RecordFailureIInv, CheckDoneIInv
     DEF Step
<1> QED
  BY <1>1, <1>2, <1>3 DEF Next

\* The invariant of what a clean success knows holds of client.rs:118-219 with any
\* number of users.
THEOREM Invariance == Spec => []IInv
<1>1. Init => IInv
  BY InitIInv
<1>2. IInv /\ [Next]_vars => IInv'
  BY NextIInv
<1> QED
  BY <1>1, <1>2, PTL DEF Spec

\* Only an actor that stores disabled = FALSE in record_success enables the upstream.
LEMMA OnlyEnableEnables ==
  ASSUME IInv, [Next]_vars, disabled, ~disabled'
  PROVE  \E a \in Actors : Enable(a)
<1>1. SUFFICES ASSUME \A a \in Actors : ~Enable(a) PROVE disabled' \in {disabled, TRUE}
  OBVIOUS
<1>2. CASE UNCHANGED vars
  BY <1>2 DEF vars, client
<1>3. CASE SetMode \/ Tick \/ StartCheck
  BY <1>3 DEF SetMode, Tick, StartCheck, client
<1>4. ASSUME NEW a \in Actors, LoadDisabled(a) \/ Dropped(a) \/ Step(a)
      PROVE  disabled' \in {disabled, TRUE}
  <2>1. CASE LoadDisabled(a) \/ Dropped(a) \/ LoadHealthy(a) \/ Answered(a)
    BY <2>1 DEF LoadDisabled, Dropped, LoadHealthy, Answered, client
  <2>2. CASE RecordHttpError(a)
    BY <2>2 DEF RecordHttpError, PushHttpError, Disable, SetHealthy, Schedule
  <2>3. CASE RecordSuccess(a)
    BY <1>1, <2>3 DEF RecordSuccess, ResetFailures, LoadDisabledOnSuccess, CheckWindow,
                      Schedule, ClearErrors, client
  <2>4. CASE RecordFailure(a)
    BY <2>4 DEF RecordFailure, CountFailure, Disable, SetHealthy, Schedule
  <2>5. CASE CheckDone(a)
    BY <2>5 DEF CheckDone, GuardDisabled, GuardWindow, SetHealthy, client
  <2> QED
    BY <1>4, <2>1, <2>2, <2>3, <2>4, <2>5 DEF Step
<1> QED
  BY <1>2, <1>3, <1>4 DEF Next

\* A record_success that nothing overlapped never re-enables an upstream within its
\* error window (client.rs:118-135), with any number of users and any thresholds.
THEOREM OnlyRacesBreakTheWindow == Spec => WindowHonouredUnlessRaced
<1> DEFINE Raced ==
      disabled /\ ~disabled' /\ Full(errors) =>
        \E a \in Actors : pc[a] = "rs_enable" /\ pc'[a] = "rs_due" /\ overlap[a]
<1>1. IInv /\ [Next]_vars => Raced
  <2> SUFFICES ASSUME IInv, [Next]_vars, disabled, ~disabled', Full(errors)
               PROVE  \E a \in Actors : pc[a] = "rs_enable" /\ pc'[a] = "rs_due" /\ overlap[a]
    OBVIOUS
  <2>1. PICK a \in Actors : Enable(a)
    BY OnlyEnableEnables
  <2>2. pc[a] = "rs_enable" /\ pc'[a] = "rs_due"
    BY <2>1 DEF Enable, Goto, IInv, Types
  <2>3. ~Clean(a)
    BY <2>2 DEF IInv, WindowInv
  <2>4. overlap[a]
    BY <2>2, <2>3 DEF Clean, InSuccess
  <2> QED
    BY <2>2, <2>4
<1>2. IInv /\ [Next]_vars => [Raced]_vars
  BY <1>1
<1> QED
  BY <1>2, Invariance, PTL DEF Spec, WindowHonouredUnlessRaced
-------------------------------------------------------------------------------
\* The type of the error times rests on their order, which makes those that are still
\* within the window the first ones, and that of the schedule on the count, which is
\* never zero where it is shifted by.
Sorted(times) == \A i, j \in DOMAIN times : i < j => times[i] <= times[j]

TypeInv ==
  /\ TypeOK
  /\ Sorted(http_error_times)
  /\ Sorted(errors)
  /\ \A a \in Actors : pc[a] = "rf_backoff" => failures[a] # 0

\* A non-empty set of naturals has a least element.
LEMMA LeastExists ==
  ASSUME NEW S \in SUBSET Nat, S # {}
  PROVE  \E m \in S : \A n \in S : m <= n
<1>1. PICK m \in S : \A n \in S : <<n, m>> \notin OpToRel(<, Nat)
  BY WFMin, NatLessThanWellFounded
<1>2. \A n \in S : ~(n < m)
  BY <1>1 DEF OpToRel
<1> QED
  BY <1>2

LEMMA Thresholds ==
  /\ MAX_CONSECUTIVE_FAILURES \in Nat \ {0} /\ MAX_HTTP_ERRORS \in Nat \ {0}
  /\ HTTP_ERROR_WINDOW \in Nat \ {0} /\ BASE_BACKOFF \in Nat \ {0}
  /\ MAX_BACKOFF \in Nat \ {0} /\ DisabledRetry \in Nat \ {0}
BY UpstreamClientAssumption DEF UpstreamClientAssumption

\* The recursion of Doubled has a solution, whose values are naturals.
LEMMA DoubledType ==
  ASSUME NEW n \in 1..MAX_CONSECUTIVE_FAILURES
  PROVE  Doubled[n] \in Nat
<1> DEFINE Max == MAX_CONSECUTIVE_FAILURES
           Solves(f, k) == f = [i \in 1..k |-> IF i = 1 THEN BASE_BACKOFF ELSE 2 * f[i - 1]]
           Unsolved == {k \in 0..Max : ~(\E f : Solves(f, k))}
<1>1. Max \in Nat /\ BASE_BACKOFF \in Nat
  BY Thresholds
<1>2. Unsolved = {}
  <2> SUFFICES ASSUME Unsolved # {} PROVE FALSE
    OBVIOUS
  <2>1. PICK k \in Unsolved : \A j \in Unsolved : k <= j
    <3>1. Unsolved \in SUBSET Nat
      BY <1>1
    <3> HIDE DEF Unsolved
    <3> QED
      BY <3>1, LeastExists
  <2>2. k # 0
    <3>1. Solves(<<>>, 0)
      OBVIOUS
    <3> QED
      BY <3>1
  <2>3. k - 1 \in 0..Max /\ k - 1 \notin Unsolved
    <3>1. k \in 0..Max
      OBVIOUS
    <3>2. k - 1 \in 0..Max /\ ~(k <= k - 1)
      BY <1>1, <3>1, <2>2
    <3> HIDE DEF Unsolved
    <3> QED
      BY <3>2, <2>1
  <2>4. PICK f : Solves(f, k - 1)
    BY <2>3
  <2> DEFINE g == [i \in 1..k |-> IF i = 1 THEN BASE_BACKOFF ELSE 2 * f[i - 1]]
  <2>5. \A i \in 1..k - 1 : g[i] = f[i]
    BY <2>3, <2>4
  <2>6. \A i \in 1..k : i = 1 \/ i - 1 \in 1..k - 1
    BY <2>3
  <2>7. Solves(g, k)
    BY <2>5, <2>6
  <2> QED
    BY <2>7
<1>3. \E f : Solves(f, Max)
  <2>1. Max \in 0..Max
    BY <1>1
  <2>2. Max \notin Unsolved
    BY <1>2
  <2> HIDE DEF Max, Solves
  <2> QED
    BY <2>1, <2>2
<1>4. Solves(Doubled, Max)
  BY <1>3 DEF Doubled
<1>5. \A i \in 1..Max : Doubled[i] = IF i = 1 THEN BASE_BACKOFF ELSE 2 * Doubled[i - 1]
  BY <1>4
<1> DEFINE Wrong == {i \in 1..Max : Doubled[i] \notin Nat}
<1>6. Wrong = {}
  <2> SUFFICES ASSUME Wrong # {} PROVE FALSE
    OBVIOUS
  <2>1. PICK i \in Wrong : \A j \in Wrong : i <= j
    <3>1. Wrong \in SUBSET Nat
      BY <1>1
    <3> HIDE DEF Wrong
    <3> QED
      BY <3>1, LeastExists
  <2>2. i = 1 \/ (i - 1 \in 1..Max /\ Doubled[i - 1] \in Nat)
    BY <1>1, <2>1
  <2>3. Doubled[i] \in Nat
    BY <1>1, <1>5, <2>2
  <2> QED
    BY <2>3
<1> QED
  BY <1>6

LEMMA BackoffType ==
  ASSUME NEW n \in 1..MAX_CONSECUTIVE_FAILURES
  PROVE  Backoff(n) \in 0..MAX_BACKOFF
BY DoubledType, Thresholds DEF Backoff, Least

\* A set of indices that has with one all before it is an initial interval.
LEMMA Prefix ==
  ASSUME NEW n \in Nat, NEW D \in SUBSET (1..n),
         \A i, j \in 1..n : i < j /\ j \in D => i \in D
  PROVE  Cardinality(D) \in 0..n /\ D = 1..Cardinality(D)
<1> DEFINE Out == {i \in 1..n + 1 : i \notin D}
<1>1. PICK m \in Out : \A i \in Out : m <= i
  <2>1. n + 1 \in Out /\ Out \in SUBSET Nat
    OBVIOUS
  <2> HIDE DEF Out
  <2> QED
    BY <2>1, LeastExists
<1>2. m - 1 \in 0..n /\ m \notin D
  OBVIOUS
<1>3. \A i \in 1..n : i < m => i \in D
  BY <1>1, <1>2
<1>4. \A i \in D : i < m
  BY <1>2
<1>5. D = 1..m - 1
  <2>1. \A i \in D : i \in 1..n
    OBVIOUS
  <2>2. m \in 1..n + 1
    OBVIOUS
  <2> HIDE DEF Out
  <2>3. \A i \in D : i \in 1..m - 1
    BY <1>4, <2>1, <2>2
  <2>4. \A i \in 1..m - 1 : i \in D
    BY <1>3, <2>2
  <2> QED
    BY <2>3, <2>4
<1>6. Cardinality(1..m - 1) = m - 1
  <2>1. PICK k \in Nat : k = m - 1
    BY <1>2
  <2>2. Cardinality(1..k) = IF 1 > k THEN 0 ELSE k - 1 + 1
    <3>1. k \in Int /\ 1 \in Int
      OBVIOUS
    <3> QED
      BY <3>1, FS_Interval, Zenon
  <2> QED
    BY <2>1, <2>2
<1> QED
  BY <1>2, <1>5, <1>6

LEMMA AgeListsFacts ==
  ASSUME NEW times \in AgeLists
  PROVE  /\ Len(times) \in 0..MAX_HTTP_ERRORS
         /\ DOMAIN times = 1..Len(times)
         /\ \A i \in 1..Len(times) : times[i] \in Ages
<1>1. PICK n \in 0..MAX_HTTP_ERRORS : times \in [1..n -> Ages]
  BY DEF AgeLists
<1>2. n \in Nat /\ times \in Seq(Ages)
  BY <1>1, Thresholds
<1>3. Len(times) = n
  BY <1>1, <1>2
<1> QED
  BY <1>1, <1>3

\* Time takes from the end of the list.
LEMMA AgedType ==
  ASSUME NEW times \in AgeLists, Sorted(times)
  PROVE  Aged(times) \in AgeLists /\ Sorted(Aged(times))
<1> DEFINE young == {i \in DOMAIN times : times[i] + 1 < HTTP_ERROR_WINDOW}
           k == Cardinality(young)
<1>1. /\ Len(times) \in 0..MAX_HTTP_ERRORS /\ DOMAIN times = 1..Len(times)
      /\ \A i \in 1..Len(times) : times[i] \in Ages
  BY AgeListsFacts
<1>2. Len(times) \in Nat /\ \A i \in 1..Len(times) : times[i] \in Nat
  BY <1>1, Thresholds DEF Ages
<1>3. k \in 0..Len(times) /\ young = 1..k
  <2>1. young \in SUBSET (1..Len(times))
    BY <1>1
  <2>2. \A i, j \in 1..Len(times) : i < j /\ j \in young => i \in young
    BY <1>1, <1>2, Thresholds DEF Sorted
  <2> HIDE DEF young
  <2> QED
    BY <1>2, <2>1, <2>2, Prefix
<1>4. \A i \in 1..k : times[i] + 1 \in Ages
  BY <1>2, <1>3, Thresholds DEF Ages
<1>5. Aged(times) = [i \in 1..k |-> times[i] + 1]
  BY DEF Aged
<1> HIDE DEF young, k
<1>6. Aged(times) \in AgeLists
  BY <1>1, <1>3, <1>4, <1>5, Thresholds DEF AgeLists
<1>7. Sorted(Aged(times))
  BY <1>1, <1>2, <1>3, <1>5 DEF Sorted
<1> QED
  BY <1>6, <1>7

\* A new error is the youngest.
LEMMA RecordedTyped ==
  ASSUME NEW times \in AgeLists, Sorted(times)
  PROVE  Recorded(times) \in AgeLists /\ Sorted(Recorded(times))
<1> DEFINE len == Len(times)
           k == Least(len + 1, MAX_HTTP_ERRORS)
           more == <<0>> \o times
<1>1. /\ len \in 0..MAX_HTTP_ERRORS /\ DOMAIN times = 1..len
      /\ \A i \in 1..len : times[i] \in Ages
  BY AgeListsFacts
<1>2. len \in Nat /\ 0 \in Ages /\ Ages \subseteq Nat
  BY <1>1, Thresholds DEF Ages
<1>3. times \in Seq(Ages)
  BY <1>1, <1>2 DEF AgeLists
<1>4. k \in 1..MAX_HTTP_ERRORS /\ k <= len + 1
  BY <1>1, <1>2, Thresholds DEF Least
<1>5. \A i \in 1..len + 1 : more[i] = IF i = 1 THEN 0 ELSE times[i - 1]
  BY <1>2, <1>3
<1>6. Recorded(times) = SubSeq(more, 1, k)
  BY DEF Recorded
<1>7. more \in Seq(Ages) /\ Len(more) = len + 1
  BY <1>2, <1>3
<1> HIDE DEF k, more, len
<1>8. SubSeq(more, 1, k) = [i \in 1..k |-> more[i]]
  BY <1>2, <1>4, <1>7, Thresholds
<1>9. \A i \in 1..k : more[i] \in Ages
  BY <1>1, <1>2, <1>4, <1>5, Thresholds
<1>10. SubSeq(more, 1, k) \in AgeLists
  <2>1. [i \in 1..k |-> more[i]] \in [1..k -> Ages]
    BY <1>9
  <2>2. k \in 0..MAX_HTTP_ERRORS
    BY <1>4, Thresholds
  <2> QED
    BY <1>8, <2>1, <2>2 DEF AgeLists
<1>11. \A i, j \in 1..k : i < j => more[i] <= more[j]
  <2> SUFFICES ASSUME NEW i \in 1..k, NEW j \in 1..k, i < j PROVE more[i] <= more[j]
    OBVIOUS
  <2>1. i \in 1..len + 1 /\ j \in 2..len + 1 /\ j - 1 \in 1..len
    BY <1>2, <1>4, Thresholds
  <2>2. more[j] = times[j - 1] /\ times[j - 1] \in Nat
    <3>1. j \in 1..len + 1 /\ j # 1
      BY <2>1
    <3> QED
      BY <1>1, <1>2, <1>5, <2>1, <3>1
  <2>3. CASE i = 1
    BY <1>5, <2>1, <2>2, <2>3
  <2>4. CASE i # 1
    <3>1. i - 1 \in 1..len /\ i - 1 < j - 1 /\ more[i] = times[i - 1]
      BY <1>2, <1>5, <2>1, <2>4
    <3> QED
      BY <1>1, <2>1, <2>2, <3>1 DEF Sorted
  <2> QED
    BY <2>3, <2>4
<1> QED
  BY <1>6, <1>8, <1>10, <1>11 DEF Sorted

LEMMA EmptyTyped == <<>> \in AgeLists /\ Sorted(<<>>)
<1>1. <<>> \in [1..0 -> Ages] /\ 0 \in 0..MAX_HTTP_ERRORS
  BY Thresholds
<1> QED
  BY <1>1 DEF AgeLists, Sorted

-------------------------------------------------------------------------------
LEMMA TypeInit == Init => TypeInv
<1> SUFFICES ASSUME Init PROVE TypeInv
  OBVIOUS
<1>1. pc \in [Actors -> Labels] /\ \A a \in Actors : pc[a] # "rf_backoff"
  BY DEF Init, Labels
<1>2. failures \in [Actors -> 0..MAX_CONSECUTIVE_FAILURES] /\ overlap \in [Actors -> BOOLEAN]
  BY Thresholds DEF Init
<1>3. next_check_in \in 0..DisabledRetry /\ consecutive_failures \in 0..MAX_CONSECUTIVE_FAILURES
  BY Thresholds DEF Init
<1> QED
  BY <1>1, <1>2, <1>3, EmptyTyped DEF Init, TypeInv, TypeOK

\* Actor a goes on and leaves the rest alone.
LEMMA MoveTyped ==
  ASSUME TypeInv, NEW a \in Actors, NEW to \in Labels \ {"rf_backoff"},
         pc' = [pc EXCEPT ![a] = to], UNCHANGED <<mode, client, failures, errors, overlap>>
  PROVE  TypeInv'
<1>1. pc' \in [Actors -> Labels]
  BY DEF TypeInv, TypeOK
<1>2. \A b \in Actors : pc'[b] = "rf_backoff" => failures[b] # 0
  BY DEF TypeInv, TypeOK
<1> QED
  BY <1>1, <1>2 DEF TypeInv, TypeOK, client, Sorted

LEMMA MovesTyped ==
  ASSUME TypeInv, NEW a \in Actors,
         \/ LoadDisabled(a) \/ LoadHealthy(a) \/ Answered(a) \/ Dropped(a)
         \/ GuardDisabled(a) \/ GuardWindow(a) \/ LoadDisabledOnSuccess(a) \/ CheckWindow(a)
  PROVE  TypeInv'
<1>1. PICK to \in Labels \ {"rf_backoff"} : pc' = [pc EXCEPT ![a] = to]
  BY DEF LoadDisabled, LoadHealthy, Answered, AfterAnswer, AfterError, Dropped, GuardDisabled,
         GuardWindow, LoadDisabledOnSuccess, CheckWindow, Goto, Labels, InSuccess, InFailure,
         InHttpError, Actors
<1>2. UNCHANGED <<mode, client, failures, errors, overlap>>
  BY DEF LoadDisabled, LoadHealthy, Answered, Dropped, GuardDisabled, GuardWindow,
         LoadDisabledOnSuccess, CheckWindow
<1> QED
  BY <1>1, <1>2, MoveTyped

LEMMA TypeDisable ==
  ASSUME TypeInv, NEW a \in Actors, NEW from, NEW to \in Labels \ {"rf_backoff"},
         Disable(a, from, to)
  PROVE  TypeInv'
<1>1. /\ pc' = [pc EXCEPT ![a] = to] /\ disabled' = TRUE /\ MarkOverlaps
      /\ UNCHANGED <<mode, healthy, consecutive_failures, next_check_in, http_error_times,
                     failures, errors>>
  BY DEF Disable, Goto
<1>2. pc' \in [Actors -> Labels] /\ \A b \in Actors : pc'[b] = "rf_backoff" => failures[b] # 0
  BY <1>1 DEF TypeInv, TypeOK
<1>3. overlap' \in [Actors -> BOOLEAN]
  BY <1>1 DEF MarkOverlaps, TypeInv, TypeOK
<1> QED
  BY <1>1, <1>2, <1>3 DEF TypeInv, TypeOK, Sorted

LEMMA TypeSetHealthy ==
  ASSUME TypeInv, NEW a \in Actors, NEW from, NEW value \in BOOLEAN,
         NEW to \in Labels \ {"rf_backoff"}, SetHealthy(a, from, value, to)
  PROVE  TypeInv'
<1>1. /\ pc' = [pc EXCEPT ![a] = to] /\ healthy' = value
      /\ UNCHANGED <<mode, disabled, consecutive_failures, next_check_in, http_error_times,
                     failures, errors, overlap>>
  BY DEF SetHealthy, Goto
<1>2. pc' \in [Actors -> Labels] /\ \A b \in Actors : pc'[b] = "rf_backoff" => failures[b] # 0
  BY <1>1 DEF TypeInv, TypeOK
<1> QED
  BY <1>1, <1>2 DEF TypeInv, TypeOK, Sorted

LEMMA TypeSchedule ==
  ASSUME TypeInv, NEW a \in Actors, NEW from, NEW delay, NEW to \in Labels \ {"rf_backoff"},
         Schedule(a, from, delay, to), delay \in 0..DisabledRetry \cup 0..MAX_BACKOFF
  PROVE  TypeInv'
<1>1. /\ pc' = [pc EXCEPT ![a] = to] /\ next_check_in' = delay
      /\ overlap' = [overlap EXCEPT ![a] = FALSE]
      /\ UNCHANGED <<mode, healthy, disabled, consecutive_failures, http_error_times,
                     failures, errors>>
  BY DEF Schedule, Goto
<1>2. pc' \in [Actors -> Labels] /\ \A b \in Actors : pc'[b] = "rf_backoff" => failures[b] # 0
  BY <1>1 DEF TypeInv, TypeOK
<1>3. overlap' \in [Actors -> BOOLEAN]
  BY <1>1 DEF TypeInv, TypeOK
<1> QED
  BY <1>1, <1>2, <1>3 DEF TypeInv, TypeOK, Sorted

LEMMA TypeTick == TypeInv /\ Tick => TypeInv'
<1> SUFFICES ASSUME TypeInv, Tick PROVE TypeInv'
  OBVIOUS
<1>1. next_check_in' \in 0..DisabledRetry \cup 0..MAX_BACKOFF
  BY Thresholds DEF Tick, TypeInv, TypeOK
<1>2. http_error_times' \in AgeLists /\ Sorted(http_error_times')
  BY AgedType DEF Tick, TypeInv, TypeOK
<1>3. errors' \in AgeLists /\ Sorted(errors')
  BY AgedType DEF Tick, TypeInv, TypeOK
<1>4. UNCHANGED <<mode, healthy, disabled, consecutive_failures, pc, failures, overlap>>
  BY DEF Tick
<1> QED
  BY <1>1, <1>2, <1>3, <1>4 DEF TypeInv, TypeOK, Sorted

LEMMA TypeHttpError == ASSUME TypeInv, NEW a \in Actors, RecordHttpError(a) PROVE TypeInv'
<1>1. /\ AfterError(a) \subseteq Labels \ {"rf_backoff"}
      /\ {"he_disable", "he_unhealthy", "he_schedule"} \subseteq Labels \ {"rf_backoff"}
  BY DEF AfterError, Labels, InHttpError
<1>2. CASE PushHttpError(a)
  <2>1. PICK to \in Labels \ {"rf_backoff"} : pc' = [pc EXCEPT ![a] = to]
    BY <1>1, <1>2 DEF PushHttpError, Goto
  <2>2. pc' \in [Actors -> Labels] /\ \A b \in Actors : pc'[b] = "rf_backoff" => failures[b] # 0
    BY <2>1 DEF TypeInv, TypeOK
  <2>3. overlap' \in [Actors -> BOOLEAN]
    BY <1>2 DEF PushHttpError, MarkOverlaps, TypeInv, TypeOK
  <2>4. http_error_times' \in AgeLists /\ Sorted(http_error_times')
    BY <1>2, RecordedTyped DEF PushHttpError, TypeInv, TypeOK
  <2>5. errors' \in AgeLists /\ Sorted(errors')
    BY <1>2, RecordedTyped DEF PushHttpError, TypeInv, TypeOK
  <2>6. UNCHANGED <<mode, healthy, disabled, consecutive_failures, next_check_in, failures>>
    BY <1>2 DEF PushHttpError
  <2> QED
    BY <2>2, <2>3, <2>4, <2>5, <2>6 DEF TypeInv, TypeOK, Sorted
<1>3. CASE Disable(a, "he_disable", "he_unhealthy")
  BY <1>1, <1>3, TypeDisable
<1>4. CASE SetHealthy(a, "he_unhealthy", FALSE, "he_schedule")
  BY <1>1, <1>4, TypeSetHealthy
<1>5. CASE \E to \in AfterError(a) : Schedule(a, "he_schedule", DisabledRetry, to)
  BY <1>1, <1>5, TypeSchedule, Thresholds
<1> QED
  BY <1>2, <1>3, <1>4, <1>5 DEF RecordHttpError

LEMMA TypeSuccess == ASSUME TypeInv, NEW a \in Actors, RecordSuccess(a) PROVE TypeInv'
<1>1. {"rs_load", "rs_enable", "rs_due", "idle"} \subseteq Labels \ {"rf_backoff"}
  BY DEF Labels, InSuccess
<1>2. CASE ResetFailures(a)
  <2>1. pc' \in [Actors -> Labels] /\ \A b \in Actors : pc'[b] = "rf_backoff" => failures[b] # 0
    BY <1>1, <1>2 DEF ResetFailures, Goto, TypeInv, TypeOK
  <2>2. overlap' \in [Actors -> BOOLEAN]
    BY <1>2 DEF ResetFailures, TypeInv, TypeOK
  <2>3. consecutive_failures' \in 0..MAX_CONSECUTIVE_FAILURES
    BY <1>2, Thresholds DEF ResetFailures
  <2>4. UNCHANGED <<mode, healthy, disabled, next_check_in, http_error_times, failures, errors>>
    BY <1>2 DEF ResetFailures
  <2> QED
    BY <2>1, <2>2, <2>3, <2>4 DEF TypeInv, TypeOK, Sorted
<1>3. CASE LoadDisabledOnSuccess(a) \/ CheckWindow(a)
  BY <1>3, MovesTyped
<1>4. CASE Schedule(a, "rs_postpone", DisabledRetry, "idle") \/ Schedule(a, "rs_due", 0, "idle")
  BY <1>1, <1>4, TypeSchedule, Thresholds
<1>5. CASE ClearErrors(a) \/ Enable(a)
  <2>1. pc' \in [Actors -> Labels] /\ \A b \in Actors : pc'[b] = "rf_backoff" => failures[b] # 0
    BY <1>1, <1>5 DEF ClearErrors, Enable, Goto, TypeInv, TypeOK
  <2>2. disabled' \in BOOLEAN
    BY <1>5 DEF ClearErrors, Enable, TypeInv, TypeOK
  <2>3. http_error_times' \in AgeLists /\ Sorted(http_error_times')
    BY <1>5, EmptyTyped DEF ClearErrors, Enable, TypeInv, TypeOK
  <2>4. errors' \in AgeLists /\ Sorted(errors')
    BY <1>5 DEF ClearErrors, Enable, TypeInv, TypeOK
  <2>5. UNCHANGED <<mode, healthy, consecutive_failures, next_check_in, failures, overlap>>
    BY <1>5 DEF ClearErrors, Enable
  <2> QED
    BY <2>1, <2>2, <2>3, <2>4, <2>5 DEF TypeInv, TypeOK, Sorted
<1> QED
  BY <1>2, <1>3, <1>4, <1>5 DEF RecordSuccess

LEMMA TypeFailure == ASSUME TypeInv, NEW a \in Actors, RecordFailure(a) PROVE TypeInv'
<1>1. {"rf_unhealthy", "rf_postpone", "rf_disable", "idle"} \subseteq Labels \ {"rf_backoff"}
  BY DEF Labels, InFailure
<1>2. CASE CountFailure(a)
  <2>1. consecutive_failures' \in 1..MAX_CONSECUTIVE_FAILURES
    BY <1>2, Thresholds DEF CountFailure, Least, TypeInv, TypeOK
  <2>2. failures' = [failures EXCEPT ![a] = consecutive_failures']
    BY <1>2 DEF CountFailure
  <2>3. failures' \in [Actors -> 0..MAX_CONSECUTIVE_FAILURES] /\ failures'[a] # 0
    BY <2>1, <2>2 DEF TypeInv, TypeOK
  <2>4. pc' \in [Actors -> Labels] /\ \A b \in Actors \ {a} : pc'[b] = pc[b]
    BY <1>2 DEF CountFailure, Goto, TypeInv, TypeOK, Labels, InFailure
  <2>5. \A b \in Actors : pc'[b] = "rf_backoff" => failures'[b] # 0
    BY <2>2, <2>3, <2>4 DEF TypeInv, TypeOK
  <2>6. UNCHANGED <<mode, healthy, disabled, next_check_in, http_error_times, errors, overlap>>
    BY <1>2 DEF CountFailure
  <2> QED
    BY <2>1, <2>3, <2>4, <2>5, <2>6 DEF TypeInv, TypeOK, Sorted
<1>3. CASE Disable(a, "rf_disable", "rf_unhealthy")
  BY <1>1, <1>3, TypeDisable
<1>4. CASE SetHealthy(a, "rf_unhealthy", FALSE, "rf_postpone")
  BY <1>1, <1>4, TypeSetHealthy
<1>5. CASE Schedule(a, "rf_postpone", DisabledRetry, "idle")
  BY <1>1, <1>5, TypeSchedule, Thresholds
<1>6. CASE Schedule(a, "rf_backoff", Backoff(failures[a]), "idle")
  <2>1. failures[a] \in 1..MAX_CONSECUTIVE_FAILURES
    BY <1>6, Thresholds DEF Schedule, TypeInv, TypeOK
  <2>2. Backoff(failures[a]) \in 0..MAX_BACKOFF
    BY <2>1, BackoffType
  <2> QED
    BY <1>1, <1>6, <2>2, TypeSchedule
<1> QED
  BY <1>2, <1>3, <1>4, <1>5, <1>6 DEF RecordFailure

LEMMA TypeNext == TypeInv /\ [Next]_vars => TypeInv'
<1> SUFFICES ASSUME TypeInv, [Next]_vars PROVE TypeInv'
  OBVIOUS
<1>1. CASE UNCHANGED vars
  BY <1>1 DEF vars, client, TypeInv, TypeOK, Sorted
<1>2. CASE SetMode
  BY <1>2 DEF SetMode, client, TypeInv, TypeOK, Sorted
<1>3. CASE Tick
  BY <1>3, TypeTick
<1>4. CASE StartCheck
  <2>1. Health \in Actors /\ "sent" \in Labels \ {"rf_backoff"}
    BY DEF Actors, Labels
  <2> QED
    BY <1>4, <2>1, MoveTyped DEF StartCheck, Goto
<1>5. ASSUME NEW a \in Actors, LoadDisabled(a) \/ Dropped(a) \/ LoadHealthy(a) \/ Answered(a)
      PROVE  TypeInv'
  BY <1>5, MovesTyped
<1>6. ASSUME NEW a \in Actors, CheckDone(a) PROVE TypeInv'
  <2>1. {"rs_reset", "rf_count"} \subseteq Labels \ {"rf_backoff"}
    BY DEF Labels
  <2>2. CASE GuardDisabled(a) \/ GuardWindow(a)
    BY <2>2, MovesTyped
  <2>3. CASE SetHealthy(a, "hc_set", TRUE, "rs_reset")
    BY <2>1, <2>3, TypeSetHealthy
  <2>4. CASE SetHealthy(a, "hc_clear", FALSE, "rf_count")
    BY <2>1, <2>4, TypeSetHealthy
  <2> QED
    BY <1>6, <2>2, <2>3, <2>4 DEF CheckDone
<1> QED
  BY <1>1, <1>2, <1>3, <1>4, <1>5, <1>6, TypeHttpError, TypeSuccess, TypeFailure DEF Next, Step

\* The flags, counts, times and schedule of client.rs keep their types with any number
\* of users: the next check is never further off than the longest interval, and the
\* errors kept are at most MAX_HTTP_ERRORS and within the window (client.rs:117-219).
THEOREM TypeCorrect == Spec => []TypeOK
<1>1. TypeInv => TypeOK
  BY DEF TypeInv
<1> QED
  BY <1>1, TypeInit, TypeNext, PTL DEF Spec
===============================================================================
