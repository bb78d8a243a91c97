---------------------------- MODULE CoalescerProofs ---------------------------
(***************************************************************************)
(* Proofs about Coalescer for any number of calls and keys: the type       *)
(* invariant, ChannelOwned, and that the coalescer implements SharedCall.  *)
(***************************************************************************)
EXTENDS Coalescer, TLAPS

\* A call knows its key from the lookup on; before, it has seen nothing.
KeyInv ==
  \A t \in Tasks :
    /\ pc[t] # "idle" => key[t] \in Keys
    /\ pc[t] = "idle" => inbox[t] = NoResponse

\* Only a call that is past its send has sent, and what it sends is its own.
SentInv ==
  \A t \in Tasks :
    /\ t \in sent => pc[t] \in {"remove", "done"}
    /\ pc[t] = "remove" => t \in sent
    /\ pc[t] \in {"send", "remove"} => resp[t] = [id |-> t, by |-> t]

\* What was sent when a call began does not include the call itself.
StaleInv == \A t \in Tasks : stale[t] \subseteq sent /\ t \notin stale[t]

\* A waiter's channel was created by a call for the same key.
WaitInv ==
  \A t \in Tasks :
    pc[t] = "wait" => pc[rx[t]] # "idle" /\ key[rx[t]] = key[t]

\* r may answer t: it is for t's key and was sent after t looked its key up.
Answers(r, t) == r.by \in sent \ stale[t] /\ key[r.by] = key[t]

AnswerInv ==
  \A t \in Tasks :
    /\ inbox[t] # NoResponse => Answers(inbox[t], t)
    /\ pc[t] = "done" => Answers(resp[t], t)

IInv ==
  /\ TypeOK
  /\ KeyInv
  /\ SentInv
  /\ StaleInv
  /\ WaitInv
  /\ AnswerInv
  /\ ChannelOwned
  /\ NoLostBroadcast

-------------------------------------------------------------------------------
LEMMA InitIInv == Init => IInv
  BY CoalescerAssumption
  DEF Init, IInv, TypeOK, KeyInv, SentInv, StaleInv, WaitInv, AnswerInv, Answers,
      ChannelOwned, NoLostBroadcast, Response, NoResponse, Executing

LEMMA NextIInv == IInv /\ [Next]_vars => IInv'
<1> SUFFICES ASSUME IInv, [Next]_vars PROVE IInv'
  OBVIOUS
<1> USE CoalescerAssumption DEF IInv
<1>1. CASE \E t \in Tasks, k \in Keys : Lookup(t, k)
  <2>1. TypeOK'
    BY <1>1 DEF Lookup, TypeOK, Response, NoResponse, Executing
  <2>2. KeyInv'
    BY <1>1 DEF Lookup, KeyInv, TypeOK, Response, NoResponse
  <2>3. SentInv'
    BY <1>1 DEF Lookup, SentInv, TypeOK
  <2>4. StaleInv'
    BY <1>1 DEF Lookup, StaleInv, SentInv, TypeOK
  <2>5. WaitInv'
    BY <1>1 DEF Lookup, WaitInv, TypeOK, KeyInv, ChannelOwned, Executing
  <2>6. AnswerInv'
    BY <1>1 DEF Lookup, AnswerInv, Answers, TypeOK, StaleInv, SentInv, WaitInv, KeyInv, Response, NoResponse
  <2>7. ChannelOwned'
    BY <1>1 DEF Lookup, ChannelOwned, Executing, TypeOK, KeyInv
  <2>8. NoLostBroadcast'
    BY <1>1 DEF Lookup, NoLostBroadcast, TypeOK, SentInv, StaleInv, WaitInv
  <2>9. QED
    BY <2>1, <2>2, <2>3, <2>4, <2>5, <2>6, <2>7, <2>8
<1>2. CASE \E t \in Tasks : RecvOk(t)
  <2>1. TypeOK'
    BY <1>2 DEF RecvOk, TypeOK, Response, NoResponse, Executing
  <2>2. KeyInv'
    BY <1>2 DEF RecvOk, KeyInv, TypeOK, Response, NoResponse
  <2>3. SentInv'
    BY <1>2 DEF RecvOk, SentInv, TypeOK
  <2>4. StaleInv'
    BY <1>2 DEF RecvOk, StaleInv, SentInv, TypeOK
  <2>5. WaitInv'
    BY <1>2 DEF RecvOk, WaitInv, TypeOK, KeyInv, ChannelOwned, Executing
  <2>6. AnswerInv'
    BY <1>2 DEF RecvOk, AnswerInv, Answers, TypeOK, StaleInv, SentInv, WaitInv, KeyInv, Response, NoResponse
  <2>7. ChannelOwned'
    BY <1>2 DEF RecvOk, ChannelOwned, Executing, TypeOK, KeyInv
  <2>8. NoLostBroadcast'
    BY <1>2 DEF RecvOk, NoLostBroadcast, TypeOK, SentInv, StaleInv, WaitInv
  <2>9. QED
    BY <2>1, <2>2, <2>3, <2>4, <2>5, <2>6, <2>7, <2>8
<1>3. CASE \E t \in Tasks : RecvClosed(t)
  <2>1. TypeOK'
    BY <1>3 DEF RecvClosed, Open, TypeOK, Response, NoResponse, Executing
  <2>2. KeyInv'
    BY <1>3 DEF RecvClosed, Open, KeyInv, TypeOK, Response, NoResponse
  <2>3. SentInv'
    BY <1>3 DEF RecvClosed, Open, SentInv, TypeOK
  <2>4. StaleInv'
    BY <1>3 DEF RecvClosed, Open, StaleInv, SentInv, TypeOK
  <2>5. WaitInv'
    BY <1>3 DEF RecvClosed, Open, WaitInv, TypeOK, KeyInv, ChannelOwned, Executing
  <2>6. AnswerInv'
    BY <1>3 DEF RecvClosed, Open, AnswerInv, Answers, TypeOK, StaleInv, SentInv, WaitInv, KeyInv, Response, NoResponse
  <2>7. ChannelOwned'
    BY <1>3 DEF RecvClosed, Open, ChannelOwned, Executing, TypeOK, KeyInv
  <2>8. NoLostBroadcast'
    BY <1>3 DEF RecvClosed, Open, NoLostBroadcast, TypeOK, SentInv, StaleInv, WaitInv
  <2>9. QED
    BY <2>1, <2>2, <2>3, <2>4, <2>5, <2>6, <2>7, <2>8
<1>4. CASE \E t \in Tasks : Insert(t)
  <2>1. TypeOK'
    BY <1>4 DEF Insert, TypeOK, KeyInv, Response, NoResponse, Executing
  <2>2. KeyInv'
    BY <1>4 DEF Insert, KeyInv, TypeOK, Response, NoResponse
  <2>3. SentInv'
    BY <1>4 DEF Insert, SentInv, TypeOK
  <2>4. StaleInv'
    BY <1>4 DEF Insert, StaleInv, SentInv, TypeOK
  <2>5. WaitInv'
    BY <1>4 DEF Insert, WaitInv, TypeOK, KeyInv, ChannelOwned, Executing
  <2>6. AnswerInv'
    BY <1>4 DEF Insert, AnswerInv, Answers, TypeOK, StaleInv, SentInv, WaitInv, KeyInv, Response, NoResponse
  <2>7. ChannelOwned'
    BY <1>4 DEF Insert, ChannelOwned, Executing, TypeOK, KeyInv
  <2>8. NoLostBroadcast'
    BY <1>4 DEF Insert, NoLostBroadcast, TypeOK, SentInv, StaleInv, WaitInv
  <2>9. QED
    BY <2>1, <2>2, <2>3, <2>4, <2>5, <2>6, <2>7, <2>8
<1>5. CASE \E t \in Tasks : Execute(t)
  <2>1. TypeOK'
    BY <1>5 DEF Execute, TypeOK, Response, NoResponse, Executing
  <2>2. KeyInv'
    BY <1>5 DEF Execute, KeyInv, TypeOK, Response, NoResponse
  <2>3. SentInv'
    BY <1>5 DEF Execute, SentInv, TypeOK
  <2>4. StaleInv'
    BY <1>5 DEF Execute, StaleInv, SentInv, TypeOK
  <2>5. WaitInv'
    BY <1>5 DEF Execute, WaitInv, TypeOK, KeyInv, ChannelOwned, Executing
  <2>6. AnswerInv'
    BY <1>5 DEF Execute, AnswerInv, Answers, TypeOK, StaleInv, SentInv, WaitInv, KeyInv, Response, NoResponse
  <2>7. ChannelOwned'
    BY <1>5 DEF Execute, ChannelOwned, Executing, TypeOK, KeyInv
  <2>8. NoLostBroadcast'
    BY <1>5 DEF Execute, NoLostBroadcast, TypeOK, SentInv, StaleInv, WaitInv
  <2>9. QED
    BY <2>1, <2>2, <2>3, <2>4, <2>5, <2>6, <2>7, <2>8
<1>6. CASE \E t \in Tasks : Send(t)
  <2>1. TypeOK'
    BY <1>6 DEF Send, TypeOK, Response, NoResponse, Executing
  <2>2. KeyInv'
    BY <1>6 DEF Send, KeyInv, TypeOK, Response, NoResponse
  <2>3. SentInv'
    BY <1>6 DEF Send, SentInv, TypeOK
  <2>4. StaleInv'
    BY <1>6 DEF Send, StaleInv, SentInv, TypeOK
  <2>5. WaitInv'
    BY <1>6 DEF Send, WaitInv, TypeOK, KeyInv, ChannelOwned, Executing
  <2>6. AnswerInv'
    BY <1>6 DEF Send, AnswerInv, Answers, TypeOK, StaleInv, SentInv, WaitInv, KeyInv, Response, NoResponse
  <2>7. ChannelOwned'
    BY <1>6 DEF Send, ChannelOwned, Executing, TypeOK, KeyInv
  <2>8. NoLostBroadcast'
    BY <1>6 DEF Send, NoLostBroadcast, TypeOK, SentInv, StaleInv, WaitInv
  <2>9. QED
    BY <2>1, <2>2, <2>3, <2>4, <2>5, <2>6, <2>7, <2>8
<1>7. CASE \E t \in Tasks : Remove(t)
  <2>1. TypeOK'
    BY <1>7 DEF Remove, TypeOK, KeyInv, Response, NoResponse, Executing
  <2>2. KeyInv'
    BY <1>7 DEF Remove, KeyInv, TypeOK, Response, NoResponse
  <2>3. SentInv'
    BY <1>7 DEF Remove, SentInv, TypeOK
  <2>4. StaleInv'
    BY <1>7 DEF Remove, StaleInv, SentInv, TypeOK
  <2>5. WaitInv'
    BY <1>7 DEF Remove, WaitInv, TypeOK, KeyInv, ChannelOwned, Executing
  <2>6. AnswerInv'
    BY <1>7 DEF Remove, AnswerInv, Answers, TypeOK, StaleInv, SentInv, WaitInv, KeyInv, Response, NoResponse
  <2>7. ChannelOwned'
    BY <1>7 DEF Remove, ChannelOwned, Executing, TypeOK, KeyInv
  <2>8. NoLostBroadcast'
    BY <1>7 DEF Remove, NoLostBroadcast, TypeOK, SentInv, StaleInv, WaitInv
  <2>9. QED
    BY <2>1, <2>2, <2>3, <2>4, <2>5, <2>6, <2>7, <2>8
<1>8. CASE \E t \in Tasks : Cancel(t)
  <2>1. TypeOK'
    BY <1>8 DEF Cancel, TypeOK, Response, NoResponse, Executing
  <2>2. KeyInv'
    BY <1>8 DEF Cancel, KeyInv, TypeOK, Response, NoResponse
  <2>3. SentInv'
    BY <1>8 DEF Cancel, SentInv, TypeOK
  <2>4. StaleInv'
    BY <1>8 DEF Cancel, StaleInv, SentInv, TypeOK
  <2>5. WaitInv'
    BY <1>8 DEF Cancel, WaitInv, TypeOK, KeyInv, ChannelOwned, Executing
  <2>6. AnswerInv'
    BY <1>8 DEF Cancel, AnswerInv, Answers, TypeOK, StaleInv, SentInv, WaitInv, KeyInv, Response, NoResponse
  <2>7. ChannelOwned'
    BY <1>8 DEF Cancel, ChannelOwned, Executing, TypeOK, KeyInv
  <2>8. NoLostBroadcast'
    BY <1>8 DEF Cancel, NoLostBroadcast, TypeOK, SentInv, StaleInv, WaitInv
  <2>9. QED
    BY <2>1, <2>2, <2>3, <2>4, <2>5, <2>6, <2>7, <2>8
<1>9. CASE UNCHANGED vars
  BY <1>9 DEF vars, TypeOK, KeyInv, SentInv, StaleInv, WaitInv, AnswerInv, Answers,
       ChannelOwned, NoLostBroadcast
<1>10. QED
  BY <1>1, <1>2, <1>3, <1>4, <1>5, <1>6, <1>7, <1>8, <1>9 DEF Next

\* IInv is an invariant of every behaviour of the coalescer.
THEOREM Invariance == Spec => []IInv
  BY InitIInv, NextIInv, PTL DEF Spec

\* Type correctness of coalesce_or_execute's state (coalescer.rs:42-95).
THEOREM TypeCorrect == Spec => []TypeOK
  BY Invariance, PTL DEF IInv

\* The in_flight map holds channels of running or dropped calls only, for any
\* number of concurrent calls and keys (coalescer.rs:53-92).
THEOREM MapHoldsNoFinishedCall == Spec => []ChannelOwned
  BY Invariance, PTL DEF IInv

\* Every receiver subscribed before the send gets the response (coalescer.rs:88).
THEOREM BroadcastReachesWaiters == Spec => []NoLostBroadcast
  BY Invariance, PTL DEF IInv

-------------------------------------------------------------------------------
LEMMA InitRefines == Init => Abstract!AInit
  BY DEF Init, Abstract!AInit, StatusOf, SourceOf

LEMMA NextRefines == IInv /\ [Next]_vars => [Abstract!ANext]_(Abstract!absvars)
<1> SUFFICES ASSUME IInv, [Next]_vars
             PROVE  Abstract!ANext \/ UNCHANGED Abstract!absvars
  BY DEF Abstract!absvars
<1> USE CoalescerAssumption DEF IInv, StatusOf, SourceOf
\* A lookup is the abstract call.
<1>1. ASSUME NEW t \in Tasks, NEW k \in Keys, Lookup(t, k)
      PROVE  Abstract!Call(t, k)
  BY <1>1 DEF Lookup, TypeOK, Abstract!Call
\* What a waiter finds in its receiver may answer it.
<1>2. ASSUME NEW t \in Tasks, RecvOk(t)
      PROVE  \E c \in Tasks : Abstract!Answer(t, c)
  <2>1. PICK c \in Tasks : c = inbox[t].by
    BY <1>2 DEF RecvOk, TypeOK, Response, NoResponse
  <2>2. Abstract!Answer(t, c)
    BY <1>2, <2>1 DEF RecvOk, TypeOK, AnswerInv, Answers, Abstract!Answer
  <2>3. QED
    BY <2>2
\* Falling through, inserting and executing are invisible.
<1>3. ASSUME NEW t \in Tasks, RecvClosed(t) \/ Insert(t) \/ Execute(t)
      PROVE  UNCHANGED Abstract!absvars
  BY <1>3 DEF RecvClosed, Insert, Execute, TypeOK, Abstract!absvars
<1>4. ASSUME NEW t \in Tasks, Send(t)
      PROVE  Abstract!Publish(t)
  BY <1>4 DEF Send, TypeOK, SentInv, Abstract!Publish
\* The executor is answered by its own response when it returns.
<1>5. ASSUME NEW t \in Tasks, Remove(t)
      PROVE  Abstract!Answer(t, t)
  <2>1. resp[t] = [id |-> t, by |-> t] /\ t \in sent /\ t \notin stale[t]
    BY <1>5, Zenon DEF Remove, SentInv, StaleInv
  <2>2. \A u \in Tasks : SourceOf(u)' = IF u = t THEN t ELSE SourceOf(u)
    BY <1>5, <2>1 DEF Remove, TypeOK
  <2>3. \A u \in Tasks : StatusOf(u)' = IF u = t THEN "done" ELSE StatusOf(u)
    BY <1>5 DEF Remove, TypeOK
  <2>4. StatusOf(t) = "called" /\ UNCHANGED <<key, sent, stale>>
    BY <1>5 DEF Remove
  <2> HIDE DEF StatusOf, SourceOf
  <2>5. QED
    BY <2>1, <2>2, <2>3, <2>4 DEF Abstract!Answer
<1>6. ASSUME NEW t \in Tasks, Cancel(t)
      PROVE  Abstract!Abort(t)
  BY <1>6 DEF Cancel, TypeOK, Abstract!Abort
<1>7. CASE UNCHANGED vars
  BY <1>7 DEF vars, Abstract!absvars
<1>8. CASE Next
  <2>1. PICK t \in Tasks :
          \/ \E k \in Keys : Lookup(t, k)
          \/ RecvOk(t) \/ RecvClosed(t) \/ Insert(t) \/ Execute(t)
          \/ Send(t) \/ Remove(t) \/ Cancel(t)
    BY <1>8, Zenon DEF Next
  <2>2. CASE RecvClosed(t) \/ Insert(t) \/ Execute(t)
    BY <1>3, <2>2
  <2>3. CASE \E k \in Keys : Lookup(t, k)
    BY <1>1, <2>3 DEF Abstract!ANext
  <2>4. CASE RecvOk(t)
    BY <1>2, <2>4 DEF Abstract!ANext
  <2>5. CASE Send(t)
    BY <1>4, <2>5 DEF Abstract!ANext
  <2>6. CASE Remove(t)
    BY <1>5, <2>6 DEF Abstract!ANext
  <2>7. CASE Cancel(t)
    BY <1>6, <2>7 DEF Abstract!ANext
  <2>8. QED
    BY <2>1, <2>2, <2>3, <2>4, <2>5, <2>6, <2>7
<1>9. QED
  BY <1>7, <1>8

\* coalesce_or_execute implements SharedCall: every answer is for the caller's
\* key and was broadcast after the call began (coalescer.rs:42-95).
THEOREM Refinement == Spec => ImplementsSharedCall
  BY InitRefines, NextRefines, Invariance, PTL
  DEF Spec, ImplementsSharedCall, Abstract!ASpec
===============================================================================
