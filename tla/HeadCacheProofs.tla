---------------------------- MODULE HeadCacheProofs ----------------------------
(***************************************************************************)
(* Proofs about HeadCache for any number of requests, keys and             *)
(* reorganisations: the type invariant, what an invalidation has deleted   *)
(* when it drops the set, and which entries may go untracked.              *)
(***************************************************************************)
EXTENDS HeadCache, TLAPS

\* While an invalidation deletes, what it has found and passed is gone, and what
\* the set holds it has found, but for the keys of the races that raced records.
DeletingInv ==
  inv \in {"del", "del_set"} =>
    /\ \A k \in doomed \ todo : entry[k] = Absent
    /\ members \ raced \subseteq doomed

\* The set is dropped when no key is left to delete.
NothingLeft == inv = "del_set" => todo = {}

IInv ==
  /\ TypeOK
  /\ DeletingInv
  /\ NothingLeft
  /\ TrackedUnlessRaced

\* A key is half written if some request that may be among others has stored it.
LEMMA HalfWrittenBy ==
  ASSUME NEW rs, NEW k
  PROVE  k \in HalfWritten(rs) <=> \E q \in rs : pc[q] = "sadd" /\ key[q] = k
BY DEF HalfWritten

LEMMA InitIInv == Init => IInv
BY HeadCacheAssumption
   DEF Init, IInv, TypeOK, DeletingInv, NothingLeft, TrackedUnlessRaced, Tracked, Forks, Absent

-------------------------------------------------------------------------------
\* The surroundings.

LEMMA ReorganiseIInv == ASSUME IInv, Reorganise PROVE IInv'
<1>1. TypeOK'
  BY HeadCacheAssumption DEF IInv, TypeOK, Reorganise, Forks
<1> QED
  BY <1>1 DEF IInv, Reorganise, DeletingInv, NothingLeft, TrackedUnlessRaced, Tracked, HalfWritten

LEMMA ExpireIInv == ASSUME IInv, NEW k \in Keys, Expire(k) PROVE IInv'
<1>1. TypeOK'
  BY DEF IInv, TypeOK, Expire
<1>2. \A j \in Keys : entry'[j] = entry[j] \/ entry'[j] = Absent
  BY DEF IInv, TypeOK, Expire
<1>3. DeletingInv' /\ NothingLeft'
  BY <1>2 DEF IInv, TypeOK, Expire, DeletingInv, NothingLeft
<1>4. TrackedUnlessRaced'
  BY <1>2 DEF IInv, Expire, TrackedUnlessRaced, Tracked, HalfWritten
<1> QED
  BY <1>1, <1>3, <1>4 DEF IInv

-------------------------------------------------------------------------------
\* A request.

\* A step between the two commands of a write, or outside them, that leaves the
\* cache alone.
LEMMA ReadIInv ==
  ASSUME IInv, TypeOK',
         NEW r \in Requests, pc[r] # "sadd", pc'[r] # "sadd",
         \A q \in Requests \ {r} : pc'[q] = pc[q] /\ key'[q] = key[q],
         UNCHANGED <<entry, members, inv, todo, doomed, raced>>
  PROVE  IInv'
<1>1. DeletingInv' /\ NothingLeft'
  BY DEF IInv, DeletingInv, NothingLeft
<1>2. HalfWritten(Requests)' = HalfWritten(Requests)
  BY DEF HalfWritten
<1>3. TrackedUnlessRaced'
  BY <1>2 DEF IInv, TrackedUnlessRaced, Tracked
<1> QED
  BY <1>1, <1>3 DEF IInv

LEMMA BeginIInv == ASSUME IInv, NEW r \in Requests, NEW k \in Keys, Begin(r, k) PROVE IInv'
<1>1. TypeOK'
  BY DEF IInv, TypeOK, Begin, Goto
<1>2. pc'[r] = "get" /\ \A q \in Requests \ {r} : pc'[q] = pc[q] /\ key'[q] = key[q]
  BY DEF IInv, TypeOK, Begin, Goto
<1> QED
  BY <1>1, <1>2, ReadIInv DEF Begin

LEMMA GetIInv == ASSUME IInv, NEW r \in Requests, Get(r) PROVE IInv'
<1>1. TypeOK'
  BY DEF IInv, TypeOK, Get, Goto
<1>2. pc'[r] # "sadd" /\ \A q \in Requests \ {r} : pc'[q] = pc[q] /\ key'[q] = key[q]
  BY DEF IInv, TypeOK, Get, Goto
<1> QED
  BY <1>1, <1>2, ReadIInv DEF Get

LEMMA AnswerIInv == ASSUME IInv, NEW r \in Requests, Answer(r) PROVE IInv'
<1>1. TypeOK'
  BY DEF IInv, TypeOK, Answer, Goto
<1>2. pc'[r] # "sadd" /\ \A q \in Requests \ {r} : pc'[q] = pc[q] /\ key'[q] = key[q]
  BY DEF IInv, TypeOK, Answer, Goto
<1> QED
  BY <1>1, <1>2, ReadIInv DEF Answer

LEMMA SetIInv == ASSUME IInv, NEW r \in Requests, Set(r) PROVE IInv'
<1>1. TypeOK'
  BY DEF IInv, TypeOK, Set, Goto, Forks
<1>2. /\ pc'[r] = "sadd" /\ key' = key
      /\ \A q \in Requests \ {r} : pc'[q] = pc[q]
  BY DEF IInv, TypeOK, Set, Goto
<1>3. key[r] \in HalfWritten(Requests)' /\ HalfWritten(Requests) \subseteq HalfWritten(Requests)'
  BY <1>2 DEF HalfWritten
<1>4. \A k \in Keys : k # key[r] => entry'[k] = entry[k]
  BY DEF IInv, TypeOK, Set
<1>5. DeletingInv'
  BY <1>4 DEF IInv, TypeOK, Set, DeletingInv
<1>6. NothingLeft'
  BY DEF IInv, Set, NothingLeft
<1>7. TrackedUnlessRaced'
  BY <1>3, <1>4 DEF IInv, TypeOK, Set, TrackedUnlessRaced, Tracked
<1> QED
  BY <1>1, <1>5, <1>6, <1>7 DEF IInv

LEMMA SaddIInv == ASSUME IInv, NEW r \in Requests, Sadd(r) PROVE IInv'
<1>1. TypeOK'
  BY DEF IInv, TypeOK, Sadd, Goto
<1>2. /\ key' = key
      /\ \A q \in Requests \ {r} : pc'[q] = pc[q]
  BY DEF IInv, TypeOK, Sadd, Goto
<1>3. \A k \in HalfWritten(Requests) : k = key[r] \/ k \in HalfWritten(Requests)'
  BY <1>2 DEF HalfWritten
<1>4. DeletingInv'
  BY DEF IInv, TypeOK, Sadd, DeletingInv
<1>5. NothingLeft'
  BY DEF IInv, Sadd, NothingLeft
<1>6. TrackedUnlessRaced'
  BY <1>3 DEF IInv, TypeOK, Sadd, TrackedUnlessRaced, Tracked
<1> QED
  BY <1>1, <1>4, <1>5, <1>6 DEF IInv

\* Dropped requests lose what they have half written to raced.
LEMMA DropIInv == ASSUME IInv, NEW r \in Requests, Drop(r) PROVE IInv'
<1>0. HalfWritten({r}) \subseteq Keys
  BY DEF HalfWritten, IInv, TypeOK
<1>1. TypeOK'
  BY <1>0 DEF IInv, TypeOK, Drop, Goto
<1>2. key' = key /\ \A q \in Requests \ {r} : pc'[q] = pc[q]
  BY DEF IInv, TypeOK, Drop, Goto
<1>3. HalfWritten(Requests) \subseteq HalfWritten(Requests)' \cup HalfWritten({r})
  BY <1>2 DEF HalfWritten
<1>4. DeletingInv' /\ NothingLeft'
  BY DEF IInv, Drop, DeletingInv, NothingLeft
<1>5. TrackedUnlessRaced'
  BY <1>3 DEF IInv, Drop, TrackedUnlessRaced, Tracked
<1> QED
  BY <1>1, <1>4, <1>5 DEF IInv

-------------------------------------------------------------------------------
\* The tracker.

LEMMA DetectIInv == ASSUME IInv, Detect PROVE IInv'
<1>1. TypeOK'
  BY DEF IInv, TypeOK, Detect
<1> QED
  BY <1>1 DEF IInv, Detect, DeletingInv, NothingLeft, TrackedUnlessRaced, Tracked, HalfWritten

LEMMA SmembersIInv == ASSUME IInv, Smembers PROVE IInv'
<1>1. TypeOK'
  BY DEF IInv, TypeOK, Smembers
<1>2. DeletingInv' /\ NothingLeft'
  BY DEF IInv, Smembers, DeletingInv, NothingLeft
<1>3. TrackedUnlessRaced'
  BY DEF IInv, Smembers, TrackedUnlessRaced, Tracked, HalfWritten
<1> QED
  BY <1>1, <1>2, <1>3 DEF IInv

LEMMA DelIInv == ASSUME IInv, Del PROVE IInv'
<1>0. PICK k \in todo :
        /\ \/ entry' = [entry EXCEPT ![k] = Absent] /\ UNCHANGED <<doomed, raced>>
           \/ doomed' = doomed \ {k} /\ raced' = raced \cup {k} /\ UNCHANGED entry
        /\ todo' = todo \ {k}
        /\ inv' = IF todo' = {} THEN "del_set" ELSE "del"
  BY DEF Del
<1>1. TypeOK'
  BY <1>0 DEF IInv, TypeOK, Del
<1>2. \A j \in Keys : entry'[j] = entry[j] \/ entry'[j] = Absent
  BY <1>0 DEF IInv, TypeOK
<1>3. k \in doomed' => entry'[k] = Absent
  BY <1>0 DEF IInv, TypeOK
<1>4. DeletingInv'
  BY <1>0, <1>2, <1>3 DEF IInv, TypeOK, Del, DeletingInv
<1>5. NothingLeft'
  BY <1>0 DEF NothingLeft
<1>6. TrackedUnlessRaced'
  BY <1>0, <1>2 DEF IInv, Del, TrackedUnlessRaced, Tracked, HalfWritten
<1> QED
  BY <1>1, <1>4, <1>5, <1>6 DEF IInv

\* No entry that raced does not name depends on the set that is dropped.
LEMMA DelSetIInv == ASSUME IInv, DelSet PROVE IInv'
<1>1. TypeOK'
  BY DEF IInv, TypeOK, DelSet
<1>2. DeletingInv' /\ NothingLeft'
  BY DEF IInv, DelSet, DeletingInv, NothingLeft
<1>3. \A k \in members \ raced : entry[k] = Absent
  BY DEF IInv, DelSet, DeletingInv, NothingLeft
<1>4. TrackedUnlessRaced'
  BY <1>3 DEF IInv, DelSet, TrackedUnlessRaced, Tracked, HalfWritten
<1> QED
  BY <1>1, <1>2, <1>4 DEF IInv

LEMMA CrashIInv == ASSUME IInv, Crash PROVE IInv'
<1>0. HalfWritten(Requests) \subseteq Keys
  BY DEF HalfWritten, IInv, TypeOK
<1>1. TypeOK'
  BY <1>0 DEF IInv, TypeOK, Crash
<1>2. DeletingInv' /\ NothingLeft'
  BY DEF Crash, DeletingInv, NothingLeft
<1>3. TrackedUnlessRaced'
  BY DEF IInv, Crash, TrackedUnlessRaced, Tracked
<1> QED
  BY <1>1, <1>2, <1>3 DEF IInv

-------------------------------------------------------------------------------
LEMMA NextIInv == IInv /\ [Next]_vars => IInv'
<1> SUFFICES ASSUME IInv, [Next]_vars PROVE IInv'
  OBVIOUS
<1>1. CASE Reorganise
  BY <1>1, ReorganiseIInv
<1>2. CASE \E k \in Keys : Expire(k)
  BY <1>2, ExpireIInv
<1>3. CASE \E r \in Requests, k \in Keys : Begin(r, k)
  BY <1>3, BeginIInv
<1>4. CASE \E r \in Requests : Request(r) \/ Drop(r)
  BY <1>4, GetIInv, AnswerIInv, SetIInv, SaddIInv, DropIInv DEF Request
<1>5. CASE Tracker
  BY <1>5, DetectIInv, SmembersIInv, DelIInv, DelSetIInv DEF Tracker
<1>6. CASE Crash
  BY <1>6, CrashIInv
<1>7. CASE UNCHANGED vars
  BY <1>7 DEF IInv, vars, TypeOK, DeletingInv, NothingLeft, TrackedUnlessRaced, Tracked, HalfWritten
<1> QED
  BY <1>1, <1>2, <1>3, <1>4, <1>5, <1>6, <1>7 DEF Next

\* The inductive invariant holds throughout.
THEOREM Invariance == Spec => []IInv
<1> QED
  BY InitIInv, NextIInv, PTL DEF Spec

\* The variables of the cache and its users keep their types.
THEOREM TypeCorrect == Spec => []TypeOK
<1>1. IInv => TypeOK
  BY DEF IInv
<1> QED
  BY <1>1, Invariance, PTL

\* invalidate_head_cache deletes what it has found, but for keys written again
\* meanwhile and failed commands (redis.rs:80-92).
THEOREM InvalidationPurges == Spec => []Purged
<1>1. IInv => Purged
  BY DEF IInv, DeletingInv, NothingLeft, Purged
<1> QED
  BY <1>1, Invariance, PTL

\* Every stored entry is tracked for the next invalidation, but for those that
\* raced one, were half written, or met a failing command (cache/mod.rs:56-62).
THEOREM OnlyRacesUntrack == Spec => []TrackedUnlessRaced
<1>1. IInv => TrackedUnlessRaced
  BY DEF IInv
<1> QED
  BY <1>1, Invariance, PTL
===============================================================================
