------------------------ MODULE AskSessionLockProofs ------------------------
(***************************************************************************)
(* Proofs about AskSessionLock, for every set of callers and every value   *)
(* of the lease and of the attempts.                                       *)
(***************************************************************************)
EXTENDS AskSessionLock, TLAPS

\* The initial states satisfy the inductive invariant.
LEMMA InitLockInv == Init => LockInv
BY LockAssumption
DEF Init, LockInv, TypeOK, LockHeld, OneActiveSession, CreatorAlone, Unanswered,
    InCallback, Critical, Pcs

\* Every step keeps the state well typed.
LEMMA TypeStep == TypeOK /\ [Next]_vars => TypeOK'
<1> USE LockAssumption DEF TypeOK, Pcs, Critical, Move, LockUnchanged, SessionsUnchanged
<1> SUFFICES ASSUME TypeOK, [Next]_vars PROVE TypeOK'
  OBVIOUS
<1>1. ASSUME NEW a \in Callers, Start(a) PROVE TypeOK'
  BY <1>1 DEF Start
<1>2. ASSUME NEW a \in Callers, Acquire(a) PROVE TypeOK'
  BY <1>2 DEF Acquire
<1>3. ASSUME NEW a \in Callers, AcquireFails(a) PROVE TypeOK'
  BY <1>3 DEF AcquireFails, AfterFailedAttempt
<1>4. ASSUME NEW a \in Callers, AcquireReplyLost(a) PROVE TypeOK'
  BY <1>4 DEF AcquireReplyLost, AfterFailedAttempt
<1>5. ASSUME NEW a \in Callers, FindExisting(a) PROVE TypeOK'
  BY <1>5 DEF FindExisting, AnswersNewest
<1>6. ASSUME NEW a \in Callers, FindNone(a) PROVE TypeOK'
  BY <1>6 DEF FindNone
<1>7. ASSUME NEW a \in Callers, CreateRow(a) PROVE TypeOK'
  BY <1>7 DEF CreateRow
<1>8. ASSUME NEW a \in Callers, CacheRow(a) PROVE TypeOK'
  BY <1>8 DEF CacheRow
<1>9. ASSUME NEW a \in Callers, CallbackThrows(a) PROVE TypeOK'
  BY <1>9 DEF CallbackThrows
<1>10. ASSUME NEW a \in Callers, Release(a) PROVE TypeOK'
  BY <1>10 DEF Release, AfterRelease
<1>11. ASSUME NEW a \in Callers, ReleaseLost(a) PROVE TypeOK'
  BY <1>11 DEF ReleaseLost, AfterRelease
<1>12. ASSUME NEW a \in Callers, PollFinds(a) PROVE TypeOK'
  BY <1>12 DEF PollFinds, AnswersNewest
<1>13. ASSUME NEW a \in Callers, PollMisses(a) PROVE TypeOK'
  BY <1>13 DEF PollMisses
<1>14. ASSUME NEW a \in Callers, GiveUp(a) PROVE TypeOK'
  BY <1>14 DEF GiveUp
<1>15. ASSUME NEW a \in Callers, Crash(a) PROVE TypeOK'
  BY <1>15 DEF Crash
<1>16. ASSUME NEW s \in active, Delete(s) PROVE TypeOK'
  BY <1>16 DEF Delete
<1>17. CASE LeaseTick
  BY <1>17 DEF LeaseTick
<1>18. CASE UNCHANGED vars
  BY <1>18 DEF vars
<1> QED
  BY <1>1, <1>2, <1>3, <1>4, <1>5, <1>6, <1>7, <1>8, <1>9, <1>10, <1>11, <1>12,
     <1>13, <1>14, <1>15, <1>16, <1>17, <1>18 DEF Next, CallStep

\* A call in its callback keeps the key until it leaves or its lease runs out.
LEMMA HeldStep == TypeOK /\ LockHeld /\ [Next]_vars => LockHeld'
<1> USE LockAssumption DEF TypeOK, LockHeld, Pcs, InCallback, Critical, Move,
                           LockUnchanged, SessionsUnchanged
<1> SUFFICES ASSUME TypeOK, LockHeld, [Next]_vars PROVE LockHeld'
  OBVIOUS
<1>1. ASSUME NEW a \in Callers, Acquire(a) PROVE LockHeld'
  BY <1>1 DEF Acquire
<1>2. ASSUME NEW a \in Callers, AcquireFails(a) \/ AcquireReplyLost(a)
      PROVE LockHeld'
  BY <1>2 DEF AcquireFails, AcquireReplyLost, AfterFailedAttempt
<1>3. ASSUME NEW a \in Callers, FindExisting(a) \/ FindNone(a) \/ CreateRow(a)
                                 \/ CacheRow(a) \/ CallbackThrows(a)
      PROVE LockHeld'
  BY <1>3 DEF FindExisting, AnswersNewest, FindNone, CreateRow, CacheRow, CallbackThrows
<1>4. ASSUME NEW a \in Callers, Release(a) \/ ReleaseLost(a) PROVE LockHeld'
  BY <1>4 DEF Release, ReleaseLost, AfterRelease
<1>5. ASSUME NEW a \in Callers, Start(a) \/ PollFinds(a) \/ PollMisses(a)
                                 \/ GiveUp(a) \/ Crash(a)
      PROVE LockHeld'
  BY <1>5 DEF Start, PollFinds, AnswersNewest, PollMisses, GiveUp, Crash
<1>6. ASSUME NEW s \in active, Delete(s) PROVE LockHeld'
  BY <1>6 DEF Delete
<1>7. CASE LeaseTick
  BY <1>7 DEF LeaseTick
<1>8. CASE UNCHANGED vars
  BY <1>8 DEF vars
<1> QED
  BY <1>1, <1>2, <1>3, <1>4, <1>5, <1>6, <1>7, <1>8 DEF Next, CallStep

\* The creator is alone, so what it adds is the only active session.
LEMMA OneStep ==
  TypeOK /\ LockHeld /\ OneActiveSession /\ CreatorAlone /\ [Next]_vars
  => OneActiveSession' /\ CreatorAlone'
<1> USE LockAssumption DEF TypeOK, LockHeld, OneActiveSession, CreatorAlone, Pcs,
                           InCallback, Critical, Move, LockUnchanged, SessionsUnchanged
<1> SUFFICES ASSUME TypeOK, LockHeld, OneActiveSession, CreatorAlone, [Next]_vars
             PROVE OneActiveSession' /\ CreatorAlone'
  OBVIOUS
<1>1. ASSUME NEW a \in Callers, Acquire(a) \/ AcquireFails(a) \/ AcquireReplyLost(a)
      PROVE OneActiveSession' /\ CreatorAlone'
  BY <1>1 DEF Acquire, AcquireFails, AcquireReplyLost, AfterFailedAttempt
<1>2. ASSUME NEW a \in Callers, FindExisting(a) \/ FindNone(a) \/ CacheRow(a)
                                 \/ CallbackThrows(a)
      PROVE OneActiveSession' /\ CreatorAlone'
  BY <1>2 DEF FindExisting, AnswersNewest, FindNone, CacheRow, CallbackThrows
<1>3. ASSUME NEW a \in Callers, CreateRow(a)
      PROVE OneActiveSession' /\ CreatorAlone'
  <2> SUFFICES ASSUME late = {}
               PROVE /\ \A s, t \in active' : s = t
                     /\ \A b \in Callers : pc'[b] # "creating"
    BY <1>3 DEF CreateRow
  <2>1. active = {}
    BY <1>3 DEF CreateRow
  <2>2. \A b \in Callers : pc[b] = "creating" => b = a
    BY <1>3 DEF CreateRow
  <2> QED
    BY <1>3, <2>1, <2>2 DEF CreateRow
<1>4. ASSUME NEW a \in Callers, Release(a) \/ ReleaseLost(a)
      PROVE OneActiveSession' /\ CreatorAlone'
  BY <1>4 DEF Release, ReleaseLost, AfterRelease
<1>5. ASSUME NEW a \in Callers, Start(a) \/ PollFinds(a) \/ PollMisses(a)
                                 \/ GiveUp(a) \/ Crash(a)
      PROVE OneActiveSession' /\ CreatorAlone'
  BY <1>5 DEF Start, PollFinds, AnswersNewest, PollMisses, GiveUp, Crash
<1>6. ASSUME NEW s \in active, Delete(s) PROVE OneActiveSession' /\ CreatorAlone'
  BY <1>6 DEF Delete
<1>7. CASE LeaseTick
  BY <1>7 DEF LeaseTick
<1>8. CASE UNCHANGED vars
  BY <1>8 DEF vars
<1> QED
  BY <1>1, <1>2, <1>3, <1>4, <1>5, <1>6, <1>7, <1>8 DEF Next, CallStep

\* A call settles on its session once.
LEMMA UnansweredStep == TypeOK /\ Unanswered /\ [Next]_vars => Unanswered'
<1> USE LockAssumption DEF TypeOK, Unanswered, Pcs, Critical, Move,
                           LockUnchanged, SessionsUnchanged
<1> SUFFICES ASSUME TypeOK, Unanswered, [Next]_vars PROVE Unanswered'
  OBVIOUS
<1>1. ASSUME NEW a \in Callers, Start(a) \/ Acquire(a) \/ AcquireFails(a)
                                 \/ AcquireReplyLost(a)
      PROVE Unanswered'
  BY <1>1 DEF Start, Acquire, AcquireFails, AcquireReplyLost, AfterFailedAttempt
<1>2. ASSUME NEW a \in Callers, FindExisting(a) \/ FindNone(a) \/ CreateRow(a)
                                 \/ CacheRow(a) \/ CallbackThrows(a)
      PROVE Unanswered'
  BY <1>2 DEF FindExisting, AnswersNewest, FindNone, CreateRow, CacheRow,
              CallbackThrows, InCallback
<1>3. ASSUME NEW a \in Callers, Release(a) \/ ReleaseLost(a) PROVE Unanswered'
  BY <1>3 DEF Release, ReleaseLost, AfterRelease
<1>4. ASSUME NEW a \in Callers, PollFinds(a) \/ PollMisses(a) \/ GiveUp(a) \/ Crash(a)
      PROVE Unanswered'
  BY <1>4 DEF PollFinds, AnswersNewest, PollMisses, GiveUp, Crash
<1>5. ASSUME NEW s \in active, Delete(s) PROVE Unanswered'
  BY <1>5 DEF Delete
<1>6. CASE LeaseTick
  BY <1>6 DEF LeaseTick
<1>7. CASE UNCHANGED vars
  BY <1>7 DEF vars
<1> QED
  BY <1>1, <1>2, <1>3, <1>4, <1>5, <1>6, <1>7 DEF Next, CallStep

\* LockInv is an invariant of every behaviour of the lock, crashes, lost
\* replies and late callbacks included.
THEOREM LockInvariant == Spec => []LockInv
<1>1. LockInv /\ [Next]_vars => LockInv'
  BY TypeStep, HeldStep, OneStep, UnansweredStep DEF LockInv
<1> QED
  BY InitLockInv, <1>1, PTL DEF Spec

\* Type correctness of the lock and the sessions.
THEOREM TypeCorrect == Spec => []TypeOK
BY LockInvariant, PTL DEF LockInv

\* A call inside the callback of withLock owns the key until its lease ends.
THEOREM MutualExclusion == Spec => []LockHeld
BY LockInvariant, PTL DEF LockInv

\* At most one active ASK session, as long as no callback outlives its lease.
THEOREM SingleActiveSession == Spec => []OneActiveSession
BY LockInvariant, PTL DEF LockInv

\* The key of one call is never deleted by another call, late or not: a key
\* goes away by its owner's release or by the end of its lease.
THEOREM OwnKeyOnlyHolds == Spec => OwnKeyOnly
<1> DEFINE Goes == lockOwner # NoCaller /\ lockOwner' = NoCaller =>
                      lease = 1 \/ Release(lockOwner)
<1>1. TypeOK /\ [Next]_vars => [Goes]_vars
  <2> USE LockAssumption DEF TypeOK, LockUnchanged, SessionsUnchanged, Goes
  <2> SUFFICES ASSUME TypeOK, Next PROVE Goes
    OBVIOUS
  <2>1. ASSUME NEW a \in Callers, Release(a) PROVE Goes
    BY <2>1 DEF Release
  <2>2. ASSUME NEW a \in Callers, CallStep(a), ~Release(a) PROVE Goes
    BY <2>2 DEF CallStep, Acquire, AcquireFails, AcquireReplyLost, FindExisting,
                FindNone, CreateRow, CacheRow, CallbackThrows, ReleaseLost,
                PollFinds, PollMisses, GiveUp
  <2>3. ASSUME NEW a \in Callers, Start(a) \/ Crash(a) PROVE Goes
    BY <2>3 DEF Start, Crash
  <2>4. ASSUME NEW s \in active, Delete(s) PROVE Goes
    BY <2>4 DEF Delete
  <2>5. CASE LeaseTick
    BY <2>5 DEF LeaseTick
  <2> QED
    BY <2>1, <2>2, <2>3, <2>4, <2>5 DEF Next
<1> QED
  BY TypeCorrect, <1>1, PTL DEF OwnKeyOnly, Spec, Goes

-----------------------------------------------------------------------------
\* Each step of the calls is the find-or-create of AskSession in one piece, or
\* nothing at all.
LEMMA AbstractStep == LockInv /\ [Next]_vars => [Abstract!Next]_Abstract!vars
<1> USE LockAssumption DEF LockInv, TypeOK, Move, LockUnchanged, SessionsUnchanged
<1> SUFFICES ASSUME LockInv, [Next]_vars
             PROVE Abstract!Next \/ UNCHANGED Abstract!vars
  OBVIOUS
<1>1. ASSUME NEW a \in Callers, FindExisting(a) PROVE Abstract!Reuse(a)
  BY <1>1 DEF FindExisting, AnswersNewest, IsNewest, Unanswered, Abstract!Reuse
<1>2. ASSUME NEW a \in Callers, PollFinds(a) PROVE Abstract!Reuse(a)
  BY <1>2 DEF PollFinds, AnswersNewest, IsNewest, Unanswered, Abstract!Reuse
<1>3. ASSUME NEW a \in Callers, CreateRow(a) PROVE Abstract!Create(a)
  BY <1>3 DEF CreateRow, CreatorAlone, Unanswered, Abstract!Create
<1>4. ASSUME NEW s \in active, Delete(s) PROVE Abstract!Delete(s)
  BY <1>4 DEF Delete, Abstract!Delete
<1>5. ASSUME NEW a \in Callers, Start(a) \/ Crash(a) \/ CallStep(a),
             ~FindExisting(a), ~PollFinds(a), ~CreateRow(a)
      PROVE UNCHANGED Abstract!vars
  BY <1>5 DEF CallStep, Start, Crash, Acquire, AcquireFails, AcquireReplyLost,
              FindNone, CacheRow, CallbackThrows, Release, ReleaseLost,
              PollMisses, GiveUp, Abstract!vars
<1>6. CASE LeaseTick
  BY <1>6 DEF LeaseTick, Abstract!Overrun, Abstract!Next, Abstract!vars
<1>7. CASE UNCHANGED vars
  BY <1>7 DEF vars, Abstract!vars
<1> QED
  BY <1>1, <1>2, <1>3, <1>4, <1>5, <1>6, <1>7 DEF Next, Abstract!Next

\* The lock protocol implements the atomic find-or-create of AskSession.
THEOREM LockImplementsAskSession == Spec => ImplementsAskSession
<1>1. Init => Abstract!Init
  BY DEF Init, Abstract!Init
<1> QED
  BY LockInvariant, <1>1, AbstractStep, PTL
  DEF Spec, ImplementsAskSession, Abstract!Spec
=============================================================================
