---------------------------- MODULE SummaryProofs ----------------------------
(***************************************************************************)
(* Proofs about the two sides of summaries: AutoSummary, which counts       *)
(* messages and asks for a summary, for every set of messages and every     *)
(* threshold; and SummarySessions, which writes them, for any number of     *)
(* requests and every value of the limits.                                  *)
(***************************************************************************)
EXTENDS AutoSummary, SummarySessions, FiniteSetTheorems, WellFoundedInduction, TLAPS

-----------------------------------------------------------------------------
(* AutoSummary.  CountInv relates the counter, the batches that were reset  *)
(* and the handlers still on their way.                                     *)

LEMMA InitCount == Init => CountInv
<1> SUFFICES ASSUME Init
             PROVE  CountInv
  OBVIOUS
<1> USE AutoSummaryAssumption DEF Init
<1>1. TypeOK
  BY DEF TypeOK, Pcs
<1>2. LastIsCounted /\ DueIsNoticed /\ ResetsCoverMessages /\ BatchesExact
  BY DEF LastIsCounted, DueIsNoticed, ResetsCoverMessages, BatchesExact
<1>3. OneResetAtATime /\ DueIsFull /\ DueIsExact
  BY DEF OneResetAtATime, DueIsFull, DueIsExact, Resetting
<1> QED BY <1>1, <1>2, <1>3 DEF CountInv

\* Steps that count nothing and let no handler become due keep the invariant.
LEMMA QuietStep ==
  ASSUME CountInv, TypeOK',
         UNCHANGED <<counter, last, counted, covered, raced>>,
         \A m \in Messages : Resetting(m)' => Resetting(m),
         \A m \in Messages : pc[m] = "dropped" => pc'[m] = "dropped",
         \A m \in Messages : Resetting(m) => pc'[m] \in {"resetting", "dropped"}
  PROVE  CountInv'
<1>1. LastIsCounted'
  BY DEF CountInv, LastIsCounted
<1>2. DueIsNoticed'
  <2> SUFFICES ASSUME counter' >= Threshold
               PROVE  pc'[last'] \in {"resetting", "dropped"}
    BY DEF DueIsNoticed
  <2>1. pc[last] \in {"resetting", "dropped"} /\ last \in Messages
    BY AutoSummaryAssumption DEF CountInv, DueIsNoticed, LastIsCounted, TypeOK
  <2> QED BY <2>1 DEF Resetting
<1>3. Undisturbed' => Undisturbed
  BY DEF Undisturbed
<1>4. ResetsCoverMessages' /\ BatchesExact'
  BY <1>3 DEF CountInv, ResetsCoverMessages, BatchesExact
<1>5. OneResetAtATime' /\ DueIsFull' /\ DueIsExact'
  BY <1>3 DEF CountInv, OneResetAtATime, DueIsFull, DueIsExact
<1> QED BY <1>1, <1>2, <1>4, <1>5 DEF CountInv

LEMMA TypeStep == TypeOK /\ [Next]_vars => TypeOK'
<1> SUFFICES ASSUME TypeOK, [Next]_vars
             PROVE  TypeOK'
  OBVIOUS
<1> USE AutoSummaryAssumption DEF TypeOK, Pcs, Move, history
<1>1. ASSUME NEW m \in Messages,
             Receive(m) \/ QueueEmbedding(m) \/ AddJob(m) \/ HandlerThrows(m)
      PROVE  TypeOK'
  BY <1>1 DEF Receive, QueueEmbedding, AddJob, HandlerThrows
<1>2. ASSUME NEW m \in Messages, Increment(m), pc' \in [Messages -> Pcs]
      PROVE  TypeOK'
  <2>1. raced' \in BOOLEAN
    BY <1>2 DEF Increment
  <2> QED BY <1>2, <2>1 DEF Increment
<1>3. ASSUME NEW m \in Messages, Count(m) \/ CountReplyLost(m)
      PROVE  TypeOK'
  <2>1. pc' \in [Messages -> Pcs]
    BY <1>3 DEF Count, CountReplyLost
  <2> QED BY <1>2, <1>3, <2>1 DEF Count, CountReplyLost
<1>4. ASSUME NEW m \in Messages, Reset(m)
      PROVE  TypeOK'
  BY <1>4 DEF Reset
<1>5. CASE Crash
  BY <1>5 DEF Crash
<1>6. CASE UNCHANGED vars
  BY <1>6 DEF vars
<1> QED BY <1>1, <1>3, <1>4, <1>5, <1>6 DEF Next, Step

\* INCR: the message counted is due, or the counter stays below the threshold,
\* or its reply is lost.
LEMMA IncrementStep ==
  ASSUME CountInv, TypeOK', NEW m \in Messages, pc[m] = "counting", Increment(m),
         \/ pc' = [pc EXCEPT ![m] = IF IsDue(counter + 1) THEN "resetting" ELSE "done"]
         \/ pc' = [pc EXCEPT ![m] = "dropped"]
  PROVE  CountInv'
<1> USE AutoSummaryAssumption DEF Increment, Resetting
<1>1. pc \in [Messages -> Pcs] /\ counter \in Nat /\ counted \in Nat /\ covered \in Nat
  BY DEF CountInv, TypeOK
<1>2. LastIsCounted' /\ DueIsNoticed'
  BY <1>1 DEF LastIsCounted, DueIsNoticed, IsDue
<1>3. Undisturbed' => /\ Undisturbed
                      /\ pc' = [pc EXCEPT ![m] = IF IsDue(counter + 1)
                                                 THEN "resetting" ELSE "done"]
  BY <1>1 DEF Undisturbed
<1>3a. counter' = counter + 1 /\ counted' = counted + 1 /\ covered' = covered
  OBVIOUS
<1>3b. ~raced' => ~raced
  OBVIOUS
<1>4. ResetsCoverMessages' /\ BatchesExact'
  <2>1. ResetsCoverMessages'
    BY <1>1, <1>3a, <1>3b DEF CountInv, ResetsCoverMessages
  <2>2. BatchesExact'
    BY <1>1, <1>3, <1>3a DEF CountInv, BatchesExact
  <2> QED BY <2>1, <2>2
<1>5. ~raced' => \A n \in Messages : ~Resetting(n)
  OBVIOUS
<1>6. OneResetAtATime' /\ DueIsFull'
  BY <1>1, <1>5 DEF OneResetAtATime, DueIsFull, IsDue
<1>7. DueIsExact'
  <2> SUFFICES ASSUME Undisturbed', NEW n \in Messages, Resetting(n)'
               PROVE  counter' = Threshold
    BY DEF DueIsExact
  <2>1. n = m /\ IsDue(counter + 1)
    BY <1>1, <1>3, <1>5 DEF Undisturbed
  <2>2. counter < Threshold
    <3> SUFFICES ASSUME counter >= Threshold
                 PROVE  FALSE
      BY <1>1
    <3>1. last \in Messages /\ pc[last] \in {"resetting", "dropped"}
      BY <1>1 DEF CountInv, DueIsNoticed, LastIsCounted
    <3> QED BY <1>3, <1>5, <3>1 DEF Undisturbed
  <2> QED BY <1>1, <2>1, <2>2 DEF IsDue
<1> QED BY <1>2, <1>4, <1>6, <1>7 DEF CountInv

\* SET 0 by the only handler that is due.
LEMMA ResetStep ==
  ASSUME CountInv, TypeOK', NEW m \in Messages, Reset(m)
  PROVE  CountInv'
<1> USE AutoSummaryAssumption DEF Reset, Move, Resetting
<1>1. pc \in [Messages -> Pcs] /\ counter \in Nat /\ counted \in Nat /\ covered \in Nat
  BY DEF CountInv, TypeOK
<1>2. LastIsCounted' /\ DueIsNoticed'
  BY DEF LastIsCounted, DueIsNoticed
<1>3. Undisturbed' => Undisturbed
  BY <1>1 DEF Undisturbed
<1>4. ResetsCoverMessages'
  BY <1>1 DEF CountInv, ResetsCoverMessages, DueIsFull
<1>5. BatchesExact'
  BY <1>1, <1>3 DEF CountInv, BatchesExact, DueIsExact
<1>6. ~raced => \A n \in Messages : ~Resetting(n)'
  BY <1>1 DEF CountInv, OneResetAtATime
<1>7. OneResetAtATime' /\ DueIsFull' /\ DueIsExact'
  BY <1>6 DEF OneResetAtATime, DueIsFull, DueIsExact, Undisturbed
<1> QED BY <1>2, <1>4, <1>5, <1>7 DEF CountInv

LEMMA CountStep == CountInv /\ [Next]_vars => CountInv'
<1> SUFFICES ASSUME CountInv, [Next]_vars
             PROVE  CountInv'
  OBVIOUS
<1>1. TypeOK'
  BY TypeStep DEF CountInv
<1>2. pc \in [Messages -> Pcs]
  BY DEF CountInv, TypeOK
<1>3. ASSUME NEW m \in Messages,
             Receive(m) \/ QueueEmbedding(m) \/ AddJob(m) \/ HandlerThrows(m)
      PROVE  CountInv'
  BY <1>1, <1>2, <1>3, QuietStep
  DEF Receive, QueueEmbedding, AddJob, HandlerThrows, Move, Resetting, history
<1>4. ASSUME NEW m \in Messages, Count(m) \/ CountReplyLost(m)
      PROVE  CountInv'
  BY <1>1, <1>4, IncrementStep DEF Count, CountReplyLost, Move
<1>5. ASSUME NEW m \in Messages, Reset(m)
      PROVE  CountInv'
  BY <1>1, <1>5, ResetStep
<1>6. CASE Crash
  BY <1>1, <1>2, <1>6, QuietStep DEF Crash, Resetting, history
<1>7. CASE UNCHANGED vars
  BY <1>1, <1>7, QuietStep DEF vars, history, Resetting
<1> QED BY <1>3, <1>4, <1>5, <1>6, <1>7 DEF Next, Step

\* The counter of redis-pubsub.service.ts: INCR, SET 0 and faults in any order.
THEOREM CountInvariant == Spec => []CountInv
<1>1. Init => CountInv
  BY InitCount
<1>2. CountInv /\ [Next]_vars => CountInv'
  BY CountStep
<1> QED BY <1>1, <1>2, PTL DEF Spec

\* A full counter is never overlooked.
THEOREM FullCounterNoticed == Spec => []DueIsNoticed
<1>1. CountInv => DueIsNoticed
  BY DEF CountInv
<1> QED BY <1>1, CountInvariant, PTL

\* No two undisturbed batches share a message.
THEOREM BatchesDisjoint == Spec => []ResetsCoverMessages
<1>1. CountInv => ResetsCoverMessages
  BY DEF CountInv
<1> QED BY <1>1, CountInvariant, PTL

\* Undisturbed batches are exact.
THEOREM BatchesAreExact == Spec => []BatchesExact
<1>1. CountInv => BatchesExact
  BY DEF CountInv
<1> QED BY <1>1, CountInvariant, PTL

-----------------------------------------------------------------------------
(* SummarySessions.  First the greatest and the least of a finite set.      *)

LEMMA OrderedPair ==
  ASSUME NEW S, NEW T \in SUBSET S, NEW U \in SUBSET S, T \subseteq U, T # U
  PROVE  <<T, U>> \in StrictSubsetOrdering(S)
<1>1. <<T, U>> \in (SUBSET S) \X (SUBSET S)
  OBVIOUS
<1>2. <<T, U>>[1] = T /\ <<T, U>>[2] = U
  OBVIOUS
<1>3. <<T, U>>[1] \subseteq <<T, U>>[2] /\ <<T, U>>[1] # <<T, U>>[2]
  BY <1>2
<1> QED BY <1>1, <1>3, Zenon DEF StrictSubsetOrdering

LEMMA GreatestExists ==
  ASSUME NEW S \in SUBSET Nat, IsFiniteSet(S), S # {}
  PROVE  Max(S) \in S /\ \A n \in S : n <= Max(S)
<1> DEFINE Above(x) == {n \in S : n > x}
<1> DEFINE Tails == {Above(x) : x \in S}
<1>1. \A x \in S : Above(x) \in FiniteSubsetsOf(S)
  <2> SUFFICES ASSUME NEW x \in S
               PROVE  Above(x) \in FiniteSubsetsOf(S)
    OBVIOUS
  <2>1. Above(x) \in SUBSET S
    OBVIOUS
  <2>2. IsFiniteSet(Above(x))
    BY <2>1, FS_Subset
  <2> QED BY <2>1, <2>2 DEF FiniteSubsetsOf
<1>2. IsWellFoundedOn(StrictSubsetOrdering(S), FiniteSubsetsOf(S))
  BY FS_StrictSubsetOrderingWellFounded
<1>3. Tails \subseteq FiniteSubsetsOf(S) /\ Tails # {}
  BY <1>1
<1>4. \E T \in Tails : \A U \in Tails : ~ (<<U, T>> \in StrictSubsetOrdering(S))
  BY <1>2, <1>3, WFMin
<1>5. PICK x \in S : \A y \in S : ~ (<<Above(y), Above(x)>> \in StrictSubsetOrdering(S))
  BY <1>4
<1>6. \A y \in S : ~ (y > x)
  <2> SUFFICES ASSUME NEW y \in S, y > x
               PROVE  FALSE
    OBVIOUS
  <2>1. Above(y) \subseteq Above(x)
    <3> SUFFICES ASSUME NEW n \in S, n > y
                 PROVE  n > x
      OBVIOUS
    <3>1. n \in Nat /\ x \in Nat /\ y \in Nat
      OBVIOUS
    <3> QED BY <3>1
  <2>2. y \in Above(x) /\ y \notin Above(y)
    OBVIOUS
  <2>3. Above(y) \in SUBSET S /\ Above(x) \in SUBSET S
    OBVIOUS
  <2>4. Above(y) # Above(x)
    BY <2>2
  <2> HIDE DEF Above
  <2>5. <<Above(y), Above(x)>> \in StrictSubsetOrdering(S)
    BY <2>1, <2>3, <2>4, OrderedPair, Zenon
  <2> QED BY <2>5, <1>5
<1>7. \A y \in S : x >= y
  BY <1>6
<1>8. Max(S) \in S /\ \A y \in S : Max(S) >= y
  BY <1>7, Zenon DEF Max
<1> QED BY <1>8

LEMMA LeastExists ==
  ASSUME NEW S \in SUBSET Nat, IsFiniteSet(S), S # {}
  PROVE  \E k \in S : \A n \in S : n >= k
<1> DEFINE Below(x) == {n \in S : n < x}
<1> DEFINE Heads == {Below(x) : x \in S}
<1>1. \A x \in S : Below(x) \in FiniteSubsetsOf(S)
  <2> SUFFICES ASSUME NEW x \in S
               PROVE  Below(x) \in FiniteSubsetsOf(S)
    OBVIOUS
  <2>1. Below(x) \in SUBSET S
    OBVIOUS
  <2>2. IsFiniteSet(Below(x))
    BY <2>1, FS_Subset
  <2> QED BY <2>1, <2>2 DEF FiniteSubsetsOf
<1>2. IsWellFoundedOn(StrictSubsetOrdering(S), FiniteSubsetsOf(S))
  BY FS_StrictSubsetOrderingWellFounded
<1>3. Heads \subseteq FiniteSubsetsOf(S) /\ Heads # {}
  BY <1>1
<1>4. \E T \in Heads : \A U \in Heads : ~ (<<U, T>> \in StrictSubsetOrdering(S))
  BY <1>2, <1>3, WFMin
<1>5. PICK x \in S : \A y \in S : ~ (<<Below(y), Below(x)>> \in StrictSubsetOrdering(S))
  BY <1>4
<1>6. \A y \in S : ~ (y < x)
  <2> SUFFICES ASSUME NEW y \in S, y < x
               PROVE  FALSE
    OBVIOUS
  <2>1. Below(y) \subseteq Below(x)
    <3> SUFFICES ASSUME NEW n \in S, n < y
                 PROVE  n < x
      OBVIOUS
    <3>1. n \in Nat /\ x \in Nat /\ y \in Nat
      OBVIOUS
    <3> QED BY <3>1
  <2>2. y \in Below(x) /\ y \notin Below(y)
    OBVIOUS
  <2>3. Below(y) \in SUBSET S /\ Below(x) \in SUBSET S
    OBVIOUS
  <2>4. Below(y) # Below(x)
    BY <2>2
  <2> HIDE DEF Below
  <2>5. <<Below(y), Below(x)>> \in StrictSubsetOrdering(S)
    BY <2>1, <2>3, <2>4, OrderedPair, Zenon
  <2> QED BY <2>5, <1>5
<1> QED BY <1>6

LEMMA GreatestOfTwo ==
  ASSUME NEW a \in Nat, NEW b \in Nat
  PROVE  Max({a, b}) \in {a, b} /\ a <= Max({a, b}) /\ b <= Max({a, b})
<1>1. a <= b \/ b <= a
  OBVIOUS
<1>2. \E x \in {a, b} : \A y \in {a, b} : x >= y
  BY <1>1
<1>3. Max({a, b}) \in {a, b} /\ \A y \in {a, b} : Max({a, b}) >= y
  BY <1>2, Zenon DEF Max
<1> QED BY <1>3

LEMMA NewestInside ==
  ASSUME TypeOKSessions
  PROVE  Newest(active) \in 0..Len(sessions)
<1>1. Len(sessions) \in Nat
  BY DEF TypeOKSessions
<1>2. CASE active = {}
  BY <1>1, <1>2 DEF Newest, NoSession
<1>3. CASE active # {}
  <2>1. active \in SUBSET (1..Len(sessions)) /\ IsFiniteSet(1..Len(sessions))
    BY <1>1, FS_Interval DEF TypeOKSessions, Sessions
  <2>2. IsFiniteSet(active)
    BY <2>1, FS_Subset
  <2>3. active \in SUBSET Nat
    BY <2>1, <1>1
  <2>4. Max(active) \in active
    BY <1>3, <2>2, <2>3, GreatestExists
  <2>5. Max(active) \in 0..Len(sessions)
    <3>1. 1..Len(sessions) \subseteq 0..Len(sessions)
      BY <1>1
    <3> QED BY <3>1, <2>1, <2>4
  <2> QED BY <1>3, <2>5 DEF Newest
<1> QED BY <1>2, <1>3

-----------------------------------------------------------------------------
(* What a request holds refers to sessions and messages there are.          *)

Refers(q, count, upTo) ==
    /\ q.base \in 0..count
    /\ q.mine \in 0..count
    /\ q.listed \in 0..count
    /\ q.messages \subseteq 1..upTo
    /\ q.pc = "storing" => q.mine # NoSession
    /\ q.pc = "creating" => q.messages # {}
    /\ q.pc \in {"idle", "retry"} => q.attempt < MaxAttempts

SessionInv == TypeOKSessions /\ \A r \in Requests : Refers(req[r], Len(sessions), newest)

\* What leaves an attempt behind.
Empty(q, pcs) ==
    /\ q.pc \in pcs
    /\ q.messages = {}
    /\ q.victims = {}

LEMMA LeaveEffect ==
  ASSUME SessionInv, NEW r \in Requests, NEW to \in {"over", "retry"},
         Leave(r, to), to = "retry" => req[r].attempt < MaxAttempts,
         newest' \in Nat, Len(sessions') \in Nat
  PROVE  \E q \in RequestState :
            req' = [req EXCEPT ![r] = q] /\ Refers(q, Len(sessions'), newest') /\ Empty(q, {"over", "retry"})
<1> DEFINE a == IF to = "retry" THEN req[r].attempt ELSE 0
<1> DEFINE q == [Fresh EXCEPT !.pc = to, !.attempt = a]
<1>1. a \in 0..MaxAttempts /\ (to = "retry" => a < MaxAttempts)
  BY DEF SessionInv, TypeOKSessions, RequestState, MaxAttempts
<1>2. req' = [req EXCEPT ![r] = q]
  BY DEF Leave
<1> HIDE DEF a
<1>3. q \in RequestState
  BY <1>1 DEF Fresh, RequestState, NoSession, SessionPcs
<1>4. Refers(q, Len(sessions'), newest')
  BY <1>1 DEF Refers, Fresh, NoSession
<1>5. Empty(q, {"over", "retry"})
  BY DEF Fresh, Empty
<1> QED BY <1>2, <1>3, <1>4, <1>5

LEMMA ThrowEffect ==
  ASSUME SessionInv, NEW r \in Requests, Throw(r),
         newest' \in Nat, Len(sessions') \in Nat
  PROVE  \E q \in RequestState :
            req' = [req EXCEPT ![r] = q] /\ Refers(q, Len(sessions'), newest') /\ Empty(q, {"over", "retry"})
<1>1. CASE req[r].attempt < MaxAttempts
  <2>1. Leave(r, "retry")
    BY <1>1 DEF Throw
  <2> QED BY <1>1, <2>1, LeaveEffect
<1>2. CASE ~(req[r].attempt < MaxAttempts)
  <2>1. Leave(r, "over")
    BY <1>2 DEF Throw
  <2> QED BY <2>1, LeaveEffect
<1> QED BY <1>1, <1>2

\* The updates that the steps make keep a record's type.
LEMMA FreshUpdates ==
  ASSUME NEW to \in SessionPcs, NEW a \in 0..MaxAttempts, NEW n \in Nat
  PROVE  /\ [Fresh EXCEPT !.pc = to, !.attempt = a, !.base = n] \in RequestState
         /\ [Fresh EXCEPT !.pc = to, !.attempt = a, !.mine = n] \in RequestState
BY DEF RequestState, Fresh, NoSession

LEMMA SeenUpdate ==
  ASSUME NEW q \in RequestState, NEW to \in SessionPcs, NEW flag \in BOOLEAN
  PROVE  [q EXCEPT !.pc = to, !.seen = flag] \in RequestState
BY DEF RequestState

LEMMA RangeUpdate ==
  ASSUME NEW q \in RequestState, NEW to \in SessionPcs, NEW set \in SUBSET Nat
  PROVE  [q EXCEPT !.pc = to, !.messages = set] \in RequestState
BY DEF RequestState

LEMMA FetchedUpdate ==
  ASSUME NEW q \in RequestState, NEW to \in SessionPcs, NEW set \in SUBSET Nat,
         NEW flag \in BOOLEAN
  PROVE  [q EXCEPT !.pc = to, !.messages = set, !.clipped = flag] \in RequestState
BY DEF RequestState

LEMMA ListedUpdate ==
  ASSUME NEW q \in RequestState, NEW to \in SessionPcs, NEW set \in SUBSET Nat, NEW n \in Nat
  PROVE  [q EXCEPT !.pc = to, !.victims = set, !.listed = n] \in RequestState
BY DEF RequestState

LEMMA SessionAtType ==
  ASSUME TypeOKSessions, NEW s \in 0..Len(sessions)
  PROVE  SessionAt(s) \in SessionRecord
<1>1. CASE s = NoSession
  <2>1. NoText(0) \in SessionRecord
    BY DEF NoText, SessionRecord
  <2> QED BY <1>1, <2>1 DEF SessionAt
<1>2. CASE s # NoSession
  <2>1. sessions \in Seq(SessionRecord) /\ s \in 1..Len(sessions)
    BY <1>2 DEF TypeOKSessions, NoSession
  <2>2. sessions[s] \in SessionRecord
    BY <2>1
  <2> QED BY <1>2, <2>2 DEF SessionAt
<1> QED BY <1>1, <1>2

LEMMA MarkerIsNat ==
  ASSUME TypeOKSessions, NEW s \in 0..Len(sessions)
  PROVE  MarkerOf(s) \in Nat
BY SessionAtType DEF MarkerOf, SessionRecord

LEMMA EarlierType ==
  ASSUME TypeOKSessions, NEW r \in Requests, req[r].base \in 0..Len(sessions)
  PROVE  Earlier(r) \in SessionRecord
<1>1. SessionAt(req[r].base) \in SessionRecord
  BY SessionAtType
<1>2. MarkerOf(req[r].base) \in Nat
  BY MarkerIsNat
<1>3. NoText(MarkerOf(req[r].base)) \in SessionRecord
  BY <1>2 DEF NoText, SessionRecord
<1> QED BY <1>1, <1>3 DEF Earlier

\* Every step of a request changes its own record and nobody else's.
LEMMA RequestMoves ==
  ASSUME SessionInv, NEW r \in Requests, StepSessions(r)
  PROVE  \E q \in RequestState : req' = [req EXCEPT ![r] = q] /\ Refers(q, Len(sessions'), newest')
<1> USE SummaryAssumption
<1>1. /\ req[r] \in RequestState /\ Refers(req[r], Len(sessions), newest)
      /\ newest \in Nat /\ Len(sessions) \in Nat
  BY DEF SessionInv, TypeOKSessions
<1>a. AtWork \subseteq SessionPcs
  BY DEF SessionPcs
<1>p. /\ "fetching" \in SessionPcs /\ "fetched" \in SessionPcs /\ "creating" \in SessionPcs
      /\ "storing" \in SessionPcs /\ "limiting" \in SessionPcs /\ "deactivating" \in SessionPcs
  BY <1>a DEF AtWork
<1>q. req[r].attempt \in 0..MaxAttempts
  BY <1>1 DEF RequestState
<1>2. CASE List(r)
  <2> DEFINE q == [Fresh EXCEPT !.pc = "fetching", !.attempt = req[r].attempt + 1,
                                !.base = Newest(active)]
  <2>1. req[r].attempt + 1 \in 0..MaxAttempts
    BY <1>1, <1>2 DEF List, At, Refers, RequestState, MaxAttempts
  <2>2. Newest(active) \in 0..Len(sessions)
    BY NewestInside DEF SessionInv
  <2>3. Newest(active) \in Nat
    BY <2>2, <1>1
  <2>6. q \in RequestState
    BY <1>p, <2>1, <2>3, FreshUpdates, Zenon
  <2>4. Refers(q, Len(sessions'), newest')
    BY <2>2, <1>1, <1>2 DEF Refers, Fresh, NoSession, List, SessionsUnchanged
  <2>5. req' = [req EXCEPT ![r] = q]
    BY <1>2 DEF List
  <2> QED BY <2>6, <2>4, <2>5
<1>3. CASE Fetch(r)
  <2>1. PICK messages \in SUBSET (MarkerOf(req[r].base) + 1 .. newest) :
           req' = [req EXCEPT ![r].pc = "fetched", ![r].messages = messages,
                              ![r].clipped = \E n \in (MarkerOf(req[r].base) + 1 .. newest) \ messages :
                                                \E m \in messages : n < m]
    BY <1>3 DEF Fetch
  <2> DEFINE cut == \E n \in (MarkerOf(req[r].base) + 1 .. newest) \ messages :
                       \E m \in messages : n < m
  <2> DEFINE q == [req[r] EXCEPT !.pc = "fetched", !.messages = messages, !.clipped = cut]
  <2>2. MarkerOf(req[r].base) \in Nat
    BY MarkerIsNat, <1>1 DEF SessionInv, Refers
  <2>3. messages \subseteq 1..newest
    BY <2>2, <1>1
  <2>8. messages \in SUBSET Nat
    BY <2>2
  <2>4. cut \in BOOLEAN
    OBVIOUS
  <2>5. req' = [req EXCEPT ![r] = q]
    BY <2>1
  <2> HIDE DEF cut
  <2>6. q \in RequestState
    BY <1>p, <2>8, <2>4, <1>1, FetchedUpdate, Zenon
  <2>7. Refers(q, Len(sessions'), newest')
    BY <2>3, <1>1, <1>3 DEF Refers, Fetch, SessionsUnchanged, RequestState
  <2> QED BY <2>5, <2>6, <2>7
<1>4. CASE FetchRange(r)
  <2>1. PICK first \in 1..newest, final \in 1..newest :
           req' = [req EXCEPT ![r].pc = "fetched", ![r].messages = first..final]
    BY <1>4 DEF FetchRange
  <2> DEFINE q == [req[r] EXCEPT !.pc = "fetched", !.messages = first..final]
  <2>2. first..final \subseteq 1..newest
    BY <1>1
  <2>6. first..final \in SUBSET Nat
    OBVIOUS
  <2>3. q \in RequestState
    BY <1>p, <2>6, <1>1, RangeUpdate, Zenon
  <2>4. Refers(q, Len(sessions'), newest')
    BY <2>2, <1>1, <1>4 DEF Refers, FetchRange, SessionsUnchanged, RequestState
  <2>5. req' = [req EXCEPT ![r] = q]
    BY <2>1
  <2> QED BY <2>3, <2>4, <2>5
<1>5. CASE ReadPrevious(r)
  <2>4. PICK seen \in BOOLEAN : req' = [req EXCEPT ![r].pc = "creating", ![r].seen = seen]
    BY <1>5 DEF ReadPrevious
  <2> DEFINE q == [req[r] EXCEPT !.pc = "creating", !.seen = seen]
  <2>1. q \in RequestState
    BY <1>p, <1>1, <2>4, SeenUpdate, Zenon
  <2>2. Refers(q, Len(sessions'), newest')
    BY <1>1, <1>5 DEF Refers, ReadPrevious, SessionsUnchanged, RequestState
  <2>3. req' = [req EXCEPT ![r] = q]
    BY <2>4
  <2> QED BY <2>1, <2>2, <2>3
<1>6. CASE Create(r)
  <2> DEFINE q == [Fresh EXCEPT !.pc = "storing", !.attempt = req[r].attempt,
                                !.mine = Len(sessions) + 1]
  <2>1. Len(sessions') = Len(sessions) + 1
    BY <1>6 DEF Create, SessionInv, TypeOKSessions
  <2>5. Len(sessions) + 1 \in Nat
    BY <1>1
  <2>2. q \in RequestState
    BY <1>p, <1>q, <2>5, FreshUpdates, Zenon
  <2>3. Refers(q, Len(sessions'), newest')
    BY <2>1, <1>1, <1>6 DEF Refers, Fresh, NoSession, Create
  <2>4. req' = [req EXCEPT ![r] = q]
    BY <1>6 DEF Create
  <2> QED BY <2>2, <2>3, <2>4
<1>7. CASE Store(r)
  <2> DEFINE q == [req[r] EXCEPT !.pc = "limiting"]
  <2>1. q \in RequestState
    BY <1>p, <1>1 DEF RequestState
  <2>2. Refers(q, Len(sessions'), newest')
    BY <1>1, <1>7 DEF Refers, Store, RequestState
  <2>3. req' = [req EXCEPT ![r] = q]
    BY <1>7 DEF Store, Goto
  <2> QED BY <2>1, <2>2, <2>3
<1>8. CASE ListForLimit(r)
  <2> DEFINE q == [req[r] EXCEPT !.pc = "deactivating", !.victims = BeyondLimit(active),
                                 !.listed = Len(sessions)]
  <2>1. BeyondLimit(active) \in SUBSET Nat
    <3>1. active \subseteq 1..Len(sessions)
      BY DEF SessionInv, TypeOKSessions, Sessions
    <3>2. active \subseteq Nat
      BY <3>1, <1>1
    <3> QED BY <3>2, Zenon DEF BeyondLimit
  <2>2. q \in RequestState
    BY <1>p, <2>1, <1>1, ListedUpdate, Zenon
  <2>3. Refers(q, Len(sessions'), newest')
    BY <1>1, <1>8 DEF Refers, ListForLimit, SessionsUnchanged, RequestState
  <2>4. req' = [req EXCEPT ![r] = q]
    BY <1>8 DEF ListForLimit
  <2> QED BY <2>2, <2>3, <2>4
<1>9. CASE RangeTooLarge(r) \/ Fails(r)
  <2>1. Throw(r) /\ newest' = newest /\ sessions' = sessions
    BY <1>9 DEF RangeTooLarge, Fails, SessionsUnchanged
  <2> QED BY <2>1, <1>1, ThrowEffect
<1>10. CASE UpToDate(r) \/ Deactivate(r)
  <2>1. Leave(r, "over") /\ newest' = newest /\ sessions' = sessions
    BY <1>10 DEF UpToDate, Deactivate, SessionsUnchanged
  <2> QED BY <2>1, <1>1, LeaveEffect
<1> QED BY <1>2, <1>3, <1>4, <1>5, <1>6, <1>7, <1>8, <1>9, <1>10 DEF StepSessions

\* Sessions are added and nothing else happens to them.
LEMMA MessagesAreFinite ==
  ASSUME SessionInv, NEW r \in Requests, At(r, "creating")
  PROVE  /\ IsFiniteSet(req[r].messages) /\ req[r].messages # {}
         /\ req[r].messages \in SUBSET (1..newest)
         /\ Max(req[r].messages) \in req[r].messages
         /\ \A m \in req[r].messages : m <= Max(req[r].messages)
<1>1. /\ newest \in Nat /\ Refers(req[r], Len(sessions), newest)
      /\ req[r] \in RequestState
  BY SummaryAssumption DEF SessionInv, TypeOKSessions
<1>2. req[r].messages \in SUBSET (1..newest) /\ req[r].messages # {}
  <2>1. req[r].messages \subseteq 1..newest
    BY <1>1 DEF Refers
  <2>2. req[r].messages # {}
    BY <1>1 DEF Refers, At
  <2> QED BY <2>1, <2>2
<1>3. IsFiniteSet(req[r].messages) /\ req[r].messages \in SUBSET Nat
  <2>1. IsFiniteSet(1..newest)
    BY <1>1, FS_Interval
  <2>2. IsFiniteSet(req[r].messages)
    BY <1>2, <2>1, FS_Subset
  <2> QED BY <2>2, <1>1 DEF RequestState
<1> QED BY <1>2, <1>3, GreatestExists

\* The record that Create appends: a text that continues, or only a marker.
LEMMA CreateAppends ==
  ASSUME SessionInv, NEW r \in Requests, Create(r)
  PROVE  \E new \in SessionRecord :
            /\ sessions' = Append(sessions, new)
            /\ new.exact =>
                  /\ ContinuesText(r)
                  /\ new.marker = Max(req[r].messages)
                  /\ new.start = Earlier(r).start
                  /\ new.covers \cup new.cut
                       = req[r].messages \cup (Earlier(r).covers \cup Earlier(r).cut)
                  /\ new.marker \in new.covers
<1> DEFINE messages == req[r].messages
<1>1. PICK first \in messages :
         LET kept == {m \in messages : m >= first}
         IN  sessions' = Append(sessions,
                IF ContinuesText(r)
                THEN [marker |-> SyncMarker(r),
                      covers |-> kept \cup Earlier(r).covers,
                      cut    |-> (messages \ kept) \cup Earlier(r).cut,
                      start  |-> Earlier(r).start,
                      exact  |-> TRUE]
                ELSE [NoText(SyncMarker(r)) EXCEPT !.exact = FALSE])
  BY DEF Create
<1> DEFINE kept == {m \in messages : m >= first}
<1>2. /\ messages \in SUBSET (1..newest) /\ Max(messages) \in messages
      /\ \A m \in messages : m <= Max(messages)
      /\ newest \in Nat
  BY MessagesAreFinite, SummaryAssumption DEF Create, SessionInv, TypeOKSessions
<1>3. /\ kept \in SUBSET Nat /\ messages \ kept \in SUBSET Nat /\ Max(messages) \in kept
      /\ Max(messages) \in Nat /\ kept \cup (messages \ kept) = messages
  BY <1>2
<1>4. Earlier(r) \in SessionRecord
  BY EarlierType DEF SessionInv, Refers
<1>5. /\ Earlier(r).covers \in SUBSET Nat /\ Earlier(r).cut \in SUBSET Nat
      /\ Earlier(r).start \in Nat
  BY <1>4 DEF SessionRecord
<1> HIDE DEF kept
<1>6. CASE ContinuesText(r)
  <2> DEFINE new == [marker |-> Max(messages),
                     covers |-> kept \cup Earlier(r).covers,
                     cut    |-> (messages \ kept) \cup Earlier(r).cut,
                     start  |-> Earlier(r).start,
                     exact  |-> TRUE]
  <2>1. sessions' = Append(sessions, new)
    BY <1>1, <1>6 DEF kept, SyncMarker
  <2> HIDE DEF messages
  <2>2. new \in SessionRecord
    BY <1>3, <1>5 DEF SessionRecord
  <2>3. /\ new.marker = Max(messages) /\ new.start = Earlier(r).start
        /\ new.covers \cup new.cut = messages \cup (Earlier(r).covers \cup Earlier(r).cut)
        /\ new.marker \in new.covers
    BY <1>3
  <2> QED BY <1>6, <2>1, <2>2, <2>3 DEF messages
<1>7. CASE ~ContinuesText(r)
  <2> DEFINE new == [NoText(Max(messages)) EXCEPT !.exact = FALSE]
  <2>1. sessions' = Append(sessions, new)
    BY <1>1, <1>7 DEF SyncMarker
  <2>2. new \in SessionRecord
    BY <1>3 DEF SessionRecord, NoText
  <2>3. new.exact = FALSE
    BY DEF NoText
  <2> QED BY <2>1, <2>2, <2>3
<1> QED BY <1>6, <1>7

\* Sessions are added and nothing else happens to them.
LEMMA SessionsGrow ==
  ASSUME SessionInv, [NextSessions]_sessionVars
  PROVE  /\ sessions' \in Seq(SessionRecord)
         /\ Len(sessions') \in Nat /\ Len(sessions) \in Nat /\ Len(sessions) <= Len(sessions')
         /\ \A s \in Sessions : sessions'[s] = sessions[s]
         /\ newest' \in 0..MaxMessages /\ newest <= newest'
<1> USE SummaryAssumption
<1>1. /\ sessions \in Seq(SessionRecord) /\ Len(sessions) \in Nat
      /\ newest \in 0..MaxMessages /\ newest \in Nat
  BY DEF SessionInv, TypeOKSessions
<1>2. CASE \E r \in Requests : Create(r)
  <2>1. PICK r \in Requests : Create(r)
    BY <1>2
  <2>2. PICK new \in SessionRecord : sessions' = Append(sessions, new)
    BY <2>1, CreateAppends
  <2>3. newest' = newest
    BY <2>1 DEF Create
  <2>4. /\ sessions' \in Seq(SessionRecord) /\ Len(sessions') = Len(sessions) + 1
        /\ \A s \in 1..Len(sessions) : sessions'[s] = sessions[s]
    BY <2>2, <1>1
  <2> QED BY <2>3, <2>4, <1>1 DEF Sessions
<1>3. CASE ~ \E r \in Requests : Create(r)
  <2>1. sessions' = sessions
    BY <1>3 DEF NextSessions, StepSessions, sessionVars, List, Fetch, FetchRange,
                RangeTooLarge, UpToDate, ReadPrevious, Store, ListForLimit, Deactivate,
                Fails, NewMessage, UserDeletes, SessionsUnchanged
  <2>2. newest' = newest \/ NewMessage
    BY <1>3 DEF NextSessions, StepSessions, sessionVars, List, Fetch, FetchRange,
                RangeTooLarge, UpToDate, ReadPrevious, Store, ListForLimit, Deactivate,
                Fails, UserDeletes, SessionsUnchanged
  <2>3. newest' \in 0..MaxMessages /\ newest <= newest'
    BY <2>2, <1>1 DEF NewMessage
  <2> QED BY <2>1, <2>3, <1>1
<1> QED BY <1>2, <1>3

LEMMA SessionTypeStep ==
  ASSUME SessionInv, [NextSessions]_sessionVars
  PROVE  SessionInv'
<1> USE SummaryAssumption
<1> DEFINE old == Len(sessions)
<1> DEFINE len == Len(sessions')
<1>1. /\ sessions' \in Seq(SessionRecord)
      /\ len \in Nat /\ old \in Nat /\ old <= len
      /\ newest' \in 0..MaxMessages /\ newest <= newest'
  BY SessionsGrow
<1>2. /\ stored \subseteq 1..old /\ active \subseteq 1..old
      /\ sweptTo \in 0..old /\ newest \in Nat
      /\ req \in [Requests -> RequestState]
  BY DEF SessionInv, TypeOKSessions, Sessions
<1>3. ASSUME NEW q \in RequestState, Refers(q, old, newest)
      PROVE  Refers(q, len, newest')
  <2>1. 0..old \subseteq 0..len /\ 1..newest \subseteq 1..newest'
    BY <1>1, <1>2
  <2> QED BY <1>3, <2>1 DEF Refers
<1>4. req' \in [Requests -> RequestState] /\ \A r \in Requests : Refers(req'[r], len, newest')
  <2>1. CASE \E r \in Requests : StepSessions(r)
    <3>1. PICK r \in Requests : StepSessions(r)
      BY <2>1
    <3>2. PICK q \in RequestState : req' = [req EXCEPT ![r] = q] /\ Refers(q, len, newest')
      BY <3>1, RequestMoves
    <3> HIDE DEF len, old
    <3>3. req' \in [Requests -> RequestState]
      BY <3>2, <1>2
    <3>4. \A o \in Requests : Refers(req[o], old, newest)
      BY DEF SessionInv, old
    <3>5. \A o \in Requests : Refers(req'[o], len, newest')
      <4> TAKE o \in Requests
      <4>1. CASE o = r
        BY <4>1, <3>2, <1>2
      <4>2. CASE o # r
        <5>1. req'[o] = req[o] /\ req[o] \in RequestState
          BY <4>2, <3>2, <1>2
        <5> QED BY <5>1, <3>4, <1>3
      <4> QED BY <4>1, <4>2
    <3> QED BY <3>3, <3>5
  <2>2. CASE req' = req
    <3> HIDE DEF len, old
    <3>1. \A o \in Requests : Refers(req[o], old, newest) /\ req[o] \in RequestState
      BY <1>2 DEF SessionInv, old
    <3> QED BY <2>2, <3>1, <1>2, <1>3
  <2> QED BY <2>1, <2>2 DEF NextSessions, sessionVars, NewMessage, UserDeletes
<1>5. stored' \subseteq 1..len
  <2>1. ASSUME NEW r \in Requests, Store(r)
        PROVE  stored' \subseteq 1..len
    <3>1. req[r].mine \in 1..old
      BY <2>1, <1>2 DEF SessionInv, Refers, Store, At, NoSession
    <3> QED BY <2>1, <3>1, <1>1, <1>2 DEF Store
  <2>2. CASE stored' = stored
    BY <2>2, <1>1, <1>2
  <2> QED BY <2>1, <2>2 DEF NextSessions, StepSessions, sessionVars, List, Fetch, FetchRange,
             RangeTooLarge, UpToDate, ReadPrevious, Create, ListForLimit, Deactivate,
             Fails, NewMessage, UserDeletes, SessionsUnchanged
<1>6. active' \subseteq 1..len
  <2>1. ASSUME NEW r \in Requests, Create(r)
        PROVE  active' \subseteq 1..len
    <3>1. len = old + 1
      BY <2>1 DEF Create, SessionInv, TypeOKSessions
    <3> QED BY <2>1, <3>1, <1>1, <1>2 DEF Create
  <2>2. CASE active' \subseteq active
    BY <2>2, <1>1, <1>2
  <2> QED BY <2>1, <2>2 DEF NextSessions, StepSessions, sessionVars, List, Fetch, FetchRange,
             RangeTooLarge, UpToDate, ReadPrevious, Store, ListForLimit, Deactivate,
             Fails, NewMessage, UserDeletes, SessionsUnchanged
<1>7. sweptTo' \in 0..len
  <2>1. ASSUME NEW r \in Requests, Deactivate(r)
        PROVE  sweptTo' \in 0..len
    <3>1. req[r].listed \in 0..old
      BY <1>2 DEF SessionInv, Refers
    <3>2. sweptTo' \in {sweptTo, req[r].listed}
      BY <2>1, <3>1, <1>2, GreatestOfTwo DEF Deactivate
    <3> QED BY <3>1, <3>2, <1>1, <1>2
  <2>2. CASE sweptTo' = sweptTo
    BY <2>2, <1>1, <1>2
  <2> QED BY <2>1, <2>2 DEF NextSessions, StepSessions, sessionVars, List, Fetch, FetchRange,
             RangeTooLarge, UpToDate, ReadPrevious, Create, Store, ListForLimit,
             Fails, NewMessage, UserDeletes, SessionsUnchanged
<1> QED BY <1>1, <1>4, <1>5, <1>6, <1>7 DEF SessionInv, TypeOKSessions, Sessions

LEMMA SessionInit == InitSessions => SessionInv
<1> SUFFICES ASSUME InitSessions
             PROVE  SessionInv
  OBVIOUS
<1>1. Fresh \in RequestState
  BY DEF Fresh, RequestState, NoSession, SessionPcs, MaxAttempts
<1>2. TypeOKSessions
  BY <1>1 DEF InitSessions, TypeOKSessions, Sessions
<1>3. \A r \in Requests : Refers(req[r], Len(sessions), newest)
  BY SummaryAssumption DEF InitSessions, Refers, Fresh, NoSession, MaxAttempts
<1> QED BY <1>2, <1>3 DEF SessionInv

\* The session records, markers and the requests' states keep their types.
THEOREM SessionsTypeCorrect == SpecSessions => []TypeOKSessions
<1>1. SessionInv => TypeOKSessions
  BY DEF SessionInv
<1>2. SessionInv /\ [NextSessions]_sessionVars => SessionInv'
  BY SessionTypeStep
<1> QED BY <1>1, <1>2, SessionInit, PTL DEF SpecSessions

-----------------------------------------------------------------------------
(* ChainExact.  The messages a request goes on from follow the marker of    *)
(* its previous session without a gap, whatever was created meanwhile.      *)

Follows(messages, marker) ==
    \A m \in messages :
       /\ marker < m
       /\ \A n \in Nat : marker < n /\ n < m => n \in messages

Continues(r) ==
    r \notin CustomRequests /\ ~req[r].clipped =>
       Follows(req[r].messages, MarkerOf(req[r].base))

ChainInv ==
    /\ SessionInv
    /\ \A r \in Requests : Continues(r)
    /\ ChainExact

LEMMA MarkerStays ==
  ASSUME SessionInv, [NextSessions]_sessionVars, NEW s \in 0..Len(sessions)
  PROVE  MarkerOf(s)' = MarkerOf(s)
<1>1. CASE s = NoSession
  BY <1>1 DEF MarkerOf, SessionAt
<1>2. CASE s # NoSession
  <2>1. s \in Sessions
    BY <1>2 DEF Sessions, NoSession, SessionInv, TypeOKSessions
  <2> QED BY <2>1, <1>2, SessionsGrow DEF MarkerOf, SessionAt
<1> QED BY <1>1, <1>2

\* A request without messages, or with those it had, continues.
LEMMA StillContinues ==
  ASSUME SessionInv, [NextSessions]_sessionVars, NEW r \in Requests, Continues(r),
         \/ req'[r].messages = {}
         \/ /\ req'[r].messages = req[r].messages /\ req'[r].base = req[r].base
            /\ req'[r].clipped = req[r].clipped
  PROVE  Continues(r)'
<1>1. CASE req'[r].messages = {}
  BY <1>1 DEF Continues, Follows
<1>2. CASE /\ req'[r].messages = req[r].messages /\ req'[r].base = req[r].base
           /\ req'[r].clipped = req[r].clipped
  <2>1. PICK b \in 0..Len(sessions) : b = req[r].base
    BY DEF SessionInv, Refers
  <2>2. MarkerOf(b)' = MarkerOf(b)
    BY MarkerStays
  <2>3. MarkerOf(req[r].base) = MarkerOf(b) /\ MarkerOf(req[r].base)' = MarkerOf(b)'
    BY <2>1, <1>2 DEF MarkerOf, SessionAt
  <2> QED BY <2>2, <2>3, <1>2 DEF Continues
<1> QED BY <1>1, <1>2

\* What a request fetches continues if nothing is clipped.
LEMMA FetchContinues ==
  ASSUME SessionInv, NEW r \in Requests, Fetch(r)
  PROVE  Continues(r)'
<1>1. req[r] \in RequestState /\ newest \in Nat /\ req[r].base \in 0..Len(sessions)
  BY SummaryAssumption DEF SessionInv, TypeOKSessions, Refers
<1>2. MarkerOf(req[r].base) \in Nat
  BY <1>1, MarkerIsNat DEF SessionInv
<1>3. PICK messages \in SUBSET (MarkerOf(req[r].base) + 1 .. newest) :
         req' = [req EXCEPT ![r].pc = "fetched", ![r].messages = messages,
                            ![r].clipped = \E n \in (MarkerOf(req[r].base) + 1 .. newest) \ messages :
                                              \E m \in messages : n < m]
  BY DEF Fetch
<1> DEFINE cut == \E n \in (MarkerOf(req[r].base) + 1 .. newest) \ messages :
                     \E m \in messages : n < m
<1>4. /\ req'[r].messages = messages /\ req'[r].base = req[r].base
      /\ req'[r].clipped = cut
  <2> HIDE DEF cut
  <2>1. req' = [req EXCEPT ![r].pc = "fetched", ![r].messages = messages, ![r].clipped = cut]
    BY <1>3 DEF cut
  <2> QED BY <2>1, <1>1 DEF SessionInv, TypeOKSessions, RequestState
<1>5. MarkerOf(req[r].base)' = MarkerOf(req[r].base)
  BY <1>4 DEF Fetch, SessionsUnchanged, MarkerOf, SessionAt
<1>6. ~cut => Follows(messages, MarkerOf(req[r].base))
  BY <1>1, <1>2 DEF Follows
<1> QED BY <1>4, <1>5, <1>6 DEF Continues

LEMMA ContinueStep ==
  ASSUME ChainInv, [NextSessions]_sessionVars, NEW o \in Requests
  PROVE  Continues(o)'
<1>1. SessionInv /\ Continues(o) /\ req \in [Requests -> RequestState]
  BY DEF ChainInv, SessionInv, TypeOKSessions
<1>2. CASE req'[o] = req[o]
  BY <1>1, <1>2, StillContinues
<1>3. CASE StepSessions(o)
  <2>1. CASE Fetch(o)
    BY <2>1, <1>1, FetchContinues
  <2>2. CASE FetchRange(o)
    <3>1. o \in CustomRequests
      BY <2>2 DEF FetchRange
    <3> QED BY <3>1 DEF Continues
  <2>3. CASE ReadPrevious(o) \/ Store(o) \/ ListForLimit(o)
    <3>1. /\ req'[o].messages = req[o].messages /\ req'[o].base = req[o].base
          /\ req'[o].clipped = req[o].clipped
      BY <2>3, <1>1 DEF ReadPrevious, Store, ListForLimit, Goto, RequestState
    <3> QED BY <3>1, <1>1, StillContinues
  <2>4. CASE List(o) \/ Create(o)
    <3>1. req'[o].messages = {}
      BY <2>4, <1>1 DEF List, Create, Fresh
    <3> QED BY <3>1, <1>1, StillContinues
  <2>5. CASE RangeTooLarge(o) \/ UpToDate(o) \/ Deactivate(o) \/ Fails(o)
    <3>1. req'[o].messages = {}
      BY <2>5, <1>1 DEF RangeTooLarge, UpToDate, Deactivate, Fails, Throw, Leave, Fresh
    <3> QED BY <3>1, <1>1, StillContinues
  <2> QED BY <1>3, <2>1, <2>2, <2>3, <2>4, <2>5 DEF StepSessions
<1>4. ASSUME NEW r \in Requests, StepSessions(r), r # o
      PROVE  req'[o] = req[o]
  <2>1. PICK q \in RequestState : req' = [req EXCEPT ![r] = q]
    BY <1>1, <1>4, RequestMoves
  <2> QED BY <2>1, <1>1, <1>4
<1>5. CASE UNCHANGED req
  BY <1>5, <1>2
<1> QED BY <1>2, <1>3, <1>4, <1>5 DEF NextSessions, NewMessage, UserDeletes, sessionVars

\* The text a request continues reaches to the marker it starts behind.
LEMMA EarlierReaches ==
  ASSUME ChainInv, NEW r \in Requests, Earlier(r).exact
  PROVE  /\ Earlier(r).start \in Nat /\ Earlier(r).start <= MarkerOf(req[r].base)
         /\ Earlier(r).covers \cup Earlier(r).cut
               = Earlier(r).start + 1 .. MarkerOf(req[r].base)
<1> DEFINE base == req[r].base
<1>1. /\ base \in 0..Len(sessions) /\ TypeOKSessions
      /\ Earlier(r) \in SessionRecord /\ MarkerOf(base) \in Nat
  BY EarlierType, MarkerIsNat DEF ChainInv, SessionInv, Refers
<1>2. CASE req[r].seen /\ base # NoSession
  <2>1. base \in Sessions /\ Earlier(r) = sessions[base] /\ MarkerOf(base) = sessions[base].marker
    BY <1>1, <1>2 DEF Sessions, NoSession, Earlier, SessionAt, MarkerOf
  <2>2. sessions[base].start \in Nat /\ sessions[base].marker \in Nat
    BY <2>1, <1>1 DEF SessionRecord
  <2> QED BY <2>1, <2>2 DEF ChainInv, ChainExact
<1>3. CASE req[r].seen /\ base = NoSession
  <2>1. Earlier(r) = NoText(0) /\ MarkerOf(base) = NoText(0).marker
    BY <1>3 DEF Earlier, SessionAt, MarkerOf
  <2> QED BY <2>1 DEF NoText
<1>4. CASE ~req[r].seen
  <2>1. Earlier(r) = NoText(MarkerOf(base))
    BY <1>4 DEF Earlier
  <2> QED BY <2>1, <1>1 DEF NoText
<1> QED BY <1>2, <1>3, <1>4

LEMMA CreateChains ==
  ASSUME ChainInv, NEW r \in Requests, Create(r)
  PROVE  ChainExact'
<1> DEFINE marker == MarkerOf(req[r].base)
<1> DEFINE start == Earlier(r).start
<1> DEFINE latest == Max(req[r].messages)
<1> DEFINE len == Len(sessions)
<1>1. /\ sessions \in Seq(SessionRecord) /\ len \in Nat /\ newest \in Nat
      /\ Continues(r) /\ ChainExact /\ SessionInv /\ marker \in Nat
  BY MarkerIsNat, SummaryAssumption DEF ChainInv, SessionInv, TypeOKSessions, Refers
<1>2. /\ req[r].messages \in SUBSET (1..newest) /\ latest \in req[r].messages
      /\ \A m \in req[r].messages : m <= latest
  BY <1>1, MessagesAreFinite DEF Create
<1>3. PICK new \in SessionRecord :
         /\ sessions' = Append(sessions, new)
         /\ new.exact => /\ ContinuesText(r)
                         /\ new.marker = latest /\ new.start = start
                         /\ new.covers \cup new.cut
                              = req[r].messages \cup (Earlier(r).covers \cup Earlier(r).cut)
                         /\ new.marker \in new.covers
  BY <1>1, CreateAppends
<1>4. ASSUME new.exact
      PROVE  /\ new.start < new.marker
             /\ new.covers \cup new.cut = new.start + 1 .. new.marker
             /\ new.marker \in new.covers
  <2>1. Follows(req[r].messages, marker)
    BY <1>1, <1>3, <1>4 DEF Continues, ContinuesText
  <2>2. /\ start \in Nat /\ start <= marker
        /\ Earlier(r).covers \cup Earlier(r).cut = start + 1 .. marker
    BY <1>3, <1>4, EarlierReaches DEF ContinuesText
  <2> HIDE DEF start, marker, latest
  <2>3. latest \in Nat /\ marker < latest
    BY <1>1, <1>2, <2>1 DEF Follows
  <2>4. ASSUME NEW n \in start + 1 .. latest
        PROVE  n \in req[r].messages \cup (start + 1 .. marker)
    <3>1. CASE n <= marker
      BY <3>1, <2>2, <2>4, <1>1
    <3>2. CASE n > marker /\ n < latest
      <4>1. n \in Nat
        BY <2>2, <2>4
      <4> QED BY <3>2, <4>1, <2>1, <1>2 DEF Follows
    <3>3. CASE n = latest
      BY <3>3, <1>2
    <3> QED BY <3>1, <3>2, <3>3, <2>2, <2>3, <2>4, <1>1
  <2>5. ASSUME NEW n \in req[r].messages \cup (start + 1 .. marker)
        PROVE  n \in start + 1 .. latest
    <3>1. CASE n \in req[r].messages
      <4>1. n \in Nat /\ marker < n /\ n <= latest
        BY <3>1, <1>2, <1>1, <2>1 DEF Follows
      <4> QED BY <4>1, <2>2, <2>3, <1>1
    <3>2. CASE n \in start + 1 .. marker
      BY <3>2, <2>2, <2>3, <1>1
    <3> QED BY <3>1, <3>2, <2>5
  <2>6. req[r].messages \cup (start + 1 .. marker) = start + 1 .. latest
    BY <2>4, <2>5
  <2>7. start < latest
    BY <2>2, <2>3, <1>1
  <2> QED BY <2>2, <2>6, <2>7, <1>3, <1>4
<1> SUFFICES ASSUME NEW s \in Sessions', sessions'[s].exact
             PROVE  /\ sessions'[s].start < sessions'[s].marker
                    /\ sessions'[s].covers \cup sessions'[s].cut
                          = sessions'[s].start + 1 .. sessions'[s].marker
                    /\ sessions'[s].marker \in sessions'[s].covers
  BY DEF ChainExact
<1>7. s \in 1..(len + 1)
  BY <1>1, <1>3 DEF Sessions
<1>8. CASE s = len + 1
  <2>1. sessions'[s] = new
    BY <1>1, <1>3, <1>8
  <2> QED BY <2>1, <1>4
<1>9. CASE s # len + 1
  <2>1. s \in 1..len /\ sessions'[s] = sessions[s]
    BY <1>1, <1>3, <1>7, <1>9
  <2> QED BY <2>1, <1>1 DEF ChainExact, Sessions
<1> QED BY <1>8, <1>9

LEMMA ChainStep == ChainInv /\ [NextSessions]_sessionVars => ChainInv'
<1> SUFFICES ASSUME ChainInv, [NextSessions]_sessionVars
             PROVE  ChainInv'
  OBVIOUS
<1>1. SessionInv'
  BY SessionTypeStep DEF ChainInv
<1>2. \A r \in Requests : Continues(r)'
  BY ContinueStep
<1>3. ChainExact'
  <2>1. CASE \E r \in Requests : Create(r)
    BY <2>1, CreateChains
  <2>2. CASE ~ \E r \in Requests : Create(r)
    <3>1. sessions' = sessions
      BY <2>2 DEF NextSessions, StepSessions, sessionVars, List, Fetch, FetchRange,
                  RangeTooLarge, UpToDate, ReadPrevious, Store, ListForLimit, Deactivate,
                  Fails, NewMessage, UserDeletes, SessionsUnchanged
    <3> QED BY <3>1 DEF ChainInv, ChainExact, Sessions
  <2> QED BY <2>1, <2>2
<1> QED BY <1>1, <1>2, <1>3 DEF ChainInv

LEMMA ChainInit == InitSessions => ChainInv
<1> SUFFICES ASSUME InitSessions
             PROVE  ChainInv
  OBVIOUS
<1>1. SessionInv
  BY SessionInit
<1>2. \A r \in Requests : Continues(r)
  BY DEF InitSessions, Continues, Follows, Fresh
<1>3. ChainExact
  BY DEF InitSessions, ChainExact, Sessions
<1> QED BY <1>1, <1>2, <1>3 DEF ChainInv

\* Every message between the start of an exact summary's chain and its marker
\* is in its text or was cut off, and nothing else is, for any number of
\* requests, any window and any number of deletions.
THEOREM SummariesChain == SpecSessions => []ChainExact
<1>1. ChainInv => ChainExact
  BY DEF ChainInv
<1> QED BY <1>1, ChainInit, ChainStep, PTL DEF SpecSessions

-----------------------------------------------------------------------------
(* LimitExact.  A request that has listed the active sessions leaves at     *)
(* most MaxActive of them, whatever the others deactivate or create.        *)

UpTo(set, n) == {s \in set : s <= n}

ListsEnough(r) ==
    At(r, "deactivating") =>
       Cardinality(UpTo(active, req[r].listed) \ req[r].victims) <= MaxActive

LimitInv ==
    /\ SessionInv
    /\ \A r \in Requests : ListsEnough(r)
    /\ LimitExact

LEMMA SmallerFits ==
  ASSUME SummaryAssumption, NEW S, IsFiniteSet(S), Cardinality(S) <= MaxActive,
         NEW T \in SUBSET S
  PROVE  Cardinality(T) <= MaxActive
<1>1. IsFiniteSet(T)
  BY FS_Subset
<1>2. Cardinality(T) <= Cardinality(S)
  BY FS_Subset
<1>3. Cardinality(T) \in Nat /\ Cardinality(S) \in Nat
  BY <1>1, FS_CardinalityType
<1> QED BY <1>2, <1>3 DEF SummaryAssumption

LEMMA LargerEnough ==
  ASSUME SummaryAssumption, NEW S, IsFiniteSet(S), NEW T \in SUBSET S,
         Cardinality(T) >= MaxActive
  PROVE  Cardinality(S) >= MaxActive
<1>1. IsFiniteSet(T)
  BY FS_Subset
<1>2. Cardinality(T) <= Cardinality(S)
  BY FS_Subset
<1>3. Cardinality(T) \in Nat /\ Cardinality(S) \in Nat
  BY <1>1, FS_CardinalityType
<1> QED BY <1>2, <1>3 DEF SummaryAssumption

LEMMA ActiveIsFinite ==
  ASSUME SessionInv
  PROVE  active \in SUBSET Nat /\ IsFiniteSet(active) /\ active \subseteq 1..Len(sessions)
<1>1. active \in SUBSET (1..Len(sessions)) /\ Len(sessions) \in Nat
  BY DEF SessionInv, TypeOKSessions, Sessions
<1>2. IsFiniteSet(1..Len(sessions))
  BY <1>1, FS_Interval
<1>3. IsFiniteSet(active)
  BY <1>1, <1>2, FS_Subset
<1> QED BY <1>1, <1>3

\* slice(maxActive) leaves no more than MaxActive.
LEMMA BeyondLimitLeaves ==
  ASSUME NEW S \in SUBSET Nat, IsFiniteSet(S)
  PROVE  Cardinality(S \ BeyondLimit(S)) <= MaxActive
<1> USE SummaryAssumption
<1> DEFINE K == S \ BeyondLimit(S)
<1> DEFINE Above(k) == {t \in S : t > k}
<1>1. K \in SUBSET S
  OBVIOUS
<1>2. IsFiniteSet(K)
  BY <1>1, FS_Subset
<1>3. CASE K = {}
  BY <1>3, FS_EmptySet
<1>4. CASE K # {}
  <2>1. K \in SUBSET Nat
    BY <1>1
  <2>2. PICK k \in K : \A n \in K : n >= k
    <3> HIDE DEF K
    <3> QED BY <1>2, <1>4, <2>1, LeastExists
  <2>3. k \in S /\ ~ (Cardinality(Above(k)) >= MaxActive)
    BY <2>2 DEF BeyondLimit
  <2>4. Above(k) \in SUBSET S
    OBVIOUS
  <2>5. IsFiniteSet(Above(k))
    BY <2>4, FS_Subset
  <2>6. Cardinality(Above(k)) \in Nat
    BY <2>5, FS_CardinalityType
  <2>7. Cardinality(Above(k)) < MaxActive
    BY <2>3, <2>6
  <2>8. K \ {k} \in SUBSET Above(k)
    <3>1. ASSUME NEW n \in K, n # k
          PROVE  n \in S /\ n > k
      BY <3>1, <2>1, <2>2, <1>1
    <3> QED BY <3>1
  <2> HIDE DEF K, Above
  <2>9. IsFiniteSet(K \ {k}) /\ Cardinality(K \ {k}) = Cardinality(K) - 1
    BY <1>2, <2>2, FS_RemoveElement
  <2>10. Cardinality(K \ {k}) <= Cardinality(Above(k))
    BY <2>5, <2>8, FS_Subset
  <2>11. Cardinality(K) \in Nat
    BY <1>2, FS_CardinalityType
  <2>12. Cardinality(K) <= MaxActive
    BY <2>6, <2>7, <2>9, <2>10, <2>11
  <2> QED BY <2>12 DEF K
<1> QED BY <1>3, <1>4

\* Whoever is active later, among the sessions there were, was active before.
LEMMA ActiveUpTo ==
  ASSUME SessionInv, [NextSessions]_sessionVars, NEW n \in 0..Len(sessions)
  PROVE  UpTo(active, n)' \subseteq UpTo(active, n)
<1>1. Len(sessions) \in Nat
  BY DEF SessionInv, TypeOKSessions
<1>2. active' \subseteq active \cup {Len(sessions) + 1}
  BY DEF NextSessions, StepSessions, sessionVars, List, Fetch, FetchRange, RangeTooLarge,
         UpToDate, ReadPrevious, Create, Store, ListForLimit, Deactivate, Fails,
         NewMessage, UserDeletes, SessionsUnchanged
<1> QED BY <1>1, <1>2 DEF UpTo

LEMMA ListsStep ==
  ASSUME LimitInv, [NextSessions]_sessionVars, NEW o \in Requests
  PROVE  ListsEnough(o)'
<1>1. SessionInv /\ ListsEnough(o) /\ req \in [Requests -> RequestState]
  BY DEF LimitInv, SessionInv, TypeOKSessions
<1>2. CASE req'[o] = req[o]
  <2> SUFFICES ASSUME At(o, "deactivating")
               PROVE  Cardinality(UpTo(active, req[o].listed)' \ req'[o].victims) <= MaxActive
    BY <1>2 DEF ListsEnough, At
  <2>1. PICK n \in 0..Len(sessions) : n = req[o].listed
    BY <1>1 DEF SessionInv, Refers
  <2>2. UpTo(active, n)' \subseteq UpTo(active, n)
    BY <1>1, ActiveUpTo
  <2> DEFINE left == UpTo(active, n) \ req[o].victims
  <2> DEFINE leftNext == UpTo(active, n)' \ req[o].victims
  <2>3. leftNext \in SUBSET left
    BY <2>2
  <2>4. left \in SUBSET active
    BY DEF UpTo
  <2>5. IsFiniteSet(active)
    BY <1>1, ActiveIsFinite
  <2>6. Cardinality(left) <= MaxActive
    BY <2>1, <1>1 DEF ListsEnough
  <2>7. IsFiniteSet(left)
    <3> HIDE DEF left
    <3> QED BY <2>4, <2>5, FS_Subset
  <2>8. Cardinality(leftNext) <= MaxActive
    <3> HIDE DEF left, leftNext
    <3> QED BY <2>3, <2>6, <2>7, SmallerFits, SummaryAssumption
  <2>9. UpTo(active, req[o].listed)' = UpTo(active, n)'
    BY <2>1, <1>2 DEF UpTo
  <2> QED BY <2>8, <2>9, <1>2
<1>3. CASE ListForLimit(o)
  <2>1. /\ req'[o].listed = Len(sessions) /\ req'[o].victims = BeyondLimit(active)
        /\ active' = active
    BY <1>3, <1>1 DEF ListForLimit, SessionsUnchanged, RequestState
  <2>2. active \in SUBSET Nat /\ IsFiniteSet(active) /\ active \subseteq 1..Len(sessions)
    BY <1>1, ActiveIsFinite
  <2>3. UpTo(active, req[o].listed)' = active
    <3>1. \A s \in active : s <= Len(sessions)
      BY <2>2, <1>1 DEF SessionInv, TypeOKSessions
    <3>2. UpTo(active, req[o].listed)' = {s \in active : s <= Len(sessions)}
      BY <2>1 DEF UpTo
    <3> QED BY <3>1, <3>2
  <2>4. Cardinality(active \ BeyondLimit(active)) <= MaxActive
    BY <2>2, BeyondLimitLeaves
  <2> QED BY <2>1, <2>3, <2>4 DEF ListsEnough
<1>4. CASE StepSessions(o) /\ ~ListForLimit(o)
  <2>1. CASE List(o) \/ Fetch(o) \/ FetchRange(o) \/ ReadPrevious(o) \/ Create(o) \/ Store(o)
    <3>1. CASE List(o) \/ Create(o)
      BY <1>1, <3>1 DEF List, Create, Fresh, ListsEnough, At
    <3>2. CASE ReadPrevious(o) \/ Store(o)
      BY <1>1, <3>2 DEF ReadPrevious, Store, Goto, RequestState, ListsEnough, At
    <3>3. CASE Fetch(o) \/ FetchRange(o)
      <4>1. CASE Fetch(o)
        <5>1. \E messages, cut : req' = [req EXCEPT ![o].pc = "fetched", ![o].messages = messages,
                                                  ![o].clipped = cut]
          BY <4>1, Zenon DEF Fetch
        <5>2. req'[o].pc = "fetched"
          BY <1>1, <5>1 DEF RequestState
        <5> QED BY <5>2 DEF ListsEnough, At
      <4>2. CASE FetchRange(o)
        <5>1. req'[o].pc = "fetched"
          BY <1>1, <4>2 DEF FetchRange, RequestState
        <5> QED BY <5>1 DEF ListsEnough, At
      <4> QED BY <3>3, <4>1, <4>2
    <3> QED BY <2>1, <3>1, <3>2, <3>3
  <2>2. CASE RangeTooLarge(o) \/ UpToDate(o) \/ Deactivate(o) \/ Fails(o)
    <3>1. req'[o].pc \in {"retry", "over"}
      BY <1>1, <2>2 DEF RangeTooLarge, UpToDate, Deactivate, Fails, Throw, Leave, Fresh
    <3> QED BY <3>1 DEF ListsEnough, At
  <2> QED BY <1>4, <2>1, <2>2 DEF StepSessions
<1>5. ASSUME NEW r \in Requests, StepSessions(r), r # o
      PROVE  req'[o] = req[o]
  <2>1. PICK q \in RequestState : req' = [req EXCEPT ![r] = q]
    BY <1>1, <1>5, RequestMoves
  <2> QED BY <2>1, <1>1, <1>5
<1>6. CASE UNCHANGED req
  BY <1>6, <1>2
<1> QED BY <1>2, <1>3, <1>4, <1>5, <1>6 DEF NextSessions, NewMessage, UserDeletes, sessionVars

LEMMA LimitHoldsStep ==
  ASSUME LimitInv, [NextSessions]_sessionVars
  PROVE  LimitHolds'
<1> USE SummaryAssumption
<1>1. /\ SessionInv /\ LimitHolds
      /\ sweptTo \in 0..Len(sessions) /\ Len(sessions) \in Nat
      /\ req \in [Requests -> RequestState]
  BY DEF LimitInv, LimitExact, SessionInv, TypeOKSessions
<1>2. active \in SUBSET Nat /\ IsFiniteSet(active)
  BY <1>1, ActiveIsFinite
<1>3. CASE sweptTo' = sweptTo
  <2>1. PICK n \in 0..Len(sessions) : n = sweptTo
    BY <1>1
  <2> DEFINE now == UpTo(active, n)
  <2> DEFINE later == UpTo(active, n)'
  <2>2. later \subseteq now
    BY <1>1, ActiveUpTo
  <2>3. now \in SUBSET active
    BY DEF UpTo
  <2>4. Cardinality(now) <= MaxActive
    BY <1>1, <2>1 DEF LimitHolds, UpTo
  <2>5. later = {s \in active' : s <= sweptTo'}
    BY <1>3, <2>1 DEF UpTo
  <2> HIDE DEF now, later
  <2>6. IsFiniteSet(now)
    BY <2>3, <1>2, FS_Subset
  <2>7. Cardinality(later) <= MaxActive
    BY <2>2, <2>4, <2>6, SmallerFits
  <2> QED BY <2>5, <2>7 DEF LimitHolds
<1>4. ASSUME NEW r \in Requests, Deactivate(r), sweptTo' # sweptTo
      PROVE  LimitHolds'
  <2>1. req[r].listed \in 0..Len(sessions)
    BY <1>1 DEF SessionInv, Refers
  <2>2. sweptTo' = req[r].listed
    BY <1>4, <1>1, <2>1, GreatestOfTwo DEF Deactivate
  <2>3. ListsEnough(r) /\ At(r, "deactivating") /\ active' = active \ req[r].victims
    BY <1>4 DEF LimitInv, Deactivate
  <2>4. {s \in active' : s <= sweptTo'} = UpTo(active, req[r].listed) \ req[r].victims
    BY <2>2, <2>3 DEF UpTo
  <2> QED BY <2>3, <2>4 DEF LimitHolds, ListsEnough
<1> QED BY <1>3, <1>4 DEF NextSessions, StepSessions, sessionVars, List, Fetch, FetchRange,
           RangeTooLarge, UpToDate, ReadPrevious, Create, Store, ListForLimit, Fails,
           NewMessage, UserDeletes, SessionsUnchanged

\* What a step puts among the victims was beyond the limit in the list.
LEMMA NewVictims ==
  ASSUME SessionInv, [NextSessions]_sessionVars, NEW o \in Requests, NEW v \in req'[o].victims
  PROVE  v \in req[o].victims \/ v \in BeyondLimit(active)
<1>1. req \in [Requests -> RequestState]
  BY DEF SessionInv, TypeOKSessions
<1>2. ASSUME NEW r \in Requests, StepSessions(r), r # o
      PROVE  req'[o] = req[o]
  <2>1. PICK q \in RequestState : req' = [req EXCEPT ![r] = q]
    BY <1>2, RequestMoves
  <2> QED BY <2>1, <1>1, <1>2
<1>3. CASE StepSessions(o)
  <2>1. CASE Fetch(o)
    <3>1. \E messages, cut : req' = [req EXCEPT ![o].pc = "fetched", ![o].messages = messages,
                                              ![o].clipped = cut]
      BY <2>1, Zenon DEF Fetch
    <3>2. req'[o].victims = req[o].victims
      BY <1>1, <3>1 DEF RequestState
    <3> QED BY <3>2
  <2>2. CASE FetchRange(o) \/ Store(o)
    <3>1. req'[o].victims = req[o].victims
      BY <1>1, <2>2 DEF FetchRange, Store, Goto, RequestState
    <3> QED BY <3>1
  <2>3. CASE ReadPrevious(o)
    <3>1. \E flag : req' = [req EXCEPT ![o].pc = "creating", ![o].seen = flag]
      BY <2>3, Zenon DEF ReadPrevious
    <3>2. req'[o].victims = req[o].victims
      BY <1>1, <3>1 DEF RequestState
    <3> QED BY <3>2
  <2>4. CASE ListForLimit(o)
    <3>1. req'[o].victims = BeyondLimit(active)
      BY <1>1, <2>4 DEF ListForLimit, RequestState
    <3> QED BY <3>1
  <2>5. CASE List(o) \/ Create(o)
    <3>1. req'[o].victims = {}
      BY <1>1, <2>5 DEF List, Create, Fresh
    <3> QED BY <3>1
  <2>6. CASE RangeTooLarge(o) \/ UpToDate(o) \/ Deactivate(o) \/ Fails(o)
    <3>1. req'[o].victims = {}
      BY <1>1, <2>6 DEF RangeTooLarge, UpToDate, Deactivate, Fails, Throw, Leave, Fresh
    <3> QED BY <3>1
  <2> QED BY <1>3, <2>1, <2>2, <2>3, <2>4, <2>5, <2>6 DEF StepSessions
<1>4. CASE UNCHANGED req
  BY <1>4
<1> QED BY <1>2, <1>3, <1>4 DEF NextSessions, NewMessage, UserDeletes, sessionVars

LEMMA SparesStep ==
  ASSUME LimitInv, [NextSessions]_sessionVars
  PROVE  LimitSparesNewest'
<1> USE SummaryAssumption
<1>1. SessionInv /\ LimitSparesNewest
  BY DEF LimitInv, LimitExact
<1>2. Len(sessions) \in Nat /\ Len(sessions') \in Nat /\ Len(sessions) <= Len(sessions')
  BY <1>1, SessionsGrow
<1>3. Sessions \subseteq Sessions' /\ IsFiniteSet(Sessions) /\ IsFiniteSet(Sessions')
  BY <1>2, FS_Interval DEF Sessions
<1> SUFFICES ASSUME NEW o \in Requests, NEW v \in req'[o].victims
             PROVE  Cardinality({s \in Sessions' : s > v}) >= MaxActive
  BY DEF LimitSparesNewest
<1> DEFINE before == {s \in Sessions : s > v}
<1> DEFINE after == {s \in Sessions' : s > v}
<1>4. before \in SUBSET Sessions /\ after \in SUBSET Sessions' /\ before \in SUBSET after
  BY <1>3
<1>5. IsFiniteSet(after)
  <2> HIDE DEF after
  <2> QED BY <1>3, <1>4, FS_Subset
<1>6. CASE v \in req[o].victims
  <2>1. Cardinality(before) >= MaxActive
    BY <1>1, <1>6 DEF LimitSparesNewest
  <2> HIDE DEF before, after
  <2>2. Cardinality(after) >= MaxActive
    BY <2>1, <1>5, <1>4, LargerEnough
  <2> QED BY <2>2 DEF after
<1>7. CASE v \in BeyondLimit(active)
  <2> DEFINE newer == {t \in active : t > v}
  <2>1. Cardinality(newer) >= MaxActive
    BY <1>7 DEF BeyondLimit
  <2>2. active \subseteq Sessions
    BY <1>1 DEF SessionInv, TypeOKSessions
  <2>3. newer \in SUBSET after
    BY <2>2, <1>3
  <2> HIDE DEF newer, after
  <2>4. Cardinality(after) >= MaxActive
    BY <2>1, <2>3, <1>5, LargerEnough
  <2> QED BY <2>4 DEF after
<1> QED BY <1>1, <1>6, <1>7, NewVictims

LEMMA LimitInit == InitSessions => LimitInv
<1> SUFFICES ASSUME InitSessions
             PROVE  LimitInv
  OBVIOUS
<1>1. SessionInv
  BY SessionInit
<1>2. \A r \in Requests : ListsEnough(r)
  BY DEF InitSessions, ListsEnough, At, Fresh
<1>3. Cardinality({s \in active : s <= sweptTo}) = 0
  <2>1. {s \in active : s <= sweptTo} = {}
    BY DEF InitSessions
  <2> QED BY <2>1, FS_EmptySet
<1>4. LimitHolds
  BY <1>3, SummaryAssumption DEF LimitHolds
<1>5. LimitSparesNewest
  BY DEF InitSessions, LimitSparesNewest, Fresh
<1> QED BY <1>1, <1>2, <1>4, <1>5 DEF LimitInv, LimitExact

\* A request that has completed leaves at most MaxActive of the sessions it
\* listed, and the limit never takes one of the MaxActive newest, however
\* many requests list and deactivate in each other's way.
THEOREM LimitIsExact == SpecSessions => []LimitExact
<1>1. LimitInv /\ [NextSessions]_sessionVars => LimitInv'
  <2> SUFFICES ASSUME LimitInv, [NextSessions]_sessionVars
               PROVE  LimitInv'
    OBVIOUS
  <2>1. SessionInv'
    BY SessionTypeStep DEF LimitInv
  <2>2. \A r \in Requests : ListsEnough(r)'
    BY ListsStep
  <2>3. LimitExact'
    BY LimitHoldsStep, SparesStep DEF LimitExact
  <2> QED BY <2>1, <2>2, <2>3 DEF LimitInv
<1>2. LimitInv => LimitExact
  BY DEF LimitInv
<1> QED BY <1>1, <1>2, LimitInit, PTL DEF SpecSessions
=============================================================================
