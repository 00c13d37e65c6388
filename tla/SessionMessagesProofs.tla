------------------------ MODULE SessionMessagesProofs ------------------------
(* Proofs about SessionMessages, for any exchanges, any cache size, and any  *)
(* number of faults.                                                         *)
EXTENDS SessionMessages, SequenceTheorems, TLAPS

HasAnswer(list, e) ==
    \E i \in 1..Len(list) : list[i].of = e /\ list[i].role = "assistant"

\* A list that may be cached: ordered, and without an answer of an exchange
\* that is still to add its question.
Sound(list, asking) ==
    /\ list \in Seq(Message)
    /\ Ordered(list)
    /\ \A e \in asking : ~HasAnswer(list, e)

Asking == {e \in Exchanges : role[e] = "user"}

OrderInv ==
    /\ TypeOK
    /\ Sound(rows, Asking)
    /\ cached # NotCached => Sound(cached, Asking)
    /\ \A e \in Exchanges : Sound(local[e], Asking)

-----------------------------------------------------------------------------
\* Recent() returns a suffix of the list.
LEMMA RecentIsSuffix ==
  ASSUME NEW list \in Seq(Message)
  PROVE  /\ Recent(list) \in Seq(Message)
         /\ Len(list) > 0 => Len(Recent(list)) > 0
         /\ \E d \in Nat :
               /\ Len(Recent(list)) = Len(list) - d
               /\ \A i \in 1..Len(Recent(list)) :
                     i + d \in 1..Len(list) /\ Recent(list)[i] = list[i + d]
<1> USE SessionMessagesAssumption
<1>1. CASE Len(list) <= CacheMax
  <2>1. Recent(list) = list
    BY <1>1 DEF Recent
  <2>2. /\ Len(Recent(list)) = Len(list) - 0
        /\ \A i \in 1..Len(Recent(list)) :
              i + 0 \in 1..Len(list) /\ Recent(list)[i] = list[i + 0]
    BY <2>1
  <2> QED BY <2>1, <2>2, 0 \in Nat
<1>2. CASE Len(list) > CacheMax
  <2> DEFINE d == Len(list) - CacheMax
  <2>1. d \in Nat /\ Len(list) \in Nat
    BY <1>2
  <2>2. Recent(list) = SubSeq(list, d + 1, Len(list))
    BY <1>2 DEF Recent
  <2>3. /\ Recent(list) \in Seq(Message)
        /\ Len(Recent(list)) = CacheMax
        /\ \A i \in 1..CacheMax : Recent(list)[i] = list[d + 1 + i - 1]
    BY <2>1, <2>2, SubSeqProperties
  <2>4. /\ Len(Recent(list)) = Len(list) - d
        /\ \A i \in 1..Len(Recent(list)) :
              i + d \in 1..Len(list) /\ Recent(list)[i] = list[i + d]
    BY <2>1, <2>3
  <2>5. Len(Recent(list)) > 0
    BY <2>3
  <2> HIDE DEF d
  <2> QED BY <2>1, <2>3, <2>4, <2>5
<1> QED BY <1>1, <1>2

LEMMA RecentIsSound ==
  ASSUME NEW list, NEW asking, Sound(list, asking)
  PROVE  Sound(Recent(list), asking)
<1>1. list \in Seq(Message) /\ Len(list) \in Nat
  BY DEF Sound
<1>2. PICK d \in Nat :
         /\ Len(Recent(list)) = Len(list) - d
         /\ \A i \in 1..Len(Recent(list)) :
               i + d \in 1..Len(list) /\ Recent(list)[i] = list[i + d]
  BY <1>1, RecentIsSuffix
<1>3. Recent(list) \in Seq(Message)
  BY <1>1, RecentIsSuffix
<1>4. Ordered(Recent(list))
  <2> SUFFICES ASSUME NEW i \in 1..Len(Recent(list)), NEW j \in 1..Len(Recent(list)),
                      Recent(list)[i].of = Recent(list)[j].of,
                      Recent(list)[i].role = "assistant", Recent(list)[j].role = "user"
               PROVE  j < i
    BY DEF Ordered
  <2>1. j + d < i + d
    BY <1>2 DEF Sound, Ordered
  <2> QED BY <1>2, <1>3, <2>1
<1>5. \A e \in asking : ~HasAnswer(Recent(list), e)
  BY <1>2 DEF Sound, HasAnswer
<1> QED BY <1>3, <1>4, <1>5 DEF Sound

\* Appending the message an exchange adds next keeps a list sound.
LEMMA AppendIsSound ==
  ASSUME TypeOK, NEW list, Sound(list, Asking), NEW e \in Exchanges
  PROVE  Sound(Append(list, [of |-> e, role |-> role[e]]), Asking)
<1> DEFINE m == [of |-> e, role |-> role[e]]
           longer == Append(list, m)
<1>1. m \in Message /\ list \in Seq(Message) /\ Len(list) \in Nat
  BY DEF TypeOK, Message, Sound
<1>2. /\ longer \in Seq(Message)
      /\ Len(longer) = Len(list) + 1
      /\ \A i \in 1..Len(list) : longer[i] = list[i]
      /\ longer[Len(list) + 1] = m
  BY <1>1, AppendProperties
<1> HIDE DEF longer
<1>3. Ordered(longer)
  <2> SUFFICES ASSUME NEW i \in 1..Len(longer), NEW j \in 1..Len(longer),
                      longer[i].of = longer[j].of,
                      longer[i].role = "assistant", longer[j].role = "user"
               PROVE  j < i
    BY DEF Ordered
  <2>1. CASE i = Len(list) + 1
    <3>1. j # i
      OBVIOUS
    <3> QED BY <1>1, <1>2, <2>1, <3>1
  <2>2. CASE i # Len(list) + 1 /\ j = Len(list) + 1
    <3>1. i \in 1..Len(list) /\ list[i].of = e /\ list[i].role = "assistant"
      BY <1>1, <1>2, <2>2
    <3>2. role[e] = "user"
      BY <1>2, <2>2
    <3> QED BY <3>1, <3>2 DEF Sound, HasAnswer, Asking
  <2>3. CASE i # Len(list) + 1 /\ j # Len(list) + 1
    <3>1. i \in 1..Len(list) /\ j \in 1..Len(list)
      BY <1>1, <1>2, <2>3
    <3> QED BY <1>2, <3>1 DEF Sound, Ordered
  <2> QED BY <2>1, <2>2, <2>3
<1>4. \A f \in Asking : ~HasAnswer(longer, f)
  <2> SUFFICES ASSUME NEW f \in Asking,
                      NEW i \in 1..Len(longer),
                      longer[i].of = f, longer[i].role = "assistant"
               PROVE  FALSE
    BY DEF HasAnswer
  <2>1. i # Len(list) + 1
    BY <1>2 DEF Asking
  <2>2. i \in 1..Len(list)
    BY <1>1, <1>2, <2>1
  <2> QED BY <1>2, <2>2 DEF Sound, HasAnswer
<1>5. Sound(longer, Asking)
  BY <1>2, <1>3, <1>4 DEF Sound
<1> QED BY <1>5 DEF longer

LEMMA EmptyIsSound ==
  ASSUME NEW asking
  PROVE  Sound(<<>>, asking)
  BY DEF Sound, Ordered, HasAnswer

LEMMA FewerAsking ==
  ASSUME NEW list, NEW asking, Sound(list, asking), NEW fewer \in SUBSET asking
  PROVE  Sound(list, fewer)
  BY DEF Sound

-----------------------------------------------------------------------------
LEMMA OrderInit == Init => OrderInv
<1> SUFFICES ASSUME Init
             PROVE  OrderInv
  OBVIOUS
<1>1. <<>> \in Seq(Message)
  OBVIOUS
<1>2. TypeOK
  BY <1>1 DEF Init, TypeOK, Pcs, Roles
<1>3. \A list : list = <<>> => Sound(list, Asking)
  BY EmptyIsSound
<1>4. rows = <<>> /\ cached = NotCached /\ \A e \in Exchanges : local[e] = <<>>
  BY DEF Init
<1> QED BY <1>2, <1>3, <1>4 DEF OrderInv

\* A step that writes only lists that are sound already.
LEMMA SoundStep ==
  ASSUME OrderInv,
         pc' \in [Exchanges -> Pcs], role' \in [Exchanges -> Roles],
         faults' \in Nat, disturbed' \in BOOLEAN,
         overlapped' \subseteq Exchanges, unlisted' \subseteq Exchanges,
         Asking' \subseteq Asking,
         rows' = rows \/ Sound(rows', Asking),
         cached' \in {cached, NotCached} \/ Sound(cached', Asking),
         local' = local \/ local' = [e \in Exchanges |-> <<>>]
           \/ \E e \in Exchanges : \E list :
                 Sound(list, Asking) /\ local' = [local EXCEPT ![e] = list]
  PROVE  OrderInv'
<1> USE DEF OrderInv
<1>1. Sound(rows', Asking) /\ (cached' # NotCached => Sound(cached', Asking))
  OBVIOUS
<1>2. /\ local' \in [Exchanges -> Seq(Message)]
      /\ \A e \in Exchanges : Sound(local'[e], Asking)
  <2>1. CASE local' = local
    BY <2>1 DEF TypeOK
  <2>2. CASE local' = [e \in Exchanges |-> <<>>]
    BY <2>2, EmptyIsSound
  <2>3. ASSUME NEW e \in Exchanges, NEW list, Sound(list, Asking),
               local' = [local EXCEPT ![e] = list]
        PROVE  /\ local' \in [Exchanges -> Seq(Message)]
               /\ \A f \in Exchanges : Sound(local'[f], Asking)
    <3>1. list \in Seq(Message)
      BY <2>3 DEF Sound
    <3> QED BY <2>3, <3>1 DEF TypeOK
  <2> QED BY <2>1, <2>2, <2>3
<1>3. rows' \in Seq(Message) /\ cached' \in Seq(Message) \cup {NotCached}
  BY <1>1 DEF Sound
<1>4. TypeOK'
  BY <1>2, <1>3 DEF TypeOK
<1>5. /\ Sound(rows', Asking')
      /\ cached' # NotCached => Sound(cached', Asking')
      /\ \A e \in Exchanges : Sound(local'[e], Asking')
  BY <1>1, <1>2, FewerAsking
<1> QED BY <1>4, <1>5

\* No step turns an exchange back to its question.
LEMMA RolesStep ==
  ASSUME TypeOK, NEW e \in Exchanges,
         \/ UNCHANGED role /\ \E to \in Pcs : pc' = [pc EXCEPT ![e] = to]
         \/ AfterAdding(e)
  PROVE  /\ pc' \in [Exchanges -> Pcs] /\ role' \in [Exchanges -> Roles]
         /\ Asking' \subseteq Asking
  BY DEF TypeOK, AfterAdding, Pcs, Roles, Asking

LEMMA HistoryStep ==
  ASSUME TypeOK, [Next]_vars
  PROVE  /\ faults' \in Nat /\ disturbed' \in BOOLEAN
         /\ overlapped' \subseteq Exchanges /\ unlisted' \subseteq Exchanges
<1>1. /\ faults \in Nat /\ disturbed \in BOOLEAN
      /\ overlapped \subseteq Exchanges /\ unlisted \subseteq Exchanges
  BY DEF TypeOK
<1>2. ASSUME NEW e \in Exchanges, Step(e)
      PROVE  /\ faults' \in Nat /\ disturbed' \in BOOLEAN
             /\ overlapped' \subseteq Exchanges /\ unlisted' \subseteq Exchanges
  <2>1. CASE CreateRow(e) \/ CreateRowLost(e)
    <3>1. Overlap(e) /\ UNCHANGED unlisted
      BY <2>1 DEF CreateRow, CreateRowLost
    <3>2. overlapped' \subseteq Exchanges
      BY <1>1, <3>1 DEF Overlap
    <3>3. faults' \in Nat
      <4>1. faults' = faults \/ faults' = faults + 1
        BY <2>1 DEF CreateRow, CreateRowLost
      <4> QED
        BY <1>1, <4>1
    <3>4. disturbed' \in BOOLEAN
      BY <2>1 DEF CreateRow, CreateRowLost, Disturb
    <3> QED
      BY <1>1, <3>1, <3>2, <3>3, <3>4
  <2>2. CASE NothingToAppendTo(e) \/ MergeLost(e)
    BY <1>1, <2>2 DEF NothingToAppendTo, MergeLost, NotListed, Disturb
  <2>3. CASE ~(CreateRow(e) \/ CreateRowLost(e) \/ NothingToAppendTo(e) \/ MergeLost(e))
    BY <1>1, <1>2, <2>3
    DEF Step, ReadHit, ReadMiss, Load, Refill, RefillLost, ReadForAppend, Merge, Stop, Disturb
  <2> QED
    BY <2>1, <2>2, <2>3
<1>3. CASE DropKey \/ Crash \/ UNCHANGED vars
  <2>1. UNCHANGED <<overlapped, unlisted>>
    BY <1>3 DEF DropKey, Crash, vars
  <2>2. faults' = faults \/ faults' = faults + 1
    BY <1>3 DEF DropKey, Crash, vars
  <2>3. disturbed' \in BOOLEAN
    BY <1>1, <1>3 DEF DropKey, Crash, Disturb, vars
  <2> QED
    BY <1>1, <2>1, <2>2, <2>3
<1> QED
  BY <1>2, <1>3 DEF Next

LEMMA OrderStep == OrderInv /\ [Next]_vars => OrderInv'
<1> SUFFICES ASSUME OrderInv, [Next]_vars
             PROVE  OrderInv'
  OBVIOUS
<1>1. TypeOK
  BY DEF OrderInv
<1>2. /\ faults' \in Nat /\ disturbed' \in BOOLEAN
      /\ overlapped' \subseteq Exchanges /\ unlisted' \subseteq Exchanges
  BY <1>1, HistoryStep
<1>3. ASSUME NEW e \in Exchanges
      PROVE  /\ Sound(local[e], Asking)
             /\ Sound(<<>>, Asking)
             /\ Sound(Recent(rows), Asking)
             /\ Sound(Append(rows, [of |-> e, role |-> role[e]]), Asking)
             /\ Sound(Recent(Append(local[e], [of |-> e, role |-> role[e]])), Asking)
  BY <1>1, EmptyIsSound, RecentIsSound, AppendIsSound DEF OrderInv
<1>4. ASSUME NEW e \in Exchanges,
             ReadHit(e) \/ ReadMiss(e) \/ Stop(e) \/ NothingToAppendTo(e)
      PROVE  OrderInv'
  <2>1. /\ pc' \in [Exchanges -> Pcs] /\ role' \in [Exchanges -> Roles]
        /\ Asking' \subseteq Asking
    BY <1>1, <1>4, RolesStep
    DEF ReadHit, ReadMiss, Stop, NothingToAppendTo, Goto, Pcs
  <2>2. UNCHANGED <<local, rows, cached>>
    BY <1>4 DEF ReadHit, ReadMiss, Stop, NothingToAppendTo
  <2> QED BY <1>2, <2>1, <2>2, SoundStep
<1>5. ASSUME NEW e \in Exchanges, Load(e) \/ ReadForAppend(e)
      PROVE  OrderInv'
  <2>1. /\ pc' \in [Exchanges -> Pcs] /\ role' \in [Exchanges -> Roles]
        /\ Asking' \subseteq Asking
    BY <1>1, <1>5, RolesStep DEF Load, ReadForAppend, Goto, Pcs
  <2>2. \E list : Sound(list, Asking) /\ local' = [local EXCEPT ![e] = list]
    BY <1>3, <1>5 DEF Load, ReadForAppend, OrderInv
  <2>3. UNCHANGED <<rows, cached>>
    BY <1>5 DEF Load, ReadForAppend
  <2> QED BY <1>2, <2>1, <2>2, <2>3, SoundStep
<1>6. ASSUME NEW e \in Exchanges,
             Refill(e) \/ RefillLost(e) \/ Merge(e) \/ MergeLost(e)
      PROVE  OrderInv'
  <2>1. /\ pc' \in [Exchanges -> Pcs] /\ role' \in [Exchanges -> Roles]
        /\ Asking' \subseteq Asking
    BY <1>1, <1>6, RolesStep DEF Refill, RefillLost, Merge, MergeLost, Goto, Pcs
  <2>2. \E list : Sound(list, Asking) /\ local' = [local EXCEPT ![e] = list]
    BY <1>3, <1>6 DEF Refill, RefillLost, Merge, MergeLost, Forget
  <2>3. cached' = cached \/ Sound(cached', Asking)
    BY <1>3, <1>6 DEF Refill, RefillLost, Merge, MergeLost
  <2>4. UNCHANGED rows
    BY <1>6 DEF Refill, RefillLost, Merge, MergeLost
  <2> QED BY <1>2, <2>1, <2>2, <2>3, <2>4, SoundStep
<1>7. ASSUME NEW e \in Exchanges, CreateRow(e) \/ CreateRowLost(e)
      PROVE  OrderInv'
  <2>0. UNCHANGED role /\ (UNCHANGED pc \/ \E to \in Pcs : pc' = [pc EXCEPT ![e] = to])
    BY <1>7 DEF CreateRow, CreateRowLost, Goto, Pcs
  <2>1. /\ pc' \in [Exchanges -> Pcs] /\ role' \in [Exchanges -> Roles]
        /\ Asking' \subseteq Asking
    BY <1>1, <2>0 DEF TypeOK, Asking
  <2>2. Sound(rows', Asking)
    BY <1>3, <1>7 DEF CreateRow, CreateRowLost
  <2>3. UNCHANGED <<local, cached>>
    BY <1>7 DEF CreateRow, CreateRowLost
  <2> QED BY <1>2, <2>1, <2>2, <2>3, SoundStep
<1>8. CASE DropKey
  <2>1. /\ UNCHANGED <<pc, role, local, rows>> /\ cached' = NotCached
        /\ Asking' = Asking
    BY <1>8 DEF DropKey, Asking
  <2> QED BY <1>1, <1>2, <2>1, SoundStep DEF TypeOK
<1>9. CASE Crash
  <2>1. /\ UNCHANGED <<role, rows, cached>>
        /\ local' = [e \in Exchanges |-> <<>>]
        /\ pc' \in [Exchanges -> Pcs] /\ Asking' = Asking
    BY <1>9 DEF Crash, Pcs, Asking
  <2> QED BY <1>1, <1>2, <2>1, SoundStep DEF TypeOK
<1>10. CASE UNCHANGED vars
  <2>1. UNCHANGED <<pc, role, local, rows, cached>> /\ Asking' = Asking
    BY <1>10 DEF vars, Asking
  <2> QED BY <1>1, <1>2, <2>1, SoundStep DEF TypeOK
<1> QED BY <1>4, <1>5, <1>6, <1>7, <1>8, <1>9, <1>10 DEF Next, Step

\* Type correctness.
THEOREM TypeCorrect == Spec => []TypeOK
<1>1. OrderInv => TypeOK
  BY DEF OrderInv
<1> QED BY <1>1, OrderInit, OrderStep, PTL DEF Spec

\* No list of getSessionMessages() or addSessionMessage() ever has an answer
\* before its question.
THEOREM AnswersFollowQuestions == Spec => []AnswerAfterQuestion
<1>1. OrderInv => AnswerAfterQuestion
  BY DEF OrderInv, AnswerAfterQuestion, Sound
<1> QED BY <1>1, OrderInit, OrderStep, PTL DEF Spec

-----------------------------------------------------------------------------
(* The cached list and the rows.                                           *)

NextMessage(e) == [of |-> e, role |-> role[e]]

\* The row of e is there and its message not yet in the cached list.
OwesMessage(e, prev) ==
    /\ prev \in Seq(Message)
    /\ rows = Append(prev, NextMessage(e))
    /\ cached \in {NotCached, Recent(prev)}
    /\ pc[e] = "merging" => local[e] = Recent(prev)

\* An undisturbed writer is alone; without one, the cached list and the one
\* that will fill the cache are those of the rows.
ExactInv ==
    ~disturbed =>
        /\ \A e \in Exchanges : Writing(e) =>
              /\ \A f \in Exchanges \ {e} : ~Writing(f) /\ ~Filling(f)
              /\ \E prev : OwesMessage(e, prev)
        /\ (\A e \in Exchanges : ~Writing(e)) =>
              /\ cached \in {NotCached, Recent(rows)}
              /\ \A e \in Exchanges : pc[e] = "refilling" => local[e] = Recent(rows)

\* The last messages of a list follow from its last messages and what is added.
LEMMA RecentOfAppend ==
  ASSUME NEW list \in Seq(Message), NEW m \in Message
  PROVE  Recent(Append(Recent(list), m)) = Recent(Append(list, m))
<1> USE SessionMessagesAssumption
<1>1. CASE Len(list) <= CacheMax
  BY <1>1 DEF Recent
<1>2. CASE Len(list) > CacheMax
  <2> DEFINE n == Len(list)
             short == Recent(list)
             a == Append(short, m)
             b == Append(list, m)
  <2>1. n \in Nat /\ CacheMax \in Nat /\ n - CacheMax \in Nat
    BY <1>2
  <2>2. short = SubSeq(list, n - CacheMax + 1, n)
    BY <1>2 DEF Recent
  <2>3. /\ short \in Seq(Message) /\ Len(short) = CacheMax
        /\ \A i \in 1..CacheMax : short[i] = list[n - CacheMax + i]
    <3>1. /\ short \in Seq(Message)
          /\ Len(short) = IF n - CacheMax + 1 <= n THEN n - (n - CacheMax + 1) + 1 ELSE 0
          /\ \A i \in 1..(n - (n - CacheMax + 1) + 1) :
                short[i] = list[n - CacheMax + 1 + i - 1]
      BY <2>1, <2>2, SubSeqProperties
    <3> HIDE DEF short, n
    <3> QED
      BY <2>1, <3>1
  <2> HIDE DEF short
  <2>4. /\ a \in Seq(Message) /\ Len(a) = CacheMax + 1
        /\ \A i \in 1..CacheMax : a[i] = short[i]
        /\ a[CacheMax + 1] = m
    BY <2>3, AppendProperties
  <2>5. /\ b \in Seq(Message) /\ Len(b) = n + 1
        /\ \A i \in 1..n : b[i] = list[i]
        /\ b[n + 1] = m
    BY AppendProperties
  <2> HIDE DEF a, b, n
  <2>6. \A i \in 1..(CacheMax + 1) : a[i] = b[n - CacheMax + i]
    <3> SUFFICES ASSUME NEW i \in 1..(CacheMax + 1)
                 PROVE  a[i] = b[n - CacheMax + i]
      OBVIOUS
    <3>1. CASE i \in 1..CacheMax
      <4>1. n - CacheMax + i \in 1..n
        BY <2>1, <3>1
      <4> QED
        BY <2>3, <2>4, <2>5, <3>1, <4>1
    <3>2. CASE i = CacheMax + 1
      <4>1. n - CacheMax + i = n + 1
        BY <2>1, <3>2
      <4> QED
        BY <2>4, <2>5, <3>2, <4>1
    <3> QED
      BY <2>1, <3>1, <3>2
  <2>7. /\ Recent(a) \in Seq(Message) /\ Len(Recent(a)) = CacheMax
        /\ \A i \in 1..CacheMax : Recent(a)[i] = a[i + 1]
    <3>1. Recent(a) = SubSeq(a, 2, CacheMax + 1)
      BY <2>1, <2>4 DEF Recent
    <3>2. /\ Recent(a) \in Seq(Message)
          /\ Len(Recent(a)) = IF 2 <= CacheMax + 1 THEN CacheMax + 1 - 2 + 1 ELSE 0
          /\ \A i \in 1..(CacheMax + 1 - 2 + 1) : Recent(a)[i] = a[2 + i - 1]
      BY <2>1, <2>4, <3>1, SubSeqProperties
    <3> QED
      BY <2>1, <3>2
  <2>8. /\ Recent(b) \in Seq(Message) /\ Len(Recent(b)) = CacheMax
        /\ \A i \in 1..CacheMax : Recent(b)[i] = b[n - CacheMax + (i + 1)]
    <3> DEFINE k == n + 1 - CacheMax + 1
    <3>1. Recent(b) = SubSeq(b, k, n + 1) /\ k \in Int /\ k >= 1 /\ k <= n + 1
      BY <1>2, <2>1, <2>5 DEF Recent, n
    <3>2. /\ Recent(b) \in Seq(Message)
          /\ Len(Recent(b)) = IF k <= n + 1 THEN n + 1 - k + 1 ELSE 0
          /\ \A i \in 1..(n + 1 - k + 1) : Recent(b)[i] = b[k + i - 1]
      <4> HIDE DEF k
      <4> QED
        BY <2>1, <2>5, <3>1, SubSeqProperties
    <3>3. n + 1 - k + 1 = CacheMax /\ \A i \in Nat : k + i - 1 = n - CacheMax + (i + 1)
      BY <2>1
    <3> HIDE DEF k
    <3> QED
      BY <2>1, <3>1, <3>2, <3>3
  <2>9. \A i \in 1..CacheMax : Recent(a)[i] = Recent(b)[i]
    <3> SUFFICES ASSUME NEW i \in 1..CacheMax PROVE Recent(a)[i] = Recent(b)[i]
      OBVIOUS
    <3>1. i + 1 \in 1..(CacheMax + 1)
      BY <2>1
    <3> QED
      BY <2>6, <2>7, <2>8, <3>1
  <2> QED
    BY <2>7, <2>8, <2>9, SeqEqual DEF a, b, short
<1> QED
  BY <1>1, <1>2

\* A step that only leads an exchange elsewhere, neither to a row nor to a list.
LEMMA ElsewhereKeepsExact ==
  ASSUME TypeOK, ExactInv, NEW e \in Exchanges, NEW to \in Pcs,
         pc' = [pc EXCEPT ![e] = to], ~Writing(e),
         to \notin {"appending", "merging", "refilling"},
         to = "loading" /\ ~disturbed' => \A f \in Exchanges : ~Writing(f),
         disturbed => disturbed',
         UNCHANGED <<role, rows, cached>>,
         \A f \in Exchanges \ {e} : local'[f] = local[f]
  PROVE  ExactInv'
<1> SUFFICES ASSUME ~disturbed'
             PROVE  /\ \A f \in Exchanges : Writing(f)' =>
                          /\ \A g \in Exchanges \ {f} : ~Writing(g)' /\ ~Filling(g)'
                          /\ \E prev : OwesMessage(f, prev)'
                    /\ (\A f \in Exchanges : ~Writing(f)') =>
                          /\ cached' \in {NotCached, Recent(rows')}
                          /\ \A f \in Exchanges : pc'[f] = "refilling" => local'[f] = Recent(rows')
  BY DEF ExactInv, Recent
<1>1. /\ ~disturbed /\ pc'[e] = to
      /\ \A f \in Exchanges \ {e} : pc'[f] = pc[f] /\ local'[f] = local[f]
      /\ Recent(rows') = Recent(rows)
  BY DEF TypeOK
<1>2. \A f \in Exchanges : Writing(f)' <=> Writing(f)
  BY <1>1 DEF Writing
<1>3. ASSUME NEW f \in Exchanges, Writing(f)
      PROVE  /\ \A g \in Exchanges \ {f} : ~Writing(g)' /\ ~Filling(g)'
             /\ \E prev : OwesMessage(f, prev)'
  <2>1. f # e /\ to # "loading"
    BY <1>3
  <2>2. \A g \in Exchanges \ {f} : ~Writing(g)' /\ ~Filling(g)'
    BY <1>1, <1>2, <1>3, <2>1 DEF ExactInv, Filling
  <2>3. PICK prev : OwesMessage(f, prev)
    BY <1>1, <1>3 DEF ExactInv
  <2>4. OwesMessage(f, prev)'
    BY <1>1, <2>1, <2>3 DEF OwesMessage, NextMessage, Recent
  <2> QED
    BY <2>2, <2>4
<1>4. ASSUME \A f \in Exchanges : ~Writing(f)
      PROVE  /\ cached' \in {NotCached, Recent(rows')}
             /\ \A f \in Exchanges : pc'[f] = "refilling" => local'[f] = Recent(rows')
  BY <1>1, <1>4 DEF ExactInv
<1> QED
  BY <1>2, <1>3, <1>4

\* The lone writer has done with the cache.
LEMMA WrittenIsExact ==
  ASSUME TypeOK, ExactInv, NEW e \in Exchanges, Writing(e), AfterAdding(e),
         UNCHANGED rows, ~disturbed' => cached' \in {NotCached, Recent(rows)},
         disturbed => disturbed'
  PROVE  ExactInv'
<1> SUFFICES ASSUME ~disturbed'
             PROVE  /\ \A f \in Exchanges : ~Writing(f)' /\ pc'[f] # "refilling"
                    /\ cached' \in {NotCached, Recent(rows')}
  BY DEF ExactInv, Recent
<1>1. \A f \in Exchanges \ {e} : ~Writing(f) /\ ~Filling(f) /\ pc'[f] = pc[f]
  BY DEF ExactInv, AfterAdding, TypeOK
<1>2. pc'[e] \in {"asking", "ended"}
  BY DEF AfterAdding, TypeOK
<1> QED
  BY <1>1, <1>2 DEF Writing, Filling

LEMMA ExactStep ==
  ASSUME TypeOK, ExactInv, [Next]_vars
  PROVE  ExactInv'
<1>1. /\ pc \in [Exchanges -> Pcs] /\ role \in [Exchanges -> Roles]
      /\ local \in [Exchanges -> Seq(Message)] /\ rows \in Seq(Message)
  BY DEF TypeOK
<1>2. ASSUME NEW e \in Exchanges,
             ReadHit(e) \/ ReadMiss(e) \/ RefillLost(e) \/ Stop(e)
      PROVE  ExactInv'
  <2>0. \E to \in {"asking", "loading", "ended"} :
            /\ pc' = [pc EXCEPT ![e] = to] /\ ~Writing(e)
            /\ to = "loading" /\ ~disturbed' => \A f \in Exchanges : ~Writing(f)
    BY <1>2 DEF ReadHit, ReadMiss, RefillLost, Stop, Goto, Disturb, Writing
  <2>1. PICK to \in {"asking", "loading", "ended"} :
            /\ pc' = [pc EXCEPT ![e] = to] /\ ~Writing(e)
            /\ to = "loading" /\ ~disturbed' => \A f \in Exchanges : ~Writing(f)
    BY <2>0
  <2>2. /\ UNCHANGED <<role, rows, cached>>
        /\ \A f \in Exchanges \ {e} : local'[f] = local[f]
    BY <1>1, <1>2 DEF ReadHit, ReadMiss, RefillLost, Stop, Forget
  <2>4. disturbed => disturbed'
    BY <1>2 DEF ReadHit, ReadMiss, RefillLost, Stop, Disturb
  <2>3. to \in Pcs /\ to \notin {"appending", "merging", "refilling"}
    BY DEF Pcs
  <2> QED
    BY <2>1, <2>2, <2>3, <2>4, ElsewhereKeepsExact
<1>3. ASSUME NEW e \in Exchanges, Load(e)
      PROVE  ExactInv'
  <2>1. /\ pc[e] = "loading" /\ pc' = [pc EXCEPT ![e] = "refilling"]
        /\ local' = [local EXCEPT ![e] = Recent(rows)]
        /\ UNCHANGED <<role, rows, cached, disturbed>>
    BY <1>3 DEF Load, Goto
  <2> SUFFICES ASSUME ~disturbed
               PROVE  /\ \A f \in Exchanges : ~Writing(f)'
                      /\ cached' \in {NotCached, Recent(rows)'}
                      /\ \A f \in Exchanges : pc'[f] = "refilling" => local'[f] = Recent(rows)'
    BY <2>1 DEF ExactInv
  <2>2. \A f \in Exchanges : ~Writing(f)
    BY <2>1 DEF ExactInv, Filling, Writing
  <2>3. \A f \in Exchanges : ~Writing(f)'
    BY <1>1, <2>1, <2>2 DEF Writing
  <2>4. Recent(rows)' = Recent(rows)
    BY <2>1 DEF Recent
  <2>5. /\ cached \in {NotCached, Recent(rows)}
        /\ \A f \in Exchanges : pc[f] = "refilling" => local[f] = Recent(rows)
    BY <2>2 DEF ExactInv
  <2>6. \A f \in Exchanges : pc'[f] = "refilling" => local'[f] = Recent(rows)
    BY <1>1, <2>1, <2>5
  <2> QED
    BY <2>1, <2>3, <2>4, <2>5, <2>6
<1>4. ASSUME NEW e \in Exchanges, Refill(e)
      PROVE  ExactInv'
  <2>1. /\ pc[e] = "refilling" /\ pc' = [pc EXCEPT ![e] = "asking"]
        /\ cached' = local[e] /\ \A f \in Exchanges \ {e} : local'[f] = local[f]
        /\ UNCHANGED <<role, rows, disturbed>>
    BY <1>1, <1>4 DEF Refill, Goto, Forget
  <2> SUFFICES ASSUME ~disturbed
               PROVE  /\ \A f \in Exchanges : ~Writing(f)'
                      /\ cached' \in {NotCached, Recent(rows)'}
                      /\ \A f \in Exchanges : pc'[f] = "refilling" => local'[f] = Recent(rows)'
    BY <2>1 DEF ExactInv
  <2>2. \A f \in Exchanges : ~Writing(f)
    BY <2>1 DEF ExactInv, Filling, Writing
  <2>3. \A f \in Exchanges : ~Writing(f)'
    BY <1>1, <2>1, <2>2 DEF Writing
  <2>4. Recent(rows)' = Recent(rows)
    BY <2>1 DEF Recent
  <2>5. \A f \in Exchanges : pc[f] = "refilling" => local[f] = Recent(rows)
    BY <2>2 DEF ExactInv
  <2>6. \A f \in Exchanges : pc'[f] = "refilling" => local'[f] = Recent(rows)
    BY <1>1, <2>1, <2>5
  <2> QED
    BY <2>1, <2>3, <2>4, <2>5, <2>6
<1>5. ASSUME NEW e \in Exchanges, CreateRow(e)
      PROVE  ExactInv'
  <2>1. /\ pc[e] = "asking" /\ pc' = [pc EXCEPT ![e] = "appending"]
        /\ rows' = Append(rows, NextMessage(e))
        /\ UNCHANGED <<role, cached>>
        /\ disturbed' = (disturbed \/ \E f \in Exchanges \ {e} : Writing(f) \/ Filling(f))
    BY <1>5 DEF CreateRow, Goto, Disturb, NextMessage
  <2> SUFFICES ASSUME ~disturbed'
               PROVE  /\ \A f \in Exchanges \ {e} : ~Writing(f)' /\ ~Filling(f)'
                      /\ Writing(e)'
                      /\ \E prev : OwesMessage(e, prev)'
    BY DEF ExactInv
  <2>2. ~disturbed /\ \A f \in Exchanges \ {e} : ~Writing(f) /\ ~Filling(f)
    BY <2>1
  <2>3. \A f \in Exchanges : ~Writing(f)
    BY <2>1, <2>2 DEF Writing
  <2>4. cached \in {NotCached, Recent(rows)}
    BY <2>2, <2>3 DEF ExactInv
  <2>5. /\ pc'[e] = "appending" /\ NextMessage(e)' = NextMessage(e)
        /\ \A f \in Exchanges \ {e} : pc'[f] = pc[f]
    BY <1>1, <2>1 DEF NextMessage
  <2>6. PICK prev : prev = rows
    OBVIOUS
  <2>7. OwesMessage(e, prev)'
    BY <1>1, <2>1, <2>4, <2>5, <2>6 DEF OwesMessage, Recent
  <2> QED
    BY <2>2, <2>5, <2>7 DEF Writing, Filling
<1>12. ASSUME NEW e \in Exchanges, CreateRowLost(e)
       PROVE  ExactInv'
  <2>1. /\ pc[e] = "asking" /\ UNCHANGED cached
        /\ pc' = pc \/ pc' = [pc EXCEPT ![e] = "ended"]
        /\ disturbed' = \/ disturbed
                         \/ cached # NotCached \/ \E f \in Exchanges \ {e} : Writing(f) \/ Filling(f)
    BY <1>12 DEF CreateRowLost, Disturb
  <2> SUFFICES ASSUME ~disturbed'
               PROVE  /\ \A f \in Exchanges : ~Writing(f)' /\ pc'[f] # "refilling"
                      /\ cached' = NotCached
    BY DEF ExactInv
  <2>2. cached = NotCached /\ \A f \in Exchanges \ {e} : ~Writing(f) /\ ~Filling(f)
    BY <2>1
  <2> QED
    BY <1>1, <2>1, <2>2 DEF Writing, Filling
<1>6. ASSUME NEW e \in Exchanges, ReadForAppend(e)
      PROVE  ExactInv'
  <2>1. /\ pc[e] = "appending" /\ pc' = [pc EXCEPT ![e] = "merging"] /\ cached # NotCached
        /\ local' = [local EXCEPT ![e] = cached]
        /\ UNCHANGED <<role, rows, cached, disturbed>>
    BY <1>6 DEF ReadForAppend, Goto
  <2> SUFFICES ASSUME ~disturbed
               PROVE  /\ \A f \in Exchanges \ {e} : ~Writing(f)' /\ ~Filling(f)'
                      /\ Writing(e)'
                      /\ \E prev : OwesMessage(e, prev)'
    BY <2>1 DEF ExactInv
  <2>2. /\ \A f \in Exchanges \ {e} : ~Writing(f) /\ ~Filling(f)
        /\ \E prev : OwesMessage(e, prev)
    BY <2>1 DEF ExactInv, Writing
  <2>3. PICK prev : OwesMessage(e, prev)
    BY <2>2
  <2>4. /\ pc'[e] = "merging" /\ local'[e] = cached /\ NextMessage(e)' = NextMessage(e)
        /\ \A f \in Exchanges \ {e} : pc'[f] = pc[f]
    BY <1>1, <2>1 DEF NextMessage
  <2>5. OwesMessage(e, prev)'
    BY <2>1, <2>3, <2>4 DEF OwesMessage, Recent
  <2> QED
    BY <2>2, <2>4, <2>5 DEF Writing, Filling
<1>7. ASSUME NEW e \in Exchanges, NothingToAppendTo(e) \/ MergeLost(e)
      PROVE  ExactInv'
  <2>1. /\ Writing(e) /\ AfterAdding(e) /\ UNCHANGED <<rows, cached>>
        /\ disturbed' = (disturbed \/ cached # NotCached)
    BY <1>7 DEF NothingToAppendTo, MergeLost, NotListed, Disturb, Writing
  <2> QED
    BY <2>1, WrittenIsExact
<1>8. ASSUME NEW e \in Exchanges, Merge(e)
      PROVE  ExactInv'
  <2>1. /\ pc[e] = "merging" /\ AfterAdding(e) /\ UNCHANGED <<rows, disturbed>>
        /\ cached' = Recent(Append(local[e], NextMessage(e)))
    BY <1>8 DEF Merge, NextMessage
  <2>2. Writing(e)
    BY <2>1 DEF Writing
  <2>3. ASSUME ~disturbed
        PROVE  cached' = Recent(rows)
    <3>1. PICK prev : OwesMessage(e, prev)
      BY <2>2, <2>3 DEF ExactInv
    <3>2. NextMessage(e) \in Message
      BY <1>1 DEF NextMessage, Message
    <3>3. Recent(Append(Recent(prev), NextMessage(e))) = Recent(Append(prev, NextMessage(e)))
      BY <3>1, <3>2, RecentOfAppend DEF OwesMessage
    <3> QED
      BY <2>1, <3>1, <3>3 DEF OwesMessage
  <2> QED
    BY <2>1, <2>2, <2>3, WrittenIsExact
<1>9. CASE DropKey
  <2>1. /\ cached' = NotCached /\ UNCHANGED <<pc, role, local, rows>>
        /\ disturbed' = (disturbed /\ ~Quiet)
    BY <1>9 DEF DropKey
  <2>2. CASE disturbed /\ Quiet
    BY <2>1, <2>2 DEF ExactInv, Quiet, Writing, Filling
  <2>3. CASE ~disturbed
    <3>1. \A prev : \A e \in Exchanges : OwesMessage(e, prev) => OwesMessage(e, prev)'
      BY <2>1 DEF OwesMessage, NextMessage, Recent
    <3> QED
      BY <2>1, <2>3, <3>1 DEF ExactInv, Writing, Filling, Recent
  <2>4. CASE disturbed /\ ~Quiet
    BY <2>1, <2>4 DEF ExactInv
  <2> QED
    BY <2>2, <2>3, <2>4
<1>10. CASE Crash
  <2>1. /\ \A e \in Exchanges : pc'[e] \in {"idle", "ended"}
        /\ UNCHANGED <<rows, cached>>
        /\ disturbed' = (disturbed \/ (cached # NotCached /\ \E e \in Exchanges : Writing(e)))
    BY <1>10 DEF Crash, Disturb
  <2> SUFFICES ASSUME ~disturbed'
               PROVE  cached' \in {NotCached, Recent(rows)'}
    BY <2>1 DEF ExactInv, Writing
  <2> QED
    BY <2>1 DEF ExactInv, Recent
<1>11. CASE UNCHANGED vars
  <2>1. \A prev : \A e \in Exchanges : OwesMessage(e, prev) => OwesMessage(e, prev)'
    BY <1>11 DEF vars, OwesMessage, NextMessage, Recent
  <2> QED
    BY <1>11, <2>1 DEF vars, ExactInv, Writing, Filling, Recent
<1> QED
  BY <1>2, <1>3, <1>4, <1>5, <1>6, <1>7, <1>8, <1>9, <1>10, <1>11,
     <1>12 DEF Next, Step

\* Once nobody is between a GET and a SET, an undisturbed cached list is the
\* last rows of the session in their order.
THEOREM CachedListIsExact == Spec => []CacheExact
<1>1. ASSUME Init PROVE ExactInv
  BY <1>1 DEF Init, ExactInv, Writing
<1>2. TypeOK /\ ExactInv /\ [Next]_vars => ExactInv'
  BY ExactStep
<1>3. ASSUME ExactInv PROVE CacheExact
  BY <1>3 DEF ExactInv, CacheExact, Quiet
<1> QED
  BY <1>1, <1>2, <1>3, TypeCorrect, PTL DEF Spec
-----------------------------------------------------------------------------
(* The pairs of the history.                                               *)

\* The question of e has been stored, and e is not over.
Asked(e) == Writing(e) \/ (pc[e] = "asking" /\ role[e] = "assistant")

\* The last message of a list is one of e.
EndsWith(list, e) == Len(list) > 0 /\ list[Len(list)].of = e

\* An answer that follows a question directly is its own, or excused.
Paired(list, excused) ==
    \A j \in 2..Len(list) :
        list[j].role = "assistant" /\ list[j - 1].role = "user"
        => list[j - 1].of = list[j].of \/ list[j].of \in excused

Excused == overlapped \cup unlisted

ListsPaired ==
    /\ Paired(rows, Excused)
    /\ cached # NotCached => Paired(cached, Excused)
    /\ \A e \in Exchanges : Paired(local[e], Excused)

\* An exchange that nobody overlaps with has the last word in the rows, in the
\* list that will fill the cache, and once its question is listed in the cached
\* list and in the one it will write.
HasLastWord(e) ==
    /\ \A f \in Exchanges \ {e} : ~Asked(f) /\ (pc[f] = "refilling" => EndsWith(local[f], e))
    /\ EndsWith(rows, e)
    /\ role[e] = "assistant" /\ e \notin unlisted =>
          /\ cached # NotCached => EndsWith(cached, e)
          /\ pc[e] = "merging" => EndsWith(local[e], e)

\* Whoever reads has its question still to ask.
ReadsFirst ==
    \A e \in Exchanges : pc[e] \in {"idle", "loading", "refilling"} => role[e] = "user"

PairInv ==
    /\ ListsPaired
    /\ ReadsFirst
    /\ \A e \in Exchanges : Asked(e) /\ e \notin overlapped => HasLastWord(e)

\* An answer that is added to a list that ends with its exchange is paired.
LEMMA AppendIsPaired ==
  ASSUME NEW list \in Seq(Message), NEW excused, Paired(list, excused),
         NEW m \in Message,
         m.role = "assistant" /\ m.of \notin excused => EndsWith(list, m.of)
  PROVE  /\ Append(list, m) \in Seq(Message)
         /\ Paired(Append(list, m), excused)
         /\ EndsWith(Append(list, m), m.of)
<1> DEFINE longer == Append(list, m)
<1>1. /\ longer \in Seq(Message)
      /\ Len(list) \in Nat /\ Len(longer) = Len(list) + 1
      /\ \A i \in 1..Len(list) : longer[i] = list[i]
      /\ longer[Len(list) + 1] = m
  BY AppendProperties
<1> HIDE DEF longer
<1>2. ASSUME NEW j \in 2..Len(longer),
             longer[j].role = "assistant", longer[j - 1].role = "user"
      PROVE  longer[j - 1].of = longer[j].of \/ longer[j].of \in excused
  <2>1. j - 1 \in 1..Len(list) /\ longer[j - 1] = list[j - 1]
    BY <1>1
  <2>2. CASE j = Len(list) + 1
    BY <1>1, <1>2, <2>1, <2>2 DEF EndsWith
  <2>3. CASE j # Len(list) + 1
    <3>1. j \in 2..Len(list) /\ longer[j] = list[j]
      BY <1>1, <2>3
    <3> QED
      BY <1>2, <2>1, <3>1 DEF Paired
  <2> QED
    BY <2>2, <2>3
<1>3. Paired(longer, excused) /\ EndsWith(longer, m.of)
  BY <1>1, <1>2 DEF Paired, EndsWith
<1> QED
  BY <1>1, <1>3 DEF longer

LEMMA RecentIsPaired ==
  ASSUME NEW list \in Seq(Message), NEW excused, NEW e
  PROVE  /\ Paired(list, excused) => Paired(Recent(list), excused)
         /\ EndsWith(list, e) => EndsWith(Recent(list), e)
<1>1. Len(list) \in Nat /\ (Len(list) > 0 => Len(Recent(list)) > 0)
  BY RecentIsSuffix
<1>2. PICK d \in Nat :
         /\ Len(Recent(list)) = Len(list) - d
         /\ \A i \in 1..Len(Recent(list)) :
               i + d \in 1..Len(list) /\ Recent(list)[i] = list[i + d]
  BY RecentIsSuffix
<1>3. ASSUME Paired(list, excused)
      PROVE  Paired(Recent(list), excused)
  <2>1. ASSUME NEW j \in 2..Len(Recent(list)),
               Recent(list)[j].role = "assistant", Recent(list)[j - 1].role = "user"
        PROVE  Recent(list)[j - 1].of = Recent(list)[j].of \/ Recent(list)[j].of \in excused
    <3>1. /\ Recent(list)[j] = list[j + d]
          /\ Recent(list)[j - 1] = list[j + d - 1]
          /\ j + d \in 2..Len(list)
      <4>1. j - 1 \in 1..Len(Recent(list)) /\ j \in 1..Len(Recent(list))
        BY <1>1, <1>2
      <4>2. j - 1 + d = j + d - 1
        BY <1>2
      <4> QED
        BY <1>1, <1>2, <4>1, <4>2
    <3> QED
      BY <1>3, <2>1, <3>1 DEF Paired
  <2> QED
    BY <2>1 DEF Paired
<1>4. ASSUME EndsWith(list, e)
      PROVE  EndsWith(Recent(list), e)
  <2>1. Len(list) > 0 /\ list[Len(list)].of = e
    BY <1>4 DEF EndsWith
  <2>2. Len(Recent(list)) \in 1..Len(Recent(list)) /\ Len(Recent(list)) + d = Len(list)
    BY <1>1, <1>2, <2>1
  <2>3. Recent(list)[Len(Recent(list))] = list[Len(list)]
    BY <1>2, <2>2
  <2> QED
    BY <1>1, <2>1, <2>3 DEF EndsWith
<1> QED
  BY <1>3, <1>4

LEMMA ExcusedStay ==
  ASSUME [Next]_vars
  PROVE  overlapped \subseteq overlapped' /\ unlisted \subseteq unlisted'
<1>1. ASSUME NEW e \in Exchanges, Step(e)
      PROVE  overlapped \subseteq overlapped' /\ unlisted \subseteq unlisted'
  <2>1. CASE CreateRow(e) \/ CreateRowLost(e)
    <3>1. Overlap(e) /\ UNCHANGED unlisted
      BY <2>1 DEF CreateRow, CreateRowLost
    <3> QED
      BY <3>1 DEF Overlap
  <2>2. CASE NothingToAppendTo(e) \/ MergeLost(e)
    BY <2>2 DEF NothingToAppendTo, MergeLost, NotListed
  <2>3. CASE ~(CreateRow(e) \/ CreateRowLost(e) \/ NothingToAppendTo(e) \/ MergeLost(e))
    BY <1>1, <2>3
    DEF Step, ReadHit, ReadMiss, Load, Refill, RefillLost, ReadForAppend, Merge, Stop
  <2> QED
    BY <2>1, <2>2, <2>3
<1>2. CASE DropKey \/ Crash \/ UNCHANGED vars
  BY <1>2 DEF DropKey, Crash, vars
<1> QED
  BY <1>1, <1>2 DEF Next

\* A step that writes only lists that are paired already.
LEMMA PairedStep ==
  ASSUME TypeOK, ListsPaired, [Next]_vars,
         rows' = rows \/ Paired(rows', Excused),
         cached' \in {cached, NotCached} \/ Paired(cached', Excused),
         \A e \in Exchanges : local'[e] = local[e] \/ Paired(local'[e], Excused)
  PROVE  ListsPaired'
<1>1. /\ Paired(rows', Excused)
      /\ cached' # NotCached => Paired(cached', Excused)
      /\ \A e \in Exchanges : Paired(local'[e], Excused)
  BY DEF ListsPaired
<1>2. Excused \subseteq Excused'
  BY ExcusedStay DEF Excused
<1>3. \A list : Paired(list, Excused) => Paired(list, Excused')
  BY <1>2 DEF Paired
<1>4. (ListsPaired)' <=> /\ Paired(rows', Excused')
                         /\ cached' # NotCached => Paired(cached', Excused')
                         /\ \A e \in Exchanges : Paired(local'[e], Excused')
  BY DEF ListsPaired, Paired, Excused
<1> QED
  BY <1>1, <1>3, <1>4

LEMMA ListsStayPaired ==
  ASSUME TypeOK, PairInv, [Next]_vars
  PROVE  ListsPaired'
<1>1. /\ local \in [Exchanges -> Seq(Message)] /\ rows \in Seq(Message)
      /\ role \in [Exchanges -> Roles]
  BY DEF TypeOK
<1>2. /\ Paired(rows, Excused)
      /\ cached # NotCached => Paired(cached, Excused)
      /\ \A e \in Exchanges : Paired(local[e], Excused)
      /\ ListsPaired
  BY DEF PairInv, ListsPaired
<1>3. Paired(<<>>, Excused) /\ Paired(Recent(rows), Excused)
  <2>1. Paired(<<>>, Excused)
    <3>1. \A j \in 2..Len(<<>>) : FALSE
      OBVIOUS
    <3> QED
      BY <3>1 DEF Paired
  <2>2. Paired(Recent(rows), Excused)
    BY <1>1, <1>2, RecentIsPaired
  <2> QED
    BY <2>1, <2>2
<1>4. ASSUME NEW e \in Exchanges, Asked(e), e \notin overlapped
      PROVE  HasLastWord(e)
  BY <1>4 DEF PairInv
<1>5. \A e \in Exchanges : NextMessage(e) \in Message
                           /\ NextMessage(e).of = e /\ NextMessage(e).role = role[e]
  BY <1>1 DEF NextMessage, Message
<1>6. ASSUME NEW e \in Exchanges,
             \/ ReadHit(e) \/ ReadMiss(e) \/ Stop(e) \/ NothingToAppendTo(e)
      PROVE  ListsPaired'
  <2>1. UNCHANGED <<local, rows, cached>>
    BY <1>6 DEF ReadHit, ReadMiss, Stop, NothingToAppendTo
  <2> QED
    BY <1>2, <2>1, PairedStep
<1>7. ASSUME NEW e \in Exchanges, Load(e) \/ ReadForAppend(e)
      PROVE  ListsPaired'
  <2>1. UNCHANGED <<rows, cached>>
    BY <1>7 DEF Load, ReadForAppend
  <2>2. \E list : Paired(list, Excused) /\ local' = [local EXCEPT ![e] = list]
    BY <1>2, <1>3, <1>7 DEF Load, ReadForAppend
  <2>3. \A f \in Exchanges : local'[f] = local[f] \/ Paired(local'[f], Excused)
    BY <1>1, <2>2
  <2> QED
    BY <1>2, <2>1, <2>3, PairedStep
<1>8. ASSUME NEW e \in Exchanges, Refill(e) \/ RefillLost(e) \/ MergeLost(e)
      PROVE  ListsPaired'
  <2>1. UNCHANGED rows /\ local' = [local EXCEPT ![e] = <<>>]
    BY <1>8 DEF Refill, RefillLost, MergeLost, Forget
  <2>2. cached' = cached \/ cached' = local[e]
    BY <1>8 DEF Refill, RefillLost, MergeLost
  <2>3. \A f \in Exchanges : local'[f] = local[f] \/ Paired(local'[f], Excused)
    BY <1>1, <1>3, <2>1
  <2> QED
    BY <1>2, <2>1, <2>2, <2>3, PairedStep
<1>9. ASSUME NEW e \in Exchanges, Merge(e)
      PROVE  ListsPaired'
  <2>1. /\ pc[e] = "merging" /\ UNCHANGED rows /\ local' = [local EXCEPT ![e] = <<>>]
        /\ cached' = Recent(Append(local[e], NextMessage(e)))
    BY <1>9 DEF Merge, Forget, NextMessage
  <2>2. role[e] = "assistant" /\ e \notin Excused => EndsWith(local[e], e)
    BY <1>4, <2>1 DEF Asked, Writing, HasLastWord, Excused
  <2>3. /\ Append(local[e], NextMessage(e)) \in Seq(Message)
        /\ Paired(Append(local[e], NextMessage(e)), Excused)
    <3>1. NextMessage(e) \in Message
          /\ NextMessage(e).of = e /\ NextMessage(e).role = role[e]
      BY <1>5
    <3>2. /\ NextMessage(e).role = "assistant" /\ NextMessage(e).of \notin Excused
             => EndsWith(local[e], NextMessage(e).of)
          /\ local[e] \in Seq(Message) /\ Paired(local[e], Excused)
      BY <1>1, <1>2, <2>2, <3>1
    <3> QED
      BY <3>1, <3>2, AppendIsPaired
  <2>4. Paired(cached', Excused)
    BY <2>1, <2>3, RecentIsPaired
  <2>5. \A f \in Exchanges : local'[f] = local[f] \/ Paired(local'[f], Excused)
    BY <1>1, <1>3, <2>1
  <2> QED
    BY <1>2, <2>1, <2>4, <2>5, PairedStep
<1>10. ASSUME NEW e \in Exchanges, CreateRow(e) \/ CreateRowLost(e)
       PROVE  ListsPaired'
  <2>1. /\ pc[e] = "asking" /\ UNCHANGED <<local, cached>>
        /\ rows' = Append(rows, NextMessage(e))
    BY <1>10 DEF CreateRow, CreateRowLost, Goto, NextMessage
  <2>2. role[e] = "assistant" /\ e \notin Excused => EndsWith(rows, e)
    BY <1>4, <2>1 DEF Asked, HasLastWord, Excused
  <2>3. Paired(Append(rows, NextMessage(e)), Excused)
    <3>1. NextMessage(e) \in Message
          /\ NextMessage(e).of = e /\ NextMessage(e).role = role[e]
      BY <1>5
    <3>2. NextMessage(e).role = "assistant" /\ NextMessage(e).of \notin Excused
          => EndsWith(rows, NextMessage(e).of)
      BY <2>2, <3>1
    <3> QED
      BY <1>1, <1>2, <3>1, <3>2, AppendIsPaired
  <2> QED
    BY <1>2, <2>1, <2>3, PairedStep
<1>11. CASE DropKey \/ Crash \/ UNCHANGED vars
  <2>1. /\ rows' = rows /\ cached' \in {cached, NotCached}
        /\ local' = local \/ local' = [e \in Exchanges |-> <<>>]
    BY <1>11 DEF DropKey, Crash, vars
  <2>2. \A f \in Exchanges : local'[f] = local[f] \/ Paired(local'[f], Excused)
    BY <1>3, <2>1
  <2> QED
    BY <1>2, <2>1, <2>2, PairedStep
<1> QED
  BY <1>6, <1>7, <1>8, <1>9, <1>10, <1>11 DEF Next, Step

LEMMA ReadsFirstStep ==
  ASSUME TypeOK, ReadsFirst, [Next]_vars
  PROVE  ReadsFirst'
<1>1. /\ pc \in [Exchanges -> Pcs] /\ role \in [Exchanges -> Roles]
  BY DEF TypeOK
<1>2. ASSUME NEW e \in Exchanges, Step(e), NEW f \in Exchanges,
             pc'[f] \in {"idle", "loading", "refilling"}
      PROVE  role'[f] = "user"
  <2>1. CASE f # e
    <3>1. pc'[f] = pc[f] /\ role'[f] = role[f]
      BY <1>1, <1>2, <2>1
      DEF Step, ReadHit, ReadMiss, Load, Refill, RefillLost, CreateRow, CreateRowLost,
          ReadForAppend, NothingToAppendTo, Merge, MergeLost, Stop, Goto, AfterAdding
    <3> QED
      BY <1>2, <3>1 DEF ReadsFirst
  <2>2. CASE f = e
    <3>1. pc[e] \in {"idle", "loading"} /\ role' = role
      BY <1>1, <1>2, <2>2
      DEF Step, ReadHit, ReadMiss, Load, Refill, RefillLost, CreateRow, CreateRowLost,
          ReadForAppend, NothingToAppendTo, Merge, MergeLost, Stop, Goto, AfterAdding
    <3> QED
      BY <2>2, <3>1 DEF ReadsFirst
  <2> QED
    BY <2>1, <2>2
<1>3. CASE DropKey \/ UNCHANGED vars
  BY <1>3 DEF DropKey, vars, ReadsFirst
<1>4. CASE Crash
  BY <1>4 DEF Crash, ReadsFirst
<1>5. CASE \E e \in Exchanges : Step(e)
  <2>1. \A f \in Exchanges : pc'[f] \in {"idle", "loading", "refilling"} => role'[f] = "user"
    BY <1>2, <1>5
  <2> QED
    BY <2>1 DEF ReadsFirst
<1> QED
  BY <1>3, <1>4, <1>5 DEF Next

\* Whom e overlaps with when it asks.
LEMMA AsksAlone ==
  ASSUME TypeOK, NEW e \in Exchanges, role[e] = "user", Overlap(e), pc[e] = "asking",
         NEW f \in Exchanges \ {e}, pc[f] \notin {"idle", "ended"}
  PROVE  e \in overlapped' /\ f \in overlapped'
  BY DEF Overlap

\* A step of another exchange leaves e the last word.
LEMMA OthersLeaveLastWord ==
  ASSUME TypeOK, PairInv, NEW e \in Exchanges, NEW f \in Exchanges \ {e}, Step(f),
         Asked(e), e \notin overlapped', HasLastWord(e), unlisted \subseteq unlisted'
  PROVE  HasLastWord(e)'
<1>1. /\ pc \in [Exchanges -> Pcs] /\ role \in [Exchanges -> Roles]
      /\ local \in [Exchanges -> Seq(Message)] /\ rows \in Seq(Message)
  BY DEF TypeOK
<1>2. /\ pc[e] \in {"appending", "merging", "asking"} /\ ~Asked(f)
      /\ EndsWith(rows, e)
      /\ pc[f] = "refilling" => EndsWith(local[f], e)
      /\ \A g \in Exchanges \ {e} : ~Asked(g) /\ (pc[g] = "refilling" => EndsWith(local[g], e))
      /\ role[e] = "assistant" /\ e \notin unlisted =>
            /\ cached # NotCached => EndsWith(cached, e)
            /\ pc[e] = "merging" => EndsWith(local[e], e)
  BY DEF Asked, Writing, HasLastWord
<1>3. pc[f] \notin {"appending", "merging"} /\ (pc[f] = "asking" => role[f] = "user")
  BY <1>1, <1>2 DEF Asked, Writing, Roles
<1>4. ~CreateRow(f) /\ ~CreateRowLost(f)
  <2>1. ASSUME CreateRow(f) \/ CreateRowLost(f)
        PROVE  FALSE
    <3>1. pc[f] = "asking" /\ role[f] = "user" /\ Overlap(f)
      BY <1>3, <2>1 DEF CreateRow, CreateRowLost, Goto
    <3>2. e \in overlapped'
      BY <1>2, <3>1, AsksAlone
    <3> QED
      BY <3>2
  <2> QED
    BY <2>1
<1>5. ReadHit(f) \/ ReadMiss(f) \/ Load(f) \/ Refill(f) \/ RefillLost(f) \/ Stop(f)
  BY <1>3, <1>4 DEF Step, ReadForAppend, NothingToAppendTo, Merge, MergeLost, Goto
<1>6. /\ UNCHANGED <<role, rows>>
      /\ cached' = cached \/ (pc[f] = "refilling" /\ cached' = local[f])
      /\ \E to \in {"asking", "loading", "refilling", "ended"} :
            /\ pc' = [pc EXCEPT ![f] = to]
            /\ to = "asking" => pc[f] \in {"idle", "refilling"}
            /\ to = "refilling" => local' = [local EXCEPT ![f] = Recent(rows)]
      /\ \A g \in Exchanges \ {f} : local'[g] = local[g]
  BY <1>1, <1>5 DEF ReadHit, ReadMiss, Load, Refill, RefillLost, Stop, Goto, Forget
<1>7. PICK to \in {"asking", "loading", "refilling", "ended"} :
            /\ pc' = [pc EXCEPT ![f] = to]
            /\ to = "asking" => pc[f] \in {"idle", "refilling"}
            /\ to = "refilling" => local' = [local EXCEPT ![f] = Recent(rows)]
  BY <1>6
<1>8. EndsWith(Recent(rows), e)
  BY <1>1, <1>2, RecentIsPaired
<1>9. ~Asked(f)' /\ (pc'[f] = "refilling" => EndsWith(local'[f], e))
  <2>1. pc'[f] = to /\ role'[f] = role[f]
    BY <1>1, <1>6, <1>7
  <2>2. to = "asking" => role[f] = "user"
    BY <1>7 DEF PairInv, ReadsFirst
  <2>3. to = "refilling" => local'[f] = Recent(rows)
    BY <1>1, <1>7
  <2> QED
    BY <1>8, <2>1, <2>2, <2>3 DEF Asked, Writing
<1>10. \A g \in Exchanges \ {f} : pc'[g] = pc[g] /\ role'[g] = role[g] /\ local'[g] = local[g]
  BY <1>1, <1>6, <1>7
<1>11. \A g \in Exchanges \ {e} : ~Asked(g)' /\ (pc'[g] = "refilling" => EndsWith(local'[g], e))
  BY <1>2, <1>9, <1>10 DEF Asked, Writing
<1>12. EndsWith(rows', e)
  BY <1>2, <1>6
<1>13. role'[e] = "assistant" /\ e \notin unlisted' =>
            /\ cached' # NotCached => EndsWith(cached', e)
            /\ pc'[e] = "merging" => EndsWith(local'[e], e)
  BY <1>2, <1>6, <1>10
<1> QED
  BY <1>11, <1>12, <1>13 DEF HasLastWord, EndsWith

\* After a step of its own e has the last word if it has asked.
LEMMA OwnStepGivesLastWord ==
  ASSUME TypeOK, PairInv, NEW e \in Exchanges, Step(e), Asked(e)', e \notin overlapped',
         overlapped \subseteq overlapped', unlisted \subseteq unlisted'
  PROVE  HasLastWord(e)'
<1>1. /\ pc \in [Exchanges -> Pcs] /\ role \in [Exchanges -> Roles]
      /\ local \in [Exchanges -> Seq(Message)] /\ rows \in Seq(Message)
      /\ NextMessage(e) \in Message /\ NextMessage(e).of = e
  BY DEF TypeOK, NextMessage, Message
<1>2. /\ Asked(e) => HasLastWord(e)
      /\ pc[e] \in {"idle", "loading", "refilling"} => role[e] = "user"
  BY DEF PairInv, ReadsFirst
<1>3. \A g \in Exchanges \ {e} : pc'[g] = pc[g] /\ role'[g] = role[g] /\ local'[g] = local[g]
  BY <1>1
  DEF Step, ReadHit, ReadMiss, Load, Refill, RefillLost, CreateRow, CreateRowLost,
      ReadForAppend, NothingToAppendTo, Merge, MergeLost, Stop, Goto, AfterAdding, Forget
<1>4. CASE Asked(e)
  <2>1. /\ \A g \in Exchanges \ {e} : ~Asked(g) /\ (pc[g] = "refilling" => EndsWith(local[g], e))
        /\ EndsWith(rows, e)
        /\ role[e] = "assistant" /\ e \notin unlisted =>
              /\ cached # NotCached => EndsWith(cached, e)
              /\ pc[e] = "merging" => EndsWith(local[e], e)
    BY <1>2, <1>4 DEF HasLastWord
  <2>2. \A g \in Exchanges \ {e} : ~Asked(g)' /\ (pc'[g] = "refilling" => EndsWith(local'[g], e))
    BY <1>3, <2>1 DEF Asked, Writing
  <2>3. EndsWith(Append(rows, NextMessage(e)), e)
    <3>1. /\ Len(Append(rows, NextMessage(e))) = Len(rows) + 1 /\ Len(rows) \in Nat
          /\ Append(rows, NextMessage(e))[Len(rows) + 1] = NextMessage(e)
      BY <1>1, AppendProperties
    <3> QED
      BY <1>1, <3>1 DEF EndsWith
  <2>4. EndsWith(rows', e)
    <3>1. rows' = rows \/ rows' = Append(rows, NextMessage(e))
      BY DEF Step, ReadHit, ReadMiss, Load, Refill, RefillLost, CreateRow, CreateRowLost,
             ReadForAppend, NothingToAppendTo, Merge, MergeLost, Stop, NextMessage
    <3> QED
      BY <2>1, <2>3, <3>1
  <2>5. ASSUME role'[e] = "assistant", e \notin unlisted'
        PROVE  /\ cached' # NotCached => EndsWith(cached', e)
               /\ pc'[e] = "merging" => EndsWith(local'[e], e)
    <3>1. pc[e] \in {"appending", "merging", "asking"} /\ e \notin unlisted
      BY <1>4, <2>5 DEF Asked, Writing
    <3>2. CASE CreateRow(e) \/ CreateRowLost(e)
      <4>1. /\ role' = role /\ cached' = cached
            /\ pc'[e] # "merging"
        BY <1>1, <3>2 DEF CreateRow, CreateRowLost, Goto
      <4> QED
        BY <2>1, <2>5, <3>1, <4>1
    <3>3. CASE ReadForAppend(e)
      <4>1. /\ role' = role /\ cached' = cached /\ cached # NotCached
            /\ local'[e] = cached
        BY <1>1, <3>3 DEF ReadForAppend
      <4> QED
        BY <2>1, <2>5, <3>1, <4>1
    <3>4. CASE NothingToAppendTo(e) \/ MergeLost(e)
      <4>1. AfterAdding(e) /\ NotListed(e) /\ cached' = cached
        BY <3>4 DEF NothingToAppendTo, MergeLost
      <4>2. role[e] = "user" /\ pc'[e] = "asking"
        BY <1>1, <4>1 DEF AfterAdding, Asked, Writing
      <4>3. cached = NotCached
        BY <2>5, <4>1, <4>2 DEF NotListed
      <4> QED
        BY <4>1, <4>2, <4>3
    <3>5. CASE Merge(e)
      <4>1. /\ AfterAdding(e) /\ cached' = Recent(Append(local[e], NextMessage(e)))
        BY <3>5 DEF Merge, NextMessage
      <4>2. pc'[e] # "merging"
        BY <1>1, <4>1 DEF AfterAdding
      <4>3. /\ Append(local[e], NextMessage(e)) \in Seq(Message)
            /\ EndsWith(Append(local[e], NextMessage(e)), e)
        <5>1. /\ Append(local[e], NextMessage(e)) \in Seq(Message)
              /\ Len(Append(local[e], NextMessage(e))) = Len(local[e]) + 1
              /\ Len(local[e]) \in Nat
              /\ Append(local[e], NextMessage(e))[Len(local[e]) + 1] = NextMessage(e)
          BY <1>1, AppendProperties
        <5> QED
          BY <1>1, <5>1 DEF EndsWith
      <4>4. EndsWith(cached', e)
        BY <4>1, <4>3, RecentIsPaired
      <4> QED
        BY <4>2, <4>4
    <3>6. CASE ~(\/ CreateRow(e) \/ CreateRowLost(e) \/ ReadForAppend(e)
                 \/ NothingToAppendTo(e) \/ MergeLost(e) \/ Merge(e))
      <4>1. Stop(e)
        BY <3>1, <3>6 DEF Step, ReadHit, ReadMiss, Load, Refill, RefillLost, Goto
      <4>2. pc'[e] = "ended"
        BY <1>1, <4>1 DEF Stop
      <4> QED
        BY <4>2 DEF Asked, Writing
    <3> QED
      BY <3>2, <3>3, <3>4, <3>5, <3>6
  <2> QED
    BY <2>2, <2>4, <2>5 DEF HasLastWord, EndsWith
<1>5. CASE ~Asked(e)
  <2>1. pc[e] \notin {"appending", "merging"} /\ (pc[e] = "asking" => role[e] = "user")
    BY <1>1, <1>5 DEF Asked, Writing, Roles
  <2>2. CreateRow(e)
    <3>1. ASSUME \/ ReadHit(e) \/ ReadMiss(e) \/ Load(e) \/ Refill(e) \/ RefillLost(e) \/ Stop(e)
          PROVE  FALSE
      <4>1. /\ pc'[e] \in {"asking", "loading", "refilling", "ended"} /\ role' = role
            /\ pc'[e] = "asking" => pc[e] \in {"idle", "refilling"}
        BY <1>1, <3>1 DEF ReadHit, ReadMiss, Load, Refill, RefillLost, Stop, Goto
      <4> QED
        BY <1>2, <4>1 DEF Asked, Writing
    <3>2. ASSUME CreateRowLost(e)
          PROVE  FALSE
      <4>1. pc'[e] = "ended"
        BY <1>1, <2>1, <3>2 DEF CreateRowLost
      <4> QED
        BY <4>1 DEF Asked, Writing
    <3> QED
      BY <2>1, <3>1, <3>2 DEF Step, ReadForAppend, NothingToAppendTo, Merge, MergeLost, Goto
  <2>3. /\ pc[e] = "asking" /\ role[e] = "user" /\ Overlap(e)
        /\ rows' = Append(rows, NextMessage(e)) /\ role' = role
    BY <2>1, <2>2 DEF CreateRow, Goto, NextMessage
  <2>4. \A g \in Exchanges \ {e} : pc[g] \in {"idle", "ended"}
    BY <2>3, AsksAlone
  <2>5. \A g \in Exchanges \ {e} : ~Asked(g)' /\ pc'[g] # "refilling"
    BY <1>3, <2>4 DEF Asked, Writing
  <2>6. EndsWith(rows', e)
    <3>1. /\ Len(rows') = Len(rows) + 1 /\ Len(rows) \in Nat
          /\ rows'[Len(rows) + 1] = NextMessage(e)
      BY <1>1, <2>3, AppendProperties
    <3> QED
      BY <1>1, <3>1 DEF EndsWith
  <2> QED
    BY <2>3, <2>5, <2>6 DEF HasLastWord, EndsWith
<1> QED
  BY <1>4, <1>5

LEMMA PairInvStep ==
  ASSUME TypeOK, PairInv, [Next]_vars
  PROVE  PairInv'
<1>1. ListsPaired' /\ ReadsFirst'
  BY ListsStayPaired, ReadsFirstStep DEF PairInv
<1>2. overlapped \subseteq overlapped' /\ unlisted \subseteq unlisted'
  BY ExcusedStay
<1>3. ASSUME NEW e \in Exchanges, Asked(e)', e \notin overlapped'
      PROVE  HasLastWord(e)'
  <2>1. ASSUME NEW f \in Exchanges, Step(f)
        PROVE  HasLastWord(e)'
    <3>1. CASE f = e
      BY <1>2, <1>3, <2>1, <3>1, OwnStepGivesLastWord
    <3>2. CASE f # e
      <4>1. pc'[e] = pc[e] /\ role'[e] = role[e]
        BY <2>1, <3>2
        DEF TypeOK, Step, ReadHit, ReadMiss, Load, Refill, RefillLost, CreateRow, CreateRowLost,
            ReadForAppend, NothingToAppendTo, Merge, MergeLost, Stop, Goto, AfterAdding
      <4>2. Asked(e) /\ e \notin overlapped
        BY <1>2, <1>3, <4>1 DEF Asked, Writing
      <4>3. HasLastWord(e)
        BY <4>2 DEF PairInv
      <4> QED
        BY <1>2, <1>3, <2>1, <3>2, <4>2, <4>3, OthersLeaveLastWord
    <3> QED
      BY <3>1, <3>2
  <2>2. CASE DropKey \/ UNCHANGED vars
    <3>1. /\ UNCHANGED <<pc, role, local, rows, overlapped, unlisted>>
          /\ cached' \in {cached, NotCached}
      BY <2>2 DEF DropKey, vars
    <3>2. HasLastWord(e)
      BY <1>3, <3>1 DEF PairInv, Asked, Writing
    <3> QED
      BY <3>1, <3>2 DEF HasLastWord, EndsWith, Asked, Writing
  <2>3. CASE Crash
    BY <1>3, <2>3 DEF Crash, Asked, Writing
  <2> QED
    BY <2>1, <2>2, <2>3 DEF Next
<1> QED
  BY <1>1, <1>3 DEF PairInv

LEMMA PairsAreOwn ==
  ASSUME TypeOK, PairInv
  PROVE  HistoryPairsOwn
<1>1. ASSUME NEW list \in Histories
      PROVE  Paired(list, Excused) /\ list \in Seq(Message)
  <2>1. rows \in Seq(Message) /\ cached \in Seq(Message) \cup {NotCached}
    BY DEF TypeOK
  <2>2. CASE list = Recent(rows)
    BY <2>1, <2>2, RecentIsPaired, RecentIsSuffix DEF PairInv, ListsPaired
  <2>3. CASE list = cached /\ cached # NotCached
    BY <2>1, <2>3 DEF PairInv, ListsPaired
  <2> QED
    BY <2>2, <2>3 DEF Histories
<1>2. ASSUME NEW list \in Histories, NEW j \in 1..Len(list), list[j].role = "assistant",
             NEW i \in Pending(list, j)
      PROVE  list[i].of = list[j].of \/ list[j].of \in overlapped \cup unlisted
  <2>1. i \in 1..(j - 1) /\ i + 1 = j /\ list[i].role = "user" /\ Len(list) \in Nat
    BY <1>1, <1>2 DEF Pending
  <2>2. j \in 2..Len(list) /\ j - 1 = i
    BY <2>1
  <2> QED
    BY <1>1, <1>2, <2>1, <2>2 DEF Paired, Excused
<1>3. ASSUME NEW list \in Histories, NEW p \in HistoryPairs(list)
      PROVE  p[1] = p[2] \/ p[2] \in overlapped \cup unlisted
  <2>1. PICK j \in {k \in 1..Len(list) : list[k].role = "assistant"} :
           p \in {<<list[i].of, list[j].of>> : i \in Pending(list, j)}
    BY <1>3 DEF HistoryPairs
  <2>2. PICK i \in Pending(list, j) : p = <<list[i].of, list[j].of>>
    BY <2>1
  <2> QED
    BY <1>2, <2>1, <2>2
<1> QED
  BY <1>3 DEF HistoryPairsOwn

\* Whatever an ask is given for its history, the cached list or the rows, an
\* answer in it goes with its own question, unless two exchanges overlapped when
\* one of them asked, or the question's write to the cached list was lost.
THEOREM HistoryIsPaired == Spec => []HistoryPairsOwn
<1>1. ASSUME Init PROVE PairInv
  BY <1>1 DEF Init, PairInv, ListsPaired, Paired, ReadsFirst, Asked, Writing
<1>2. TypeOK /\ PairInv /\ [Next]_vars => PairInv'
  BY PairInvStep
<1>3. TypeOK /\ PairInv => HistoryPairsOwn
  BY PairsAreOwn
<1> QED
  BY <1>1, <1>2, <1>3, TypeCorrect, PTL DEF Spec
=============================================================================
