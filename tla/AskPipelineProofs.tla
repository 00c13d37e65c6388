-------------------------- MODULE AskPipelineProofs --------------------------
(***************************************************************************)
(* Proofs about AskPipeline, for any asks and questions, either kind of    *)
(* request, either dialect, and however the steps of the asks interleave   *)
(* and fail and the process is killed under them.                          *)
(***************************************************************************)
EXTENDS AskPipeline, SequenceTheorems, TLAPS

-----------------------------------------------------------------------------
(* What has been told.                                                     *)

Errors == {"ERROR", "stream-error"}

Closed(told) == \E i \in 1..Len(told) : Closes(told[i])

Reported(told) == \E i \in 1..Len(told) : told[i].event \in Errors /\ told[i].type = "ask"

OnlyErrors(told) == \A i \in 1..Len(told) : told[i].event \in Errors

\* CompletedOnce, of one request.
OnceClosed(told) ==
    \A i, j \in 1..Len(told) : i < j /\ Closes(told[i]) => told[j].event \in Errors

\* What one notification is, in either dialect.
LEMMA OneNotification ==
  ASSUME NEW event \in Events, NEW type \in {"ask", "summary"}
  PROVE  LET n == Notification(event, type) IN
         /\ n \in Notifications
         /\ Closes(n) <=> event = "COMPLETED" /\ type = "ask"
         /\ n.event \in Errors <=> event = "ERROR"
         /\ n.type = type
BY DEF Legacy, Events, LegacyEvents, Notifications, Notification, Closes, Errors

LEMMA OneIsTold ==
  ASSUME NEW event \in Events, NEW type \in {"ask", "summary"},
         NEW told, told = <<Notification(event, type)>>
  PROVE  /\ told \in Seq(Notifications)
         /\ Closed(told) <=> event = "COMPLETED" /\ type = "ask"
         /\ Reported(told) <=> event = "ERROR" /\ type = "ask"
         /\ OnlyErrors(told) <=> event = "ERROR"
         /\ OnceClosed(told)
<1>1. /\ told \in Seq(Notifications) /\ Len(told) = 1 /\ told[1] = Notification(event, type)
  BY OneNotification
<1>2. \A i \in 1..Len(told) : i = 1
  BY <1>1
<1> QED
  BY <1>1, <1>2, OneNotification DEF Closed, Reported, OnlyErrors, OnceClosed

LEMMA NothingIsTold ==
  /\ <<>> \in Seq(Notifications)
  /\ ~Closed(<<>>) /\ ~Reported(<<>>) /\ OnlyErrors(<<>>) /\ OnceClosed(<<>>)
BY DEF Closed, Reported, OnlyErrors, OnceClosed

\* One thing is told after the other.
LEMMA ToldTogether ==
  ASSUME NEW s \in Seq(Notifications), NEW t \in Seq(Notifications)
  PROVE  /\ s \o t \in Seq(Notifications)
         /\ Closed(s \o t) <=> Closed(s) \/ Closed(t)
         /\ Reported(s \o t) <=> Reported(s) \/ Reported(t)
         /\ OnceClosed(s) /\ OnceClosed(t) /\ (Closed(s) => OnlyErrors(t))
              => OnceClosed(s \o t)
<1> DEFINE u == s \o t
<1>1. /\ u \in Seq(Notifications) /\ Len(u) = Len(s) + Len(t)
      /\ Len(s) \in Nat /\ Len(t) \in Nat
      /\ \A i \in 1..Len(s) : u[i] = s[i]
      /\ \A i \in 1..Len(t) : u[Len(s) + i] = t[i]
  BY ConcatProperties, LenProperties
<1> HIDE DEF u
<1>2. \A i \in 1..Len(u) :
          \/ i \in 1..Len(s)
          \/ i - Len(s) \in 1..Len(t) /\ u[i] = t[i - Len(s)]
  <2> SUFFICES ASSUME NEW i \in 1..Len(u), i \notin 1..Len(s)
               PROVE  i - Len(s) \in 1..Len(t) /\ u[i] = t[i - Len(s)]
    OBVIOUS
  <2>1. i - Len(s) \in 1..Len(t) /\ i = Len(s) + (i - Len(s))
    BY <1>1
  <2> QED
    BY <1>1, <2>1
<1>3. \A i \in 1..Len(s) : i \in 1..Len(u)
  BY <1>1
<1>4. \A i \in 1..Len(t) : Len(s) + i \in 1..Len(u)
  BY <1>1
<1>5. Closed(u) <=> Closed(s) \/ Closed(t)
  <2>1. Closed(u) => Closed(s) \/ Closed(t)
    BY <1>1, <1>2 DEF Closed
  <2>2. Closed(s) => Closed(u)
    BY <1>1, <1>3 DEF Closed
  <2>3. Closed(t) => Closed(u)
    BY <1>1, <1>4 DEF Closed
  <2> QED
    BY <2>1, <2>2, <2>3
<1>6. Reported(u) <=> Reported(s) \/ Reported(t)
  <2>1. Reported(u) => Reported(s) \/ Reported(t)
    BY <1>1, <1>2 DEF Reported
  <2>2. Reported(s) => Reported(u)
    BY <1>1, <1>3 DEF Reported
  <2>3. Reported(t) => Reported(u)
    BY <1>1, <1>4 DEF Reported
  <2> QED
    BY <2>1, <2>2, <2>3
<1>7. ASSUME OnceClosed(s), OnceClosed(t), Closed(s) => OnlyErrors(t)
      PROVE  OnceClosed(u)
  <2> SUFFICES ASSUME NEW i \in 1..Len(u), NEW j \in 1..Len(u), i < j, Closes(u[i])
               PROVE  u[j].event \in Errors
    BY DEF OnceClosed
  <2>1. CASE i \in 1..Len(s) /\ j \in 1..Len(s)
    BY <1>1, <1>7, <2>1 DEF OnceClosed
  <2>2. CASE i \in 1..Len(s) /\ j \notin 1..Len(s)
    <3>1. Closed(s)
      BY <1>1, <2>2 DEF Closed
    <3> QED
      BY <1>2, <1>7, <2>2, <3>1 DEF OnlyErrors
  <2>3. CASE i \notin 1..Len(s)
    <3>1. j \notin 1..Len(s)
      BY <1>1, <2>3
    <3>2. /\ i - Len(s) \in 1..Len(t) /\ u[i] = t[i - Len(s)]
          /\ j - Len(s) \in 1..Len(t) /\ u[j] = t[j - Len(s)]
      BY <1>2, <2>3, <3>1
    <3>3. i - Len(s) < j - Len(s)
      BY <1>1
    <3> QED
      BY <1>7, <3>2, <3>3 DEF OnceClosed
  <2> QED
    BY <2>1, <2>2, <2>3
<1> QED
  BY <1>1, <1>5, <1>6, <1>7 DEF u

\* A piece that is left out neither closes the stream nor reports an error.
LEMMA NotedTold ==
  ASSUME NEW told \in Seq(Notifications), NEW news \in Seq(Notifications)
  PROVE  LET now == Noted(told, news) IN
         /\ now \in Seq(Notifications)
         /\ Closed(now) <=> Closed(told) \/ Closed(news)
         /\ Reported(now) <=> Reported(told) \/ Reported(news)
         /\ OnceClosed(told) /\ OnceClosed(news) /\ (Closed(told) => OnlyErrors(news))
              => OnceClosed(now)
<1>1. CASE Noted(told, news) = told \o news
  BY <1>1, ToldTogether
<1>2. CASE news # <<>> /\ IsPiece(Head(news)) /\ Noted(told, news) = told \o Tail(news)
  <2> DEFINE rest == Tail(news)
  <2>1. /\ rest \in Seq(Notifications) /\ Len(rest) = Len(news) - 1 /\ Len(news) \in Nat
        /\ \A i \in 1..Len(rest) : i + 1 \in 1..Len(news) /\ rest[i] = news[i + 1]
        /\ Head(news) = news[1]
    BY <1>2, HeadTailProperties, LenProperties
  <2> HIDE DEF rest
  <2>2. ~Closes(news[1]) /\ news[1].event \notin Errors
    BY <1>2, <2>1 DEF IsPiece, Closes, Errors
  <2>3. \A i \in 1..Len(news) : i = 1 \/ (i - 1 \in 1..Len(rest) /\ rest[i - 1] = news[i])
    <3> SUFFICES ASSUME NEW i \in 1..Len(news), i # 1
                 PROVE  i - 1 \in 1..Len(rest) /\ rest[i - 1] = news[i]
      OBVIOUS
    <3>1. i - 1 \in 1..Len(rest) /\ (i - 1) + 1 = i
      BY <2>1
    <3> QED
      BY <2>1, <3>1
  <2>4. Closed(rest) <=> Closed(news)
    BY <2>1, <2>2, <2>3 DEF Closed
  <2>5. Reported(rest) <=> Reported(news)
    BY <2>1, <2>2, <2>3 DEF Reported
  <2>6. OnlyErrors(news) => OnlyErrors(rest)
    BY <2>1 DEF OnlyErrors
  <2>7. OnceClosed(news) => OnceClosed(rest)
    <3> SUFFICES ASSUME OnceClosed(news), NEW i \in 1..Len(rest), NEW j \in 1..Len(rest),
                        i < j, Closes(rest[i])
                 PROVE  rest[j].event \in Errors
      BY DEF OnceClosed
    <3>1. i + 1 < j + 1
      BY <2>1
    <3> QED
      BY <2>1, <3>1 DEF OnceClosed
  <2> QED
    BY <1>2, <2>1, <2>4, <2>5, <2>6, <2>7, ToldTogether DEF rest
<1> QED
  BY <1>1, <1>2 DEF Noted

-----------------------------------------------------------------------------
(* One request.                                                            *)

\* Before anything closes the client's stream, and from then on.
Telling == Asking \ {"store", "sync"}
Unclosed == Telling \cup {"idle", "retry", "stalled"}
Concluded == {"store", "sync", "returning", "nothing", "done"}

\* Where an attempt has its answer in the session.
Holding == {"replayed", "sync", "returning"}

TellOf(at, told, excused) ==
    /\ told \in Seq(Notifications)
    /\ OnceClosed(told)
    /\ at \in Unclosed => ~Closed(told)
    /\ at \in Concluded => Closed(told)
    /\ at \in {"throwing", "failed"} => Closed(told) \/ Reported(told) \/ excused

AttemptOf(at, n) ==
    /\ at = "idle" => n = 0
    /\ at = "retry" => n < MaxAttempts
    /\ at \in Asking \cup Leaving \cup {"stalled"} => n > 0

Excused(a) == aborted[a] \/ a \in misread \/ stalls[a] > MaxStalledCount

RequestInv ==
    /\ TypeOK
    /\ \A a \in Asks : /\ TellOf(pc[a], sent[a], Excused(a))
                       /\ AttemptOf(pc[a], attempt[a])

\* Every answer in the session is that of the attempt under way, or of the one
\* that ended well, or an accident's.
AnswerInv ==
    \A a \in Asks : /\ stored[a] <= accidents[a] + 1
                    /\ pc[a] \notin Holding \cup {"done"} => stored[a] <= accidents[a]

\* What a step of a request does to its answers in the session.
Keeps(a, to) ==
    \/ UNCHANGED <<stored, accidents>> /\ (pc[a] \in Holding <=> to \in Holding)
    \/ /\ StoresAnswer(a) /\ UNCHANGED accidents
       /\ pc[a] \notin Holding /\ to \in Holding
    \/ /\ StoresAnswer(a) /\ accidents' = [accidents EXCEPT ![a] = accidents[a] + 1]
       /\ pc[a] \notin Holding /\ to \notin Holding

\* What a step of ask() does.
Effect(a, to, told) ==
    /\ pc[a] \in Asking /\ to \in Asking \cup Leaving
    /\ pc' = [pc EXCEPT ![a] = to]
    /\ sent' = [sent EXCEPT ![a] = told]
    /\ UNCHANGED <<short, attempt, stalls, crashes, aborted, unified, cache>>
    /\ misread \subseteq misread' /\ misread' \subseteq misread \cup {a}
    /\ TellOf(to, told, aborted[a] \/ a \in misread')
    /\ writes' \subseteq Asks
    /\ Keeps(a, to)

HasEffect(a) == \E to, told : Effect(a, to, told)

\* The places are different from each other.
LEMMA Places ==
  /\ Telling \subseteq Asking /\ {"store", "sync"} \subseteq Asking
  /\ {"returning", "nothing", "throwing"} = Leaving
  /\ Asking \cup Leaving \subseteq Pcs
  /\ Telling \cap Concluded = {} /\ "throwing" \notin Unclosed \cup Concluded \cup Holding
  /\ Asking \cap (Ended \cup {"idle", "retry", "stalled"}) = {}
BY DEF Asking, Leaving, Telling, Unclosed, Concluded, Holding, Pcs, Ended

\* An ask that says nothing stays before the end or behind it.
LEMMA QuietEffect ==
  ASSUME RequestInv, NEW a \in Asks, NEW to \in Asking \cup Leaving,
         pc' = [pc EXCEPT ![a] = to],
         sent' = sent, Rest, cache' = cache, writes' \subseteq Asks,
         \/ pc[a] \in Telling /\ to \in Telling
         \/ pc[a] \in Concluded \cap Asking /\ to \in Concluded,
         Keeps(a, to)
  PROVE  HasEffect(a)
<1>1. sent' = [sent EXCEPT ![a] = sent[a]]
  BY DEF RequestInv, TypeOK
<1>2. to \notin {"throwing", "failed"} /\ pc[a] \in Asking
  BY DEF Telling, Concluded, Asking
<1>3. TellOf(to, sent[a], aborted[a] \/ a \in misread')
  <2>1. /\ sent[a] \in Seq(Notifications) /\ OnceClosed(sent[a])
        /\ pc[a] \in Telling => ~Closed(sent[a])
        /\ pc[a] \in Concluded => Closed(sent[a])
    BY DEF RequestInv, TellOf, Unclosed
  <2>2. to \in Telling => to \notin Concluded
    BY Places
  <2>3. to \in Concluded => to \notin Unclosed
    BY DEF Unclosed, Concluded, Telling, Asking
  <2> QED
    BY <1>2, <2>1, <2>2, <2>3 DEF TellOf
<1>4. Effect(a, to, sent[a])
  BY <1>1, <1>2, <1>3 DEF Effect, Rest, Frame
<1> QED
  BY <1>4 DEF HasEffect

\* An ask that tells something, which may be the end.
LEMMA TellEffect ==
  ASSUME RequestInv, NEW a \in Asks, NEW to \in Asking \cup Leaving,
         NEW news \in Seq(Notifications), OnceClosed(news),
         pc[a] \in Telling,
         (to \in Telling /\ ~Closed(news)) \/ (to \in Concluded /\ Closed(news)),
         pc' = [pc EXCEPT ![a] = to],
         Tell(a, news), Rest, StoreUnchanged,
         pc[a] \in Holding <=> to \in Holding
  PROVE  HasEffect(a)
<1> DEFINE now == Noted(sent[a], news)
<1>1. sent' = [sent EXCEPT ![a] = now]
  BY DEF Tell
<1>2. sent[a] \in Seq(Notifications) /\ OnceClosed(sent[a]) /\ ~Closed(sent[a])
  BY DEF RequestInv, TellOf, Unclosed
<1>3. /\ now \in Seq(Notifications) /\ OnceClosed(now)
      /\ Closed(now) <=> Closed(news)
  BY <1>2, NotedTold
<1> HIDE DEF now
<1>4. to \notin {"throwing", "failed"} /\ pc[a] \in Asking
  BY DEF Telling, Concluded, Asking
<1>5. /\ to \in Telling => to \notin Concluded
      /\ to \in Concluded => to \notin Unclosed
  BY DEF Telling, Concluded, Unclosed, Asking
<1>6. TellOf(to, now, aborted[a] \/ a \in misread')
  BY <1>3, <1>4, <1>5 DEF TellOf
<1>7. writes' \subseteq Asks /\ cache' = cache /\ Keeps(a, to)
  BY DEF RequestInv, TypeOK, StoreUnchanged, Keeps
<1>8. Effect(a, to, now)
  BY <1>1, <1>4, <1>6, <1>7 DEF Effect, Rest, Frame
<1> QED
  BY <1>8 DEF HasEffect

\* An ask that throws has told the end, or reports it, or is excused.
LEMMA ThrowEffect ==
  ASSUME RequestInv, NEW a \in Asks, NEW news \in Seq(Notifications), OnceClosed(news),
         \/ pc[a] \in Telling /\ (Reported(news) \/ aborted[a] \/ a \in misread')
         \/ pc[a] = "store" /\ OnlyErrors(news),
         Throw(a), Tell(a, news), misread \subseteq misread', misread' \subseteq misread \cup {a},
         Frame, UNCHANGED <<cache, writes>>, Keeps(a, "throwing")
  PROVE  HasEffect(a)
<1> DEFINE now == Noted(sent[a], news)
<1>1. /\ sent' = [sent EXCEPT ![a] = now] /\ pc' = [pc EXCEPT ![a] = "throwing"]
      /\ writes' \subseteq Asks
  BY DEF Tell, Throw, RequestInv, TypeOK
<1>2. "throwing" \in Leaving /\ pc[a] \in Asking /\ "throwing" \notin Unclosed \cup Concluded
  BY Places
<1>3. /\ sent[a] \in Seq(Notifications) /\ OnceClosed(sent[a])
      /\ pc[a] \in Telling => ~Closed(sent[a])
      /\ pc[a] = "store" => Closed(sent[a])
  BY DEF RequestInv, TellOf, Concluded, Unclosed
<1>4. /\ now \in Seq(Notifications) /\ OnceClosed(now)
      /\ Closed(sent[a]) => Closed(now)
      /\ Reported(news) => Reported(now)
  BY <1>3, NotedTold
<1> HIDE DEF now
<1>5. TellOf("throwing", now, aborted[a] \/ a \in misread')
  BY <1>2, <1>3, <1>4 DEF TellOf
<1>6. Effect(a, "throwing", now)
  BY <1>1, <1>2, <1>5 DEF Effect, Frame
<1> QED
  BY <1>6 DEF HasEffect

\* The catch block of ask().
LEMMA CatchEffect ==
  ASSUME RequestInv, NEW a \in Asks, NEW news \in Seq(Notifications),
         (pc[a] \in Telling /\ ~Closed(news)) \/ (pc[a] = "store" /\ news = <<>>),
         OnceClosed(news), Catch(a, news), Keeps(a, "throwing")
  PROVE  HasEffect(a)
<1>1. Throw(a) /\ Frame /\ UNCHANGED <<cache, writes>>
  BY DEF Catch
<1>2. CASE Tell(a, news \o OfAsk("ERROR")) /\ UNCHANGED misread
  <2> DEFINE report == OfAsk("ERROR")
  <2>1. /\ report \in Seq(Notifications) /\ ~Closed(report) /\ Reported(report)
        /\ OnlyErrors(report) /\ OnceClosed(report)
    BY OneIsTold DEF OfAsk, Events
  <2>2. news = <<>> => news \o report = report
    BY <2>1, ConcatEmptySeq
  <2> HIDE DEF report
  <2>4. pc[a] = "store" => pc[a] \notin Telling
    BY DEF Telling
  <2>3. /\ news \o report \in Seq(Notifications) /\ OnceClosed(news \o report)
        /\ Reported(news \o report)
        /\ pc[a] = "store" => OnlyErrors(news \o report)
    BY <2>1, <2>2, <2>4, ToldTogether, NothingIsTold
  <2> QED
    BY <1>1, <1>2, <2>3, ThrowEffect DEF report
<1>3. CASE Tell(a, news) /\ misread' = misread \cup {a}
  BY <1>1, <1>3, NothingIsTold, ThrowEffect
<1> QED
  BY <1>2, <1>3 DEF Catch

-----------------------------------------------------------------------------
(* Every step of ask() has such an effect.                                 *)

\* Steps that tell nothing.
LEMMA QuietStepsEffect ==
  ASSUME RequestInv, NEW a \in Asks,
         \/ StoreQuestion(a) \/ LookupHits(a) \/ LookupMisses(a) \/ ReplayFails(a)
         \/ StreamEnds(a) \/ StreamInterrupted(a) \/ FallbackAnswers(a)
         \/ Generate(a) \/ Regenerate(a)
  PROVE  HasEffect(a)
<1>1. /\ sent' = sent /\ Rest /\ cache' = cache /\ writes' \subseteq Asks
      /\ StoreUnchanged \/ MayHaveStored(a)
  BY DEF StoreQuestion, LookupHits, LookupMisses, ReplayFails, StreamEnds, StreamInterrupted,
         FallbackAnswers, Generate, Regenerate, StoreUnchanged, RequestInv, TypeOK
<1>2. PICK to \in Telling \ Holding : pc' = [pc EXCEPT ![a] = to] /\ pc[a] \in Telling \ Holding
  BY DEF StoreQuestion, LookupHits, LookupMisses, ReplayFails, StreamEnds, StreamInterrupted,
         FallbackAnswers, Generate, Regenerate, Move, Telling, Asking, Holding
<1>3. Keeps(a, to)
  BY <1>1, <1>2 DEF Keeps, StoreUnchanged, MayHaveStored
<1>4. to \in Asking
  BY <1>2 DEF Telling
<1> QED
  BY <1>1, <1>2, <1>3, <1>4, QuietEffect

\* Steps that put an answer into the session or the cache.
LEMMA StoreStepsEffect ==
  ASSUME RequestInv, NEW a \in Asks, Replay(a) \/ StoreAnswer(a) \/ Sync(a)
  PROVE  HasEffect(a)
<1>1. sent' = sent /\ Rest /\ cache' = cache /\ writes' \subseteq Asks
  BY DEF Replay, StoreAnswer, Sync, RequestInv, TypeOK
<1>2. CASE Replay(a)
  <2>1. /\ pc[a] = "replay" /\ pc' = [pc EXCEPT ![a] = "replayed"]
        /\ StoresAnswer(a) /\ UNCHANGED accidents
    BY <1>2 DEF Replay, Move
  <2>2. /\ "replayed" \in Asking /\ pc[a] \in Telling /\ "replayed" \in Telling
        /\ pc[a] \notin Holding /\ "replayed" \in Holding
    BY <2>1 DEF Telling, Asking, Holding
  <2> QED
    BY <1>1, <2>1, <2>2, QuietEffect DEF Keeps
<1>3. CASE StoreAnswer(a)
  <2>1. /\ pc[a] = "store" /\ pc' = [pc EXCEPT ![a] = "sync"]
        /\ StoresAnswer(a) /\ UNCHANGED accidents
    BY <1>3 DEF StoreAnswer, Move
  <2>2. /\ "sync" \in Asking /\ pc[a] \in Concluded \cap Asking /\ "sync" \in Concluded
        /\ pc[a] \notin Holding /\ "sync" \in Holding
    BY <2>1 DEF Concluded, Asking, Holding
  <2> QED
    BY <1>1, <2>1, <2>2, QuietEffect DEF Keeps
<1>4. CASE Sync(a)
  <2>1. /\ pc[a] = "sync" /\ pc' = [pc EXCEPT ![a] = "returning"]
        /\ UNCHANGED <<stored, accidents>>
    BY <1>4 DEF Sync, Move
  <2>2. /\ "returning" \in Leaving /\ pc[a] \in Concluded \cap Asking /\ "returning" \in Concluded
        /\ pc[a] \in Holding /\ "returning" \in Holding
    BY <2>1 DEF Concluded, Asking, Leaving, Holding
  <2> QED
    BY <1>1, <2>1, <2>2, QuietEffect DEF Keeps
<1> QED
  BY <1>2, <1>3, <1>4

LEMMA TellingStepsEffect ==
  ASSUME RequestInv, NEW a \in Asks,
         \/ TooShort(a) \/ Open(a) \/ TellReplayed(a) \/ RetrieveNothing(a) \/ RetrieveSome(a)
         \/ Chunk(a) \/ WidenSome(a) \/ WidenNothing(a) \/ Summarize(a) \/ Complete(a)
  PROVE  HasEffect(a)
<1> DEFINE Said(news, end) == /\ news \in Seq(Notifications) /\ OnceClosed(news)
                              /\ Closed(news) <=> end
<1>1. \A event \in Events : Said(OfAsk(event), event = "COMPLETED")
  BY OneIsTold DEF OfAsk
<1>2. \A event \in Events : Said(OfSummary(event), FALSE)
  BY OneIsTold DEF OfSummary
<1>3. Said(<<>>, FALSE)
  BY NothingIsTold
<1>4. ASSUME NEW s, NEW t, NEW end, Said(s, FALSE), Said(t, end) PROVE Said(s \o t, end)
  BY <1>4, ToldTogether
<1>5. Rest /\ StoreUnchanged
  BY DEF TooShort, Open, TellReplayed, RetrieveNothing, RetrieveSome, Chunk, WidenSome,
         WidenNothing, Summarize, Complete
\* It goes on, and what is told does not close the client's stream, or it has
\* come to its end, and it does.
<1>6. ASSUME NEW to \in Asking \cup Leaving, NEW news, NEW end \in BOOLEAN,
             pc[a] \in Telling, end => to \in Concluded, ~end => to \in Telling,
             Said(news, end), Tell(a, news), pc' = [pc EXCEPT ![a] = to],
             pc[a] \in Holding <=> to \in Holding
      PROVE  HasEffect(a)
  <2>1. news \in Seq(Notifications) /\ OnceClosed(news) /\ (Closed(news) <=> end)
    BY <1>6
  <2> HIDE DEF Said
  <2>2. (to \in Telling /\ ~Closed(news)) \/ (to \in Concluded /\ Closed(news))
    BY <1>6, <2>1
  <2> QED
    BY <1>5, <1>6, <2>1, <2>2, TellEffect
<1> HIDE DEF Said
<1>8. /\ {"STARTED", "PROGRESS", "THOUGHT", "DELTA", "COMPLETED"} \subseteq Events
      /\ Said(OfAsk("STARTED"), FALSE) /\ Said(OfAsk("PROGRESS"), FALSE)
      /\ Said(OfAsk("THOUGHT"), FALSE) /\ Said(OfAsk("DELTA"), FALSE)
      /\ Said(OfAsk("COMPLETED"), TRUE)
  <2>1. {"STARTED", "PROGRESS", "THOUGHT", "DELTA", "COMPLETED"} \subseteq Events
    BY DEF Events
  <2>2. /\ ("STARTED" = "COMPLETED") = FALSE /\ ("PROGRESS" = "COMPLETED") = FALSE
        /\ ("THOUGHT" = "COMPLETED") = FALSE /\ ("DELTA" = "COMPLETED") = FALSE
        /\ ("COMPLETED" = "COMPLETED") = TRUE
    OBVIOUS
  <2> QED
    BY <1>1, <2>1, <2>2 DEF Said
<1> USE DEF Telling, Concluded, Holding, Asking, Leaving
<1>9. CASE TooShort(a)
  <2>1. /\ pc[a] = "opening" /\ pc' = [pc EXCEPT ![a] = "nothing"]
        /\ Tell(a, OfAsk("STARTED") \o OfAsk("COMPLETED"))
    BY <1>9 DEF TooShort, Move
  <2>2. Said(OfAsk("STARTED") \o OfAsk("COMPLETED"), TRUE)
    BY <1>4, <1>8
  <2> QED
    BY <1>6, <2>1, <2>2
<1>10. CASE Open(a)
  BY <1>6, <1>8, <1>10 DEF Open, Move
<1>11. CASE TellReplayed(a)
  BY <1>6, <1>8, <1>11 DEF TellReplayed, Move
<1>12. CASE RetrieveNothing(a)
  BY <1>6, <1>8, <1>12 DEF RetrieveNothing, Move
<1>13. CASE RetrieveSome(a)
  <2> DEFINE to == IF IsStreaming[a] THEN "stream" ELSE "generate"
             news == IF IsStreaming[a] THEN OfAsk("PROGRESS") ELSE <<>>
  <2>1. /\ pc[a] = "retrieve" /\ pc' = [pc EXCEPT ![a] = to] /\ Tell(a, news)
    BY <1>13 DEF RetrieveSome, Move
  <2>2. to \in {"stream", "generate"}
    OBVIOUS
  <2>3. Said(news, FALSE)
    BY <1>3, <1>8
  <2> HIDE DEF to, news
  <2> QED
    BY <1>6, <2>1, <2>2, <2>3
<1>14. CASE Chunk(a)
  BY <1>6, <1>8, <1>14 DEF Chunk
<1>15. CASE WidenSome(a) \/ WidenNothing(a)
  <2>2. PICK to \in {"regenerate", "complete", "summarize"} : pc' = [pc EXCEPT ![a] = to]
    BY <1>15 DEF WidenSome, WidenNothing, Move
  <2>3. pc[a] = "widen" /\ Tell(a, OfAsk("THOUGHT"))
    BY <1>15 DEF WidenSome, WidenNothing, Move
  <2> QED
    BY <1>6, <1>8, <2>2, <2>3
<1>16. CASE Summarize(a)
  <2> DEFINE news == OfSummary("STARTED") \o OfSummary("PROGRESS") \o OfSummary("COMPLETED")
  <2>1. pc[a] = "summarize" /\ pc' = [pc EXCEPT ![a] = "complete"] /\ Tell(a, news)
    BY <1>16 DEF Summarize, Move
  <2>2. Said(OfSummary("STARTED") \o OfSummary("PROGRESS"), FALSE)
    BY <1>2, <1>4, <1>8
  <2>3. Said(news, FALSE)
    BY <1>2, <1>4, <1>8, <2>2
  <2> HIDE DEF news
  <2> QED
    BY <1>6, <2>1, <2>3
<1>17. CASE Complete(a)
  BY <1>6, <1>8, <1>17 DEF Complete, Move
<1> QED
  BY <1>9, <1>10, <1>11, <1>12, <1>13, <1>14, <1>15, <1>16, <1>17

LEMMA ThrowingStepsEffect ==
  ASSUME RequestInv, NEW a \in Asks,
         \/ OpeningFails(a) \/ RetrieveFails(a) \/ SummaryFails(a) \/ GenerationFails(a)
         \/ GenerationAborts(a) \/ StoreFails(a)
  PROVE  HasEffect(a)
<1> DEFINE Said(news) == news \in Seq(Notifications) /\ OnceClosed(news) /\ ~Closed(news)
<1>1. \A event \in Events : Said(OfSummary(event))
  BY OneIsTold DEF OfSummary
<1>2. \A event \in Events \ {"COMPLETED"} : Said(OfAsk(event))
  BY OneIsTold DEF OfAsk
<1>3. Said(<<>>)
  BY NothingIsTold
<1>4. ASSUME NEW s, NEW t, Said(s), Said(t) PROVE Said(s \o t)
  BY <1>4, ToldTogether
<1>5. ASSUME NEW news, Said(news), pc[a] \in Telling \ Holding, FailsAfter(a, news)
      PROVE  HasEffect(a)
  <2>1. Catch(a, news) /\ Keeps(a, "throwing")
    BY <1>5 DEF FailsAfter, Keeps, Holding
  <2> QED
    BY <1>5, <2>1, CatchEffect
<1>6. ASSUME NEW news, Said(news), pc[a] \in Telling \ Holding, Reported(news) \/ aborted[a],
             Throw(a), Tell(a, news), Rest, StoreUnchanged
      PROVE  HasEffect(a)
  <2>1. /\ Frame /\ UNCHANGED <<cache, writes>> /\ Keeps(a, "throwing")
        /\ misread \subseteq misread' /\ misread' \subseteq misread \cup {a}
    BY <1>6 DEF Rest, StoreUnchanged, Keeps, Holding
  <2> QED
    BY <1>6, <2>1, ThrowEffect
<1>7. {"STARTED", "PROGRESS", "THOUGHT", "ERROR"} \subseteq Events
  BY DEF Events
<1>8. /\ Said(OfAsk("STARTED")) /\ Said(OfAsk("THOUGHT")) /\ Said(OfAsk("ERROR"))
      /\ Said(OfSummary("STARTED")) /\ Said(OfSummary("PROGRESS")) /\ Said(OfSummary("ERROR"))
      /\ Reported(OfAsk("ERROR"))
  <2>1. Reported(OfAsk("ERROR"))
    BY <1>7, OneIsTold DEF OfAsk
  <2> HIDE DEF Said
  <2> QED
    BY <1>1, <1>2, <1>7, <2>1
<1>9. CASE StoreFails(a)
  <2>1. pc[a] = "store" /\ Catch(a, <<>>) /\ MayHaveStored(a)
    BY <1>9 DEF StoreFails
  <2>2. Keeps(a, "throwing")
    BY <2>1 DEF Keeps, MayHaveStored, Holding
  <2> QED
    BY <2>1, <2>2, NothingIsTold, CatchEffect
<1> HIDE DEF Said
<1>10. CASE OpeningFails(a) \/ RetrieveFails(a) \/ GenerationFails(a)
  <2>1. pc[a] \in Telling \ Holding
    BY <1>10 DEF OpeningFails, RetrieveFails, GenerationFails, Telling, Asking, Holding
  <2>2. \/ FailsAfter(a, <<>>) \/ FailsAfter(a, OfAsk("STARTED"))
        \/ FailsAfter(a, OfAsk("THOUGHT"))
    BY <1>10 DEF OpeningFails, RetrieveFails, GenerationFails, Fails
  <2> QED
    BY <1>3, <1>5, <1>8, <2>1, <2>2
<1>11. CASE SummaryFails(a)
  <2>1. pc[a] \in Telling \ Holding
    BY <1>11 DEF SummaryFails, Telling, Asking, Holding
  <2>2. PICK piece \in {<<>>, OfSummary("PROGRESS")} :
          LET told == OfSummary("STARTED") \o piece IN
          \/ FailsAfter(a, told)
          \/ /\ Throw(a)
             /\ Tell(a, told \o OfSummary("ERROR") \o OfAsk("ERROR"))
             /\ Rest /\ StoreUnchanged
    BY <1>11 DEF SummaryFails
  <2> DEFINE told == OfSummary("STARTED") \o piece
             news == told \o OfSummary("ERROR") \o OfAsk("ERROR")
  <2>3. Said(told)
    BY <1>3, <1>4, <1>8
  <2>4. CASE FailsAfter(a, told)
    BY <1>5, <2>1, <2>3, <2>4
  <2>5. CASE Throw(a) /\ Tell(a, news) /\ Rest /\ StoreUnchanged
    <3>1. Said(told \o OfSummary("ERROR"))
      BY <1>4, <1>8, <2>3
    <3>2. Said(news)
      BY <1>4, <1>8, <3>1
    <3>3. Reported(news)
      BY <1>8, <3>1, ToldTogether DEF Said
    <3> HIDE DEF news, told
    <3> QED
      BY <1>6, <2>1, <2>5, <3>2, <3>3
  <2> QED
    BY <2>2, <2>4, <2>5
<1>12. CASE GenerationAborts(a)
  <2>1. pc[a] \in Telling \ Holding /\ aborted[a]
    BY <1>12 DEF GenerationAborts, Telling, Asking, Holding
  <2>3. PICK news \in {<<>>, OfSummary("STARTED") \o OfSummary("PROGRESS")} : AbortsAfter(a, news)
    BY <1>12 DEF GenerationAborts
  <2>4. Said(news)
    BY <1>3, <1>4, <1>8
  <2>5. Throw(a) /\ Tell(a, news) /\ Rest /\ StoreUnchanged
    BY <2>3 DEF AbortsAfter
  <2> QED
    BY <1>6, <2>1, <2>4, <2>5
<1> QED
  BY <1>9, <1>10, <1>11, <1>12

LEMMA StepEffect ==
  ASSUME RequestInv, NEW a \in Asks, Step(a)
  PROVE  HasEffect(a) \/ Settle(a) \/ Repeat(a)
BY StoreStepsEffect, QuietStepsEffect, TellingStepsEffect, ThrowingStepsEffect DEF Step

-----------------------------------------------------------------------------
(* The types, and what each request has told.                              *)

\* The steps that are of no running request.
Aside == (\E a \in Asks : WriteLands(a)) \/ (\E q \in Questions : Expire(q))

LEMMA AsideLeaves ==
  ASSUME RequestInv, Aside \/ UNCHANGED vars
  PROVE  /\ UNCHANGED <<short, progress, aborted, stored, unified, sent, misread, accidents>>
         /\ writes' \subseteq Asks /\ cache' \subseteq Questions
BY AskAssumption DEF Aside, WriteLands, Expire, vars, RequestInv, TypeOK

LEMMA NextCases ==
  ASSUME RequestInv, [Next]_vars
  PROVE  \/ \E a \in Asks : Begin(a) \/ Cancel(a) \/ Settle(a) \/ Repeat(a) \/ Recover(a)
         \/ \E a \in Asks : HasEffect(a)
         \/ Crash \/ Aside \/ UNCHANGED vars
BY StepEffect DEF Next, Aside

LEMMA RequestInit ==
  ASSUME Init
  PROVE  RequestInv
BY NothingIsTold
   DEF Init, RequestInv, TypeOK, TellOf, AttemptOf, Pcs, Ended, Asking, Leaving, Unclosed,
       Telling, Concluded, MaxAttempts

\* A step that moves one request and says nothing of it.
LEMMA OneMoves ==
  ASSUME RequestInv, NEW a \in Asks, NEW to \in Pcs, NEW n \in 0..MaxAttempts,
         pc' = [pc EXCEPT ![a] = to], attempt' = [attempt EXCEPT ![a] = n],
         UNCHANGED <<short, crashes, stored, cache, writes, accidents, unified>>,
         aborted' \in [Asks -> BOOLEAN], stalls' \in [Asks -> Nat],
         sent' \in [Asks -> Seq(Notifications)], misread' \subseteq Asks,
         \A b \in Asks \ {a} : /\ sent'[b] = sent[b] /\ aborted'[b] = aborted[b]
                               /\ stalls'[b] = stalls[b] /\ (b \in misread <=> b \in misread'),
         TellOf(to, sent'[a], Excused(a)'), AttemptOf(to, n)
  PROVE  RequestInv'
<1>1. TypeOK'
  BY DEF RequestInv, TypeOK
<1>2. ASSUME NEW b \in Asks
      PROVE  TellOf(pc[b], sent[b], Excused(b))' /\ AttemptOf(pc[b], attempt[b])'
  <2>1. CASE b = a
    <3>1. pc'[b] = to /\ attempt'[b] = n
      BY <2>1 DEF RequestInv, TypeOK
    <3> QED
      BY <2>1, <3>1 DEF TellOf, AttemptOf
  <2>2. CASE b # a
    <3>1. /\ pc'[b] = pc[b] /\ attempt'[b] = attempt[b]
          /\ sent'[b] = sent[b] /\ (Excused(b)' <=> Excused(b))
      BY <2>2 DEF RequestInv, TypeOK, Excused
    <3>2. TellOf(pc[b], sent[b], Excused(b)) /\ AttemptOf(pc[b], attempt[b])
      BY DEF RequestInv
    <3> QED
      BY <3>1, <3>2 DEF TellOf, AttemptOf
  <2> QED
    BY <2>1, <2>2
<1> QED
  BY <1>1, <1>2 DEF RequestInv

LEMMA RequestStep ==
  ASSUME RequestInv, [Next]_vars
  PROVE  RequestInv'
<1>1. ASSUME NEW a \in Asks
      PROVE  /\ TellOf(pc[a], sent[a], Excused(a)) /\ AttemptOf(pc[a], attempt[a])
             /\ attempt[a] \in 0..MaxAttempts /\ pc[a] \in Pcs
             /\ attempt = [attempt EXCEPT ![a] = attempt[a]]
             /\ sent[a] \in Seq(Notifications)
  BY DEF RequestInv, TypeOK
<1>2. TypeOK
  BY DEF RequestInv
<1>3. ASSUME NEW a \in Asks, Begin(a)
      PROVE  RequestInv'
  <2>1. /\ pc[a] \in {"idle", "retry"} /\ pc' = [pc EXCEPT ![a] = "opening"]
        /\ attempt' = [attempt EXCEPT ![a] = attempt[a] + 1]
        /\ UNCHANGED <<short, stalls, crashes, aborted, stored, cache, writes, accidents,
                       unified, sent, misread>>
    BY <1>3 DEF Begin, StoreUnchanged
  <2>2. attempt[a] + 1 \in 0..MaxAttempts /\ attempt[a] + 1 > 0
    BY <1>1, <2>1 DEF AttemptOf, MaxAttempts
  <2>3. "opening" \in Pcs /\ AttemptOf("opening", attempt[a] + 1)
    BY <2>2 DEF Pcs, Asking, AttemptOf
  <2>4. TellOf("opening", sent[a], Excused(a))
    BY <1>1, <2>1 DEF TellOf, Unclosed, Telling, Asking, Concluded
  <2>5. TellOf("opening", sent'[a], Excused(a)')
    BY <2>1, <2>4 DEF Excused, TellOf
  <2>6. /\ aborted' \in [Asks -> BOOLEAN] /\ stalls' \in [Asks -> Nat]
        /\ sent' \in [Asks -> Seq(Notifications)] /\ misread' \subseteq Asks
    BY <1>2, <2>1 DEF TypeOK
  <2> QED
    BY <2>1, <2>2, <2>3, <2>5, <2>6, OneMoves
<1>4. ASSUME NEW a \in Asks, Cancel(a)
      PROVE  RequestInv'
  <2>1. /\ aborted' = [aborted EXCEPT ![a] = TRUE] /\ UNCHANGED <<pc, attempt, stalls>>
        /\ UNCHANGED <<short, crashes, stored, cache, writes, accidents, unified, sent, misread>>
    BY <1>4 DEF Cancel, StoreUnchanged, progress
  <2>2. TypeOK'
    BY <1>2, <2>1 DEF TypeOK
  <2>3. ASSUME NEW b \in Asks
        PROVE  TellOf(pc[b], sent[b], Excused(b))' /\ AttemptOf(pc[b], attempt[b])'
    <3>1. Excused(b) => Excused(b)'
      BY <1>2, <2>1 DEF TypeOK, Excused
    <3> QED
      BY <1>1, <2>1, <3>1 DEF TellOf, AttemptOf
  <2> QED
    BY <2>2, <2>3 DEF RequestInv
<1>5. ASSUME NEW a \in Asks, Settle(a)
      PROVE  RequestInv'
  <2>1. /\ UNCHANGED <<short, attempt, stalls, crashes, stored, cache, writes, accidents,
                       unified, sent, misread>>
        /\ aborted' \in [Asks -> BOOLEAN]
        /\ \A b \in Asks \ {a} : aborted'[b] = aborted[b]
    BY <1>2, <1>5 DEF Settle, StoreUnchanged, TypeOK
  <2>2. /\ stalls' \in [Asks -> Nat]
        /\ sent' \in [Asks -> Seq(Notifications)] /\ misread' \subseteq Asks
    BY <1>2, <2>1 DEF TypeOK
  <2>3. PICK to \in {"done", "failed"} :
           /\ pc' = [pc EXCEPT ![a] = to]
           /\ to = "done" => pc[a] \in {"returning", "nothing"}
           /\ to = "failed" => pc[a] = "throwing" /\ UNCHANGED aborted
    BY <1>5 DEF Settle, Move
  <2>4. to \in Pcs /\ AttemptOf(to, attempt[a])
    BY <2>3 DEF Pcs, Ended, AttemptOf, Asking, Leaving
  <2>5. TellOf(to, sent[a], Excused(a)')
    <3>1. CASE to = "done"
      BY <1>1, <2>3, <3>1 DEF TellOf, Unclosed, Telling, Asking, Concluded
    <3>2. CASE to = "failed"
      BY <1>1, <2>1, <2>3, <3>2 DEF TellOf, Unclosed, Telling, Asking, Concluded, Excused
    <3> QED
      BY <3>1, <3>2
  <2>6. TellOf(to, sent'[a], Excused(a)')
    BY <2>1, <2>5
  <2> QED
    BY <1>1, <2>1, <2>2, <2>3, <2>4, <2>6, OneMoves
<1>6. ASSUME NEW a \in Asks, Repeat(a)
      PROVE  RequestInv'
  <2>1. /\ pc' = [pc EXCEPT ![a] = "retry"] /\ attempt[a] < MaxAttempts
        /\ UNCHANGED <<short, attempt, stalls, crashes, stored, cache, writes, accidents, unified>>
        /\ aborted' = [b \in Asks |-> aborted[b] /\ b \notin {a}]
        /\ sent' = [b \in Asks |-> IF b \in {a} THEN <<>> ELSE sent[b]]
        /\ misread' = misread \ {a}
    BY <1>6 DEF Repeat, Move, Forget, StoreUnchanged
  <2>2. /\ aborted' \in [Asks -> BOOLEAN] /\ stalls' \in [Asks -> Nat]
        /\ sent' \in [Asks -> Seq(Notifications)] /\ misread' \subseteq Asks
    BY <1>1, <1>2, <2>1, NothingIsTold DEF TypeOK
  <2>3. /\ \A b \in Asks \ {a} : /\ sent'[b] = sent[b] /\ aborted'[b] = aborted[b]
                                 /\ (b \in misread <=> b \in misread')
        /\ sent'[a] = <<>>
    BY <1>2, <2>1 DEF TypeOK
  <2>4. "retry" \in Pcs /\ AttemptOf("retry", attempt[a])
    BY <2>1 DEF Pcs, AttemptOf, Asking, Leaving
  <2>5. TellOf("retry", sent'[a], Excused(a)')
    BY <2>3, NothingIsTold DEF TellOf, Concluded
  <2> QED
    BY <1>1, <2>1, <2>2, <2>3, <2>4, <2>5, OneMoves
<1>7. ASSUME NEW a \in Asks, Recover(a)
      PROVE  RequestInv'
  <2>1. /\ pc[a] = "stalled" /\ stalls' = [stalls EXCEPT ![a] = stalls[a] + 1]
        /\ UNCHANGED <<short, crashes, stored, cache, writes, accidents, aborted, unified,
                       sent, misread>>
    BY <1>7 DEF Recover, StoreUnchanged
  <2>2. stalls[a] \in Nat /\ stalls'[a] = stalls[a] + 1
    BY <1>2, <2>1 DEF TypeOK
  <2>3. /\ aborted' \in [Asks -> BOOLEAN] /\ stalls' \in [Asks -> Nat]
        /\ sent' \in [Asks -> Seq(Notifications)] /\ misread' \subseteq Asks
        /\ \A b \in Asks \ {a} : stalls'[b] = stalls[b]
    BY <1>2, <2>1, <2>2 DEF TypeOK
  <2>4. sent[a] \in Seq(Notifications) /\ OnceClosed(sent[a]) /\ ~Closed(sent[a])
    BY <1>1, <2>1 DEF TellOf, Unclosed
  <2>5. CASE stalls[a] < MaxStalledCount
    <3>1. /\ pc' = [pc EXCEPT ![a] = "retry"]
          /\ attempt' = [attempt EXCEPT ![a] = attempt[a] - 1]
      BY <1>7, <2>5 DEF Recover
    <3>2. attempt[a] - 1 \in 0..MaxAttempts /\ attempt[a] - 1 < MaxAttempts
      BY <1>1, <2>1 DEF AttemptOf, MaxAttempts
    <3>3. "retry" \in Pcs /\ AttemptOf("retry", attempt[a] - 1)
      BY <3>2 DEF Pcs, AttemptOf, Asking, Leaving
    <3>4. TellOf("retry", sent'[a], Excused(a)')
      BY <2>1, <2>4 DEF TellOf, Concluded
    <3> QED
      BY <2>1, <2>3, <3>1, <3>2, <3>3, <3>4, OneMoves
  <2>6. CASE ~(stalls[a] < MaxStalledCount)
    <3>1. pc' = [pc EXCEPT ![a] = "failed"] /\ UNCHANGED attempt
      BY <1>7, <2>6 DEF Recover
    <3>2. Excused(a)'
      BY <2>2, <2>6 DEF Excused, MaxStalledCount
    <3>3. "failed" \in Pcs /\ AttemptOf("failed", attempt[a])
      BY DEF Pcs, Ended, AttemptOf, Asking, Leaving
    <3>4. TellOf("failed", sent'[a], Excused(a)')
      BY <2>1, <2>4, <3>2 DEF TellOf, Concluded, Unclosed, Telling, Asking
    <3> QED
      BY <1>1, <2>1, <2>3, <3>1, <3>3, <3>4, OneMoves
  <2> QED
    BY <2>5, <2>6
<1>8. ASSUME NEW a \in Asks, HasEffect(a)
      PROVE  RequestInv'
  <2>1. PICK to, told : Effect(a, to, told)
    BY <1>8 DEF HasEffect
  <2>2. /\ pc[a] \in Asking /\ to \in Asking \cup Leaving /\ told \in Seq(Notifications)
        /\ pc' = [pc EXCEPT ![a] = to] /\ sent' = [sent EXCEPT ![a] = told]
        /\ UNCHANGED <<short, attempt, stalls, crashes, aborted, unified, cache>>
        /\ misread \subseteq misread' /\ misread' \subseteq misread \cup {a}
        /\ TellOf(to, told, aborted[a] \/ a \in misread')
        /\ writes' \subseteq Asks
    BY <2>1 DEF Effect, TellOf
  <2>3. stored' \in [Asks -> Nat] /\ accidents' \in [Asks -> Nat]
    <3>1. stored \in [Asks -> Nat] /\ accidents \in [Asks -> Nat]
      BY <1>2 DEF TypeOK
    <3>2. stored[a] + 1 \in Nat /\ accidents[a] + 1 \in Nat
      BY <3>1
    <3>3. /\ stored' = stored \/ stored' = [stored EXCEPT ![a] = stored[a] + 1]
          /\ \/ accidents' = accidents
             \/ accidents' = [accidents EXCEPT ![a] = accidents[a] + 1]
      BY <2>1 DEF Effect, Keeps, StoresAnswer
    <3> QED
      BY <3>1, <3>2, <3>3
  <2>4. to \in Pcs
    BY <2>2, Places
  <2>5. TypeOK'
    BY <1>2, <2>2, <2>3, <2>4 DEF TypeOK
  <2>6. ASSUME NEW b \in Asks
        PROVE  TellOf(pc[b], sent[b], Excused(b))' /\ AttemptOf(pc[b], attempt[b])'
    <3>1. CASE b = a
      <4>1. pc'[b] = to /\ sent'[b] = told /\ attempt'[b] = attempt[b]
        BY <1>2, <2>2, <3>1 DEF TypeOK
      <4>2. TellOf(to, told, Excused(a)')
        BY <2>2 DEF TellOf, Excused
      <4>3. AttemptOf(to, attempt[a])
        BY <1>1, <2>2, Places DEF AttemptOf, Asking, Leaving
      <4> QED
        BY <3>1, <4>1, <4>2, <4>3 DEF TellOf, AttemptOf
    <3>2. CASE b # a
      <4>1. /\ pc'[b] = pc[b] /\ sent'[b] = sent[b] /\ attempt'[b] = attempt[b]
            /\ Excused(b)' <=> Excused(b)
        BY <1>2, <2>2, <3>2 DEF TypeOK, Excused
      <4> QED
        BY <1>1, <4>1 DEF TellOf, AttemptOf
    <3> QED
      BY <3>1, <3>2
  <2> QED
    BY <2>5, <2>6 DEF RequestInv
<1>9. CASE Crash
  <2>1. /\ UNCHANGED <<short, attempt, stalls, stored, cache, writes, unified>>
        /\ crashes' = crashes + 1
        /\ aborted' = [a \in Asks |-> aborted[a] /\ a \notin Running]
        /\ sent' = [a \in Asks |-> IF a \in Running THEN <<>> ELSE sent[a]]
        /\ misread' = misread \ Running
        /\ accidents' = [a \in Asks |-> accidents[a] + (IF HasStored(a) THEN 1 ELSE 0)]
        /\ pc' = [a \in Asks |-> IF a \notin Running THEN pc[a]
                                 ELSE IF IsStreaming[a] THEN "lost" ELSE "stalled"]
    BY <1>9 DEF Crash, Forget
  <2>2. ASSUME NEW a \in Asks
        PROVE  accidents[a] + (IF HasStored(a) THEN 1 ELSE 0) \in Nat
    BY <1>2 DEF TypeOK
  <2>3. ASSUME NEW a \in Asks
        PROVE  /\ pc'[a] \in Pcs /\ sent'[a] \in Seq(Notifications)
               /\ aborted'[a] \in BOOLEAN
    BY <1>1, <1>2, <2>1, NothingIsTold DEF TypeOK, Pcs, Ended
  <2>4. TypeOK'
    <3>1. /\ pc' \in [Asks -> Pcs] /\ sent' \in [Asks -> Seq(Notifications)]
          /\ aborted' \in [Asks -> BOOLEAN]
      BY <2>1, <2>3
    <3>2. accidents' \in [Asks -> Nat]
      BY <2>1, <2>2
    <3> QED
      BY <1>2, <2>1, <3>1, <3>2 DEF TypeOK
  <2>5. ASSUME NEW a \in Asks
        PROVE  TellOf(pc[a], sent[a], Excused(a))' /\ AttemptOf(pc[a], attempt[a])'
    <3>1. CASE a \in Running
      <4>1. /\ sent'[a] = <<>> /\ pc'[a] \in {"lost", "stalled"}
            /\ attempt'[a] = attempt[a] /\ attempt[a] > 0
        BY <1>1, <2>1, <3>1 DEF Running, AttemptOf
      <4> QED
        BY <4>1, NothingIsTold
        DEF TellOf, AttemptOf, Concluded, Asking, Leaving
    <3>2. CASE a \notin Running
      <4>1. /\ sent'[a] = sent[a] /\ pc'[a] = pc[a] /\ attempt'[a] = attempt[a]
            /\ Excused(a) => Excused(a)'
        BY <1>2, <2>1, <3>2 DEF Excused, TypeOK
      <4> QED
        BY <1>1, <4>1 DEF TellOf, AttemptOf
    <3> QED
      BY <3>1, <3>2
  <2> QED
    BY <2>4, <2>5 DEF RequestInv
<1>10. CASE Aside \/ UNCHANGED vars
  <2>1. /\ UNCHANGED <<short, pc, attempt, stalls, crashes, aborted, stored, unified, sent,
                       misread, accidents>>
        /\ writes' \subseteq Asks /\ cache' \subseteq Questions
    BY <1>10, AsideLeaves DEF progress
  <2>2. TypeOK'
    BY <1>2, <2>1 DEF TypeOK
  <2>3. ASSUME NEW b \in Asks
        PROVE  TellOf(pc[b], sent[b], Excused(b))' /\ AttemptOf(pc[b], attempt[b])'
    BY <1>1, <2>1 DEF TellOf, AttemptOf, Excused
  <2> QED
    BY <2>2, <2>3 DEF RequestInv
<1> QED
  BY <1>3, <1>4, <1>5, <1>6, <1>7, <1>8, <1>9, <1>10, NextCases

LEMMA RequestInvariant == Spec => []RequestInv
<1>1. Init => RequestInv
  BY RequestInit
<1>2. RequestInv /\ [Next]_vars => RequestInv'
  BY RequestStep
<1> QED
  BY <1>1, <1>2, PTL DEF Spec

\* The types of the pipeline's variables.
THEOREM AskTypeCorrect == Spec => []TypeOK
<1>1. RequestInv => TypeOK
  BY DEF RequestInv
<1> QED
  BY <1>1, RequestInvariant, PTL

\* In an attempt the user is told an answer at most once, and after it nothing
\* but an error, whichever way the attempt takes through the cache, retrieval,
\* generation and the summary, and wherever it fails.
THEOREM ToldAtMostOnce == Spec => []CompletedOnce
<1>1. ASSUME RequestInv PROVE CompletedOnce
  <2>1. \A a \in Asks : OnceClosed(sent[a]) /\ DOMAIN sent[a] = 1..Len(sent[a])
    BY <1>1 DEF RequestInv, TypeOK, TellOf
  <2> QED
    BY <2>1 DEF OnceClosed, CompletedOnce, Errors
<1> QED
  BY <1>1, RequestInvariant, PTL

\* A request that ends well told the user an answer, and one that ends in an
\* error told one, reported the error, ended in what passes for an abort, or had
\* its worker die too often.
THEOREM EndsAreTold == Spec => []EndIsTold
<1>1. ASSUME RequestInv PROVE EndIsTold
  <2>1. ASSUME NEW a \in Asks
        PROVE  /\ pc[a] = "done" => Closed(sent[a])
               /\ pc[a] = "failed" => Closed(sent[a]) \/ Reported(sent[a]) \/ Excused(a)
               /\ DOMAIN sent[a] = 1..Len(sent[a])
    BY <1>1 DEF RequestInv, TypeOK, TellOf, Concluded
  <2> QED
    BY <2>1 DEF EndIsTold, Closed, Reported, Errors, Excused
<1> QED
  BY <1>1, RequestInvariant, PTL

-----------------------------------------------------------------------------
(* The answers in the session.                                             *)

LEMMA AnswerStep ==
  ASSUME RequestInv, AnswerInv, [Next]_vars
  PROVE  AnswerInv'
<1>1. ASSUME NEW a \in Asks
      PROVE  /\ stored[a] \in Nat /\ accidents[a] \in Nat
             /\ stored[a] <= accidents[a] + 1
             /\ pc[a] \notin Holding \cup {"done"} => stored[a] <= accidents[a]
  BY DEF RequestInv, TypeOK, AnswerInv
<1>2. ASSUME UNCHANGED <<stored, accidents>>,
             \A b \in Asks : pc[b] \in Holding \cup {"done"} => pc'[b] \in Holding \cup {"done"}
      PROVE  AnswerInv'
  BY <1>1, <1>2 DEF AnswerInv
<1>3. pc \in [Asks -> Pcs]
  BY DEF RequestInv, TypeOK
<1>4. ASSUME NEW a \in Asks, Begin(a) \/ Cancel(a) \/ Settle(a) \/ Repeat(a) \/ Recover(a)
      PROVE  AnswerInv'
  <2>1. UNCHANGED <<stored, accidents>>
    BY <1>4 DEF Begin, Cancel, Settle, Repeat, Recover, StoreUnchanged
  <2>2. \/ pc' = pc
        \/ \E to : /\ pc' = [pc EXCEPT ![a] = to]
                   /\ pc[a] \in Holding \cup {"done"} => to \in Holding \cup {"done"}
    BY <1>4 DEF Begin, Cancel, Settle, Repeat, Recover, Move, progress, Holding
  <2> QED
    BY <1>2, <1>3, <2>1, <2>2
<1>5. ASSUME NEW a \in Asks, HasEffect(a)
      PROVE  AnswerInv'
  <2>1. PICK to, told : Effect(a, to, told)
    BY <1>5 DEF HasEffect
  <2>2. /\ pc[a] \in Asking /\ pc' = [pc EXCEPT ![a] = to] /\ Keeps(a, to)
        /\ pc[a] # "done"
    BY <2>1, Places DEF Effect, Ended
  <2>3. CASE UNCHANGED <<stored, accidents>> /\ (pc[a] \in Holding <=> to \in Holding)
    BY <1>2, <1>3, <2>2, <2>3
  <2>4. CASE /\ StoresAnswer(a) /\ UNCHANGED accidents
             /\ pc[a] \notin Holding /\ to \in Holding
    <3>1. stored' = [stored EXCEPT ![a] = stored[a] + 1]
      BY <2>4 DEF StoresAnswer
    <3> QED
      BY <1>1, <1>3, <2>2, <2>4, <3>1 DEF AnswerInv, RequestInv, TypeOK
  <2>5. CASE /\ StoresAnswer(a) /\ accidents' = [accidents EXCEPT ![a] = accidents[a] + 1]
             /\ pc[a] \notin Holding /\ to \notin Holding
    <3>1. stored' = [stored EXCEPT ![a] = stored[a] + 1]
      BY <2>5 DEF StoresAnswer
    <3> QED
      BY <1>1, <1>3, <2>2, <2>5, <3>1 DEF AnswerInv, RequestInv, TypeOK
  <2> QED
    BY <2>2, <2>3, <2>4, <2>5 DEF Keeps
<1>6. CASE Crash
  <2>1. /\ stored' = stored
        /\ \A a \in Asks : /\ HasStored(a) => accidents'[a] = accidents[a] + 1
                           /\ ~HasStored(a) => accidents'[a] = accidents[a]
                           /\ a \notin Running => pc'[a] = pc[a]
                           /\ a \in Running => pc'[a] \notin Holding \cup {"done"}
    <3>1. accidents \in [Asks -> Nat]
      BY <1>2 DEF RequestInv, TypeOK
    <3>2. /\ stored' = stored
          /\ accidents' = [a \in Asks |-> accidents[a] + (IF HasStored(a) THEN 1 ELSE 0)]
          /\ pc' = [a \in Asks |-> IF a \notin Running THEN pc[a]
                                  ELSE IF IsStreaming[a] THEN "lost" ELSE "stalled"]
      BY <1>6 DEF Crash
    <3>3. ASSUME NEW a \in Asks
          PROVE  /\ HasStored(a) => accidents'[a] = accidents[a] + 1
                 /\ ~HasStored(a) => accidents'[a] = accidents[a]
      <4>1. accidents[a] \in Nat /\ accidents'[a] = accidents[a] + (IF HasStored(a) THEN 1 ELSE 0)
        BY <3>1, <3>2
      <4>2. CASE HasStored(a)
        BY <4>1, <4>2
      <4>3. CASE ~HasStored(a)
        BY <4>1, <4>3
      <4> QED
        BY <4>2, <4>3
    <3>4. ASSUME NEW a \in Asks
          PROVE  /\ a \notin Running => pc'[a] = pc[a]
                 /\ a \in Running => pc'[a] \notin Holding \cup {"done"}
      BY <3>2 DEF Holding
    <3> QED
      BY <3>2, <3>3, <3>4
  <2>2. \A a \in Asks : HasStored(a) <=> pc[a] \in Holding
    BY DEF HasStored, Holding
  <2>3. \A a \in Running : pc[a] # "done"
    BY DEF Running, Asking, Leaving
  <2>4. \A a \in Asks : pc[a] \in Holding => a \in Running
    BY DEF Running, Holding, Asking, Leaving
  <2> QED
    BY <1>1, <2>1, <2>2, <2>3, <2>4 DEF AnswerInv
<1>7. CASE Aside \/ UNCHANGED vars
  <2>1. UNCHANGED <<stored, accidents, pc>>
    BY <1>7, AsideLeaves DEF progress
  <2> QED
    BY <1>2, <2>1
<1> QED
  BY <1>4, <1>5, <1>6, <1>7, NextCases

\* A request leaves one answer in the session, and one more for each time it
\* was lost that it had stored one, however often it is run.
THEOREM OneAnswerStored == Spec => []AnswerStoredOnce
<1>1. Init => AnswerInv
  BY DEF Init, AnswerInv
<1>2. RequestInv /\ AnswerInv /\ [Next]_vars => AnswerInv'
  BY AnswerStep
<1>3. RequestInv /\ AnswerInv => AnswerStoredOnce
  BY DEF AnswerInv, AnswerStoredOnce, RequestInv, TypeOK
<1> QED
  BY <1>1, <1>2, <1>3, RequestInvariant, PTL DEF Spec
=============================================================================
