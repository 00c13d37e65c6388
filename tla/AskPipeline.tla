----------------------------- MODULE AskPipeline -----------------------------
(***************************************************************************)
(* AskService.ask(): requests of one user in one conversation, which share *)
(* the ASK session and the answer cache.  A streaming ask runs at once and *)
(* once; the other kind is a job of ai-job with two attempts, which BullMQ *)
(* runs again when the process is killed under it.                         *)
(*                                                                         *)
(* A step ends at an await whose outcome matters.  Of an answer only that  *)
(* it is there is kept: an apology, or one cut off, is an answer like any  *)
(* other.  Retrieval and the model are external.  Opening the session is   *)
(* the atomic step that AskSession promises, and what its messages look    *)
(* like is SessionMessages'.  The user is told through                     *)
(* InternalClientService, in one of two dialects; no caller turns that     *)
(* off.  What an agent request, or executeTool() around ask(), tells of    *)
(* its own is BotRequests'.                                                *)
(***************************************************************************)
EXTENDS Integers, FiniteSets, SequencesExt

CONSTANTS
    Asks,        \* requests
    Questions,   \* normalised question texts, the keys of the answer cache
    QuestionOf,  \* the question of a request
    IsStreaming, \* whether a request is streaming
    MaxCrashes   \* bound: how often the process is killed

ASSUME AskAssumption ==
    /\ QuestionOf \in [Asks -> Questions]
    /\ IsStreaming \in [Asks -> BOOLEAN]
    /\ MaxCrashes \in Nat

VARIABLES
    short,      \* questions of less than three letters: chosen by Init, never changed
    pc,         \* where each request is
    attempt,    \* how many attempts a request has begun, those killed not counted
    stalls,     \* how often a request's job was recovered from a dead worker
    crashes,    \* how often the process was killed
    aborted,    \* whether the request's signal was aborted
    stored,     \* how many answers of a request the ASK session has
    cache,      \* ask:cache, the questions that have an answer in it
    writes,     \* requests whose cache write was sent and has not been answered
    unified,    \* AI_UNIFIED_STREAM_ENABLED
    sent,       \* what a request's attempt has told the user
    misread,    \* history: requests an error of whose attempt was taken for a cancel
    accidents   \* history: how often a request had its answer stored and did not
                \* know it: the process was killed, or the database's reply was lost

progress == <<pc, attempt, stalls, crashes>>
vars == <<short, progress, aborted, stored, cache, writes, unified, sent,
          misread, accidents>>

\* AIUnifiedResponseEvents, and what they are called in the old dialect; every
\* notification names the type of what it answers, "ask" or "summary" here.
Events == {"STARTED", "PROGRESS", "THOUGHT", "DELTA", "COMPLETED", "ERROR"}
LegacyEvents == {"stream-start", "stream-chunk", "stream-done", "stream-error", "summary"}
Notifications == [event : Events \cup LegacyEvents, type : {"ask", "summary"}]

\* A stream whose process is killed is "lost"; a job is "stalled".
Ended == {"done", "failed", "lost"}
Asking ==
    {"opening", "question", "lookup", "replay", "replayed", "retrieve", "stream",
     "streaming", "fallback", "generate", "widen", "regenerate", "summarize", "complete",
     "store", "sync"}
\* ask() is over, the job is not; "returning" has stored an answer, "nothing" none.
Leaving == {"returning", "nothing", "throwing"}
Pcs == Ended \cup Asking \cup Leaving \cup {"idle", "retry", "stalled"}

\* attempts: 2, and BullMQ's default maxStalledCount.
MaxAttempts == 2
MaxStalledCount == 1

TypeOK ==
    /\ short \subseteq Questions
    /\ pc \in [Asks -> Pcs]
    /\ attempt \in [Asks -> 0..MaxAttempts]
    /\ stalls \in [Asks -> Nat]
    /\ crashes \in Nat
    /\ aborted \in [Asks -> BOOLEAN]
    /\ stored \in [Asks -> Nat]
    /\ cache \subseteq Questions
    /\ writes \subseteq Asks
    /\ unified \in BOOLEAN
    /\ sent \in [Asks -> Seq(Notifications)]
    /\ misread \subseteq Asks
    /\ accidents \in [Asks -> Nat]

Init ==
    /\ short \in SUBSET Questions
    /\ pc = [a \in Asks |-> "idle"]
    /\ attempt = [a \in Asks |-> 0]
    /\ stalls = [a \in Asks |-> 0]
    /\ crashes = 0
    /\ aborted = [a \in Asks |-> FALSE]
    /\ stored = [a \in Asks |-> 0]
    /\ cache = {} /\ writes = {}
    /\ unified \in BOOLEAN
    /\ sent = [a \in Asks |-> <<>>]
    /\ misread = {}
    /\ accidents = [a \in Asks |-> 0]

-----------------------------------------------------------------------------
(* Pieces of steps.                                                        *)

Move(a, from, to) == pc[a] = from /\ pc' = [pc EXCEPT ![a] = to]

StoresAnswer(a) == stored' = [stored EXCEPT ![a] = @ + 1]

\* What failed has left no answer in the session, or has and nobody knows.
MayHaveStored(a) ==
    \/ UNCHANGED <<stored, accidents>>
    \/ StoresAnswer(a) /\ accidents' = [accidents EXCEPT ![a] = @ + 1]

\* mapUnifiedToLegacyNotification()
Legacy(event, type) ==
    [STARTED   |-> "stream-start",
     PROGRESS  |-> "stream-chunk", THOUGHT |-> "stream-chunk", DELTA |-> "stream-chunk",
     COMPLETED |-> IF type = "summary" THEN "summary" ELSE "stream-done",
     ERROR     |-> "stream-error"][event]

\* notifyUnifiedResponse()
Notification(event, type) ==
    [event |-> IF unified THEN event ELSE Legacy(event, type), type |-> type]

OfAsk(event) == <<Notification(event, "ask")>>
OfSummary(event) == <<Notification(event, "summary")>>

IsPiece(n) == n.event \in {"PROGRESS", "THOUGHT", "DELTA", "stream-chunk"}

\* Of pieces in a row the first is kept; no news has two in a row.
Noted(told, news) ==
    IF told # <<>> /\ news # <<>> /\ IsPiece(Last(told)) /\ IsPiece(Head(news))
    THEN told \o Tail(news) ELSE told \o news

\* notify() swallows its errors, so that telling never changes the course.
Tell(a, news) == sent' = [sent EXCEPT ![a] = Noted(sent[a], news)]

Throw(a) == pc' = [pc EXCEPT ![a] = "throwing"]

Frame == UNCHANGED <<short, attempt, stalls, crashes, aborted, unified>>
Rest == Frame /\ UNCHANGED misread
StoreUnchanged == UNCHANGED <<stored, cache, writes, accidents>>

\* Mutated: the catch block does not report anything.
CatchSilently(a, news) ==
    /\ Throw(a)
    /\ Tell(a, news)
    /\ Rest /\ UNCHANGED <<cache, writes>>

\* The catch block reports an error, except one that reads like an abort.
Catch(a, news) ==
    /\ Throw(a)
    /\ \/ Tell(a, news \o OfAsk("ERROR")) /\ UNCHANGED misread
       \/ Tell(a, news) /\ misread' = misread \cup {a}
    /\ Frame /\ UNCHANGED <<cache, writes>>

FailsAfter(a, news) == Catch(a, news) /\ UNCHANGED <<stored, accidents>>

Fails(a) == FailsAfter(a, <<>>)

\* ... and passes an abort on in silence.
AbortsAfter(a, news) ==
    /\ Throw(a)
    /\ Tell(a, news)
    /\ Rest /\ StoreUnchanged

-----------------------------------------------------------------------------
\* An attempt begins: the gateway calls the tool, or the worker takes the job.
Begin(a) ==
    /\ pc[a] \in {"idle", "retry"}
    /\ pc' = [pc EXCEPT ![a] = "opening"]
    /\ attempt' = [attempt EXCEPT ![a] = @ + 1]
    /\ StoreUnchanged /\ UNCHANGED <<short, stalls, crashes, aborted, unified, sent, misread>>

Cancel(a) ==
    /\ pc[a] \in Asking
    /\ aborted' = [aborted EXCEPT ![a] = TRUE]
    /\ StoreUnchanged /\ UNCHANGED <<short, progress, unified, sent, misread>>

IsShort(a) == QuestionOf[a] \in short

TooShort(a) ==
    /\ Move(a, "opening", "nothing")
    /\ IsShort(a)
    /\ Tell(a, OfAsk("STARTED") \o OfAsk("COMPLETED"))
    /\ Rest /\ StoreUnchanged

\* Access, session, STARTED, history, stale state.
Open(a) ==
    /\ Move(a, "opening", "question")
    /\ ~IsShort(a)
    /\ Tell(a, OfAsk("STARTED"))
    /\ Rest /\ StoreUnchanged

StoreQuestion(a) ==
    /\ Move(a, "question", "lookup")
    /\ Rest /\ StoreUnchanged /\ UNCHANGED sent

OpeningFails(a) ==
    /\ ~IsShort(a)
    /\ \/ pc[a] \in {"opening", "question"} /\ Fails(a)
       \/ pc[a] = "opening" /\ FailsAfter(a, OfAsk("STARTED"))

-----------------------------------------------------------------------------
(* The answer cache.  Every error in its block is logged and the question  *)
(* is answered afresh.                                                     *)

LookupHits(a) ==
    /\ QuestionOf[a] \in cache
    /\ Move(a, "lookup", "replay")
    /\ Rest /\ StoreUnchanged /\ UNCHANGED sent

LookupMisses(a) ==  \* or Redis fails
    /\ Move(a, "lookup", "retrieve")
    /\ Rest /\ StoreUnchanged /\ UNCHANGED sent

\* Mutated: the user is told before the replayed answer is stored.
ReplayTellsFirst(a) ==
    /\ pc[a] = "replay"
    /\ Tell(a, OfAsk("COMPLETED"))
    /\ \/ Move(a, "replay", "returning") /\ StoresAnswer(a)
       \/ Move(a, "replay", "retrieve") /\ UNCHANGED stored
    /\ Rest /\ UNCHANGED <<cache, writes, accidents>>

\* The message is stored and the marker synchronised before the user is told.
Replay(a) ==
    /\ Move(a, "replay", "replayed")
    /\ StoresAnswer(a)
    /\ Rest /\ UNCHANGED <<cache, writes, sent, accidents>>

TellReplayed(a) ==
    /\ Move(a, "replayed", "returning")
    /\ Tell(a, OfAsk("COMPLETED"))
    /\ Rest /\ StoreUnchanged

\* Mutated: the cache is asked again.
ReplayRetries(a) ==
    /\ Move(a, "replay", "lookup")
    /\ Rest /\ StoreUnchanged /\ UNCHANGED sent

ReplayFails(a) ==
    /\ Move(a, "replay", "retrieve")
    /\ MayHaveStored(a)
    /\ Rest /\ UNCHANGED <<cache, writes, sent>>

-----------------------------------------------------------------------------
(* Retrieval and generation.                                               *)

\* Nothing was found: told to the user, not stored in the session.
RetrieveNothing(a) ==
    /\ Move(a, "retrieve", "nothing")
    /\ Tell(a, OfAsk("COMPLETED"))
    /\ Rest /\ StoreUnchanged

RetrieveSome(a) ==
    /\ Move(a, "retrieve", IF IsStreaming[a] THEN "stream" ELSE "generate")
    /\ Tell(a, IF IsStreaming[a] THEN OfAsk("PROGRESS") ELSE <<>>)
    /\ Rest /\ StoreUnchanged

RetrieveFails(a) ==
    \/ pc[a] = "retrieve" /\ Fails(a)
    \/ pc[a] = "widen" /\ FailsAfter(a, OfAsk("THOUGHT"))

\* A piece of the answer; a thought of the model is told and nothing else.
Chunk(a) ==
    /\ pc[a] \in {"stream", "streaming"} /\ ~aborted[a]
    /\ pc' = [pc EXCEPT ![a] = "streaming"]
    /\ Tell(a, OfAsk("DELTA"))
    /\ Rest /\ StoreUnchanged

StreamEnds(a) ==
    /\ pc[a] \in {"stream", "streaming"} /\ ~aborted[a]
    /\ pc' = [pc EXCEPT ![a] = "complete"]
    /\ Rest /\ StoreUnchanged /\ UNCHANGED sent

\* streamAnswer() catches everything, the abort too: what has been streamed
\* becomes the answer, and only when there is none it is generated at once.
StreamInterrupted(a) ==
    /\ Move(a, "stream", "fallback") \/ Move(a, "streaming", "complete")
    /\ Rest /\ StoreUnchanged /\ UNCHANGED sent

\* The fallback uses the same signal, and its failure is answered, not thrown.
FallbackAnswers(a) ==
    /\ Move(a, "fallback", "complete")
    /\ Rest /\ StoreUnchanged /\ UNCHANGED sent

\* Without streaming an insufficient answer is tried again with more context,
\* unless the request was aborted by then.
Generate(a) ==
    /\ ~aborted[a]
    /\ Move(a, "generate", "complete") \/ Move(a, "generate", "widen")
    /\ Rest /\ StoreUnchanged /\ UNCHANGED sent

WidenSome(a) ==
    /\ Move(a, "widen", "regenerate")
    /\ Tell(a, OfAsk("THOUGHT"))
    /\ Rest /\ StoreUnchanged

\* The answer is kept, or a summary asked for if the question wants one.
WidenNothing(a) ==
    /\ Move(a, "widen", "complete") \/ Move(a, "widen", "summarize")
    /\ Tell(a, OfAsk("THOUGHT"))
    /\ Rest /\ StoreUnchanged

Regenerate(a) ==
    /\ ~aborted[a]
    /\ Move(a, "regenerate", "complete") \/ Move(a, "regenerate", "summarize")
    /\ Rest /\ StoreUnchanged /\ UNCHANGED sent

\* summarize() stands in, and tells the user itself, under the same request.
Summarize(a) ==
    /\ Move(a, "summarize", "complete")
    /\ Tell(a, OfSummary("STARTED") \o OfSummary("PROGRESS") \o OfSummary("COMPLETED"))
    /\ Rest /\ StoreUnchanged

\* It fails before its own catch block, or in it, which reports the error too.
SummaryFails(a) ==
    /\ pc[a] = "summarize"
    /\ \E piece \in {<<>>, OfSummary("PROGRESS")} :
          LET told == OfSummary("STARTED") \o piece IN
          \/ FailsAfter(a, told)
          \/ /\ Throw(a)
             /\ Tell(a, told \o OfSummary("ERROR") \o OfAsk("ERROR"))
             /\ Rest /\ StoreUnchanged

GenerationFails(a) == pc[a] \in {"generate", "regenerate"} /\ Fails(a)

GenerationAborts(a) ==
    /\ aborted[a]
    /\ \/ pc[a] \in {"generate", "widen", "regenerate"} /\ AbortsAfter(a, <<>>)
       \/ /\ pc[a] = "summarize"
          /\ AbortsAfter(a, OfSummary("STARTED") \o OfSummary("PROGRESS"))

-----------------------------------------------------------------------------
(* The end: COMPLETED, the stored answer, the marker, the cache.           *)

Complete(a) ==
    /\ Move(a, "complete", "store")
    /\ Tell(a, OfAsk("COMPLETED"))
    /\ Rest /\ StoreUnchanged

StoreAnswer(a) ==
    /\ Move(a, "store", "sync")
    /\ StoresAnswer(a)
    /\ Rest /\ UNCHANGED <<cache, writes, sent, accidents>>

StoreFails(a) == pc[a] = "store" /\ Catch(a, <<>>) /\ MayHaveStored(a)

\* Mutated: an error of the marker leaves ask() like any other.
SyncThrows(a) == pc[a] = "sync" /\ Fails(a)

\* A failing marker is swallowed; the cache write is sent and not awaited.
Sync(a) ==
    /\ Move(a, "sync", "returning")
    /\ writes' = writes \cup {a}
    /\ Rest /\ UNCHANGED <<stored, cache, sent, accidents>>

WriteLands(a) ==
    /\ a \in writes /\ writes' = writes \ {a}
    /\ \/ cache' = cache \cup {QuestionOf[a]}
       \/ UNCHANGED cache  \* lost, and logged
    /\ UNCHANGED <<short, progress, aborted, stored, unified, sent, misread,
                   accidents>>

\* CACHE_TTL runs out.
Expire(q) ==
    /\ q \in cache /\ cache' = cache \ {q}
    /\ UNCHANGED <<short, progress, aborted, stored, writes, unified, sent,
                   misread, accidents>>

-----------------------------------------------------------------------------
(* The end of the attempt, and its loss.                                   *)

\* What the gateway, or BullMQ, makes of ask()'s end.  With a return the signal
\* is gone.
Settle(a) ==
    /\ \/ /\ Move(a, "returning", "done") \/ Move(a, "nothing", "done")
          /\ aborted' = [aborted EXCEPT ![a] = FALSE]
       \/ /\ Move(a, "throwing", "failed")
          /\ IsStreaming[a] \/ attempt[a] = MaxAttempts
          /\ UNCHANGED aborted
    /\ StoreUnchanged
    /\ UNCHANGED <<short, attempt, stalls, crashes, unified, sent, misread>>

\* What is kept of an attempt while it runs, and of the last one, goes when there
\* will be another, which has a signal of its own.
Forget(A) ==
    /\ aborted' = [a \in Asks |-> aborted[a] /\ a \notin A]
    /\ sent' = [a \in Asks |-> IF a \in A THEN <<>> ELSE sent[a]]
    /\ misread' = misread \ A

\* A job that threw has a second attempt.
Repeat(a) ==
    /\ Move(a, "throwing", "retry")
    /\ ~IsStreaming[a] /\ attempt[a] < MaxAttempts
    /\ Forget({a})
    /\ StoreUnchanged /\ UNCHANGED <<short, attempt, stalls, crashes, unified>>

\* The attempt that runs has its answer in the session.
HasStored(a) == pc[a] \in {"replayed", "sync", "returning"}

Running == {a \in Asks : pc[a] \in Asking \cup Leaving}

\* The process is killed with whatever runs in it.
Crash ==
    /\ crashes < MaxCrashes
    /\ crashes' = crashes + 1
    /\ pc' = [a \in Asks |-> IF a \notin Running THEN pc[a]
                            ELSE IF IsStreaming[a] THEN "lost" ELSE "stalled"]
    /\ accidents' = [a \in Asks |-> accidents[a] + (IF HasStored(a) THEN 1 ELSE 0)]
    /\ Forget(Running)
    /\ UNCHANGED <<short, attempt, stalls, stored, cache, writes, unified>>

\* A job whose worker died is run again, once, and the killed attempt does not
\* count.
Recover(a) ==
    /\ pc[a] = "stalled"
    /\ stalls' = [stalls EXCEPT ![a] = @ + 1]
    /\ IF stalls[a] < MaxStalledCount
       THEN /\ pc' = [pc EXCEPT ![a] = "retry"]
            /\ attempt' = [attempt EXCEPT ![a] = @ - 1]
       ELSE pc' = [pc EXCEPT ![a] = "failed"] /\ UNCHANGED attempt
    /\ StoreUnchanged
    /\ UNCHANGED <<short, crashes, aborted, unified, sent, misread>>

-----------------------------------------------------------------------------
Step(a) ==
    \/ TooShort(a) \/ Open(a) \/ StoreQuestion(a) \/ OpeningFails(a)
    \/ LookupHits(a) \/ LookupMisses(a)
    \/ Replay(a) \/ TellReplayed(a) \/ ReplayFails(a)
    \/ RetrieveNothing(a) \/ RetrieveSome(a) \/ RetrieveFails(a)
    \/ Chunk(a) \/ StreamEnds(a) \/ StreamInterrupted(a) \/ FallbackAnswers(a)
    \/ Generate(a) \/ WidenSome(a) \/ WidenNothing(a) \/ Regenerate(a)
    \/ Summarize(a) \/ SummaryFails(a) \/ GenerationFails(a) \/ GenerationAborts(a)
    \/ Complete(a) \/ StoreAnswer(a) \/ StoreFails(a) \/ Sync(a)
    \/ Settle(a) \/ Repeat(a)

Next ==
    \/ \E a \in Asks : Begin(a) \/ Cancel(a) \/ Step(a) \/ Recover(a) \/ WriteLands(a)
    \/ \E q \in Questions : Expire(q)
    \/ Crash

Spec == Init /\ [][Next]_vars

\* Every await settles, and BullMQ runs the second attempt and recovers jobs.
Retry(a) == pc[a] = "retry" /\ Begin(a)
FairSpec ==
    Spec /\ \A a \in Asks : WF_vars(Step(a)) /\ WF_vars(Retry(a)) /\ WF_vars(Recover(a))

-----------------------------------------------------------------------------
(* Properties.                                                             *)

\* What ends the client's stream of an ask.
Closes(n) == n.event = "stream-done" \/ n = [event |-> "COMPLETED", type |-> "ask"]

\* In an attempt the user is told an answer at most once, and after it nothing
\* but an error, whichever of the cache, the retrieval, the generation and the
\* summary that stands in for it the answer came from: errors of the cache's
\* block are swallowed and the question is answered afresh, and a summary
\* tells of its own end under the same request.
CompletedOnce ==
    \A a \in Asks : \A i, j \in DOMAIN sent[a] :
        i < j /\ Closes(sent[a][i]) => sent[a][j].event \in {"ERROR", "stream-error"}

\* A request leaves one answer in the session, across its attempts and across
\* replays, and one more for every time it had stored one and could not know: a
\* process killed before the job's end, or a lost reply of the database.  All
\* else that goes wrong behind the stored answer is swallowed and never brings
\* the request round again.
AnswerStoredOnce == \A a \in Asks : stored[a] <= 1 + accidents[a]

\* A request whose last attempt ends well told the user an answer; one that
\* ends in an error did so too, or reported the error of the ask, or ended in
\* an abort, or in an error that reads like one, or its worker died too often.
EndIsTold ==
    \A a \in Asks :
        LET answered == \E i \in DOMAIN sent[a] : Closes(sent[a][i])
            excused  == \/ a \in misread \/ aborted[a] \/ stalls[a] > MaxStalledCount
                        \/ \E i \in DOMAIN sent[a] :
                              /\ sent[a][i].event \in {"ERROR", "stream-error"}
                              /\ sent[a][i].type = "ask"
        IN /\ pc[a] = "done" => answered
           /\ pc[a] = "failed" => answered \/ excused

\* Every request ends: the swallowed errors of the cache, of the stream and
\* of the marker never send it round again, and attempts run out.
EveryAskEnds ==
    \A a \in Asks : pc[a] = "opening" ~> pc[a] \in Ended
=============================================================================
