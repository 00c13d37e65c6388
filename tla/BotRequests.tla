----------------------------- MODULE BotRequests -----------------------------
(***************************************************************************)
(* The life of a bot request: BotGatewayService (trigger and cancel), the  *)
(* BullMQ queue "ai-job", AgentProcessor, and the control flow of          *)
(* AgentService.executeTool and AgentService.runAgent, over the registry   *)
(* of AbortManager.                                                        *)
(*                                                                         *)
(* One Node process serves everything.  A step is what runs between two    *)
(* awaits.  A streaming ask runs next to the queue's worker; every other   *)
(* request is a job with two attempts, taken one at a time.  What a tool,  *)
(* the router or the graph computes is not modelled here, only how its     *)
(* call may end.                                                           *)
(***************************************************************************)
EXTENDS AbortManager, Sequences

CONSTANTS
    ConvOf,      \* the conversation of a request
    KindOf,      \* the trigger type of a request
    RetryDelay,  \* BullMQ's backoff before the second attempt, in ticks
    MaxCrashes   \* bound: how often the process is killed

ToolNames == {"translate", "ask", "summary"}

\* "askStream" is type ask with stream = true, the one the gateway runs itself.
Kinds == ToolNames \cup {"agent", "askStream"}

ASSUME RequestsAssumption ==
    /\ ConvOf \in [Requests -> Conversations]
    /\ KindOf \in [Requests -> Kinds]
    /\ RetryDelay \in Nat
    /\ MaxCrashes \in Nat

VARIABLES
    malformed, \* requests whose data is refused: chosen by Init, never changed
    run,      \* what the request's execution holds: pc, isRetry, signal, tool,
              \* and whether the tool at work has sent its STARTED
    job,      \* the BullMQ job: attemptsMade, stalls, backoff
    waiting,  \* the waiting list of ai-job, oldest first
    events,   \* how many STARTED were sent, by runAgent itself and by its tools
    reported, \* requests of which an ERROR was sent
    crashes,  \* how often the process was killed
    standing, \* history: cancelled requests whose cancel has not been lifted
    excused   \* history: requests some cancel was addressed to, or one of whose
              \* failures was taken for a cancel

jobVars == <<job, waiting, crashes>>
said == <<events, reported>>
history == <<standing, excused>>
vars == <<malformed, registryVars, run, jobVars, said, history>>

\* The places an execution can be at: in executeTool, or in runAgent.
RunPcs == {"tool", "route", "rewrite", "graph"}
Pcs == RunPcs \cup {"idle", "queued", "delayed", "stalled", "done", "failed", "lost"}

Executing(r) == run[r].pc \in RunPcs
Settled(r) == run[r].pc \in {"done", "failed", "lost"}
Queued(r) == KindOf[r] # "askStream"

\* attempts: 2, and BullMQ's default maxStalledCount.
MaxAttempts == 2
MaxStalledCount == 1

TypeOK ==
    /\ TypeOKRegistry
    /\ malformed \subseteq Requests
    /\ run \in [Requests -> [pc : Pcs, isRetry : BOOLEAN,
                             signal : {"none", "live", "aborted"},
                             tool : ToolNames \cup {"none"}, announced : BOOLEAN]]
    /\ job \in [Requests -> [attemptsMade : Nat, stalls : Nat, backoff : Nat]]
    /\ waiting \in Seq(Requests)
    /\ events \in [Requests -> [started : Nat, toolStarted : Nat]]
    /\ reported \subseteq Requests
    /\ crashes \in Nat
    /\ standing \subseteq Requests
    /\ excused \subseteq Requests

\* What a request may lack: an agent job its text, an ask a question of three
\* characters, a translation its language.  The DTO has checked the rest, which
\* is all a summary needs.
MayBeMalformed(r) == KindOf[r] # "summary"

Init ==
    /\ InitRegistry
    /\ malformed \in SUBSET {r \in Requests : MayBeMalformed(r)}
    /\ run = [r \in Requests |->
                 [pc |-> "idle", isRetry |-> FALSE, signal |-> "none", tool |-> "none",
                  announced |-> FALSE]]
    /\ job = [r \in Requests |-> [attemptsMade |-> 0, stalls |-> 0, backoff |-> 0]]
    /\ waiting = <<>>
    /\ events = [r \in Requests |-> [started |-> 0, toolStarted |-> 0]]
    /\ crashes = 0
    /\ reported = {} /\ standing = {} /\ excused = {}

-----------------------------------------------------------------------------
(* Pieces of steps.                                                        *)

At(r, pc) == run[r].pc = pc

Goto(r, pc) == run' = [run EXCEPT ![r].pc = pc]

\* The execution ends: whoever held the signal is gone.
EndAt(r, pc) ==
    run' = [run EXCEPT ![r] = [@ EXCEPT !.pc = pc, !.signal = "none", !.tool = "none",
                                        !.announced = FALSE]]

\* BullMQ on an attempt that threw, whatever it threw: again after the backoff
\* while attempts are left.  The gateway only logs a failed streaming ask.
AttemptThrows(r) ==
    IF ~Queued(r) THEN EndAt(r, "failed") /\ UNCHANGED job
    ELSE /\ job' = [job EXCEPT ![r] = [@ EXCEPT !.attemptsMade = job[r].attemptsMade + 1,
                                              !.backoff = RetryDelay]]
         /\ EndAt(r, IF job[r].attemptsMade + 1 < MaxAttempts
                     THEN "delayed" ELSE "failed")

\* executeTool registers a controller when it was given no signal, and its
\* finally block removes it; runAgent's removes what the first attempt put.
RegistersOwn(r) == run[r].signal = "none"
OwnsController(r) == KindOf[r] # "agent" \/ run[r].isRetry
\* Mutated: no finally block around the agent loop.
RunAgentForgets(r) == UNCHANGED abortControllers

RunAgentFinally(r) ==
    IF run[r].isRetry THEN UNCHANGED abortControllers ELSE Remove(r)
ExecuteToolFinally(r) ==
    IF OwnsController(r) THEN Remove(r) ELSE UNCHANGED abortControllers

\* The finally blocks an execution runs on its way out.
Finally(r) ==
    IF At(r, "tool") /\ OwnsController(r) THEN ExecuteToolFinally(r)
    ELSE RunAgentFinally(r)

FlagsUnchanged == UNCHANGED <<cancelledConversations, timers>>

-----------------------------------------------------------------------------
(* The gateway.                                                            *)

\* handleTrigger(): the user's new request lifts the conversation's cancel.
LiftCancel(r) ==
    /\ ClearCancel(ConvOf[r])
    /\ standing' = {q \in standing : ConvOf[q] # ConvOf[r]}

TriggerJob(r) ==
    /\ At(r, "idle") /\ Queued(r)
    /\ LiftCancel(r)
    /\ waiting' = Append(waiting, r)
    /\ Goto(r, "queued")
    /\ UNCHANGED <<malformed, abortControllers, timers, job, said, crashes, excused>>

\* The fast path: executeTool is called in the same turn, so its guard cannot
\* see the cancel that was just cleared.
TriggerStream(r) ==
    /\ At(r, "idle") /\ ~Queued(r) /\ r \notin malformed
    /\ LiftCancel(r)
    /\ Register(r)
    /\ run' = [run EXCEPT ![r] = [@ EXCEPT !.pc = "tool", !.signal = "live",
                                            !.tool = "ask"]]
    /\ UNCHANGED <<malformed, timers, jobVars, said, excused>>

\* The schema refuses the question in the same turn, after the controller was
\* registered and before it is removed; the gateway logs the rejection.
TriggerMalformed(r) ==
    /\ At(r, "idle") /\ ~Queued(r) /\ r \in malformed
    /\ LiftCancel(r)
    /\ AttemptThrows(r)
    /\ UNCHANGED <<malformed, abortControllers, timers, waiting, crashes, said,
                   excused>>

\* POST /bot/cancel, any time after the trigger, with or without the
\* conversation; the signal is the one the running execution listens to.
Cancel(r, withConversation) ==
    /\ ~At(r, "idle")
    /\ AbortController(r)
    /\ run' = [run EXCEPT ![r].signal =
                  IF abortControllers[r] = "none" THEN @ ELSE "aborted"]
    /\ IF withConversation
       THEN /\ MarkCancelled(ConvOf[r])
            /\ standing' = standing \cup {r}
            /\ excused' = excused \cup {q \in Requests : ConvOf[q] = ConvOf[r]}
       ELSE /\ FlagsUnchanged
            /\ standing' = standing
            /\ excused' = excused \cup {r}
    /\ UNCHANGED <<malformed, jobVars, said>>

-----------------------------------------------------------------------------
(* The worker takes a job: process() calls executeTool, whose first act is *)
(* the cancellation guard, or runAgent, which looks for a text before it.  *)

Takes(r) ==
    /\ \A q \in Requests : Queued(q) => ~Executing(q)
    /\ waiting # <<>>
    /\ r = Head(waiting) /\ At(r, "queued")
    /\ waiting' = Tail(waiting)
    /\ UNCHANGED <<malformed, timers, crashes, reported, history>>

\* The guard is reached, and drops an entry that has expired.
AsksGuard(r) ==
    /\ Takes(r)
    /\ KindOf[r] = "agent" => r \notin malformed
    /\ DropIfExpired(ConvOf[r])

TakeCancelled(r) ==
    /\ AsksGuard(r)
    /\ IsCancelled(ConvOf[r])
    /\ AttemptThrows(r)
    /\ UNCHANGED <<abortControllers, events>>

\* A job without what it needs throws before it has announced anything, and
\* outside of what would report the error.
TakeMalformed(r) ==
    /\ r \in malformed
    /\ IF KindOf[r] = "agent"
       THEN Takes(r) /\ UNCHANGED cancelledConversations
       ELSE AsksGuard(r) /\ ~IsCancelled(ConvOf[r])
    /\ AttemptThrows(r)
    /\ UNCHANGED <<abortControllers, events>>

TakeTool(r) ==
    /\ AsksGuard(r)
    /\ ~IsCancelled(ConvOf[r])
    /\ KindOf[r] \in ToolNames /\ r \notin malformed
    /\ Register(r)
    /\ run' = [run EXCEPT ![r] = [@ EXCEPT !.pc = "tool", !.signal = "live",
                                            !.tool = KindOf[r]]]
    /\ UNCHANGED <<job, events>>

\* Mutated: no guard at the head of runAgent.
TakeAgentUnguarded(r) ==
    /\ AsksGuard(r)
    /\ KindOf[r] = "agent"
    /\ Register(r)
    /\ run' = [run EXCEPT ![r].pc = "route", ![r].isRetry = FALSE,
                          ![r].signal = "live"]
    /\ UNCHANGED <<job, events>>

\* Mutated: every attempt announces itself.
TakeAgentAnnounces(r) ==
    /\ AsksGuard(r)
    /\ ~IsCancelled(ConvOf[r])
    /\ KindOf[r] = "agent"
    /\ UNCHANGED <<abortControllers, job>>
    /\ run' = [run EXCEPT ![r].pc = "route", ![r].isRetry = TRUE]
    /\ events' = [events EXCEPT ![r].started = @ + 1]

\* isRetry is attemptsMade > 0: a retry neither registers a controller nor
\* sends STARTED.
TakeAgent(r) ==
    /\ AsksGuard(r)
    /\ ~IsCancelled(ConvOf[r])
    /\ KindOf[r] = "agent"
    /\ LET isRetry == job[r].attemptsMade > 0 IN
       /\ IF isRetry THEN UNCHANGED abortControllers ELSE Register(r)
       /\ run' = [run EXCEPT ![r] =
                     [@ EXCEPT !.pc = "route", !.isRetry = isRetry,
                               !.signal = IF isRetry THEN "none" ELSE "live"]]
       /\ IF isRetry THEN UNCHANGED events
          ELSE events' = [events EXCEPT ![r].started = @ + 1]
    /\ UNCHANGED job

-----------------------------------------------------------------------------
(* runAgent after its guard.                                               *)

\* Rest of the frame of a step inside an execution.
RunFrame == UNCHANGED <<malformed, waiting, crashes, timers, standing>>

\* COMPLETED is the last thing of a successful run: a greeting answered
\* directly, or the graph's answer.  Both await the model under the signal.
AgentAnswers(r) ==
    /\ At(r, "route") \/ At(r, "graph")
    /\ run[r].signal # "aborted"
    /\ Finally(r) /\ EndAt(r, "done")
    /\ RunFrame /\ UNCHANGED <<cancelledConversations, job, said, excused>>

\* Confidence below 0.4: the user is asked to clarify.  A cached
\* classification, or one whose caching was awaited, is not checked again.
Clarify(r) ==
    /\ At(r, "route")
    /\ Finally(r) /\ EndAt(r, "done")
    /\ RunFrame /\ UNCHANGED <<cancelledConversations, job, said, excused>>

\* Low confidence and few words: rewrite once.
ToRewrite(r) ==
    /\ At(r, "route")
    /\ ~run[r].isRetry
    /\ Goto(r, "rewrite")
    /\ RunFrame /\ UNCHANGED <<abortControllers, cancelledConversations, job, said, excused>>

\* The autonomous graph, also when the rewriting changed nothing.
ToGraph(r) ==
    /\ \/ At(r, "route")
       \/ At(r, "rewrite") /\ run[r].signal # "aborted"
    /\ Goto(r, "graph")
    /\ RunFrame /\ UNCHANGED <<abortControllers, cancelledConversations, job, said, excused>>

\* return this.runAgent({...}, true) without await: the inner run starts, and
\* the outer finally block removes the controller while it goes on.
Rerun(r) ==
    /\ At(r, "rewrite")
    /\ run[r].signal # "aborted"
    /\ DropIfExpired(ConvOf[r])
    /\ RunAgentFinally(r)
    /\ IF IsCancelled(ConvOf[r])
       THEN AttemptThrows(r)
       ELSE /\ run' = [run EXCEPT ![r] = [@ EXCEPT !.pc = "route", !.isRetry = TRUE,
                                                    !.signal = "none"]]
            /\ UNCHANGED job
    /\ RunFrame /\ UNCHANGED <<said, excused>>

\* Confidence 0.9 and a tool's intent: executeTool, guard included.
FastTrack(r) ==
    /\ At(r, "route")
    /\ ~IsCancelled(ConvOf[r])
    /\ DropIfExpired(ConvOf[r])
    /\ IF RegistersOwn(r) THEN Register(r) ELSE UNCHANGED abortControllers
    /\ \E t \in ToolNames :
          run' = [run EXCEPT ![r] =
                     [@ EXCEPT !.pc = "tool", !.tool = t,
                               !.signal = IF RegistersOwn(r) THEN "live" ELSE run[r].signal]]
    /\ RunFrame /\ UNCHANGED <<job, said, excused>>

FastTrackCancelled(r) ==
    /\ At(r, "route")
    /\ IsCancelled(ConvOf[r])
    /\ Finally(r) /\ AttemptThrows(r)
    /\ RunFrame /\ UNCHANGED <<cancelledConversations, said, excused>>

-----------------------------------------------------------------------------
(* What a tool says, and how executeTool ends.  A tool may complete under  *)
(* an aborted signal: the translator ignores it, a streamed ask keeps the  *)
(* partial answer, and all of them look at it only while the model runs.   *)

\* ask() and summarize() send STARTED whenever they run, in a retry, too:
\* summarize() first of all, ask() when it has its session.  The summary that
\* stands in for a weak answer has a STARTED of its own, which is not counted;
\* one the graph calls as a tool speaks under an id of its own.
ToolAnnounces(r) ==
    /\ At(r, "tool") /\ run[r].tool # "translate" /\ ~run[r].announced
    /\ run' = [run EXCEPT ![r].announced = TRUE]
    /\ events' = [events EXCEPT ![r].toolStarted = @ + 1]
    /\ RunFrame /\ UNCHANGED <<abortControllers, cancelledConversations, job, reported, excused>>

\* ask and summary have announced themselves before they return.
ToolCompletes(r) ==
    /\ At(r, "tool")
    /\ run[r].tool # "translate" => run[r].announced
    /\ Finally(r) /\ EndAt(r, "done")
    /\ RunFrame /\ UNCHANGED <<cancelledConversations, job, said, excused>>

\* A fast-tracked summary of no messages falls through to the graph, which
\* looks its signal up in the registry.
SummaryWasEmpty(r) ==
    /\ At(r, "tool") /\ run[r].tool = "summary" /\ KindOf[r] = "agent"
    /\ run[r].announced
    /\ ExecuteToolFinally(r)
    /\ run' = [run EXCEPT ![r] =
                  [@ EXCEPT !.pc = "graph", !.tool = "none", !.announced = FALSE,
                            !.signal = IF OwnsController(r) THEN "none" ELSE run[r].signal]]
    /\ RunFrame /\ UNCHANGED <<cancelledConversations, job, said, excused>>

\* An error.  The agent reports what its tool or its graph throws, ask() what it
\* throws itself.  summarize() reports what goes wrong while the summary is
\* written, a denied access and a range that is too long, but its other awaits
\* are outside of its try block; a translation reports nothing.
RunFails(r) ==
    /\ Executing(r) /\ ~At(r, "rewrite")
    /\ At(r, "route") => run[r].signal # "aborted"
    /\ \/ /\ KindOf[r] = "agent" \/ run[r].tool # "translate"
          /\ reported' = reported \cup {r}
       \/ /\ KindOf[r] # "agent" /\ run[r].tool # "ask"
          /\ UNCHANGED reported
    /\ Finally(r) /\ AttemptThrows(r)
    /\ RunFrame /\ UNCHANGED <<cancelledConversations, events, excused>>

\* An AbortError ends the attempt without any event.
RunAborts(r) ==
    /\ Executing(r)
    /\ run[r].signal = "aborted" /\ run[r].tool # "translate"
    /\ Finally(r) /\ AttemptThrows(r)
    /\ RunFrame /\ UNCHANGED <<cancelledConversations, said, excused>>

\* isAbortError() also matches every backend error whose text has "aborted".
RunMisread(r) ==
    /\ Executing(r)
    /\ Finally(r) /\ AttemptThrows(r)
    /\ excused' = excused \cup {r}
    /\ RunFrame /\ UNCHANGED <<cancelledConversations, said>>

-----------------------------------------------------------------------------
(* The queue's own steps, the clock, and the process being killed.         *)

Promote(r) ==
    /\ At(r, "delayed") /\ job[r].backoff = 0
    /\ waiting' = Append(waiting, r)
    /\ Goto(r, "queued")
    /\ UNCHANGED <<malformed, registryVars, job, said, crashes, history>>

\* Mutated: the stalled job is counted but not put back.
RecoverStalledForgets(r) ==
    /\ At(r, "stalled")
    /\ job' = [job EXCEPT ![r].stalls = @ + 1]
    /\ Goto(r, "queued")
    /\ UNCHANGED <<malformed, registryVars, waiting, said, crashes, history>>

\* A job whose worker died goes back to the front of the line, once.
RecoverStalled(r) ==
    /\ At(r, "stalled")
    /\ job' = [job EXCEPT ![r].stalls = @ + 1]
    /\ IF job[r].stalls < MaxStalledCount
       THEN Goto(r, "queued") /\ waiting' = <<r>> \o waiting
       ELSE Goto(r, "failed") /\ UNCHANGED waiting
    /\ UNCHANGED <<malformed, registryVars, said, crashes, history>>

Timer(c) ==
    /\ TimerFires(c)
    /\ UNCHANGED <<malformed, abortControllers, run, jobVars, said, history>>

Tick ==
    /\ SomethingCounts \/ \E r \in Requests : job[r].backoff > 0
    /\ ClockAdvances
    /\ job' = [r \in Requests |-> [job[r] EXCEPT !.backoff = OneTickLess(@)]]
    /\ standing' = {r \in standing : cancelledConversations[ConvOf[r]] > 1}
    /\ UNCHANGED <<malformed, abortControllers, run, waiting, said, crashes, excused>>

\* Controllers, flags and timers are memory; jobs are in Redis.
Crash ==
    /\ crashes < MaxCrashes
    /\ crashes' = crashes + 1
    /\ abortControllers' = [r \in Requests |-> "none"]
    /\ cancelledConversations' = [c \in Conversations |-> NoEntry]
    /\ timers' = [c \in Conversations |-> {}]
    /\ standing' = {}
    /\ run' = [r \in Requests |->
                  IF Executing(r)
                  THEN [run[r] EXCEPT !.signal = "none", !.tool = "none", !.announced = FALSE,
                            !.pc = IF Queued(r) THEN "stalled" ELSE "lost"]
                  ELSE run[r]]
    /\ UNCHANGED <<malformed, job, waiting, said, excused>>

-----------------------------------------------------------------------------
Trigger(r) == TriggerJob(r) \/ TriggerStream(r) \/ TriggerMalformed(r)

Take(r) == TakeCancelled(r) \/ TakeMalformed(r) \/ TakeTool(r) \/ TakeAgent(r)

RunStep(r) ==
    \/ AgentAnswers(r) \/ Clarify(r) \/ ToRewrite(r) \/ ToGraph(r) \/ Rerun(r)
    \/ FastTrack(r) \/ FastTrackCancelled(r)
    \/ ToolAnnounces(r) \/ ToolCompletes(r) \/ SummaryWasEmpty(r)
    \/ RunFails(r) \/ RunAborts(r) \/ RunMisread(r)

Next ==
    \/ \E r \in Requests :
          \/ Trigger(r) \/ Take(r) \/ RunStep(r)
          \/ Promote(r) \/ RecoverStalled(r)
          \/ \E withConversation \in BOOLEAN : Cancel(r, withConversation)
    \/ \E c \in Conversations : Timer(c)
    \/ Tick
    \/ Crash

Spec == Init /\ [][Next]_vars

\* Every await settles, the worker keeps taking jobs, BullMQ promotes and
\* recovers them, timers fire and time passes.  Nobody has to trigger, cancel
\* or crash.
Fairness ==
    /\ \A r \in Requests :
          WF_vars(Take(r)) /\ WF_vars(RunStep(r))
          /\ WF_vars(Promote(r)) /\ WF_vars(RecoverStalled(r))
    /\ \A c \in Conversations : WF_vars(Timer(c))
    /\ WF_vars(Tick)

FairSpec == Spec /\ Fairness

-----------------------------------------------------------------------------
(* Properties.                                                             *)

\* The registry holds exactly the controllers running executions listen to:
\* none outlives its execution (the finally blocks), none is overwritten by
\* or removed under another, and one that was aborted is seen as aborted.
\* So whenever an execution has a signal, a cancel of its id reaches it.
RegistryExact ==
    \A r \in Requests :
        /\ abortControllers[r] = run[r].signal
        /\ run[r].signal # "none" => Executing(r)

\* A retry, of BullMQ or of runAgent itself, runs outside a tool without any
\* signal: there is nothing a cancel could fire.
RetryUnsignalled ==
    \A r \in Requests :
        run[r].pc \in {"route", "rewrite", "graph"} /\ run[r].isRetry
        => run[r].signal = "none"

\* How many attempts a request has begun: those that threw, those whose
\* process died, and the one that is running, stalled or over.
Begun(r) ==
    job[r].attemptsMade + job[r].stalls
    + (IF Executing(r) \/ run[r].pc \in {"stalled", "done", "lost"}
          \/ (~Queued(r) /\ At(r, "failed")) THEN 1 ELSE 0)

\* runAgent announces a request once, however often BullMQ retries it and
\* runAgent re-runs itself; only a job whose process died, and which comes back
\* with no attempt counted, announces itself again.  The tools are not so quiet:
\* the tool a job asks for, or the router chose, announces itself again in
\* every attempt, though in none of them twice.
StartedOnce ==
    \A r \in Requests :
        /\ events[r].started <= 1 + job[r].stalls
        /\ events[r].toolStarted <= Begun(r)

\* While a cancel stands (its time has not run out and no newer trigger of
\* the conversation has lifted it) the cancelled request does not begin
\* another attempt: not from the waiting list, not as a retry.
CancelStands ==
    [][\A r \in Requests :
          r \in standing /\ r \in standing' /\ ~Executing(r) => ~Executing(r)']_vars

\* A standing cancel is always still on the conversation's flag: neither the
\* timer of an earlier cancel, nor a lazy deletion by another request of the
\* conversation, has taken it away.
StandingFlagged ==
    \A r \in standing : IsCancelled(ConvOf[r])

\* A failed agent job or ask, one that had the text it needs, has ended without
\* a word only when a cancel was addressed to it or its conversation, a backend
\* error was read as a cancel, or its worker died too often: a cancel in one
\* conversation never silences another.  A translation, and a summary whose
\* failing await is outside of its try block, tell the user nothing.
OutcomeReported ==
    \A r \in Requests :
        /\ run[r].pc = "failed"
        /\ KindOf[r] \notin {"translate", "summary"}
        /\ r \notin malformed \cup excused
        /\ job[r].stalls <= MaxStalledCount
        => r \in reported

\* Every triggered request is settled in the end: the worker is never blocked
\* for ever by cancels, retries, stalls or the other requests.
EveryRequestSettles ==
    \A r \in Requests : ~At(r, "idle") ~> Settled(r)

\* What the comment at agent.service.ts:211 says of the AbortError the guard
\* throws: BullMQ does not try the job again.
CancelledJobIsNotRetried ==
    [][\A r \in Requests : TakeCancelled(r) => run'[r].pc # "delayed"]_vars
=============================================================================
