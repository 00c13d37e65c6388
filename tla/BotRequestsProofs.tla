-------------------------- MODULE BotRequestsProofs --------------------------
(***************************************************************************)
(* Proofs about AbortManager and about BotRequests, which runs it, for     *)
(* every set of requests, every assignment of conversations and trigger    *)
(* types, every lifetime of a cancel, every timing and any number of       *)
(* crashes.                                                                *)
(***************************************************************************)
EXTENDS BotRequests, TLAPS

-----------------------------------------------------------------------------
(* The cancels of AbortManager on its own.                                 *)

TimedInv == TypeOKRegistry /\ EntryHasTimer

\* The maps start empty.
LEMMA InitTimedInv == InitRegistry => TimedInv
BY CancelTTLAssumption
DEF InitRegistry, TimedInv, TypeOKRegistry, EntryHasTimer, NoEntry

\* One tick keeps an instant in range, and counts an entry and its timer down
\* together.
LEMMA TickKeeps ==
  ASSUME TimedInv, ClockAdvances
  PROVE  /\ cancelledConversations'
               \in [Conversations -> {NoEntry} \cup (0..CancelTTL)]
         /\ timers' \in [Conversations -> SUBSET (0..CancelTTL)]
         /\ EntryHasTimer'
<1> USE CancelTTLAssumption DEF TimedInv, TypeOKRegistry, NoEntry, ClockAdvances
<1>1. \A n \in {NoEntry} \cup (0..CancelTTL) :
         OneTickLess(n) \in {NoEntry} \cup (0..CancelTTL)
  BY DEF OneTickLess
<1>2. \A n \in 0..CancelTTL : OneTickLess(n) \in 0..CancelTTL
  BY DEF OneTickLess
<1>3. cancelledConversations' \in [Conversations -> {NoEntry} \cup (0..CancelTTL)]
  BY <1>1
<1>4. timers' \in [Conversations -> SUBSET (0..CancelTTL)]
  BY <1>2
<1>5. ASSUME NEW c \in Conversations, cancelledConversations'[c] # NoEntry
      PROVE cancelledConversations'[c] \in timers'[c]
  <2>1. cancelledConversations'[c] = OneTickLess(cancelledConversations[c])
    OBVIOUS
  <2>2. cancelledConversations[c] # NoEntry
    BY <1>5, <2>1 DEF OneTickLess
  <2>3. cancelledConversations[c] \in timers[c]
    BY <2>2 DEF EntryHasTimer
  <2> QED
    BY <2>1, <2>3
<1> QED
  BY <1>3, <1>4, <1>5 DEF EntryHasTimer

\* Every operation of the service preserves the invariant.
LEMMA TimedStep == TimedInv /\ [NextRegistry]_registryVars => TimedInv'
<1> USE CancelTTLAssumption DEF TimedInv, TypeOKRegistry, EntryHasTimer, NoEntry
<1> SUFFICES ASSUME TimedInv, [NextRegistry]_registryVars PROVE TimedInv'
  OBVIOUS
<1>1. ASSUME NEW r \in Requests, DoRegister(r) \/ DoRemove(r) \/ DoAbortRequest(r)
      PROVE TimedInv'
  BY <1>1 DEF DoRegister, DoRemove, DoAbortRequest, Register, Remove, AbortController
<1>2. ASSUME NEW r \in Requests, NEW c \in Conversations, DoAbort(r, c)
      PROVE TimedInv'
  BY <1>2 DEF DoAbort, AbortController, MarkCancelled
<1>3. ASSUME NEW c \in Conversations, DoQuery(c) \/ DoClear(c)
      PROVE TimedInv'
  BY <1>3 DEF DoQuery, DoClear, DropIfExpired, ClearCancel
<1>4. ASSUME NEW c \in Conversations, DoTimer(c) PROVE TimedInv'
  BY <1>4 DEF DoTimer, TimerFires
<1>5. CASE DoClock
  BY <1>5, TickKeeps DEF DoClock
<1>6. CASE UNCHANGED registryVars
  BY <1>6 DEF registryVars
<1> QED
  BY <1>1, <1>2, <1>3, <1>4, <1>5, <1>6 DEF NextRegistry

\* Type correctness of the two maps and the timers.
THEOREM RegistryTypeCorrect == SpecRegistry => []TypeOKRegistry
<1> QED
  BY InitTimedInv, TimedStep, PTL DEF SpecRegistry, TimedInv

\* Every entry of cancelledConversations has a timer that will delete it.
THEOREM EntryAlwaysHasTimer == SpecRegistry => []EntryHasTimer
<1> QED
  BY InitTimedInv, TimedStep, PTL DEF SpecRegistry, TimedInv

\* An unexpired entry leaves the map only by an explicit clear.
THEOREM EarlierTimerSparesRenewed == SpecRegistry => RenewedCancelSurvives
<1> DEFINE Spared ==
      \A c \in Conversations :
         /\ cancelledConversations[c] > 0
         /\ cancelledConversations'[c] = NoEntry
         => DoClear(c)
<1>1. TimedInv /\ [NextRegistry]_registryVars => [Spared]_registryVars
  <2> SUFFICES ASSUME TimedInv, NextRegistry, NEW d \in Conversations,
                      cancelledConversations[d] > 0,
                      cancelledConversations'[d] = NoEntry
               PROVE  DoClear(d)
    BY DEF registryVars
  <2> USE CancelTTLAssumption DEF TimedInv, TypeOKRegistry, NoEntry
  <2>1. ASSUME NEW r \in Requests, DoRegister(r) \/ DoRemove(r) \/ DoAbortRequest(r)
        PROVE FALSE
    BY <2>1 DEF DoRegister, DoRemove, DoAbortRequest
  <2>2. ASSUME NEW r \in Requests, NEW c \in Conversations, DoAbort(r, c)
        PROVE FALSE
    BY <2>2 DEF DoAbort, MarkCancelled
  <2>3. ASSUME NEW c \in Conversations, DoQuery(c) PROVE FALSE
    BY <2>3 DEF DoQuery, DropIfExpired
  <2>4. ASSUME NEW c \in Conversations, DoTimer(c) PROVE FALSE
    BY <2>4 DEF DoTimer, TimerFires
  <2>5. ASSUME NEW c \in Conversations, DoClear(c) PROVE c = d
    BY <2>5 DEF DoClear, ClearCancel
  <2>6. CASE DoClock
    BY <2>6 DEF DoClock, ClockAdvances, OneTickLess
  <2> QED
    BY <2>1, <2>2, <2>3, <2>4, <2>5, <2>6 DEF NextRegistry
<1> QED
  BY <1>1, InitTimedInv, TimedStep, PTL DEF SpecRegistry, RenewedCancelSurvives

-----------------------------------------------------------------------------
(* The controllers, in BotRequests.                                        *)

RunType == [pc : Pcs, isRetry : BOOLEAN, signal : {"none", "live", "aborted"},
            tool : ToolNames \cup {"none"}, announced : BOOLEAN]

\* What the invariant of the registry needs to know of the types.
RegistryTypes ==
    /\ abortControllers \in [Requests -> {"none", "live", "aborted"}]
    /\ run \in [Requests -> RunType]

RegistryInv == RegistryTypes /\ RegistryExact /\ RetryUnsignalled

\* A step that touches one request keeps the invariant when it leaves that
\* request in order.
LEMMA ChangeOne ==
  ASSUME RegistryInv, NEW r \in Requests,
         NEW x \in RunType, run' = [run EXCEPT ![r] = x],
         abortControllers' = [abortControllers EXCEPT ![r] = x.signal],
         x.signal # "none" => x.pc \in RunPcs,
         x.pc \in {"route", "rewrite", "graph"} /\ x.isRetry => x.signal = "none"
  PROVE  RegistryInv'
<1> USE DEF RegistryInv, RegistryTypes
<1>1. x.signal \in {"none", "live", "aborted"}
  BY DEF RunType
<1>2. RegistryTypes'
  BY <1>1
<1>3. run'[r] = x /\ abortControllers'[r] = x.signal
  BY <1>1
<1>4. \A q \in Requests \ {r} :
         run'[q] = run[q] /\ abortControllers'[q] = abortControllers[q]
  BY <1>1
<1>5. RegistryExact'
  BY <1>3, <1>4 DEF RegistryExact, Executing
<1>6. RetryUnsignalled'
  BY <1>3, <1>4 DEF RetryUnsignalled
<1> QED
  BY <1>2, <1>5, <1>6

\* What the invariant says of one request.
LEMMA OneRequest ==
  ASSUME RegistryInv, NEW r \in Requests
  PROVE  /\ run[r] \in RunType
         /\ run[r].signal \in {"none", "live", "aborted"}
         /\ abortControllers[r] = run[r].signal
         /\ abortControllers = [abortControllers EXCEPT ![r] = run[r].signal]
         /\ run[r].signal # "none" => run[r].pc \in RunPcs
         /\ run[r].pc \in {"route", "rewrite", "graph"} /\ run[r].isRetry
            => run[r].signal = "none"
BY DEF RegistryInv, RegistryTypes, RegistryExact, RetryUnsignalled, Executing, RunType

\* A step that leaves the signal and the registry alone keeps the invariant.
LEMMA MoveOnly ==
  ASSUME RegistryInv, NEW r \in Requests, NEW pc \in Pcs, Goto(r, pc),
         UNCHANGED abortControllers,
         run[r].signal # "none" => pc \in RunPcs,
         pc \in {"route", "rewrite", "graph"} =>
            run[r].pc \in {"route", "rewrite", "graph"}
  PROVE  RegistryInv'
<1> DEFINE x == [run[r] EXCEPT !.pc = pc]
<1>1. x \in RunType /\ x.signal = run[r].signal /\ x.pc = pc /\ x.isRetry = run[r].isRetry
  BY OneRequest DEF RunType
<1>2. run' = [run EXCEPT ![r] = x]
  BY DEF Goto
<1>3. abortControllers' = [abortControllers EXCEPT ![r] = x.signal]
  BY <1>1, OneRequest
<1> HIDE DEF x
<1> QED
  BY <1>1, <1>2, <1>3, OneRequest, ChangeOne

\* An execution that ends runs its finally blocks, and they take its own
\* controller out of the registry and no other.
LEMMA EndsClean ==
  ASSUME RegistryInv, NEW r \in Requests, NEW pc \in Pcs \ RunPcs, EndAt(r, pc),
         \/ Executing(r) /\ Finally(r)
         \/ ~Executing(r) /\ UNCHANGED abortControllers
  PROVE  RegistryInv'
<1> DEFINE x == [run[r] EXCEPT !.pc = pc, !.signal = "none", !.tool = "none",
                            !.announced = FALSE]
<1>1. x \in RunType /\ x.signal = "none" /\ x.pc = pc
  BY OneRequest DEF RunType
<1>2. run' = [run EXCEPT ![r] = x]
  BY DEF EndAt
<1>3. \/ abortControllers' = [abortControllers EXCEPT ![r] = "none"]
      \/ abortControllers' = abortControllers /\ run[r].signal = "none"
  BY OneRequest DEF Finally, ExecuteToolFinally, RunAgentFinally, OwnsController,
     Remove, Executing, RunPcs, At
<1>4. abortControllers' = [abortControllers EXCEPT ![r] = x.signal]
  BY <1>1, <1>3, OneRequest
<1> HIDE DEF x
<1> QED
  BY <1>1, <1>2, <1>4, ChangeOne DEF RunPcs

\* Whatever it throws, an attempt that throws is over.
LEMMA ThrowsEnds ==
  ASSUME NEW r, AttemptThrows(r)
  PROVE  \E pc \in Pcs \ RunPcs : EndAt(r, pc)
BY DEF AttemptThrows, Pcs, RunPcs

\* A controller is registered for an execution that begins without a signal.
LEMMA BeginsLive ==
  ASSUME RegistryInv, NEW r \in Requests, Register(r), NEW x \in RunType,
         run' = [run EXCEPT ![r] = x], x.signal = "live", x.pc \in RunPcs,
         x.pc = "tool" \/ ~x.isRetry
  PROVE  RegistryInv'
BY ChangeOne DEF Register

\* The gateway: a trigger and a cancel.
LEMMA GatewayStep ==
  ASSUME RegistryInv, NEW r \in Requests,
         Trigger(r) \/ \E w \in BOOLEAN : Cancel(r, w)
  PROVE  RegistryInv'
<1>1. CASE TriggerJob(r)
  BY <1>1, OneRequest, MoveOnly DEF TriggerJob, Pcs, RunPcs, At
<1>2. CASE TriggerStream(r)
  <2> DEFINE x == [run[r] EXCEPT !.pc = "tool", !.signal = "live", !.tool = "ask"]
  <2>1. x \in RunType /\ x.signal = "live" /\ x.pc = "tool"
    BY OneRequest DEF RunType, Pcs, RunPcs, ToolNames
  <2>2. run' = [run EXCEPT ![r] = x] /\ Register(r)
    BY <1>2 DEF TriggerStream
  <2> HIDE DEF x
  <2> QED
    BY <2>1, <2>2, BeginsLive DEF RunPcs
<1>4. CASE TriggerMalformed(r)
  <2>1. PICK pc \in Pcs \ RunPcs : EndAt(r, pc)
    BY <1>4, ThrowsEnds DEF TriggerMalformed
  <2>2. ~Executing(r) /\ UNCHANGED abortControllers
    BY <1>4 DEF TriggerMalformed, At, Executing, RunPcs
  <2> QED
    BY <2>1, <2>2, EndsClean
<1>3. ASSUME NEW w \in BOOLEAN, Cancel(r, w) PROVE RegistryInv'
  <2> DEFINE x == [run[r] EXCEPT !.signal = IF @ = "none" THEN "none" ELSE "aborted"]
  <2>1. /\ x \in RunType
        /\ x.signal = IF run[r].signal = "none" THEN "none" ELSE "aborted"
        /\ x.pc = run[r].pc /\ x.isRetry = run[r].isRetry
    BY OneRequest DEF RunType
  <2>2. run' = [run EXCEPT ![r] = x]
    BY <1>3, OneRequest DEF Cancel
  <2>3. abortControllers' = [abortControllers EXCEPT ![r] = x.signal]
    BY <1>3, <2>1, OneRequest DEF Cancel, AbortController
  <2> HIDE DEF x
  <2> QED
    BY <2>1, <2>2, <2>3, OneRequest, ChangeOne
<1> QED
  BY <1>1, <1>2, <1>3, <1>4 DEF Trigger

\* The worker takes a job.
LEMMA TakeStep ==
  ASSUME RegistryInv, NEW r \in Requests, Take(r) PROVE RegistryInv'
<1>1. CASE TakeCancelled(r) \/ TakeMalformed(r)
  <2>1. PICK pc \in Pcs \ RunPcs : EndAt(r, pc)
    BY <1>1, ThrowsEnds DEF TakeCancelled, TakeMalformed
  <2>2. ~Executing(r) /\ UNCHANGED abortControllers
    BY <1>1 DEF TakeCancelled, TakeMalformed, AsksGuard, Takes, At, Executing, RunPcs
  <2> QED
    BY <2>1, <2>2, EndsClean
<1>2. CASE TakeTool(r)
  <2> DEFINE x == [run[r] EXCEPT !.pc = "tool", !.signal = "live", !.tool = KindOf[r]]
  <2>1. x \in RunType /\ x.signal = "live" /\ x.pc = "tool"
    BY <1>2, OneRequest DEF TakeTool, RunType, Pcs, RunPcs
  <2>2. run' = [run EXCEPT ![r] = x] /\ Register(r)
    BY <1>2 DEF TakeTool
  <2> HIDE DEF x
  <2> QED
    BY <2>1, <2>2, BeginsLive DEF RunPcs
<1>3. CASE TakeAgent(r)
  <2> DEFINE isRetry == job[r].attemptsMade > 0
             x == [run[r] EXCEPT !.pc = "route", !.isRetry = isRetry,
                                 !.signal = IF isRetry THEN "none" ELSE "live"]
  <2>1. isRetry \in BOOLEAN
    OBVIOUS
  <2>2. run' = [run EXCEPT ![r] = x]
    BY <1>3 DEF TakeAgent
  <2>3. IF isRetry THEN UNCHANGED abortControllers ELSE Register(r)
    BY <1>3 DEF TakeAgent
  <2>4. run[r].signal = "none"
    BY <1>3, OneRequest DEF TakeAgent, AsksGuard, Takes, At, RunPcs
  <2> HIDE DEF isRetry
  <2>5. /\ x \in RunType /\ x.pc = "route" /\ x.isRetry = isRetry
        /\ x.signal = IF isRetry THEN "none" ELSE "live"
    BY <2>1, OneRequest DEF RunType, Pcs, RunPcs
  <2> HIDE DEF x
  <2>6. CASE isRetry
    BY <2>2, <2>3, <2>4, <2>5, <2>6, OneRequest, ChangeOne
  <2>7. CASE ~isRetry
    BY <2>2, <2>3, <2>5, <2>7, BeginsLive DEF RunPcs
  <2> QED
    BY <2>1, <2>6, <2>7
<1> QED
  BY <1>1, <1>2, <1>3 DEF Take

\* A step inside an execution: it ends, or it goes on with the signal it has,
\* or it trades its signal and its place in the registry together.
LEMMA RunStepStep ==
  ASSUME RegistryInv, NEW r \in Requests, RunStep(r) PROVE RegistryInv'
<1>1. ASSUME AgentAnswers(r) \/ Clarify(r) \/ ToolCompletes(r) PROVE RegistryInv'
  <2>1. Executing(r) /\ Finally(r) /\ EndAt(r, "done")
    BY <1>1 DEF AgentAnswers, Clarify, ToolCompletes, Executing, At, RunPcs
  <2> QED
    BY <2>1, EndsClean DEF Pcs, RunPcs
<1>2. ASSUME RunFails(r) \/ RunAborts(r) \/ RunMisread(r) \/ FastTrackCancelled(r)
      PROVE RegistryInv'
  <2>1. Executing(r) /\ Finally(r) /\ AttemptThrows(r)
    BY <1>2 DEF RunFails, RunAborts, RunMisread, FastTrackCancelled, Executing,
                At, RunPcs
  <2> QED
    BY <2>1, ThrowsEnds, EndsClean
<1>3. ASSUME ToRewrite(r) \/ ToGraph(r) PROVE RegistryInv'
  <2>1. run[r].pc \in {"route", "rewrite"} /\ UNCHANGED abortControllers
    BY <1>3 DEF ToRewrite, ToGraph, At
  <2>2. Goto(r, "rewrite") \/ Goto(r, "graph")
    BY <1>3 DEF ToRewrite, ToGraph
  <2> QED
    BY <2>1, <2>2, MoveOnly DEF Pcs, RunPcs
<1>4. ASSUME Rerun(r) PROVE RegistryInv'
  <2>1. CASE IsCancelled(ConvOf[r])
    <3>1. Executing(r) /\ Finally(r) /\ AttemptThrows(r)
      BY <1>4, <2>1 DEF Rerun, Finally, Executing, At, RunPcs
    <3> QED
      BY <3>1, ThrowsEnds, EndsClean
  <2>2. CASE ~IsCancelled(ConvOf[r])
    <3> DEFINE x == [run[r] EXCEPT !.pc = "route", !.isRetry = TRUE, !.signal = "none"]
    <3>1. x \in RunType /\ x.signal = "none"
      BY OneRequest DEF RunType, Pcs, RunPcs
    <3>2. run' = [run EXCEPT ![r] = x]
      BY <1>4, <2>2 DEF Rerun
    <3>3. abortControllers' = [abortControllers EXCEPT ![r] = x.signal]
      BY <1>4, <3>1, OneRequest DEF Rerun, RunAgentFinally, Remove, At
    <3> HIDE DEF x
    <3> QED
      BY <3>1, <3>2, <3>3, ChangeOne
  <2> QED
    BY <2>1, <2>2
<1>5. ASSUME FastTrack(r) PROVE RegistryInv'
  <2>1. PICK t \in ToolNames : run' = [run EXCEPT ![r] =
                     [@ EXCEPT !.pc = "tool", !.tool = t,
                               !.signal = IF RegistersOwn(r) THEN "live" ELSE run[r].signal]]
    BY <1>5 DEF FastTrack
  <2> DEFINE x == [run[r] EXCEPT !.pc = "tool", !.tool = t,
                                 !.signal = IF RegistersOwn(r) THEN "live" ELSE run[r].signal]
  <2>2. /\ x \in RunType /\ x.pc = "tool"
        /\ x.signal = IF run[r].signal = "none" THEN "live" ELSE run[r].signal
    BY OneRequest DEF RegistersOwn, RunType, Pcs, RunPcs
  <2>3. run' = [run EXCEPT ![r] = x]
    BY <2>1
  <2>4. abortControllers' = [abortControllers EXCEPT ![r] = x.signal]
    BY <1>5, <2>2, OneRequest DEF FastTrack, RegistersOwn, Register
  <2> HIDE DEF x
  <2> QED
    BY <2>2, <2>3, <2>4, ChangeOne DEF RunPcs
<1>7. ASSUME ToolAnnounces(r) PROVE RegistryInv'
  <2> DEFINE x == [run[r] EXCEPT !.announced = TRUE]
  <2>1. /\ x \in RunType /\ x.pc = run[r].pc /\ x.isRetry = run[r].isRetry
        /\ x.signal = run[r].signal
    BY OneRequest DEF RunType
  <2>2. run' = [run EXCEPT ![r] = x]
    BY <1>7 DEF ToolAnnounces
  <2>3. abortControllers' = [abortControllers EXCEPT ![r] = x.signal]
    BY <1>7, <2>1, OneRequest DEF ToolAnnounces
  <2> HIDE DEF x
  <2> QED
    BY <2>1, <2>2, <2>3, OneRequest, ChangeOne
<1>6. ASSUME SummaryWasEmpty(r) PROVE RegistryInv'
  <2> DEFINE x == [run[r] EXCEPT !.pc = "graph", !.tool = "none", !.announced = FALSE,
                      !.signal = IF OwnsController(r) THEN "none" ELSE run[r].signal]
  <2>1. /\ x \in RunType /\ x.pc = "graph" /\ x.isRetry = run[r].isRetry
        /\ x.signal = IF OwnsController(r) THEN "none" ELSE run[r].signal
    BY OneRequest DEF RunType, Pcs, RunPcs
  <2>2. run' = [run EXCEPT ![r] = x]
    BY <1>6 DEF SummaryWasEmpty
  <2>3. abortControllers' = [abortControllers EXCEPT ![r] = x.signal]
    BY <1>6, <2>1, OneRequest DEF SummaryWasEmpty, ExecuteToolFinally, Remove
  <2>4. x.isRetry => x.signal = "none"
    BY <2>1 DEF OwnsController
  <2> HIDE DEF x
  <2> QED
    BY <2>1, <2>2, <2>3, <2>4, ChangeOne DEF RunPcs
<1> QED
  BY <1>1, <1>2, <1>3, <1>4, <1>5, <1>6, <1>7 DEF RunStep

\* The queue moves jobs that are not executing, and a crash empties the
\* registry together with all executions.
LEMMA OutsideStep ==
  ASSUME RegistryInv,
         \/ \E r \in Requests : Promote(r) \/ RecoverStalled(r)
         \/ \E c \in Conversations : Timer(c)
         \/ Tick \/ Crash \/ UNCHANGED vars
  PROVE  RegistryInv'
<1>1. ASSUME NEW r \in Requests, Promote(r) \/ RecoverStalled(r) PROVE RegistryInv'
  <2>1. run[r].pc \in {"delayed", "stalled"} /\ UNCHANGED abortControllers
    BY <1>1 DEF Promote, RecoverStalled, At, registryVars
  <2>2. Goto(r, "queued") \/ Goto(r, "failed")
    BY <1>1 DEF Promote, RecoverStalled
  <2> QED
    BY <2>1, <2>2, OneRequest, MoveOnly DEF Pcs, RunPcs
<1>2. ASSUME UNCHANGED <<abortControllers, run>> PROVE RegistryInv'
  BY <1>2 DEF RegistryInv, RegistryTypes, RegistryExact, RetryUnsignalled, Executing
<1>3. CASE Crash
  <2>1. abortControllers' = [r \in Requests |-> "none"]
    BY <1>3 DEF Crash
  <2>2. run' \in [Requests -> RunType]
    <3>1. \A r \in Requests :
             /\ [run[r] EXCEPT !.signal = "none", !.tool = "none", !.announced = FALSE,
                               !.pc = "stalled"] \in RunType
             /\ [run[r] EXCEPT !.signal = "none", !.tool = "none", !.announced = FALSE,
                               !.pc = "lost"] \in RunType
             /\ run[r] \in RunType
      BY OneRequest DEF RunType, Pcs
    <3> QED
      BY <1>3, <3>1 DEF Crash
  <2>3. ASSUME NEW r \in Requests PROVE run'[r].signal = "none"
    BY <1>3, OneRequest DEF Crash, Executing, RunType
  <2> QED
    BY <2>1, <2>2, <2>3 DEF RegistryInv, RegistryTypes, RegistryExact, RetryUnsignalled
<1> QED
  BY <1>1, <1>2, <1>3 DEF Timer, Tick, vars, registryVars

\* No controller is registered at first.
LEMMA InitRegistryInv == Init => RegistryInv
BY DEF Init, InitRegistry, RegistryInv, RegistryTypes, RegistryExact,
       RetryUnsignalled, RunType, Pcs

\* Every step keeps registry and executions together.
LEMMA RegistryStep == RegistryInv /\ [Next]_vars => RegistryInv'
BY GatewayStep, TakeStep, RunStepStep, OutsideStep DEF Next

\* The registry holds exactly the controllers that running executions listen
\* to, for any number of requests, cancels, retries and crashes.
THEOREM RegistryAlwaysExact == Spec => []RegistryExact
<1> QED
  BY InitRegistryInv, RegistryStep, PTL DEF Spec, RegistryInv

-----------------------------------------------------------------------------
(* The flags: what a step does to them is one of a few things, whoever     *)
(* takes it.                                                               *)

FlagTypes ==
    /\ cancelledConversations \in [Conversations -> {NoEntry} \cup (0..CancelTTL)]
    /\ timers \in [Conversations -> SUBSET (0..CancelTTL)]
    /\ standing \subseteq Requests

FlagInv == FlagTypes /\ EntryHasTimer /\ StandingFlagged

\* A trigger clears the flag of its conversation together with the cancels
\* that stand in it.
LEMMA LiftKeepsFlags ==
  ASSUME FlagInv, NEW r \in Requests, LiftCancel(r), UNCHANGED timers
  PROVE  FlagInv'
BY RequestsAssumption, CancelTTLAssumption
DEF FlagInv, FlagTypes, EntryHasTimer, StandingFlagged, IsCancelled, LiftCancel,
    ClearCancel, NoEntry

\* A guard only drops a flag that no cancel stands on.
LEMMA GuardKeepsFlags ==
  ASSUME FlagInv, NEW r \in Requests, DropIfExpired(ConvOf[r]),
         UNCHANGED <<timers, standing>>
  PROVE  FlagInv'
BY RequestsAssumption, CancelTTLAssumption
DEF FlagInv, FlagTypes, EntryHasTimer, StandingFlagged, IsCancelled, DropIfExpired,
    NoEntry

\* A cancel flags its conversation for its whole lifetime, and a timer of the
\* same length starts.
LEMMA CancelKeepsFlags ==
  ASSUME FlagInv, NEW r \in Requests, MarkCancelled(ConvOf[r]),
         standing' = standing \cup {r}
  PROVE  FlagInv'
<1> USE RequestsAssumption, CancelTTLAssumption DEF FlagInv, FlagTypes
<1> DEFINE c == ConvOf[r]
<1>1. c \in Conversations /\ CancelTTL \in 0..CancelTTL /\ CancelTTL > 0
  OBVIOUS
<1>2. /\ cancelledConversations' = [cancelledConversations EXCEPT ![c] = CancelTTL]
      /\ timers' = [timers EXCEPT ![c] = @ \cup {CancelTTL}]
  BY DEF MarkCancelled
<1> HIDE DEF c
<1>3. FlagTypes'
  BY <1>1, <1>2
<1>4. EntryHasTimer'
  BY <1>1, <1>2 DEF EntryHasTimer
<1>5. ASSUME NEW q \in standing' PROVE cancelledConversations'[ConvOf[q]] > 0
  <2>1. CASE ConvOf[q] = c
    BY <1>1, <1>2, <2>1
  <2>2. CASE ConvOf[q] # c
    <3>1. q \in standing /\ q \in Requests
      BY <2>2 DEF c
    <3> QED
      BY <1>2, <2>2, <3>1 DEF StandingFlagged, IsCancelled
  <2> QED
    BY <2>1, <2>2
<1> QED
  BY <1>3, <1>4, <1>5 DEF StandingFlagged, IsCancelled

\* A timer deletes an entry without time left, on which no cancel stands.
LEMMA TimerKeepsFlags ==
  ASSUME FlagInv, NEW c \in Conversations, TimerFires(c), UNCHANGED standing
  PROVE  FlagInv'
BY RequestsAssumption, CancelTTLAssumption
DEF FlagInv, FlagTypes, EntryHasTimer, StandingFlagged, IsCancelled, TimerFires, NoEntry

\* A tick counts an entry and its timer down together, and a cancel whose time
\* runs out stands no longer.
LEMMA TickKeepsFlags ==
  ASSUME FlagInv, ClockAdvances,
         standing' = {r \in standing : cancelledConversations[ConvOf[r]] > 1}
  PROVE  FlagInv'
<1> USE RequestsAssumption, CancelTTLAssumption DEF FlagInv, FlagTypes, NoEntry, ClockAdvances
<1>1. \A n \in {NoEntry} \cup (0..CancelTTL) :
         /\ OneTickLess(n) \in {NoEntry} \cup (0..CancelTTL)
         /\ n # NoEntry => OneTickLess(n) \in 0..CancelTTL
         /\ n > 1 => OneTickLess(n) > 0
  BY DEF OneTickLess
<1>2. cancelledConversations' \in [Conversations -> {NoEntry} \cup (0..CancelTTL)]
  BY <1>1
<1>3. timers' \in [Conversations -> SUBSET (0..CancelTTL)]
  BY <1>1
<1>4. ASSUME NEW c \in Conversations, cancelledConversations'[c] # NoEntry
      PROVE cancelledConversations'[c] \in timers'[c]
  <2>1. cancelledConversations'[c] = OneTickLess(cancelledConversations[c])
    OBVIOUS
  <2>2. cancelledConversations[c] # NoEntry
    BY <1>4, <2>1 DEF OneTickLess
  <2>3. cancelledConversations[c] \in timers[c]
    BY <2>2 DEF EntryHasTimer
  <2> QED
    BY <2>1, <2>3
<1>5. ASSUME NEW r \in standing' PROVE cancelledConversations'[ConvOf[r]] > 0
  <2>1. ConvOf[r] \in Conversations /\ cancelledConversations[ConvOf[r]] > 1
    OBVIOUS
  <2> QED
    BY <1>1, <2>1
<1> QED
  BY <1>2, <1>3, <1>4, <1>5 DEF EntryHasTimer, StandingFlagged, IsCancelled

\* Every step of the system does one of these, or leaves the flags alone.
LEMMA FlagStep == FlagInv /\ [Next]_vars => FlagInv'
<1> SUFFICES ASSUME FlagInv, [Next]_vars PROVE FlagInv'
  OBVIOUS
<1>1. ASSUME UNCHANGED <<cancelledConversations, timers, standing>> PROVE FlagInv'
  BY <1>1 DEF FlagInv, FlagTypes, EntryHasTimer, StandingFlagged, IsCancelled
<1>2. ASSUME NEW r \in Requests, Trigger(r) PROVE FlagInv'
  BY <1>2, LiftKeepsFlags DEF Trigger, TriggerJob, TriggerStream, TriggerMalformed
<1>3. ASSUME NEW r \in Requests, Take(r) PROVE FlagInv'
  <2>1. /\ UNCHANGED <<timers, standing>>
        /\ DropIfExpired(ConvOf[r]) \/ UNCHANGED cancelledConversations
    BY <1>3 DEF Take, TakeCancelled, TakeMalformed, TakeTool, TakeAgent, AsksGuard,
                Takes, history
  <2> QED
    BY <2>1, <1>1, GuardKeepsFlags
<1>4. ASSUME NEW r \in Requests, RunStep(r) PROVE FlagInv'
  <2>1. CASE Rerun(r) \/ FastTrack(r)
    BY <2>1, GuardKeepsFlags DEF Rerun, FastTrack, RunFrame
  <2>2. CASE ~(Rerun(r) \/ FastTrack(r))
    BY <1>4, <2>2, <1>1
    DEF RunStep, AgentAnswers, Clarify, ToRewrite, ToGraph, FastTrackCancelled,
        ToolAnnounces, ToolCompletes, SummaryWasEmpty, RunFails, RunAborts, RunMisread, RunFrame
  <2> QED
    BY <2>1, <2>2
<1>5. ASSUME NEW r \in Requests, NEW w \in BOOLEAN, Cancel(r, w) PROVE FlagInv'
  <2>1. CASE w
    BY <1>5, <2>1, CancelKeepsFlags DEF Cancel
  <2>2. CASE ~w
    BY <1>5, <2>2, <1>1 DEF Cancel, FlagsUnchanged
  <2> QED
    BY <2>1, <2>2
<1>6. ASSUME NEW r \in Requests, Promote(r) \/ RecoverStalled(r) PROVE FlagInv'
  BY <1>6, <1>1 DEF Promote, RecoverStalled, registryVars, history
<1>7. ASSUME NEW c \in Conversations, Timer(c) PROVE FlagInv'
  BY <1>7, TimerKeepsFlags DEF Timer, history
<1>8. CASE Tick
  BY <1>8, TickKeepsFlags DEF Tick
<1>9. CASE Crash
  BY <1>9, CancelTTLAssumption
  DEF Crash, FlagInv, FlagTypes, EntryHasTimer, StandingFlagged, NoEntry
<1>10. CASE UNCHANGED vars
  BY <1>10, <1>1 DEF vars, registryVars, history
<1> QED
  BY <1>2, <1>3, <1>4, <1>5, <1>6, <1>7, <1>8, <1>9, <1>10 DEF Next

\* There are no flags at first.
LEMMA InitFlagInv == Init => FlagInv
BY CancelTTLAssumption
DEF Init, InitRegistry, FlagInv, FlagTypes, EntryHasTimer, StandingFlagged, NoEntry

\* No entry of cancelledConversations is without a timer that will delete it,
\* in the whole system and through any number of crashes.
THEOREM EveryFlagHasTimer == Spec => []EntryHasTimer
<1> QED
  BY InitFlagInv, FlagStep, PTL DEF Spec, FlagInv

\* A standing cancel is always still on the flag of its conversation.
THEOREM StandingIsFlagged == Spec => []StandingFlagged
<1> QED
  BY InitFlagInv, FlagStep, PTL DEF Spec, FlagInv

\* A step inside an execution is one of an execution, and of no other request.
LEMMA RunStepIsOwn ==
  ASSUME RegistryInv, NEW q \in Requests, RunStep(q)
  PROVE  Executing(q) /\ \A r \in Requests \ {q} : run'[r] = run[r]
<1> USE DEF RegistryInv, RegistryTypes
<1>1. Executing(q)
  BY DEF RunStep, AgentAnswers, Clarify, ToRewrite, ToGraph, Rerun, FastTrack,
     FastTrackCancelled, ToolAnnounces, ToolCompletes, SummaryWasEmpty, RunFails, RunAborts,
     RunMisread, Executing, At, RunPcs
<1>2. ASSUME NEW pc, EndAt(q, pc) \/ Goto(q, pc)
      PROVE \A r \in Requests \ {q} : run'[r] = run[r]
  BY <1>2 DEF EndAt, Goto
<1>3. ASSUME AttemptThrows(q) PROVE \A r \in Requests \ {q} : run'[r] = run[r]
  BY <1>2, <1>3, ThrowsEnds
<1>4. CASE AgentAnswers(q) \/ Clarify(q) \/ ToolCompletes(q) \/ ToRewrite(q) \/ ToGraph(q)
  BY <1>1, <1>2, <1>4 DEF AgentAnswers, Clarify, ToolCompletes, ToRewrite, ToGraph
<1>5. CASE RunFails(q) \/ RunAborts(q) \/ RunMisread(q) \/ FastTrackCancelled(q)
  BY <1>1, <1>3, <1>5 DEF RunFails, RunAborts, RunMisread, FastTrackCancelled
<1>6. CASE Rerun(q)
  BY <1>1, <1>3, <1>6 DEF Rerun
<1>7. CASE FastTrack(q) \/ ToolAnnounces(q) \/ SummaryWasEmpty(q)
  BY <1>1, <1>7 DEF FastTrack, ToolAnnounces, SummaryWasEmpty
<1> QED
  BY <1>1, <1>4, <1>5, <1>6, <1>7 DEF RunStep

\* An execution begins in three places: the fast path, which lifts the cancels
\* of its conversation, and the worker, whose guard sees the flag.
LEMMA BeginsUncancelled ==
  ASSUME RegistryInv, FlagInv, [Next]_vars,
         NEW r \in Requests, ~Executing(r), Executing(r)'
  PROVE  r \notin standing \/ r \notin standing'
<1> USE RequestsAssumption DEF RegistryInv, RegistryTypes
<1>1. ASSUME NEW q \in Requests, Trigger(q) PROVE r \notin standing'
  <2>1. CASE TriggerJob(q)
    BY <2>1 DEF TriggerJob, Goto, Executing, RunPcs
  <2>2. CASE TriggerStream(q)
    BY <2>2 DEF TriggerStream, Executing, LiftCancel
  <2>3. CASE TriggerMalformed(q)
    <3>1. PICK pc \in Pcs \ RunPcs : EndAt(q, pc)
      BY <2>3, ThrowsEnds DEF TriggerMalformed
    <3> QED
      BY <3>1 DEF EndAt, Executing
  <2> QED
    BY <1>1, <2>1, <2>2, <2>3 DEF Trigger
<1>2. ASSUME NEW q \in Requests, Take(q) PROVE r \notin standing
  <2>1. CASE TakeCancelled(q) \/ TakeMalformed(q)
    <3>1. PICK pc \in Pcs \ RunPcs : EndAt(q, pc)
      BY <2>1, ThrowsEnds DEF TakeCancelled, TakeMalformed
    <3> QED
      BY <3>1 DEF EndAt, Executing
  <2>2. CASE TakeTool(q) \/ TakeAgent(q)
    <3>1. ~IsCancelled(ConvOf[q])
      BY <2>2 DEF TakeTool, TakeAgent
    <3>2. q = r
      BY <2>2 DEF TakeTool, TakeAgent, Executing
    <3> QED
      BY <3>1, <3>2 DEF FlagInv, StandingFlagged
  <2> QED
    BY <1>2, <2>1, <2>2 DEF Take
<1>3. ASSUME NEW q \in Requests, RunStep(q) PROVE FALSE
  BY <1>3, RunStepIsOwn DEF Executing
<1>4. ASSUME NEW q \in Requests, NEW w \in BOOLEAN, Cancel(q, w) PROVE FALSE
  BY <1>4 DEF Cancel, Executing
<1>5. ASSUME NEW q \in Requests, Promote(q) \/ RecoverStalled(q) PROVE FALSE
  <2>1. Goto(q, "queued") \/ Goto(q, "failed")
    BY <1>5 DEF Promote, RecoverStalled
  <2> QED
    BY <2>1 DEF Goto, Executing, RunPcs, RunType
<1>6. ASSUME NEW c \in Conversations, Timer(c) PROVE FALSE
  BY <1>6 DEF Timer, Executing
<1>7. CASE Tick
  BY <1>7 DEF Tick, Executing
<1>8. CASE Crash
  BY <1>8 DEF Crash
<1>9. CASE UNCHANGED vars
  BY <1>9 DEF vars, Executing
<1> QED
  BY <1>1, <1>2, <1>3, <1>4, <1>5, <1>6, <1>7, <1>8, <1>9 DEF Next

\* While a cancel stands the cancelled request does not begin another attempt.
THEOREM CancelKeepsStanding == Spec => CancelStands
<1>1. RegistryInv /\ FlagInv /\ [Next]_vars =>
        [\A r \in Requests :
            r \in standing /\ r \in standing' /\ ~Executing(r) => ~Executing(r)']_vars
  BY BeginsUncancelled
<1> QED
  BY <1>1, InitRegistryInv, RegistryStep, InitFlagInv, FlagStep, PTL
  DEF Spec, CancelStands

-----------------------------------------------------------------------------
(* What a request has been through: its announcements and its end.         *)

JobType == [attemptsMade : Nat, stalls : Nat, backoff : Nat]
EventType == [started : Nat, toolStarted : Nat]

\* Whether the attempt of q that is running, stalled or over may have had a
\* tool that announced itself.
Spoken(q, x) ==
    \/ x.pc \in {"graph", "stalled", "done", "lost"}
    \/ x.pc = "tool" /\ x.announced
    \/ x.pc = "failed" /\ KindOf[q] = "askStream"

\* What may be said of a request q that is at x, whose job is y and which has
\* sent z, when the requests in E are excused and an error was sent of those in
\* T: it announces itself once per life, at its first attempt, and its tool once
\* per attempt; its tool is that of its kind unless it is an agent's; and it
\* does not fail in silence.
LifeOf(q, x, y, z, E, T) ==
    /\ z.started <= 1 + y.stalls
    /\ x.pc \in {"idle", "queued"} /\ y.attemptsMade = 0 => z.started <= y.stalls
    /\ x.pc = "delayed" => y.attemptsMade > 0
    /\ x.signal = "aborted" => q \in E
    /\ z.toolStarted <= y.attemptsMade + y.stalls + (IF Spoken(q, x) THEN 1 ELSE 0)
    /\ x.pc \in {"route", "rewrite", "graph"} => KindOf[q] = "agent"
    /\ x.pc = "tool" /\ KindOf[q] # "agent" =>
          x.tool = IF KindOf[q] = "askStream" THEN "ask" ELSE KindOf[q]
    /\ x.pc = "failed" => \/ KindOf[q] \in {"translate", "summary"}
                          \/ q \in malformed \cup E \cup T
                          \/ y.stalls > MaxStalledCount

FlaggedExcused == \A r \in Requests : IsCancelled(ConvOf[r]) => r \in excused

LifeTypes ==
    /\ run \in [Requests -> RunType]
    /\ job \in [Requests -> JobType]
    /\ events \in [Requests -> EventType]

LifeInv ==
    /\ LifeTypes
    /\ FlaggedExcused
    /\ \A r \in Requests : LifeOf(r, run[r], job[r], events[r], excused, reported)

\* Nobody takes back a cancel that reached a request, an error that was misread
\* or one that was sent; no conversation is flagged but by a cancel.
HistoryGrows ==
    /\ excused \subseteq excused' /\ reported \subseteq reported'
    /\ malformed' = malformed
    /\ FlaggedExcused'

\* A step that touches one request keeps the invariant when it leaves that
\* request in order.
LEMMA LifeChanges ==
  ASSUME LifeInv, HistoryGrows, NEW r \in Requests,
         NEW x \in RunType, run' = [run EXCEPT ![r] = x],
         NEW y \in JobType, job' = [job EXCEPT ![r] = y],
         NEW z \in EventType, events' = [events EXCEPT ![r] = z],
         LifeOf(r, x, y, z, excused', reported')
  PROVE  LifeInv'
<1>1. LifeTypes'
  BY DEF LifeInv, LifeTypes
<1>2. run'[r] = x /\ job'[r] = y /\ events'[r] = z
  BY DEF LifeInv, LifeTypes
<1>3. ASSUME NEW q \in Requests
      PROVE LifeOf(q, run'[q], job'[q], events'[q], excused', reported')
  <2>1. CASE q = r
    BY <1>2, <2>1
  <2>2. CASE q # r
    <3>1. run'[q] = run[q] /\ job'[q] = job[q] /\ events'[q] = events[q]
      BY <2>2 DEF LifeInv, LifeTypes
    <3>2. LifeOf(q, run[q], job[q], events[q], excused, reported)
      BY DEF LifeInv
    <3> QED
      BY <3>1, <3>2 DEF LifeOf, HistoryGrows
  <2> QED
    BY <2>1, <2>2
<1>4. \A q \in Requests : LifeOf(q, run[q], job[q], events[q], excused, reported)'
  BY <1>3 DEF LifeOf, HistoryGrows, Spoken
<1> QED
  BY <1>1, <1>4 DEF LifeInv, HistoryGrows

\* What the invariant says of one request.
LEMMA LifeOfOne ==
  ASSUME LifeInv, NEW r \in Requests
  PROVE  /\ run[r] \in RunType /\ job[r] \in JobType /\ events[r] \in EventType
         /\ job = [job EXCEPT ![r] = job[r]]
         /\ events = [events EXCEPT ![r] = events[r]]
         /\ LifeOf(r, run[r], job[r], events[r], excused, reported)
BY DEF LifeInv, LifeTypes

\* A request whose job is left alone moves on, and announces nothing.
LEMMA LifeMoves ==
  ASSUME LifeInv, HistoryGrows, NEW r \in Requests,
         NEW x \in RunType, run' = [run EXCEPT ![r] = x], UNCHANGED <<job, events>>,
         x.pc \notin {"idle", "queued", "delayed", "failed"},
         Spoken(r, run[r]) => Spoken(r, x),
         x.signal = "aborted" => r \in excused',
         x.pc \in {"route", "rewrite", "graph"} => KindOf[r] = "agent",
         x.pc = "tool" /\ KindOf[r] # "agent" =>
            x.tool = IF KindOf[r] = "askStream" THEN "ask" ELSE KindOf[r]
  PROVE  LifeInv'
<1>1. /\ job' = [job EXCEPT ![r] = job[r]] /\ job[r] \in JobType
      /\ events' = [events EXCEPT ![r] = events[r]] /\ events[r] \in EventType
  BY LifeOfOne
<1>2. /\ job[r].attemptsMade \in Nat /\ job[r].stalls \in Nat
      /\ events[r].toolStarted \in Nat
  BY <1>1 DEF JobType, EventType
<1>3. LifeOf(r, x, job[r], events[r], excused', reported')
  BY <1>2, LifeOfOne DEF LifeOf
<1> QED
  BY <1>1, <1>3, LifeChanges

\* An attempt that throws is in order when the request is excused or an error
\* was sent.
LEMMA LifeThrows ==
  ASSUME LifeInv, HistoryGrows, NEW r \in Requests, AttemptThrows(r),
         RetryDelay \in Nat, UNCHANGED events,
         \/ KindOf[r] \in {"translate", "summary"}
         \/ r \in malformed \cup excused' \cup reported'
  PROVE  LifeInv'
<1>4. /\ job[r] \in JobType /\ job[r].attemptsMade \in Nat /\ job[r].stalls \in Nat
      /\ events' = [events EXCEPT ![r] = events[r]] /\ events[r] \in EventType
      /\ events[r].toolStarted \in Nat
      /\ events[r].toolStarted <= job[r].attemptsMade + job[r].stalls + 1
  BY LifeOfOne DEF LifeOf, JobType, EventType
<1>1. ASSUME NEW pc \in {"delayed", "failed"}, EndAt(r, pc),
             NEW y \in JobType, job' = [job EXCEPT ![r] = y],
             y.stalls = job[r].stalls, y.attemptsMade \in Nat,
             pc = "delayed" => y.attemptsMade > 0,
             \/ y.attemptsMade = job[r].attemptsMade + 1
             \/ y = job[r] /\ KindOf[r] = "askStream" /\ pc = "failed"
      PROVE LifeInv'
  <2> DEFINE x == [run[r] EXCEPT !.pc = pc, !.signal = "none", !.tool = "none",
                            !.announced = FALSE]
  <2>1. x \in RunType /\ x.signal = "none" /\ x.pc = pc
    BY LifeOfOne DEF RunType, Pcs
  <2>2. run' = [run EXCEPT ![r] = x]
    BY <1>1 DEF EndAt
  <2> HIDE DEF x
  <2>3. events[r].toolStarted <=
           y.attemptsMade + y.stalls + (IF Spoken(r, x) THEN 1 ELSE 0)
    BY <1>1, <1>4, <2>1 DEF Spoken
  <2>4. LifeOf(r, x, y, events[r], excused', reported')
    BY <1>1, <2>1, <2>3, LifeOfOne DEF LifeOf, HistoryGrows
  <2> QED
    BY <1>1, <1>4, <2>1, <2>2, <2>4, LifeChanges
<1>2. CASE ~Queued(r)
  <2>1. EndAt(r, "failed") /\ UNCHANGED job /\ KindOf[r] = "askStream"
    BY <1>2 DEF AttemptThrows, Queued
  <2> QED
    BY <1>1, <1>4, <2>1, LifeOfOne
<1>3. CASE Queued(r)
  <2> DEFINE y == [job[r] EXCEPT !.attemptsMade = job[r].attemptsMade + 1,
                            !.backoff = RetryDelay]
  <2>1. /\ y \in JobType /\ y.stalls = job[r].stalls
        /\ y.attemptsMade = job[r].attemptsMade + 1
        /\ y.attemptsMade \in Nat /\ y.attemptsMade > 0
    <3>1. job[r] \in JobType
      BY LifeOfOne
    <3>2. job[r].attemptsMade \in Nat
      BY <3>1 DEF JobType
    <3>3. /\ y.stalls = job[r].stalls
          /\ y.attemptsMade = job[r].attemptsMade + 1
      BY <3>1 DEF JobType
    <3> DEFINE n == job[r].attemptsMade + 1
    <3>4. n \in Nat
      BY <3>2
    <3> HIDE DEF n
    <3>5. [job[r] EXCEPT !.attemptsMade = n, !.backoff = RetryDelay] \in JobType
      BY <3>1, <3>4 DEF JobType
    <3>6. y \in JobType
      BY <3>5 DEF n
    <3> QED
      BY <3>2, <3>3, <3>6
  <2>2. job' = [job EXCEPT ![r] = y]
    BY <1>3 DEF AttemptThrows
  <2>3. EndAt(r, "delayed") \/ EndAt(r, "failed")
    BY <1>3 DEF AttemptThrows
  <2> HIDE DEF y
  <2> QED
    BY <1>1, <2>1, <2>2, <2>3
<1> QED
  BY <1>2, <1>3

\* Which steps add to the flags or to what the cancels reached.
LEMMA HistoryStep ==
  ASSUME FlagInv, FlaggedExcused, [Next]_vars
  PROVE  HistoryGrows
<1> USE RequestsAssumption, CancelTTLAssumption DEF FlagInv, FlagTypes, FlaggedExcused, NoEntry
<1>12. malformed' = malformed /\ reported \subseteq reported'
  <2>1. ASSUME NEW r \in Requests, Trigger(r) \/ \E w \in BOOLEAN : Cancel(r, w)
        PROVE  UNCHANGED <<malformed, reported>>
    BY <2>1 DEF Trigger, TriggerJob, TriggerStream, TriggerMalformed, Cancel, said
  <2>2. ASSUME NEW r \in Requests, Take(r) PROVE UNCHANGED <<malformed, reported>>
    BY <2>2 DEF Take, TakeCancelled, TakeMalformed, TakeTool, TakeAgent, AsksGuard, Takes
  <2>3. ASSUME NEW r \in Requests, RunStep(r)
        PROVE  malformed' = malformed /\ reported \subseteq reported'
    BY <2>3 DEF RunStep, AgentAnswers, Clarify, ToRewrite, ToGraph, Rerun, FastTrack,
                FastTrackCancelled, ToolAnnounces, ToolCompletes, SummaryWasEmpty, RunFails,
                RunAborts, RunMisread, RunFrame, said
  <2>4. ASSUME NEW r \in Requests, Promote(r) \/ RecoverStalled(r)
        PROVE  UNCHANGED <<malformed, reported>>
    BY <2>4 DEF Promote, RecoverStalled, said
  <2>5. ASSUME (\E c \in Conversations : Timer(c)) \/ Tick \/ Crash \/ UNCHANGED vars
        PROVE  UNCHANGED <<malformed, reported>>
    BY <2>5 DEF Timer, Tick, Crash, vars, said
  <2> QED
    BY <2>1, <2>2, <2>3, <2>4, <2>5 DEF Next
<1>1. ASSUME excused \subseteq excused',
             \A c \in Conversations :
                cancelledConversations'[c] > 0 => cancelledConversations[c] > 0
      PROVE HistoryGrows
  BY <1>1, <1>12 DEF HistoryGrows, IsCancelled
<1>2. ASSUME NEW c \in Conversations, DropIfExpired(c) \/ ClearCancel(c) \/ TimerFires(c)
      PROVE \A d \in Conversations :
               cancelledConversations'[d] > 0 => cancelledConversations[d] > 0
  BY <1>2 DEF DropIfExpired, ClearCancel, TimerFires
<1>3. ASSUME NEW r \in Requests, Trigger(r) PROVE HistoryGrows
  BY <1>1, <1>2, <1>3 DEF Trigger, TriggerJob, TriggerStream, TriggerMalformed, LiftCancel
<1>4. ASSUME NEW r \in Requests, Take(r) PROVE HistoryGrows
  <2>1. /\ excused' = excused
        /\ DropIfExpired(ConvOf[r]) \/ UNCHANGED cancelledConversations
    BY <1>4 DEF Take, TakeCancelled, TakeMalformed, TakeTool, TakeAgent, AsksGuard,
                Takes, history
  <2> QED
    BY <2>1, <1>1, <1>2
<1>5. ASSUME NEW r \in Requests, RunStep(r) PROVE HistoryGrows
  <2>1. CASE Rerun(r) \/ FastTrack(r)
    BY <2>1, <1>1, <1>2 DEF Rerun, FastTrack, RunFrame
  <2>2. CASE ~(Rerun(r) \/ FastTrack(r))
    BY <1>5, <2>2, <1>1
    DEF RunStep, AgentAnswers, Clarify, ToRewrite, ToGraph, FastTrackCancelled,
        ToolAnnounces, ToolCompletes, SummaryWasEmpty, RunFails, RunAborts, RunMisread, RunFrame
  <2> QED
    BY <2>1, <2>2
<1>6. ASSUME NEW r \in Requests, NEW w \in BOOLEAN, Cancel(r, w) PROVE HistoryGrows
  <2>1. CASE w
    <3>1. /\ MarkCancelled(ConvOf[r])
          /\ excused' = excused \cup {q \in Requests : ConvOf[q] = ConvOf[r]}
      BY <1>6, <2>1 DEF Cancel
    <3>2. \A q \in Requests :
             cancelledConversations'[ConvOf[q]] > 0 /\ ConvOf[q] # ConvOf[r]
             => cancelledConversations[ConvOf[q]] > 0
      BY <3>1 DEF MarkCancelled
    <3> QED
      BY <3>1, <3>2, <1>12 DEF HistoryGrows, IsCancelled
  <2>2. CASE ~w
    BY <1>6, <2>2, <1>1 DEF Cancel, FlagsUnchanged
  <2> QED
    BY <2>1, <2>2
<1>7. ASSUME NEW r \in Requests, Promote(r) \/ RecoverStalled(r) PROVE HistoryGrows
  BY <1>7, <1>1 DEF Promote, RecoverStalled, registryVars, history
<1>8. ASSUME NEW c \in Conversations, Timer(c) PROVE HistoryGrows
  BY <1>8, <1>1, <1>2 DEF Timer, history
<1>9. CASE Tick
  BY <1>9, <1>1 DEF Tick, ClockAdvances, OneTickLess
<1>10. CASE Crash
  <2>1. /\ cancelledConversations' = [c \in Conversations |-> NoEntry]
        /\ excused' = excused
    BY <1>10 DEF Crash
  <2> QED
    BY <2>1, <1>1
<1>11. CASE UNCHANGED vars
  BY <1>11, <1>1 DEF vars, registryVars, history
<1> QED
  BY <1>3, <1>4, <1>5, <1>6, <1>7, <1>8, <1>9, <1>10, <1>11 DEF Next

\* The gateway: nothing is announced, and the streaming ask has its tool.
LEMMA LifeGateway ==
  ASSUME LifeInv, HistoryGrows, NEW r \in Requests,
         Trigger(r) \/ \E w \in BOOLEAN : Cancel(r, w)
  PROVE  LifeInv'
<1> USE RequestsAssumption
<1>1. CASE TriggerMalformed(r)
  <2>1. AttemptThrows(r) /\ UNCHANGED events /\ r \in malformed
    BY <1>1 DEF TriggerMalformed, said
  <2> QED
    BY <2>1, LifeThrows
<1>2. LifeOf(r, run[r], job[r], events[r], excused', reported')
  BY LifeOfOne DEF LifeOf, HistoryGrows
<1>3. ASSUME NEW x \in RunType, run' = [run EXCEPT ![r] = x], UNCHANGED <<job, events>>,
             LifeOf(r, x, job[r], events[r], excused', reported')
      PROVE  LifeInv'
  BY <1>3, LifeOfOne, LifeChanges
<1>4. /\ job[r].attemptsMade \in Nat /\ job[r].stalls \in Nat
      /\ events[r].toolStarted \in Nat
  BY LifeOfOne DEF JobType, EventType
<1>5. CASE TriggerJob(r)
  <2> DEFINE x == [run[r] EXCEPT !.pc = "queued"]
  <2>1. x \in RunType /\ x.pc = "queued" /\ x.signal = run[r].signal
    BY LifeOfOne DEF RunType, Pcs
  <2>2. /\ run' = [run EXCEPT ![r] = x] /\ run[r].pc = "idle"
        /\ UNCHANGED <<job, events>>
    BY <1>5 DEF TriggerJob, Goto, At, said
  <2> HIDE DEF x
  <2>3. LifeOf(r, x, job[r], events[r], excused', reported')
    BY <1>2, <1>4, <2>1, <2>2 DEF LifeOf, Spoken
  <2> QED
    BY <1>3, <2>1, <2>2, <2>3
<1>6. CASE TriggerStream(r)
  <2> DEFINE x == [run[r] EXCEPT !.pc = "tool", !.signal = "live", !.tool = "ask"]
  <2>1. x \in RunType /\ x.pc = "tool" /\ x.signal = "live" /\ x.tool = "ask"
    BY LifeOfOne DEF RunType, Pcs, RunPcs, ToolNames
  <2>2. /\ run' = [run EXCEPT ![r] = x] /\ KindOf[r] = "askStream" /\ run[r].pc = "idle"
        /\ UNCHANGED <<job, events>>
    BY <1>6 DEF TriggerStream, Queued, At, jobVars, said
  <2> HIDE DEF x
  <2>3. LifeOf(r, x, job[r], events[r], excused', reported')
    BY <1>2, <1>4, <2>1, <2>2 DEF LifeOf, Spoken
  <2> QED
    BY <1>3, <2>1, <2>2, <2>3
<1>7. ASSUME NEW w \in BOOLEAN, Cancel(r, w) PROVE LifeInv'
  <2> DEFINE x == [run[r] EXCEPT !.signal = IF abortControllers[r] = "none"
                                            THEN @ ELSE "aborted"]
  <2>1. /\ x \in RunType /\ x.pc = run[r].pc /\ x.tool = run[r].tool
        /\ x.announced = run[r].announced
    BY LifeOfOne DEF RunType
  <2>2. run' = [run EXCEPT ![r] = x] /\ UNCHANGED <<job, events>>
    BY <1>7 DEF Cancel, jobVars, said
  <2>3. r \in excused'
    BY <1>7 DEF Cancel
  <2> HIDE DEF x
  <2>4. LifeOf(r, x, job[r], events[r], excused', reported')
    BY <1>2, <1>4, <2>1, <2>3 DEF LifeOf, Spoken
  <2> QED
    BY <1>3, <2>1, <2>2, <2>4
<1> QED
  BY <1>1, <1>5, <1>6, <1>7 DEF Trigger

\* The worker: a cancelled job's cancel has reached it, and only a first
\* attempt announces itself.
LEMMA LifeTake ==
  ASSUME LifeInv, HistoryGrows, NEW r \in Requests, Take(r)
  PROVE  LifeInv'
<1> USE RequestsAssumption
<1>1. LifeOf(r, run[r], job[r], events[r], excused', reported')
  BY LifeOfOne DEF LifeOf, HistoryGrows
<1>2. run[r].pc = "queued"
  BY DEF Take, TakeCancelled, TakeMalformed, TakeTool, TakeAgent, AsksGuard, Takes, At
<1>3. CASE TakeCancelled(r)
  <2>1. r \in excused'
    BY <1>3 DEF TakeCancelled, LifeInv, FlaggedExcused, HistoryGrows
  <2>2. AttemptThrows(r) /\ UNCHANGED events
    BY <1>3 DEF TakeCancelled
  <2> QED
    BY <2>1, <2>2, LifeThrows
<1>6. CASE TakeMalformed(r)
  <2>1. AttemptThrows(r) /\ UNCHANGED events /\ r \in malformed
    BY <1>6 DEF TakeMalformed
  <2> QED
    BY <2>1, LifeThrows
<1>4. CASE TakeTool(r)
  <2> DEFINE x == [run[r] EXCEPT !.pc = "tool", !.signal = "live", !.tool = KindOf[r]]
  <2>1. /\ x \in RunType /\ x.pc = "tool" /\ x.signal = "live" /\ x.tool = KindOf[r]
    BY <1>4, LifeOfOne DEF TakeTool, RunType, Pcs, RunPcs
  <2>2. /\ run' = [run EXCEPT ![r] = x] /\ KindOf[r] # "askStream"
        /\ UNCHANGED <<job, events>>
    BY <1>4 DEF TakeTool, ToolNames
  <2>3. ~Spoken(r, run[r])
    BY <1>2 DEF Spoken
  <2> HIDE DEF x
  <2> QED
    BY <2>1, <2>2, <2>3, LifeMoves
<1>5. CASE TakeAgent(r)
  <2> DEFINE isRetry == job[r].attemptsMade > 0
             x == [run[r] EXCEPT !.pc = "route", !.isRetry = isRetry,
                                 !.signal = IF isRetry THEN "none" ELSE "live"]
             z == [events[r] EXCEPT !.started = events[r].started + 1]
  <2>1. isRetry \in BOOLEAN
    OBVIOUS
  <2>2. /\ run' = [run EXCEPT ![r] = x] /\ KindOf[r] = "agent" /\ UNCHANGED job
    BY <1>5 DEF TakeAgent
  <2>3. /\ job[r] \in JobType /\ job' = [job EXCEPT ![r] = job[r]]
        /\ job[r].attemptsMade \in Nat /\ job[r].stalls \in Nat
        /\ events[r] \in EventType /\ events[r].started \in Nat
        /\ events[r].toolStarted \in Nat
    BY <2>2, LifeOfOne DEF JobType, EventType
  <2>4. ~isRetry => job[r].attemptsMade = 0
    BY <2>3
  <2>5. x \in RunType /\ x.pc = "route" /\ x.signal \in {"none", "live"}
    BY <2>1, LifeOfOne DEF RunType, Pcs, RunPcs
  <2>6. IF isRetry THEN UNCHANGED events ELSE events' = [events EXCEPT ![r] = z]
    BY <1>5 DEF TakeAgent
  <2>7. /\ z \in EventType /\ z.started = events[r].started + 1
        /\ z.toolStarted = events[r].toolStarted
    BY <2>3 DEF EventType
  <2> HIDE DEF isRetry, x, z
  <2>8. CASE isRetry
    <3>1. LifeOf(r, x, job[r], events[r], excused', reported')
      BY <1>1, <1>2, <2>2, <2>3, <2>5 DEF LifeOf, Spoken
    <3>2. events' = [events EXCEPT ![r] = events[r]]
      BY <2>6, <2>8 DEF LifeInv, LifeTypes
    <3> QED
      BY <2>2, <2>3, <2>5, <3>1, <3>2, LifeChanges
  <2>9. CASE ~isRetry
    <3>1. LifeOf(r, x, job[r], z, excused', reported')
      BY <1>1, <1>2, <2>2, <2>3, <2>4, <2>5, <2>7, <2>9 DEF LifeOf, Spoken
    <3> QED
      BY <2>2, <2>3, <2>5, <2>6, <2>7, <2>9, <3>1, LifeChanges
  <2> QED
    BY <2>8, <2>9
<1> QED
  BY <1>3, <1>4, <1>5, <1>6 DEF Take

\* A step inside an execution: it moves on, ends well, or throws with a reason.
LEMMA LifeRunStep ==
  ASSUME LifeInv, HistoryGrows, NEW r \in Requests, RunStep(r)
  PROVE  LifeInv'
<1> USE RequestsAssumption
<1>1. LifeOf(r, run[r], job[r], events[r], excused', reported')
  BY LifeOfOne DEF LifeOf, HistoryGrows
<1>2. run[r] \in RunType
  BY LifeOfOne
<1>3. run[r].pc \in {"route", "rewrite"} => ~Spoken(r, run[r])
  BY DEF Spoken
<1>4. ASSUME AgentAnswers(r) \/ Clarify(r) \/ ToolCompletes(r) PROVE LifeInv'
  <2> DEFINE x == [run[r] EXCEPT !.pc = "done", !.signal = "none", !.tool = "none",
                                 !.announced = FALSE]
  <2>1. x \in RunType /\ x.pc = "done" /\ x.signal = "none"
    BY <1>2 DEF RunType, Pcs
  <2>2. run' = [run EXCEPT ![r] = x] /\ UNCHANGED <<job, events>>
    BY <1>4 DEF AgentAnswers, Clarify, ToolCompletes, EndAt, said
  <2> HIDE DEF x
  <2>3. Spoken(r, x)
    BY <2>1 DEF Spoken
  <2> QED
    BY <2>1, <2>2, <2>3, LifeMoves
<1>5. ASSUME ToRewrite(r) \/ ToGraph(r) PROVE LifeInv'
  <2>1. PICK pc \in {"rewrite", "graph"} : Goto(r, pc)
    BY <1>5 DEF ToRewrite, ToGraph
  <2> DEFINE x == [run[r] EXCEPT !.pc = pc]
  <2>2. x \in RunType /\ x.pc = pc /\ x.signal = run[r].signal
    BY <1>2 DEF RunType, Pcs, RunPcs
  <2>3. run' = [run EXCEPT ![r] = x] /\ UNCHANGED <<job, events>>
    BY <1>5, <2>1 DEF ToRewrite, ToGraph, Goto, said
  <2>4. KindOf[r] = "agent" /\ ~Spoken(r, run[r])
    BY <1>1, <1>3, <1>5 DEF ToRewrite, ToGraph, At, LifeOf
  <2>5. x.signal = "aborted" => r \in excused'
    BY <1>1, <2>2 DEF LifeOf
  <2> HIDE DEF x
  <2> QED
    BY <2>2, <2>3, <2>4, <2>5, LifeMoves
<1>6. ASSUME Rerun(r) PROVE LifeInv'
  <2>1. KindOf[r] = "agent" /\ UNCHANGED events /\ ~Spoken(r, run[r])
    BY <1>1, <1>3, <1>6 DEF Rerun, At, LifeOf, said
  <2>2. CASE IsCancelled(ConvOf[r])
    <3>1. r \in excused' /\ AttemptThrows(r)
      BY <1>6, <2>2 DEF Rerun, LifeInv, FlaggedExcused, HistoryGrows
    <3> QED
      BY <2>1, <3>1, LifeThrows
  <2>3. CASE ~IsCancelled(ConvOf[r])
    <3> DEFINE x == [run[r] EXCEPT !.pc = "route", !.isRetry = TRUE, !.signal = "none"]
    <3>1. x \in RunType /\ x.pc = "route" /\ x.signal = "none"
      BY <1>2 DEF RunType, Pcs, RunPcs
    <3>2. run' = [run EXCEPT ![r] = x] /\ UNCHANGED job
      BY <1>6, <2>3 DEF Rerun
    <3> HIDE DEF x
    <3> QED
      BY <2>1, <3>1, <3>2, LifeMoves
  <2> QED
    BY <2>2, <2>3
<1>7. ASSUME FastTrack(r) PROVE LifeInv'
  <2>1. PICK t \in ToolNames : run' = [run EXCEPT ![r] =
                     [@ EXCEPT !.pc = "tool", !.tool = t,
                               !.signal = IF RegistersOwn(r) THEN "live" ELSE run[r].signal]]
    BY <1>7 DEF FastTrack
  <2> DEFINE x == [run[r] EXCEPT !.pc = "tool", !.tool = t,
                                 !.signal = IF RegistersOwn(r) THEN "live" ELSE run[r].signal]
  <2>2. x \in RunType /\ x.pc = "tool" /\ x.signal \in {"live", run[r].signal}
    BY <1>2 DEF RunType, Pcs, RunPcs
  <2>3. run' = [run EXCEPT ![r] = x] /\ UNCHANGED <<job, events>>
    BY <1>7, <2>1 DEF FastTrack, said
  <2>4. KindOf[r] = "agent" /\ ~Spoken(r, run[r])
    BY <1>1, <1>3, <1>7 DEF FastTrack, At, LifeOf
  <2>5. x.signal = "aborted" => r \in excused'
    BY <1>1, <2>2 DEF LifeOf
  <2> HIDE DEF x
  <2> QED
    BY <2>2, <2>3, <2>4, <2>5, LifeMoves
<1>8. ASSUME SummaryWasEmpty(r) PROVE LifeInv'
  <2> DEFINE x == [run[r] EXCEPT !.pc = "graph", !.tool = "none", !.announced = FALSE,
                      !.signal = IF OwnsController(r) THEN "none" ELSE run[r].signal]
  <2>1. x \in RunType /\ x.pc = "graph" /\ x.signal \in {"none", run[r].signal}
    BY <1>2 DEF RunType, Pcs, RunPcs
  <2>2. run' = [run EXCEPT ![r] = x] /\ UNCHANGED <<job, events>> /\ KindOf[r] = "agent"
    BY <1>8 DEF SummaryWasEmpty, said
  <2>4. x.signal = "aborted" => r \in excused'
    BY <1>1, <2>1 DEF LifeOf
  <2> HIDE DEF x
  <2>5. Spoken(r, x)
    BY <2>1 DEF Spoken
  <2> QED
    BY <2>1, <2>2, <2>4, <2>5, LifeMoves
<1>9. ASSUME RunAborts(r) \/ RunMisread(r) \/ FastTrackCancelled(r) PROVE LifeInv'
  <2>1. AttemptThrows(r) /\ UNCHANGED events
    BY <1>9 DEF RunAborts, RunMisread, FastTrackCancelled, said
  <2>2. r \in excused'
    <3>1. CASE RunAborts(r)
      BY <1>1, <3>1 DEF RunAborts, LifeOf
    <3>2. CASE RunMisread(r)
      BY <3>2 DEF RunMisread
    <3>3. CASE FastTrackCancelled(r)
      BY <3>3 DEF FastTrackCancelled, LifeInv, FlaggedExcused, HistoryGrows
    <3> QED
      BY <1>9, <3>1, <3>2, <3>3
  <2> QED
    BY <2>1, <2>2, LifeThrows
<1>10. ASSUME RunFails(r) PROVE LifeInv'
  <2>1. AttemptThrows(r) /\ UNCHANGED events
    BY <1>10 DEF RunFails
  <2>2. \/ r \in reported'
        \/ KindOf[r] # "agent" /\ run[r].tool # "ask"
    BY <1>10 DEF RunFails
  <2>3. ASSUME KindOf[r] # "agent", run[r].tool # "ask"
        PROVE  KindOf[r] \in {"translate", "summary"}
    <3>1. run[r].pc = "tool"
      BY <1>1, <1>10, <2>3 DEF RunFails, Executing, RunPcs, At, LifeOf
    <3>2. KindOf[r] \in {"translate", "ask", "summary", "askStream"}
      BY <2>3 DEF Kinds, ToolNames
    <3> QED
      BY <1>1, <2>3, <3>1, <3>2 DEF LifeOf
  <2> QED
    BY <2>1, <2>2, <2>3, LifeThrows
<1>11. ASSUME ToolAnnounces(r) PROVE LifeInv'
  <2> DEFINE x == [run[r] EXCEPT !.announced = TRUE]
             z == [events[r] EXCEPT !.toolStarted = events[r].toolStarted + 1]
  <2>1. /\ x \in RunType /\ x.pc = run[r].pc /\ x.signal = run[r].signal
        /\ x.tool = run[r].tool /\ x.announced
    BY <1>2 DEF RunType
  <2>2. /\ run[r].pc = "tool" /\ ~run[r].announced
        /\ run' = [run EXCEPT ![r] = x] /\ events' = [events EXCEPT ![r] = z]
        /\ job' = job
    BY <1>11 DEF ToolAnnounces, At
  <2>3. /\ events[r] \in EventType /\ events[r].toolStarted \in Nat
        /\ job[r] \in JobType /\ job' = [job EXCEPT ![r] = job[r]]
        /\ job[r].attemptsMade \in Nat /\ job[r].stalls \in Nat
    BY <2>2, LifeOfOne DEF EventType, JobType
  <2>4. /\ z \in EventType /\ z.started = events[r].started
        /\ z.toolStarted = events[r].toolStarted + 1
    BY <2>3 DEF EventType
  <2> HIDE DEF x, z
  <2>5. LifeOf(r, x, job[r], z, excused', reported')
    BY <1>1, <2>1, <2>2, <2>3, <2>4 DEF LifeOf, Spoken
  <2> QED
    BY <2>1, <2>2, <2>3, <2>4, <2>5, LifeChanges
<1> QED
  BY <1>4, <1>5, <1>6, <1>7, <1>8, <1>9, <1>10, <1>11 DEF RunStep

\* The queue's own steps: a job that comes back has an attempt or a stall more.
LEMMA LifeQueue ==
  ASSUME LifeInv, HistoryGrows, NEW r \in Requests, Promote(r) \/ RecoverStalled(r)
  PROVE  LifeInv'
<1>1. LifeOf(r, run[r], job[r], events[r], excused', reported')
  BY LifeOfOne DEF LifeOf, HistoryGrows
<1>2. /\ run[r] \in RunType /\ job[r] \in JobType /\ events[r] \in EventType
      /\ job = [job EXCEPT ![r] = job[r]]
      /\ events' = [events EXCEPT ![r] = events[r]]
      /\ job[r].attemptsMade \in Nat /\ job[r].stalls \in Nat
      /\ events[r].started \in Nat /\ events[r].toolStarted \in Nat
  BY LifeOfOne DEF Promote, RecoverStalled, said, JobType, EventType
<1>3. ASSUME NEW pc \in {"queued", "failed"}, Goto(r, pc),
             NEW y \in JobType, job' = [job EXCEPT ![r] = y],
             LifeOf(r, [run[r] EXCEPT !.pc = pc], y, events[r], excused', reported')
      PROVE LifeInv'
  <2> DEFINE x == [run[r] EXCEPT !.pc = pc]
  <2>1. x \in RunType
    BY <1>2 DEF RunType, Pcs
  <2>2. run' = [run EXCEPT ![r] = x]
    BY <1>3 DEF Goto
  <2> HIDE DEF x
  <2>3. LifeOf(r, x, y, events[r], excused', reported')
    BY <1>3 DEF x
  <2> QED
    BY <1>2, <1>3, <2>1, <2>2, <2>3, LifeChanges
<1>4. ASSUME NEW pc \in Pcs
      PROVE /\ [run[r] EXCEPT !.pc = pc].pc = pc
            /\ [run[r] EXCEPT !.pc = pc].signal = run[r].signal
  BY <1>2 DEF RunType
<1>5. CASE Promote(r)
  <2>1. Goto(r, "queued") /\ UNCHANGED job /\ run[r].pc = "delayed"
    BY <1>5 DEF Promote, At
  <2>2. job[r].attemptsMade > 0
    BY <1>1, <2>1 DEF LifeOf
  <2>3. LifeOf(r, [run[r] EXCEPT !.pc = "queued"], job[r], events[r], excused', reported')
    BY <1>1, <1>2, <1>4, <2>1, <2>2 DEF LifeOf, Spoken, Pcs
  <2> QED
    BY <1>2, <1>3, <2>1, <2>3
<1>6. CASE RecoverStalled(r)
  <2> DEFINE y == [job[r] EXCEPT !.stalls = @ + 1]
  <2>2. /\ y \in JobType /\ y.stalls = job[r].stalls + 1
        /\ y.attemptsMade = job[r].attemptsMade
    BY <1>2 DEF JobType
  <2>1. events[r].toolStarted <= y.attemptsMade + y.stalls
    BY <1>1, <1>2, <2>2 DEF LifeOf
  <2>3. job' = [job EXCEPT ![r] = y]
    BY <1>6 DEF RecoverStalled
  <2>4. \/ Goto(r, "queued")
        \/ Goto(r, "failed") /\ ~(job[r].stalls < MaxStalledCount)
    BY <1>6 DEF RecoverStalled
  <2> HIDE DEF y
  <2>5. CASE Goto(r, "queued")
    <3>1. LifeOf(r, [run[r] EXCEPT !.pc = "queued"], y, events[r], excused', reported')
      BY <1>1, <1>2, <1>4, <2>1, <2>2 DEF LifeOf, Pcs
    <3> QED
      BY <1>3, <2>2, <2>3, <2>5, <3>1
  <2>6. CASE Goto(r, "failed") /\ ~(job[r].stalls < MaxStalledCount)
    <3>1. LifeOf(r, [run[r] EXCEPT !.pc = "failed"], y, events[r], excused', reported')
      BY <1>1, <1>2, <1>4, <2>1, <2>2, <2>6 DEF LifeOf, Pcs, MaxStalledCount
    <3> QED
      BY <1>3, <2>2, <2>3, <2>6, <3>1
  <2> QED
    BY <2>4, <2>5, <2>6
<1> QED
  BY <1>5, <1>6

\* The clock shortens backoffs, and a crash stops executions where they are.
LEMMA LifeOutside ==
  ASSUME LifeInv, HistoryGrows,
         (\E c \in Conversations : Timer(c)) \/ Tick \/ Crash \/ UNCHANGED vars
  PROVE  LifeInv'
<1>1. ASSUME NEW r \in Requests
      PROVE /\ run[r] \in RunType /\ job[r] \in JobType /\ events[r] \in EventType
            /\ LifeOf(r, run[r], job[r], events[r], excused', reported')
  BY LifeOfOne DEF LifeOf, HistoryGrows
<1>2. CASE UNCHANGED <<run, job, events>>
  <2>1. \A r \in Requests : LifeOf(r, run[r], job[r], events[r], excused, reported)'
    BY <1>1, <1>2 DEF LifeOf, HistoryGrows, Spoken
  <2> QED
    BY <1>2, <2>1 DEF LifeInv, LifeTypes, HistoryGrows
<1>3. CASE Tick
  <2>1. job' = [r \in Requests |-> [job[r] EXCEPT !.backoff = OneTickLess(job[r].backoff)]]
    BY <1>3 DEF Tick
  <2>2. UNCHANGED <<run, events>>
    BY <1>3 DEF Tick, said
  <2>3. ASSUME NEW r \in Requests
        PROVE /\ job'[r] \in JobType /\ job'[r].stalls = job[r].stalls
              /\ job'[r].attemptsMade = job[r].attemptsMade
    <3>1. job[r].backoff \in Nat
      BY <1>1 DEF JobType
    <3>2. OneTickLess(job[r].backoff) \in Nat
      BY <3>1 DEF OneTickLess
    <3> QED
      BY <1>1, <2>1, <3>2 DEF JobType
  <2>4. LifeTypes'
    BY <2>1, <2>2, <2>3 DEF LifeInv, LifeTypes
  <2>5. \A r \in Requests : LifeOf(r, run'[r], job'[r], events'[r], excused', reported')
    BY <1>1, <2>2, <2>3 DEF LifeOf, Spoken
  <2>6. \A r \in Requests : LifeOf(r, run[r], job[r], events[r], excused, reported)'
    BY <2>5 DEF LifeOf, HistoryGrows, Spoken
  <2> QED
    BY <2>4, <2>6 DEF LifeInv, HistoryGrows
<1>4. CASE Crash
  <2>1. UNCHANGED <<job, events>>
    BY <1>4 DEF Crash, said
  <2>2. ASSUME NEW r \in Requests
        PROVE /\ run'[r] \in RunType
              /\ \/ run'[r] = run[r]
                 \/ run'[r].pc \in {"stalled", "lost"} /\ run'[r].signal = "none"
    <3> DEFINE halted(pc) == [run[r] EXCEPT !.signal = "none", !.tool = "none",
                                            !.announced = FALSE, !.pc = pc]
    <3>1. \A pc \in {"stalled", "lost"} :
             halted(pc) \in RunType /\ halted(pc).pc = pc /\ halted(pc).signal = "none"
      BY <1>1 DEF RunType, Pcs
    <3> DEFINE place == IF Queued(r) THEN "stalled" ELSE "lost"
    <3>2. run'[r] = IF Executing(r) THEN halted(place) ELSE run[r]
      BY <1>4 DEF Crash
    <3>3. place \in {"stalled", "lost"}
      OBVIOUS
    <3> HIDE DEF halted, place
    <3> QED
      BY <1>1, <3>1, <3>2, <3>3
  <2>3. run' \in [Requests -> RunType]
    <3>1. run' = [r \in Requests |-> run'[r]]
      BY <1>4 DEF Crash
    <3> QED
      BY <2>2, <3>1
  <2>4. \A r \in Requests : LifeOf(r, run'[r], job[r], events[r], excused', reported')
    <3> SUFFICES ASSUME NEW r \in Requests
                 PROVE  LifeOf(r, run'[r], job[r], events[r], excused', reported')
      OBVIOUS
    <3>1. /\ job[r].attemptsMade \in Nat /\ job[r].stalls \in Nat
          /\ events[r].toolStarted \in Nat
      BY <1>1 DEF JobType, EventType
    <3> QED
      BY <1>1, <2>2, <3>1 DEF LifeOf, Spoken
  <2>5. \A r \in Requests : LifeOf(r, run[r], job[r], events[r], excused, reported)'
    BY <2>1, <2>4 DEF LifeOf, HistoryGrows, Spoken
  <2> QED
    BY <2>1, <2>3, <2>5 DEF LifeInv, LifeTypes, HistoryGrows
<1> QED
  BY <1>2, <1>3, <1>4 DEF Timer, vars, jobVars, said

\* Nothing has been sent or tried at first.
LEMMA InitLifeInv == Init => LifeInv
<1> SUFFICES ASSUME Init PROVE LifeInv
  OBVIOUS
<1>1. LifeTypes
  BY DEF Init, LifeTypes, RunType, JobType, EventType, Pcs
<1>2. FlaggedExcused
  BY RequestsAssumption DEF Init, InitRegistry, FlaggedExcused, IsCancelled, NoEntry
<1>3. ASSUME NEW r \in Requests PROVE LifeOf(r, run[r], job[r], events[r], excused, reported)
  BY DEF Init, LifeOf, Spoken
<1> QED
  BY <1>1, <1>2, <1>3 DEF LifeInv

\* Every step leaves the request it touches in order.
LEMMA LifeStep == FlagInv /\ LifeInv /\ [Next]_vars => LifeInv'
<1> SUFFICES ASSUME FlagInv, LifeInv, [Next]_vars PROVE LifeInv'
  OBVIOUS
<1>1. HistoryGrows
  BY HistoryStep DEF LifeInv
<1> QED
  BY <1>1, LifeGateway, LifeTake, LifeRunStep, LifeQueue, LifeOutside DEF Next

\* runAgent announces a request once per life, however often it is retried, and
\* its tool announces itself at most once per attempt.
THEOREM StartedOncePerLife == Spec => []StartedOnce
<1>1. LifeInv => StartedOnce
  <2> SUFFICES ASSUME LifeInv, NEW r \in Requests
               PROVE  /\ events[r].started <= 1 + job[r].stalls
                      /\ events[r].toolStarted <= Begun(r)
    BY DEF StartedOnce
  <2>1. /\ LifeOf(r, run[r], job[r], events[r], excused, reported)
        /\ job[r].attemptsMade \in Nat /\ job[r].stalls \in Nat
        /\ events[r].toolStarted \in Nat
    BY LifeOfOne DEF JobType, EventType
  <2>2. Spoken(r, run[r]) => \/ Executing(r) \/ run[r].pc \in {"stalled", "done", "lost"}
                             \/ ~Queued(r) /\ At(r, "failed")
    BY DEF Spoken, Executing, RunPcs, Queued, At
  <2> QED
    BY <2>1, <2>2 DEF LifeOf, Begun
<1> QED
  BY <1>1, InitFlagInv, FlagStep, InitLifeInv, LifeStep, PTL DEF Spec

\* A failed agent job or ask that had its text fails in silence only when a
\* cancel was addressed to it or to its conversation, or an error was read as
\* one, or its worker died too often.
THEOREM FailuresAreReported == Spec => []OutcomeReported
<1>1. LifeInv => OutcomeReported
  <2> SUFFICES ASSUME LifeInv, NEW r \in Requests, run[r].pc = "failed",
                      KindOf[r] \notin {"translate", "summary"},
                      r \notin malformed \cup excused,
                      job[r].stalls <= MaxStalledCount
               PROVE  r \in reported
    BY DEF OutcomeReported
  <2>1. job[r].stalls \in Nat
    BY LifeOfOne DEF JobType
  <2> QED
    BY <2>1, LifeOfOne DEF LifeOf, MaxStalledCount
<1> QED
  BY <1>1, InitFlagInv, FlagStep, InitLifeInv, LifeStep, PTL DEF Spec

-----------------------------------------------------------------------------
(* The waiting list.                                                       *)

Line(w) == {w[i] : i \in 1..Len(w)}
Distinct(w) == \A i, j \in 1..Len(w) : w[i] = w[j] => i = j

\* The waiting list has every queued job, once, and nothing else.
QueueExact ==
    /\ Line(waiting) = {r \in Requests : At(r, "queued")}
    /\ Distinct(waiting)

QueueInv ==
    /\ waiting \in Seq(Requests) /\ QueueExact
    /\ crashes \in Nat /\ malformed \subseteq Requests
    /\ excused \subseteq Requests /\ reported \subseteq Requests

\* A job joins the line at its end, or at its front, and leaves it there.
LEMMA JoinsLine ==
  ASSUME NEW w \in Seq(Requests), Distinct(w), NEW r \in Requests, r \notin Line(w)
  PROVE  \A v \in {Append(w, r), <<r>> \o w} :
            v \in Seq(Requests) /\ Distinct(v) /\ Line(v) = Line(w) \cup {r}
<1>1. Len(w) \in Nat /\ \A i \in 1..Len(w) : w[i] \in Requests /\ w[i] # r
  BY DEF Line
<1>2. LET v == Append(w, r) IN
      v \in Seq(Requests) /\ Distinct(v) /\ Line(v) = Line(w) \cup {r}
  <2> DEFINE v == Append(w, r)
  <2>1. /\ v \in Seq(Requests) /\ Len(v) = Len(w) + 1 /\ v[Len(w) + 1] = r
        /\ \A i \in 1..Len(w) : v[i] = w[i]
    OBVIOUS
  <2> HIDE DEF v
  <2>2. \A i \in 1..Len(v) : i \in 1..Len(w) \/ i = Len(w) + 1
    BY <1>1, <2>1
  <2>3. \A i \in 1..Len(w) : i \in 1..Len(v)
    BY <1>1, <2>1
  <2>4. Len(w) + 1 \in 1..Len(v)
    BY <1>1, <2>1
  <2>5. Distinct(v)
    BY <1>1, <2>1, <2>2 DEF Distinct
  <2>6. Line(v) = Line(w) \cup {r}
    BY <2>1, <2>2, <2>3, <2>4 DEF Line
  <2> QED
    BY <2>1, <2>5, <2>6 DEF v
<1>3. LET v == <<r>> \o w IN
      v \in Seq(Requests) /\ Distinct(v) /\ Line(v) = Line(w) \cup {r}
  <2> DEFINE v == <<r>> \o w
  <2>1. /\ v \in Seq(Requests) /\ Len(v) = Len(w) + 1 /\ v[1] = r
        /\ \A i \in 1..Len(w) : v[i + 1] = w[i]
    OBVIOUS
  <2> HIDE DEF v
  <2>2. \A i \in 1..Len(v) : i = 1 \/ (i - 1 \in 1..Len(w) /\ v[i] = w[i - 1])
    <3> SUFFICES ASSUME NEW i \in 1..Len(v), i # 1
                 PROVE  i - 1 \in 1..Len(w) /\ v[i] = w[i - 1]
      OBVIOUS
    <3>1. i - 1 \in 1..Len(w) /\ i = (i - 1) + 1
      BY <1>1, <2>1
    <3> QED
      BY <2>1, <3>1
  <2>3. 1 \in 1..Len(v) /\ \A i \in 1..Len(w) : i + 1 \in 1..Len(v)
    BY <1>1, <2>1
  <2>4. Distinct(v)
    <3> SUFFICES ASSUME NEW i \in 1..Len(v), NEW j \in 1..Len(v), v[i] = v[j]
                 PROVE  i = j
      BY DEF Distinct
    <3>1. CASE i = 1 \/ j = 1
      BY <1>1, <2>1, <2>2, <3>1
    <3>2. CASE i # 1 /\ j # 1
      <4>1. i - 1 = j - 1
        BY <2>2, <3>2 DEF Distinct
      <4> QED
        BY <4>1
    <3> QED
      BY <3>1, <3>2
  <2>5. Line(v) = Line(w) \cup {r}
    <3>1. \A i \in 1..Len(v) : v[i] \in Line(w) \cup {r}
      BY <2>1, <2>2 DEF Line
    <3>2. r \in Line(v) /\ \A i \in 1..Len(w) : w[i] \in Line(v)
      BY <2>1, <2>3 DEF Line
    <3> QED
      BY <3>1, <3>2 DEF Line
  <2> QED
    BY <2>1, <2>4, <2>5 DEF v
<1> QED
  BY <1>2, <1>3

LEMMA LeavesLine ==
  ASSUME NEW w \in Seq(Requests), Distinct(w), w # <<>>
  PROVE  Tail(w) \in Seq(Requests) /\ Distinct(Tail(w)) /\ Line(Tail(w)) = Line(w) \ {Head(w)}
<1> DEFINE v == Tail(w)
<1>1. /\ v \in Seq(Requests) /\ Len(w) \in Nat /\ Len(w) >= 1 /\ Len(v) = Len(w) - 1
      /\ Head(w) = w[1] /\ \A i \in 1..Len(v) : v[i] = w[i + 1]
  OBVIOUS
<1> HIDE DEF v
<1>2. \A i \in 1..Len(v) : i + 1 \in 1..Len(w) /\ i + 1 # 1
  BY <1>1
<1>3. \A i \in 1..Len(w) : i = 1 \/ (i - 1 \in 1..Len(v) /\ v[i - 1] = w[i])
  <2> SUFFICES ASSUME NEW i \in 1..Len(w), i # 1
               PROVE  i - 1 \in 1..Len(v) /\ v[i - 1] = w[i]
    OBVIOUS
  <2>1. i - 1 \in 1..Len(v) /\ (i - 1) + 1 = i
    BY <1>1
  <2> QED
    BY <1>1, <2>1
<1>4. 1 \in 1..Len(w)
  BY <1>1
<1>5. Distinct(v)
  <2> SUFFICES ASSUME NEW i \in 1..Len(v), NEW j \in 1..Len(v), v[i] = v[j] PROVE i = j
    BY DEF Distinct
  <2>1. i + 1 = j + 1
    BY <1>1, <1>2 DEF Distinct
  <2> QED
    BY <2>1
<1>6. Line(v) = Line(w) \ {Head(w)}
  <2>1. \A i \in 1..Len(v) : v[i] \in Line(w) /\ v[i] # Head(w)
    BY <1>1, <1>2, <1>4 DEF Line, Distinct
  <2>2. \A i \in 1..Len(w) : w[i] # Head(w) => w[i] \in Line(v)
    BY <1>1, <1>3 DEF Line
  <2> QED
    BY <2>1, <2>2 DEF Line
<1> QED
  BY <1>1, <1>5, <1>6 DEF v

\* A step of a request that neither joins nor leaves the line.
LEMMA LineStays ==
  ASSUME QueueExact, UNCHANGED waiting,
         \A r \in Requests : At(r, "queued")' <=> At(r, "queued")
  PROVE  QueueExact'
BY DEF QueueExact

LEMMA QueueStep == RegistryInv /\ QueueInv /\ [Next]_vars => QueueInv'
<1> SUFFICES ASSUME RegistryInv, QueueInv, [Next]_vars PROVE QueueInv'
  OBVIOUS
<1>1. /\ run \in [Requests -> RunType] /\ waiting \in Seq(Requests)
      /\ QueueExact /\ Distinct(waiting)
      /\ \A r \in Requests : run[r] \in RunType /\ (r \in Line(waiting) <=> At(r, "queued"))
  BY DEF RegistryInv, RegistryTypes, QueueInv, QueueExact
<1>2. ASSUME NEW r \in Requests, NEW pc, EndAt(r, pc) \/ Goto(r, pc)
      PROVE  /\ run'[r].pc = pc
             /\ \A q \in Requests \ {r} : run'[q] = run[q]
  <2>1. CASE Goto(r, pc)
    BY <1>1, <2>1 DEF Goto, RunType
  <2>2. CASE EndAt(r, pc)
    <3>1. run'[r] = [run[r] EXCEPT !.pc = pc, !.signal = "none", !.tool = "none",
                                   !.announced = FALSE]
      BY <1>1, <2>2 DEF EndAt
    <3>2. run'[r].pc = pc
      BY <1>1, <3>1 DEF RunType
    <3> QED
      BY <1>1, <2>2, <3>2 DEF EndAt
  <2> QED
    BY <1>2, <2>1, <2>2
<1>3. ASSUME NEW r \in Requests, ~At(r, "queued"), Goto(r, "queued"),
             waiting' \in {Append(waiting, r), <<r>> \o waiting}
      PROVE  waiting' \in Seq(Requests) /\ QueueExact'
  <2>1. /\ waiting' \in Seq(Requests) /\ Distinct(waiting')
        /\ Line(waiting') = Line(waiting) \cup {r}
    BY <1>1, <1>3, JoinsLine
  <2>2. \A q \in Requests : At(q, "queued")' <=> At(q, "queued") \/ q = r
    BY <1>2, <1>3 DEF At
  <2> QED
    BY <1>1, <2>1, <2>2 DEF QueueExact
<1>4. ASSUME NEW r \in Requests, Trigger(r) PROVE QueueInv'
  <2>1. CASE TriggerJob(r)
    <3>1. ~At(r, "queued")
      BY <2>1 DEF TriggerJob, At
    <3> QED
      BY <1>3, <2>1, <3>1 DEF TriggerJob, QueueInv, said
  <2>2. CASE TriggerStream(r)
    <3>1. At(r, "idle") /\ run'[r].pc = "tool" /\ \A q \in Requests \ {r} : run'[q] = run[q]
      BY <1>1, <2>2 DEF TriggerStream, RunType
    <3>2. \A q \in Requests : At(q, "queued")' <=> At(q, "queued")
      BY <3>1 DEF At
    <3> QED
      BY <1>1, <2>2, <3>2, LineStays DEF TriggerStream, QueueInv, jobVars, said
  <2>3. CASE TriggerMalformed(r)
    <3>1. PICK pc : EndAt(r, pc) /\ pc \in {"delayed", "failed"}
      BY <2>3 DEF TriggerMalformed, AttemptThrows
    <3>2. \A q \in Requests : At(q, "queued")' <=> At(q, "queued")
      BY <1>2, <2>3, <3>1 DEF TriggerMalformed, At
    <3> QED
      BY <1>1, <2>3, <3>2, LineStays DEF TriggerMalformed, QueueInv, said
  <2> QED
    BY <1>4, <2>1, <2>2, <2>3 DEF Trigger
<1>5. ASSUME NEW r \in Requests, Take(r) PROVE QueueInv'
  <2>1. /\ waiting # <<>> /\ r = Head(waiting) /\ waiting' = Tail(waiting)
        /\ UNCHANGED <<malformed, crashes, reported, excused>>
    BY <1>5 DEF Take, TakeCancelled, TakeMalformed, TakeTool, TakeAgent, AsksGuard, Takes,
                history
  <2>2. run'[r].pc # "queued" /\ \A q \in Requests \ {r} : run'[q] = run[q]
    <3>1. CASE TakeCancelled(r) \/ TakeMalformed(r)
      <4>1. PICK pc \in Pcs \ RunPcs : EndAt(r, pc) /\ pc \in {"delayed", "failed"}
        BY <3>1 DEF TakeCancelled, TakeMalformed, AttemptThrows, Pcs, RunPcs
      <4> QED
        BY <1>2, <4>1
    <3>2. CASE TakeTool(r)
      BY <1>1, <3>2 DEF TakeTool, RunType
    <3>3. CASE TakeAgent(r)
      BY <1>1, <3>3 DEF TakeAgent, RunType
    <3> QED
      BY <1>5, <3>1, <3>2, <3>3 DEF Take
  <2>3. /\ waiting' \in Seq(Requests) /\ Distinct(waiting')
        /\ Line(waiting') = Line(waiting) \ {r}
    BY <1>1, <2>1, LeavesLine
  <2>4. \A q \in Requests : At(q, "queued")' <=> At(q, "queued") /\ q # r
    BY <2>2 DEF At
  <2>5. QueueExact'
    BY <1>1, <2>3, <2>4 DEF QueueExact
  <2> QED
    BY <2>1, <2>3, <2>5 DEF QueueInv
<1>6. ASSUME NEW r \in Requests, RunStep(r) PROVE QueueInv'
  <2>1. Executing(r) /\ \A q \in Requests \ {r} : run'[q] = run[q]
    BY <1>6, RunStepIsOwn
  <2>2. run'[r].pc # "queued"
    <3>1. ASSUME AttemptThrows(r) PROVE run'[r].pc # "queued"
      <4>1. PICK pc : EndAt(r, pc) /\ pc \in {"delayed", "failed"}
        BY <3>1 DEF AttemptThrows
      <4> QED
        BY <1>2, <4>1
    <3>2. CASE AgentAnswers(r) \/ Clarify(r) \/ ToolCompletes(r) \/ ToRewrite(r) \/ ToGraph(r)
      <4>1. EndAt(r, "done") \/ Goto(r, "rewrite") \/ Goto(r, "graph")
        BY <3>2 DEF AgentAnswers, Clarify, ToolCompletes, ToRewrite, ToGraph
      <4> QED
        BY <1>2, <4>1
    <3>3. CASE RunFails(r) \/ RunAborts(r) \/ RunMisread(r) \/ FastTrackCancelled(r)
      BY <3>1, <3>3 DEF RunFails, RunAborts, RunMisread, FastTrackCancelled
    <3>4. CASE Rerun(r)
      BY <1>1, <3>1, <3>4 DEF Rerun, RunType
    <3>5. CASE FastTrack(r) \/ SummaryWasEmpty(r)
      <4>1. CASE FastTrack(r)
        <5>1. PICK t \in ToolNames : run' = [run EXCEPT ![r] =
                     [@ EXCEPT !.pc = "tool", !.tool = t,
                               !.signal = IF RegistersOwn(r) THEN "live" ELSE run[r].signal]]
          BY <4>1 DEF FastTrack
        <5> QED
          BY <1>1, <5>1 DEF RunType
      <4>2. CASE SummaryWasEmpty(r)
        BY <1>1, <4>2 DEF SummaryWasEmpty, RunType
      <4> QED
        BY <3>5, <4>1, <4>2
    <3>6. CASE ToolAnnounces(r)
      BY <1>1, <3>6 DEF ToolAnnounces, At, RunType
    <3> QED
      BY <1>6, <3>2, <3>3, <3>4, <3>5, <3>6 DEF RunStep
  <2>3. \A q \in Requests : At(q, "queued")' <=> At(q, "queued")
    BY <2>1, <2>2 DEF At, Executing, RunPcs
  <2>4. /\ UNCHANGED <<malformed, waiting, crashes>>
        /\ excused' \subseteq excused \cup {r} /\ reported' \subseteq reported \cup {r}
    BY <1>6 DEF RunStep, AgentAnswers, Clarify, ToRewrite, ToGraph, Rerun, FastTrack,
                FastTrackCancelled, ToolAnnounces, ToolCompletes, SummaryWasEmpty, RunFails,
                RunAborts, RunMisread, RunFrame, said
  <2> QED
    BY <1>1, <2>3, <2>4, LineStays DEF QueueInv
<1>7. ASSUME NEW r \in Requests, NEW w \in BOOLEAN, Cancel(r, w) PROVE QueueInv'
  <2>1. \A q \in Requests : At(q, "queued")' <=> At(q, "queued")
    BY <1>1, <1>7 DEF Cancel, At, RunType
  <2>2. UNCHANGED <<malformed, waiting, crashes, reported>> /\ excused' \subseteq Requests
    BY <1>7 DEF Cancel, jobVars, QueueInv, said
  <2> QED
    BY <1>1, <2>1, <2>2, LineStays DEF QueueInv
<1>8. ASSUME NEW r \in Requests, Promote(r) PROVE QueueInv'
  <2>1. ~At(r, "queued")
    BY <1>8 DEF Promote, At
  <2> QED
    BY <1>3, <1>8, <2>1 DEF Promote, QueueInv, history, said
<1>9. ASSUME NEW r \in Requests, RecoverStalled(r) PROVE QueueInv'
  <2>1. ~At(r, "queued") /\ UNCHANGED <<malformed, crashes, reported, excused>>
    BY <1>9 DEF RecoverStalled, At, history, said
  <2>2. CASE Goto(r, "queued") /\ waiting' = <<r>> \o waiting
    BY <1>3, <2>1, <2>2 DEF QueueInv
  <2>3. CASE Goto(r, "failed") /\ UNCHANGED waiting
    <3>1. \A q \in Requests : At(q, "queued")' <=> At(q, "queued")
      BY <1>2, <2>1, <2>3 DEF At
    <3> QED
      BY <1>1, <2>1, <2>3, <3>1, LineStays DEF QueueInv
  <2> QED
    BY <1>9, <2>2, <2>3 DEF RecoverStalled
<1>10. CASE (\E c \in Conversations : Timer(c)) \/ Tick \/ UNCHANGED vars
  <2>1. UNCHANGED <<run, malformed, waiting, crashes, reported, excused>>
    BY <1>10 DEF Timer, Tick, vars, jobVars, history, said
  <2>2. \A q \in Requests : At(q, "queued")' <=> At(q, "queued")
    BY <2>1 DEF At
  <2> QED
    BY <1>1, <2>1, <2>2, LineStays DEF QueueInv
<1>11. CASE Crash
  <2>1. UNCHANGED <<malformed, waiting, reported, excused>> /\ crashes' = crashes + 1
    BY <1>11 DEF Crash, said
  <2>2. ASSUME NEW q \in Requests PROVE At(q, "queued")' <=> At(q, "queued")
    <3>1. ~Executing(q) => run'[q] = run[q]
      BY <1>11 DEF Crash
    <3>2. Executing(q) => run'[q].pc \in {"stalled", "lost"}
      BY <1>1, <1>11 DEF Crash, RunType
    <3> QED
      BY <3>1, <3>2 DEF At, Executing, RunPcs
  <2> QED
    BY <1>1, <2>1, <2>2, LineStays DEF QueueInv
<1> QED
  BY <1>4, <1>5, <1>6, <1>7, <1>8, <1>9, <1>10, <1>11 DEF Next

LEMMA InitQueueInv == Init => QueueInv
<1> SUFFICES ASSUME Init PROVE QueueInv
  OBVIOUS
<1>1. Line(waiting) = {} /\ Distinct(waiting) /\ waiting \in Seq(Requests)
  BY DEF Init, Line, Distinct
<1>2. \A r \in Requests : ~At(r, "queued")
  BY DEF Init, At
<1> QED
  BY <1>1, <1>2 DEF Init, QueueInv, QueueExact

\* Through triggers, retries, cancels, stalls and crashes the waiting list
\* holds each queued job exactly once: none is lost from it or taken twice, and
\* what the worker finds at its head is always a job to take.
THEOREM QueueAlwaysExact == Spec => []QueueExact
<1>1. QueueInv => QueueExact
  BY DEF QueueInv
<1> QED
  BY <1>1, InitRegistryInv, RegistryStep, InitQueueInv, QueueStep, PTL DEF Spec

\* The types of the requests, jobs, flags and events are right in all reachable
\* states.
THEOREM RequestsTypeCorrect == Spec => []TypeOK
<1>1. RegistryInv /\ FlagInv /\ LifeInv /\ QueueInv => TypeOK
  BY DEF RegistryInv, RegistryTypes, FlagInv, FlagTypes, LifeInv, LifeTypes, QueueInv, TypeOK,
         TypeOKRegistry, RunType, JobType, EventType
<1> QED
  BY <1>1, InitRegistryInv, RegistryStep, InitFlagInv, FlagStep, InitLifeInv, LifeStep,
     InitQueueInv, QueueStep, PTL DEF Spec
=============================================================================
