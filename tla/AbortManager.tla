---------------------------- MODULE AbortManager ----------------------------
(***************************************************************************)
(* AbortManagerService: the in-memory registry through which a cancel      *)
(* request reaches a running AI execution and blocks the jobs queued       *)
(* behind it.                                                              *)
(*                                                                         *)
(* The service keeps two maps: requestId -> AbortController, and           *)
(* conversationId -> the instant until which the conversation counts as    *)
(* cancelled.  Time is discrete.  An instant is kept as the time that is   *)
(* left until it: 0 is an entry that has expired and is still in the map.  *)
(* Every cancel also starts a Node timer, which may fire late.             *)
(***************************************************************************)
EXTENDS Integers, FiniteSets

CONSTANTS
    Requests,       \* request ids
    Conversations,  \* conversation ids
    CancelTTL       \* CONVERSATION_CANCEL_TTL_MS, in ticks

ASSUME CancelTTLAssumption == CancelTTL \in Nat \ {0}

VARIABLES
    abortControllers,        \* request id -> "none" | "live" | "aborted"
    cancelledConversations,  \* conversation -> NoEntry | time left
    timers                   \* conversation -> times left of its pending timers

registryVars == <<abortControllers, cancelledConversations, timers>>

NoEntry == -1

TypeOKRegistry ==
    /\ abortControllers \in [Requests -> {"none", "live", "aborted"}]
    /\ cancelledConversations \in [Conversations -> {NoEntry} \cup (0..CancelTTL)]
    /\ timers \in [Conversations -> SUBSET (0..CancelTTL)]

InitRegistry ==
    /\ abortControllers = [r \in Requests |-> "none"]
    /\ cancelledConversations = [c \in Conversations |-> NoEntry]
    /\ timers = [c \in Conversations |-> {}]

-----------------------------------------------------------------------------
(* The operations.  register() overwrites: a request id names one          *)
(* controller at a time.                                                   *)

Register(r) == abortControllers' = [abortControllers EXCEPT ![r] = "live"]

Remove(r) == abortControllers' = [abortControllers EXCEPT ![r] = "none"]

\* abort() fires the controller and leaves it in the map.
AbortController(r) ==
    abortControllers' = [abortControllers EXCEPT
                            ![r] = IF @ = "none" THEN "none" ELSE "aborted"]

\* Mutated: a timer is started only for a conversation that has none.
MarkCancelledOneTimer(c) ==
    /\ cancelledConversations' = [cancelledConversations EXCEPT ![c] = CancelTTL]
    /\ timers' = [timers EXCEPT ![c] = IF @ = {} THEN {CancelTTL} ELSE @]

\* The second half of abort(), taken when the caller names a conversation.
MarkCancelled(c) ==
    /\ cancelledConversations' = [cancelledConversations EXCEPT ![c] = CancelTTL]
    /\ timers' = [timers EXCEPT ![c] = @ \cup {CancelTTL}]

\* Mutated: any cancelled conversation blocks all of them.
IsAnyCancelled(c) == \E d \in Conversations : cancelledConversations[d] > 0

\* What isConversationCancelled() answers ...
IsCancelled(c) == cancelledConversations[c] > 0

\* ... and its side effect: an expired entry it meets is deleted.
DropIfExpired(c) ==
    cancelledConversations' = [cancelledConversations EXCEPT
                                  ![c] = IF @ > 0 THEN @ ELSE NoEntry]

ClearCancel(c) ==
    cancelledConversations' = [cancelledConversations EXCEPT ![c] = NoEntry]

\* Mutated: the callback does not look at what it deletes.
TimerDeletesAnything(c) ==
    /\ 0 \in timers[c]
    /\ timers' = [timers EXCEPT ![c] = @ \ {0}]
    /\ cancelledConversations' = [cancelledConversations EXCEPT ![c] = NoEntry]

\* The setTimeout callback: it deletes the entry only when the instant it
\* finds there has passed, for a later cancel may have moved it.
TimerFires(c) ==
    /\ 0 \in timers[c]
    /\ timers' = [timers EXCEPT ![c] = @ \ {0}]
    /\ cancelledConversations' = [cancelledConversations EXCEPT
                                     ![c] = IF @ = 0 THEN NoEntry ELSE @]

OneTickLess(n) == IF n > 0 THEN n - 1 ELSE n

\* One tick of the clock.  A timer that is due stays due until it fires.
ClockAdvances ==
    /\ cancelledConversations' =
          [c \in Conversations |-> OneTickLess(cancelledConversations[c])]
    /\ timers' = [c \in Conversations |-> {OneTickLess(n) : n \in timers[c]}]

SomethingCounts ==
    \E c \in Conversations :
        \/ cancelledConversations[c] > 0
        \/ \E n \in timers[c] : n > 0

-----------------------------------------------------------------------------
(* The service on its own, under any sequence of calls.                    *)

DoRegister(r) == Register(r) /\ UNCHANGED <<cancelledConversations, timers>>

DoRemove(r) == Remove(r) /\ UNCHANGED <<cancelledConversations, timers>>

DoAbortRequest(r) ==
    AbortController(r) /\ UNCHANGED <<cancelledConversations, timers>>

DoAbort(r, c) == AbortController(r) /\ MarkCancelled(c)

DoQuery(c) == DropIfExpired(c) /\ UNCHANGED <<abortControllers, timers>>

DoClear(c) == ClearCancel(c) /\ UNCHANGED <<abortControllers, timers>>

DoTimer(c) == TimerFires(c) /\ UNCHANGED abortControllers

DoClock == SomethingCounts /\ ClockAdvances /\ UNCHANGED abortControllers

NextRegistry ==
    \/ \E r \in Requests : \/ DoRegister(r)
                           \/ DoRemove(r)
                           \/ DoAbortRequest(r)
                           \/ \E c \in Conversations : DoAbort(r, c)
    \/ \E c \in Conversations : DoQuery(c) \/ DoClear(c) \/ DoTimer(c)
    \/ DoClock

SpecRegistry == InitRegistry /\ [][NextRegistry]_registryVars

-----------------------------------------------------------------------------
(* Properties.                                                             *)

\* Every entry of cancelledConversations has a timer of its own that will
\* delete it: the map cannot keep an entry nobody will remove (the purpose
\* the code gives the setTimeout), whatever the order of cancels, clears,
\* lazy deletions and timers.
EntryHasTimer ==
    \A c \in Conversations :
        cancelledConversations[c] # NoEntry =>
            cancelledConversations[c] \in timers[c]

\* The timer of an earlier cancel never deletes the entry a later cancel has
\* renewed: an unexpired entry leaves the map only by an explicit clear.
RenewedCancelSurvives ==
    [][\A c \in Conversations :
          /\ cancelledConversations[c] > 0
          /\ cancelledConversations'[c] = NoEntry
          => DoClear(c)]_registryVars
=============================================================================
