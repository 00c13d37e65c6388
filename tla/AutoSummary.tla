----------------------------- MODULE AutoSummary -----------------------------
(***************************************************************************)
(* RedisPubsubService: each chat:new_message event starts a handler that   *)
(* queues the message for embedding and then counts it; the handler that   *)
(* counts the Threshold-th message of the conversation resets the counter  *)
(* and queues a summary.                                                   *)
(*                                                                         *)
(* Handlers are not serialised: they interleave at every await.  INCR,     *)
(* SET 0 and the queue are separate commands, and each may fail.           *)
(***************************************************************************)
EXTENDS Integers, FiniteSets

CONSTANTS
    Messages,   \* the messages of one conversation
    NoMessage,
    Threshold,  \* 50 in the code
    MaxCrashes  \* bound: how often the process is killed

ASSUME AutoSummaryAssumption ==
    /\ Threshold \in Nat \ {0}
    /\ NoMessage \notin Messages
    /\ MaxCrashes \in Nat

VARIABLES
    pc,       \* where the handler of each message is
    counter,  \* the Redis key msg_count:<conversation>
    embeds,   \* messages in the embed queue
    jobs,     \* summaries that were queued
    crashes,  \* how often the process was killed
    last,     \* history: the message that was counted last
    counted,  \* history: how many messages were counted
    covered,  \* history: Threshold times the number of resets
    raced     \* history: a message was counted before a due reset happened

vars == <<pc, counter, embeds, jobs, crashes, last, counted, covered, raced>>
history == <<last, counted, covered, raced>>

Pcs == {"idle", "embedding", "counting", "resetting", "adding", "done", "dropped"}

TypeOK ==
    /\ pc \in [Messages -> Pcs]
    /\ counter \in Nat
    /\ embeds \subseteq Messages
    /\ jobs \in Nat
    /\ crashes \in Nat
    /\ last \in Messages \cup {NoMessage}
    /\ counted \in Nat
    /\ covered \in Nat
    /\ raced \in BOOLEAN

Init ==
    /\ pc = [m \in Messages |-> "idle"]
    /\ counter = 0 /\ embeds = {} /\ jobs = 0 /\ crashes = 0
    /\ last = NoMessage /\ counted = 0 /\ covered = 0 /\ raced = FALSE

-----------------------------------------------------------------------------
Move(m, from, to) == pc[m] = from /\ pc' = [pc EXCEPT ![m] = to]

Resetting(m) == pc[m] = "resetting"

Receive(m) ==
    /\ Move(m, "idle", "embedding")
    /\ UNCHANGED <<counter, embeds, jobs, crashes, history>>

QueueEmbedding(m) ==
    /\ Move(m, "embedding", "counting")
    /\ embeds' = embeds \cup {m}
    /\ UNCHANGED <<counter, jobs, crashes, history>>

\* Mutated: only the very Threshold-th message is due.
DueExactly(count) == count = Threshold

\* Mutated: > where >= is meant.
DueTooLate(count) == count > Threshold

IsDue(count) == count >= Threshold

\* INCR, as Redis executes it, whether its reply arrives or not.
Increment(m) ==
    /\ counter' = counter + 1
    /\ last' = m
    /\ counted' = counted + 1
    /\ raced' = (raced \/ \E n \in Messages : Resetting(n))
    /\ UNCHANGED <<embeds, jobs, crashes, covered>>

Count(m) ==
    /\ Move(m, "counting", IF IsDue(counter + 1) THEN "resetting" ELSE "done")
    /\ Increment(m)

CountReplyLost(m) ==
    /\ Move(m, "counting", "dropped")
    /\ Increment(m)

\* Mutated: SET takes only its own message off the counter's start.
ResetLeavesOne(m) ==
    /\ Move(m, "resetting", "adding")
    /\ counter' = 1
    /\ covered' = covered + Threshold
    /\ UNCHANGED <<embeds, jobs, crashes, last, counted, raced>>

\* SET 0, a command of its own: what was counted since INCR is forgotten.
Reset(m) ==
    /\ Move(m, "resetting", "adding")
    /\ counter' = 0
    /\ covered' = covered + Threshold
    /\ UNCHANGED <<embeds, jobs, crashes, last, counted, raced>>

AddJob(m) ==
    /\ Move(m, "adding", "done")
    /\ jobs' = jobs + 1
    /\ UNCHANGED <<counter, embeds, crashes, history>>

\* Any await may throw: the handler's catch logs it and the rest is skipped.
HandlerThrows(m) ==
    /\ pc[m] \in {"embedding", "counting", "resetting", "adding"}
    /\ pc' = [pc EXCEPT ![m] = "dropped"]
    /\ UNCHANGED <<counter, embeds, jobs, crashes, history>>

Crash ==
    /\ crashes < MaxCrashes
    /\ crashes' = crashes + 1
    /\ pc' = [m \in Messages |->
                 IF pc[m] \in {"embedding", "counting", "resetting", "adding"}
                 THEN "dropped" ELSE pc[m]]
    /\ UNCHANGED <<counter, embeds, jobs, history>>

Step(m) ==
    \/ QueueEmbedding(m) \/ Count(m) \/ CountReplyLost(m) \/ Reset(m) \/ AddJob(m)
    \/ HandlerThrows(m)

Next ==
    \/ \E m \in Messages : Receive(m) \/ Step(m)
    \/ Crash

Spec == Init /\ [][Next]_vars

-----------------------------------------------------------------------------
(* Properties.                                                             *)

\* A counter that has reached the threshold is never overlooked: the handler
\* that counted last is about to reset it, or was stopped by a fault, and
\* then the next message finds it due again.
DueIsNoticed ==
    counter >= Threshold => pc[last] \in {"resetting", "dropped"}

\* Every reset stands for Threshold messages of its own, whatever fails in
\* between, unless a message was counted between a due INCR and its SET 0;
\* only then can one batch be summarised twice.
ResetsCoverMessages ==
    ~raced => covered + counter <= counted

\* In undisturbed operation no counted message is forgotten either: each one
\* is in a batch of exactly Threshold messages or still in the counter.
Undisturbed == ~raced /\ \A m \in Messages : pc[m] # "dropped"

BatchesExact == Undisturbed => covered + counter = counted

(* What makes them inductive: a due reset that nobody disturbs is alone and *)
(* finds a counter that is full, and exactly full if nothing failed.       *)
OneResetAtATime ==
    ~raced => \A m, n \in Messages : Resetting(m) /\ Resetting(n) => m = n

DueIsFull ==
    ~raced => \A m \in Messages : Resetting(m) => counter >= Threshold

DueIsExact ==
    Undisturbed => \A m \in Messages : Resetting(m) => counter = Threshold

LastIsCounted == counter > 0 => last \in Messages

CountInv ==
    /\ TypeOK
    /\ LastIsCounted
    /\ DueIsNoticed
    /\ ResetsCoverMessages
    /\ BatchesExact
    /\ OneResetAtATime
    /\ DueIsFull
    /\ DueIsExact
=============================================================================
