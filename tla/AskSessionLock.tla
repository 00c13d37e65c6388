--------------------------- MODULE AskSessionLock ---------------------------
(***************************************************************************)
(* SessionCacheService.getOrCreateActiveAskSession(): the Redis lock of    *)
(* one (user, conversation), the find-or-create under it, and the polling  *)
(* that follows when the lock was not obtained.                            *)
(*                                                                         *)
(* The lock is a key with a lease (SET EX NX).  The callback does not look *)
(* at the lease: a call that runs longer keeps going after the key is      *)
(* gone.  A call that does is "late".  Redis and PostgreSQL are external.  *)
(***************************************************************************)
EXTENDS Integers, FiniteSets

CONSTANTS
    Callers,       \* concurrent calls, each with its own lock token
    NoCaller,      \* the lock key does not exist
    NoSession,
    LockTTL,       \* ASK_SESSION_LOCK_SECONDS, in ticks
    LockAttempts,  \* LOCK_MAX_ATTEMPTS
    PollAttempts   \* re-checks after the lock was not obtained

ASSUME LockAssumption ==
    /\ NoCaller \notin Callers
    /\ NoSession \notin Nat
    /\ LockTTL \in Nat \ {0}
    /\ LockAttempts \in Nat \ {0}
    /\ PollAttempts \in Nat

VARIABLES
    lockOwner,  \* whose token the lock key holds
    lease,      \* time until the key expires
    pc,         \* where each call is
    tries,      \* attempts, then polls, each call has made
    answer,     \* the session each call settled on
    active,     \* ids of the rows with isActive = true, in order of createdAt
    lastId,     \* id of the newest row
    late        \* history: calls whose lease ran out inside the callback

vars == <<lockOwner, lease, pc, tries, answer, active, lastId, late>>

\* The callback of withLock: from the lock obtained to the lock given back.
Critical == {"finding", "creating", "caching"}
Pcs == Critical \cup {"idle", "acquiring", "answering", "failing", "polling",
                      "done", "failed", "crashed"}

InCallback(a) == pc[a] \in Critical
Ended(a) == pc[a] \in {"done", "failed", "crashed"}

TypeOK ==
    /\ lockOwner \in Callers \cup {NoCaller}
    /\ lease \in 0..LockTTL
    /\ pc \in [Callers -> Pcs]
    /\ tries \in [Callers -> Nat]
    /\ answer \in [Callers -> Nat \cup {NoSession}]
    /\ lastId \in Nat
    /\ active \subseteq 1..lastId
    /\ late \subseteq Callers

Init ==
    /\ lockOwner = NoCaller
    /\ lease = 0
    /\ pc = [a \in Callers |-> "idle"]
    /\ tries = [a \in Callers |-> 0]
    /\ answer = [a \in Callers |-> NoSession]
    /\ active = {}
    /\ lastId = 0
    /\ late = {}

-----------------------------------------------------------------------------
Move(a, from, to) ==
    /\ pc[a] = from
    /\ pc' = [pc EXCEPT ![a] = to]

SessionsUnchanged == UNCHANGED <<active, lastId>>
LockUnchanged == UNCHANGED <<lockOwner, lease>>

\* findActiveSession(): the newest active one.
IsNewest(s) == \A t \in active : t <= s

AnswersNewest(a) ==
    \E s \in active : IsNewest(s) /\ answer' = [answer EXCEPT ![a] = s]

Start(a) ==
    /\ Move(a, "idle", "acquiring")
    /\ UNCHANGED <<lockOwner, lease, tries, answer, active, lastId, late>>

\* Mutated: SET NX without EX, a key that never expires.
AcquireWithoutLease(a) ==
    /\ lockOwner = NoCaller
    /\ Move(a, "acquiring", "finding")
    /\ lockOwner' = a
    /\ lease' = 0
    /\ UNCHANGED <<tries, answer, active, lastId, late>>

\* Mutated: SET without NX, which takes the key from its owner.
AcquireAnyway(a) ==
    /\ Move(a, "acquiring", "finding")
    /\ lockOwner' = a
    /\ lease' = LockTTL
    /\ UNCHANGED <<tries, answer, active, lastId, late>>

\* tryAcquireLock(): SET key token EX ttl NX.
Acquire(a) ==
    /\ lockOwner = NoCaller
    /\ Move(a, "acquiring", "finding")
    /\ lockOwner' = a
    /\ lease' = LockTTL
    /\ UNCHANGED <<tries, answer, active, lastId, late>>

\* Mutated: the attempts are not counted.
RetriesForEver(a) == UNCHANGED <<tries, pc>>

\* An attempt that failed: the loop's next one, or "Unable to acquire lock"
\* and the fallback's polls.
AfterFailedAttempt(a) ==
    IF tries[a] + 1 < LockAttempts
    THEN tries' = [tries EXCEPT ![a] = @ + 1] /\ UNCHANGED pc
    ELSE tries' = [tries EXCEPT ![a] = 0] /\ Move(a, "acquiring", "polling")

\* NX finds the key, or Redis cannot be reached.
AcquireFails(a) ==
    /\ pc[a] = "acquiring"
    /\ AfterFailedAttempt(a)
    /\ LockUnchanged /\ SessionsUnchanged /\ UNCHANGED <<answer, late>>

\* Redis sets the key and the answer is lost: the call believes it failed,
\* and now waits for a key that carries its own token.
AcquireReplyLost(a) ==
    /\ pc[a] = "acquiring"
    /\ lockOwner = NoCaller
    /\ lockOwner' = a
    /\ lease' = LockTTL
    /\ AfterFailedAttempt(a)
    /\ SessionsUnchanged /\ UNCHANGED <<answer, late>>

\* The callback: findActiveSession, and createSession when there is none.
\* A database error leaves through the same finally block.
FindExisting(a) ==
    /\ Move(a, "finding", "answering")
    /\ AnswersNewest(a)
    /\ LockUnchanged /\ SessionsUnchanged /\ UNCHANGED <<tries, late>>

\* Mutated: creates without having looked.
CreatesUnseen(a) ==
    /\ Move(a, "finding", "creating")
    /\ LockUnchanged /\ SessionsUnchanged /\ UNCHANGED <<tries, answer, late>>

FindNone(a) ==
    /\ active = {}
    /\ Move(a, "finding", "creating")
    /\ LockUnchanged /\ SessionsUnchanged /\ UNCHANGED <<tries, answer, late>>

CreateRow(a) ==
    /\ Move(a, "creating", "caching")
    /\ lastId' = lastId + 1
    /\ active' = active \cup {lastId + 1}
    /\ answer' = [answer EXCEPT ![a] = lastId + 1]
    /\ LockUnchanged /\ UNCHANGED <<tries, late>>

\* Writing the meta cache never throws; deleting the user's list may.
CacheRow(a) ==
    /\ Move(a, "caching", "answering")
    /\ LockUnchanged /\ SessionsUnchanged /\ UNCHANGED <<tries, answer, late>>

CallbackThrows(a) ==
    /\ InCallback(a)
    /\ pc' = [pc EXCEPT ![a] = "failing"]
    /\ LockUnchanged /\ SessionsUnchanged /\ UNCHANGED <<tries, answer, late>>

-----------------------------------------------------------------------------
AfterRelease(a) == pc' = [pc EXCEPT ![a] = IF @ = "answering" THEN "done" ELSE "failed"]

\* Mutated: a plain DEL, whoever owns the key.
ReleaseAny(a) ==
    /\ pc[a] \in {"answering", "failing"}
    /\ AfterRelease(a)
    /\ lockOwner' = NoCaller /\ lease' = 0
    /\ SessionsUnchanged /\ UNCHANGED <<tries, answer, late>>

\* releaseLock(): delete the key if it still holds the caller's token.
Release(a) ==
    /\ pc[a] \in {"answering", "failing"}
    /\ AfterRelease(a)
    /\ IF lockOwner = a THEN lockOwner' = NoCaller /\ lease' = 0 ELSE LockUnchanged
    /\ SessionsUnchanged /\ UNCHANGED <<tries, answer, late>>

\* The script does not reach Redis: logged, and the lease has to run out.
ReleaseLost(a) ==
    /\ pc[a] \in {"answering", "failing"}
    /\ AfterRelease(a)
    /\ LockUnchanged /\ SessionsUnchanged /\ UNCHANGED <<tries, answer, late>>

\* The fallback: four looks, without the lock, for a session another call made.
PollFinds(a) ==
    /\ tries[a] < PollAttempts
    /\ Move(a, "polling", "done")
    /\ AnswersNewest(a)
    /\ LockUnchanged /\ SessionsUnchanged /\ UNCHANGED <<tries, late>>

PollMisses(a) ==
    /\ active = {}
    /\ pc[a] = "polling" /\ tries[a] < PollAttempts
    /\ tries' = [tries EXCEPT ![a] = @ + 1]
    /\ LockUnchanged /\ SessionsUnchanged /\ UNCHANGED <<pc, answer, late>>

GiveUp(a) ==
    /\ tries[a] >= PollAttempts
    /\ Move(a, "polling", "failed")
    /\ LockUnchanged /\ SessionsUnchanged /\ UNCHANGED <<tries, answer, late>>

-----------------------------------------------------------------------------
\* Time passes; at the end of its lease the key is gone, and a call that is
\* still in its callback does not notice.
LeaseTick ==
    /\ lease > 0
    /\ lease' = lease - 1
    /\ IF lease = 1
       THEN /\ lockOwner' = NoCaller
            /\ late' = late \cup {a \in Callers : a = lockOwner /\ InCallback(a)}
       ELSE UNCHANGED <<lockOwner, late>>
    /\ UNCHANGED <<pc, tries, answer, active, lastId>>

\* softDeleteSession() from the sessions API: any session, at any time.
Delete(s) ==
    /\ active' = active \ {s}
    /\ UNCHANGED <<lockOwner, lease, pc, tries, answer, lastId, late>>

\* The process of a call dies; its key stays.
Crash(a) ==
    /\ ~Ended(a) /\ pc[a] # "idle"
    /\ pc' = [pc EXCEPT ![a] = "crashed"]
    /\ UNCHANGED <<lockOwner, lease, tries, answer, active, lastId, late>>

CallStep(a) ==
    \/ Acquire(a) \/ AcquireFails(a) \/ AcquireReplyLost(a)
    \/ FindExisting(a) \/ FindNone(a) \/ CreateRow(a) \/ CacheRow(a)
    \/ CallbackThrows(a)
    \/ Release(a) \/ ReleaseLost(a)
    \/ PollFinds(a) \/ PollMisses(a) \/ GiveUp(a)

Next ==
    \/ \E a \in Callers : Start(a) \/ CallStep(a) \/ Crash(a)
    \/ \E s \in active : Delete(s)
    \/ LeaseTick

Spec == Init /\ [][Next]_vars

\* Every await of a call settles, and the lease runs.
FairSpec == Spec /\ (\A a \in Callers : WF_vars(CallStep(a))) /\ WF_vars(LeaseTick)

-----------------------------------------------------------------------------
(* Properties.                                                             *)

\* Mutual exclusion as far as the lease gives it: a call inside the callback
\* whose lease has not run out owns the key, so there is at most one.
LockHeld ==
    \A a \in Callers : InCallback(a) /\ a \notin late => lockOwner = a

\* One active ASK session per user and conversation, unless some callback has
\* outlived its lease.  The table has no unique index: only the lock does it.
OneActiveSession ==
    late = {} => \A s, t \in active : s = t

\* releaseLock deletes only the caller's own key: the key of another call
\* goes away by its own release or at the end of its lease, never by a call
\* that was late.
OwnKeyOnly ==
    [][lockOwner # NoCaller /\ lockOwner' = NoCaller =>
          lease = 1 \/ Release(lockOwner)]_vars

\* Every call ends, whatever fails: with a session or with an error.
EveryCallEnds ==
    \A a \in Callers : pc[a] = "acquiring" ~> Ended(a)

\* No dead lock: a key left behind by a crash, a lost reply or a lost release
\* goes away by itself.
KeyGoes == lockOwner # NoCaller ~> lockOwner = NoCaller

\* A call settles on a session once: while it is still looking, waiting or
\* creating, it has no answer.
Unanswered ==
    \A a \in Callers :
        pc[a] \in {"idle", "acquiring", "finding", "creating", "polling"}
        => answer[a] = NoSession

\* What makes OneActiveSession inductive: the call that is about to create
\* found no active session, and it still is the owner.
CreatorAlone ==
    late = {} => \A a \in Callers : pc[a] = "creating" => active = {}

LockInv == TypeOK /\ LockHeld /\ OneActiveSession /\ CreatorAlone /\ Unanswered

\* The calls implement the atomic find-or-create of AskSession, whose promise
\* is weaker from the moment that a callback outlives its lease.
Abstract == INSTANCE AskSession WITH overrun <- late # {}
ImplementsAskSession == Abstract!Spec
=============================================================================
