--------------------------- MODULE SessionMessages ---------------------------
(***************************************************************************)
(* The messages of one session: rows in the database, and the last         *)
(* CacheMax of them cached in Redis.  Every exchange of a question and an  *)
(* answer reads the history (getSessionMessages) and then adds its two     *)
(* messages one after the other (addSessionMessage); exchanges interleave. *)
(* The attempts of an ask that is retried are exchanges of their own.      *)
(*                                                                         *)
(* A read fills the cache, a write appends to it if it is there, and both  *)
(* are a GET and a SET without a transaction.  Redis errors are swallowed, *)
(* database errors end the exchange, and may have left the row; only those *)
(* of an answer that was replayed from ask:cache do not end it, and it is  *)
(* answered once more.                                                     *)
(***************************************************************************)
EXTENDS Integers, Sequences, FiniteSets

CONSTANTS
    Exchanges,
    NotCached,
    CacheMax,    \* 50 in the code
    MaxFaults    \* bound: how often the process is killed or a row's reply lost

Roles == {"user", "assistant"}
Message == [of : Exchanges, role : Roles]

ASSUME SessionMessagesAssumption ==
    /\ CacheMax \in Nat \ {0}
    /\ NotCached \notin Seq(Message)
    /\ MaxFaults \in Nat

VARIABLES
    pc,       \* where each exchange is
    role,     \* which of its messages it adds next
    local,    \* the list it has read and will write back
    rows,     \* the rows of the session, by creation time
    cached,   \* ai:session:<id>:messages
    faults,   \* how often the process was killed or the reply of a row lost
    disturbed,  \* history: see Disturb
    overlapped, \* history: exchanges one of which asked while the other was under way
    unlisted    \* history: exchanges whose question did not get into the cached list

vars == <<pc, role, local, rows, cached, faults, disturbed, overlapped, unlisted>>

Pcs == {"idle", "loading", "refilling", "asking", "appending", "merging", "ended"}

\* Between a row and the list in the cache that has it.
Writing(e) == pc[e] \in {"appending", "merging"}

\* Between a miss and the list that fills the cache.
Filling(e) == pc[e] \in {"loading", "refilling"}

Quiet == \A e \in Exchanges : ~Writing(e) /\ ~Filling(e)

TypeOK ==
    /\ pc \in [Exchanges -> Pcs]
    /\ role \in [Exchanges -> Roles]
    /\ local \in [Exchanges -> Seq(Message)]
    /\ rows \in Seq(Message)
    /\ cached \in Seq(Message) \cup {NotCached}
    /\ faults \in Nat
    /\ disturbed \in BOOLEAN
    /\ overlapped \subseteq Exchanges
    /\ unlisted \subseteq Exchanges

Init ==
    /\ pc = [e \in Exchanges |-> "idle"]
    /\ role = [e \in Exchanges |-> "user"]
    /\ local = [e \in Exchanges |-> <<>>]
    /\ rows = <<>>
    /\ cached = NotCached
    /\ faults = 0
    /\ disturbed = FALSE
    /\ overlapped = {} /\ unlisted = {}

-----------------------------------------------------------------------------
\* slice(-CacheMax), and "orderBy createdAt desc, take CacheMax" turned round.
Recent(list) ==
    IF Len(list) <= CacheMax THEN list
    ELSE SubSeq(list, Len(list) - CacheMax + 1, Len(list))

Forget(e) == local' = [local EXCEPT ![e] = <<>>]

Goto(e, from, to) == pc[e] = from /\ pc' = [pc EXCEPT ![e] = to]

\* An exchange that has added its question answers; then it has ended.
AfterAdding(e) ==
    IF role[e] = "user"
    THEN pc' = [pc EXCEPT ![e] = "asking"] /\ role' = [role EXCEPT ![e] = "assistant"]
    ELSE pc' = [pc EXCEPT ![e] = "ended"] /\ UNCHANGED role

\* The list may now differ from the rows: two writers, or a writer and a
\* filler, were between their GET and SET at the same time, or a GET or SET
\* of a writer failed while a list was cached, or a writer was killed.
Disturb(condition) == disturbed' = (disturbed \/ condition)

\* e asks: it overlaps with whoever is under way.
Overlap(e) ==
    LET others == {f \in Exchanges \ {e} : pc[f] \notin {"idle", "ended"}} IN
    overlapped' = IF role[e] = "assistant" \/ others = {} THEN overlapped
                  ELSE overlapped \cup others \cup {e}

\* The message of e is not added to the list, if there is one.
NotListed(e) ==
    /\ Disturb(cached # NotCached)
    /\ unlisted' = IF role[e] = "user" /\ cached # NotCached
                   THEN unlisted \cup {e} ELSE unlisted

-----------------------------------------------------------------------------
(* getSessionMessages                                                      *)

ReadHit(e) ==
    /\ Goto(e, "idle", "asking")
    /\ cached # NotCached
    /\ UNCHANGED <<role, local, rows, cached, faults, disturbed, overlapped, unlisted>>

ReadMiss(e) ==  \* or the read failed
    /\ Goto(e, "idle", "loading")
    /\ Disturb(\E f \in Exchanges : Writing(f))
    /\ UNCHANGED <<role, local, rows, cached, faults, overlapped, unlisted>>

Load(e) ==
    /\ Goto(e, "loading", "refilling")
    /\ local' = [local EXCEPT ![e] = Recent(rows)]
    /\ UNCHANGED <<role, rows, cached, faults, disturbed, overlapped, unlisted>>

Refill(e) ==
    /\ Goto(e, "refilling", "asking")
    /\ cached' = local[e]
    /\ Forget(e)
    /\ UNCHANGED <<role, rows, faults, disturbed, overlapped, unlisted>>

RefillLost(e) ==
    /\ Goto(e, "refilling", "asking")
    /\ Forget(e)
    /\ UNCHANGED <<role, rows, cached, faults, disturbed, overlapped, unlisted>>

-----------------------------------------------------------------------------
(* addSessionMessage                                                       *)

CreateRow(e) ==
    /\ Goto(e, "asking", "appending")
    /\ rows' = Append(rows, [of |-> e, role |-> role[e]])
    /\ Disturb(\E f \in Exchanges \ {e} : Writing(f) \/ Filling(f))
    /\ Overlap(e)
    /\ UNCHANGED <<role, local, cached, faults, unlisted>>

\* The row is there and the reply lost: addSessionMessage throws.
CreateRowLost(e) ==
    /\ faults < MaxFaults
    /\ faults' = faults + 1
    /\ pc[e] = "asking"
    /\ \/ pc' = [pc EXCEPT ![e] = "ended"]
       \/ role[e] = "assistant" /\ UNCHANGED pc
    /\ rows' = Append(rows, [of |-> e, role |-> role[e]])
    /\ Disturb(cached # NotCached \/ \E f \in Exchanges \ {e} : Writing(f) \/ Filling(f))
    /\ Overlap(e)
    /\ UNCHANGED <<role, local, cached, unlisted>>

ReadForAppend(e) ==
    /\ cached # NotCached
    /\ Goto(e, "appending", "merging")
    /\ local' = [local EXCEPT ![e] = cached]
    /\ UNCHANGED <<role, rows, cached, faults, disturbed, overlapped, unlisted>>

NothingToAppendTo(e) ==  \* or the read failed
    /\ pc[e] = "appending"
    /\ AfterAdding(e)
    /\ NotListed(e)
    /\ UNCHANGED <<local, rows, cached, faults, overlapped>>

\* Mutated: the message is put in front, as the database orders them.
MergeInFront(e) ==
    /\ pc[e] = "merging"
    /\ AfterAdding(e)
    /\ cached' = Recent(<<[of |-> e, role |-> role[e]]>> \o local[e])
    /\ Forget(e)
    /\ UNCHANGED <<rows, faults, disturbed, overlapped, unlisted>>

\* Mutated: the list is not cut to CacheMax.
MergeAll(e) ==
    /\ pc[e] = "merging"
    /\ AfterAdding(e)
    /\ cached' = Append(local[e], [of |-> e, role |-> role[e]])
    /\ Forget(e)
    /\ UNCHANGED <<rows, faults, disturbed, overlapped, unlisted>>

Merge(e) ==
    /\ pc[e] = "merging"
    /\ AfterAdding(e)
    /\ cached' = Recent(Append(local[e], [of |-> e, role |-> role[e]]))
    /\ Forget(e)
    /\ UNCHANGED <<rows, faults, disturbed, overlapped, unlisted>>

MergeLost(e) ==
    /\ pc[e] = "merging"
    /\ AfterAdding(e)
    /\ Forget(e)
    /\ NotListed(e)
    /\ UNCHANGED <<rows, cached, faults, overlapped>>

-----------------------------------------------------------------------------
\* The database fails, or the exchange ends for a reason of its own.
Stop(e) ==
    /\ pc[e] \in {"loading", "asking"}
    /\ pc' = [pc EXCEPT ![e] = "ended"]
    /\ UNCHANGED <<role, local, rows, cached, faults, disturbed, overlapped, unlisted>>

\* The key goes: its hour is over, or the session is deleted or deactivated
\* (invalidateSessionCache, enforceSessionLimit).
DropKey ==
    /\ cached # NotCached
    /\ cached' = NotCached
    /\ disturbed' = (disturbed /\ ~Quiet)
    /\ UNCHANGED <<pc, role, local, rows, faults, overlapped, unlisted>>

Crash ==
    /\ faults < MaxFaults
    /\ faults' = faults + 1
    /\ Disturb(cached # NotCached /\ \E e \in Exchanges : Writing(e))
    /\ pc' = [e \in Exchanges |-> IF pc[e] = "idle" THEN "idle" ELSE "ended"]
    /\ local' = [e \in Exchanges |-> <<>>]
    /\ UNCHANGED <<role, rows, cached, overlapped, unlisted>>

-----------------------------------------------------------------------------
Step(e) ==
    \/ ReadHit(e) \/ ReadMiss(e) \/ Load(e) \/ Refill(e) \/ RefillLost(e)
    \/ CreateRow(e) \/ CreateRowLost(e) \/ ReadForAppend(e) \/ NothingToAppendTo(e)
    \/ Merge(e) \/ MergeLost(e) \/ Stop(e)

Next == (\E e \in Exchanges : Step(e)) \/ DropKey \/ Crash

Spec == Init /\ [][Next]_vars

-----------------------------------------------------------------------------
(* What buildHistoryStringFromDb() makes of a list: each answer goes with  *)
(* the last question before it, if that has not been answered yet.         *)

\* What getSessionMessages() may return: the cached list, or when there is
\* none or it cannot be read, the rows.  The history is made from its last ten,
\* whose pairs are pairs of the whole list.
Histories == {Recent(rows)} \cup ({cached} \ {NotCached})

\* Mutated: the first open question is kept, not the last.
PendingFirst(list, j) ==
    {i \in 1..(j - 1) : /\ \A k \in i..(j - 1) : list[k].role = "user"
                       /\ i > 1 => list[i - 1].role = "assistant"}

\* pendingQuestion at the message j: a newer question replaces it and an answer
\* clears it, so that nothing comes between.
Pending(list, j) == {i \in 1..(j - 1) : i + 1 = j /\ list[i].role = "user"}

HistoryPairs(list) ==
    UNION {{<<list[i].of, list[j].of>> : i \in Pending(list, j)} :
              j \in {k \in 1..Len(list) : list[k].role = "assistant"}}

-----------------------------------------------------------------------------
(* Properties.                                                             *)

\* When nobody is between a GET and a SET, and the key has not been disturbed
\* in its life, the cached list is the last CacheMax rows in their order: an
\* exchange sees every earlier one.
CacheExact ==
    Quiet /\ ~disturbed => cached \in {NotCached, Recent(rows)}

\* However reads and writes interleave, fail and overwrite one another, no
\* list that is cached or about to be cached has an answer before the
\* question it answers: lost and repeated messages never swap the two.
Ordered(list) ==
    \A i, j \in 1..Len(list) :
        /\ list[i].of = list[j].of
        /\ list[i].role = "assistant" /\ list[j].role = "user"
        => j < i

AnswerAfterQuestion ==
    /\ cached # NotCached => Ordered(cached)
    /\ \A e \in Exchanges : pc[e] \in {"refilling", "merging"} => Ordered(local[e])

\* The history an ask is given pairs an answer with the question it answers,
\* whatever was left half done: questions without an answer and answers stored
\* twice, expiry, refills and lost writes of answers.  It may pair it with an
\* older one only if one of two exchanges asked while the other was under way,
\* or the write of the question to the cached list was lost.
HistoryPairsOwn ==
    \A list \in Histories : \A p \in HistoryPairs(list) :
        p[1] = p[2] \/ p[2] \in overlapped \cup unlisted
=============================================================================
