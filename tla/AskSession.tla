----------------------------- MODULE AskSession -----------------------------
(***************************************************************************)
(* What getOrCreateActiveAskSession() promises the askers of one user in   *)
(* one conversation: it acts as one atomic step, which answers the active  *)
(* ASK session and creates one when there is none.  Sessions are deleted   *)
(* at any time.                                                            *)
(*                                                                         *)
(* The promise has one exception.  Once some call has outlived the lease   *)
(* of its lock, a session may be created next to an active one; answers    *)
(* are as before.                                                          *)
(***************************************************************************)
EXTENDS Integers

CONSTANTS Callers, NoSession

VARIABLES
    active,  \* the sessions with isActive = true
    lastId,  \* the newest session that was ever created
    answer,  \* caller -> the session its call settled on, NoSession before
    overrun  \* some call has outlived its lease

vars == <<active, lastId, answer, overrun>>

TypeOK ==
    /\ active \subseteq 1..lastId
    /\ lastId \in Nat
    /\ answer \in [Callers -> Nat \cup {NoSession}]
    /\ overrun \in BOOLEAN

Init ==
    /\ active = {}
    /\ lastId = 0
    /\ answer = [a \in Callers |-> NoSession]
    /\ overrun = FALSE

Reuse(a) ==
    /\ answer[a] = NoSession
    /\ \E s \in active :
          /\ \A t \in active : t <= s  \* the newest
          /\ answer' = [answer EXCEPT ![a] = s]
    /\ UNCHANGED <<active, lastId, overrun>>

Create(a) ==
    /\ answer[a] = NoSession
    /\ active = {} \/ overrun
    /\ lastId' = lastId + 1
    /\ active' = active \cup {lastId + 1}
    /\ answer' = [answer EXCEPT ![a] = lastId + 1]
    /\ UNCHANGED overrun

Delete(s) ==
    /\ active' = active \ {s}
    /\ UNCHANGED <<lastId, answer, overrun>>

Overrun ==
    /\ overrun' = TRUE
    /\ UNCHANGED <<active, lastId, answer>>

Next ==
    \/ \E a \in Callers : Reuse(a) \/ Create(a)
    \/ \E s \in active : Delete(s)
    \/ Overrun

Spec == Init /\ [][Next]_vars
=============================================================================
