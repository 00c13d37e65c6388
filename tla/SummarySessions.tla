--------------------------- MODULE SummarySessions ---------------------------
(***************************************************************************)
(* SummaryService.summarize(): each summary of a conversation is a session *)
(* of its own.  It starts from the newest active one, takes the messages   *)
(* after that one's marker, has the model continue its text, and becomes   *)
(* the newest itself; enforceSessionLimit() then deactivates old ones.     *)
(*                                                                         *)
(* Of a text only the messages it is made from are kept, and those that    *)
(* were cut off before the model saw them: the prompt has room for the     *)
(* last 50000 characters, whatever messages these are.  Requests are jobs  *)
(* with two attempts and interleave at every await.  A process that dies   *)
(* is a throw without an event: BullMQ runs the job again.                 *)
(***************************************************************************)
EXTENDS Integers, Sequences, FiniteSets, FiniteSetsExt

CONSTANTS
    Requests,
    CustomRequests,  \* those that ask for a range of messages
    Window,          \* DEFAULT_MESSAGE_COUNT, 300 in the code
    MaxActive,       \* 10 in the code
    MaxMessages,     \* bound: how many messages the conversation gets
    MaxSessions      \* bound: how many summaries are created

ASSUME SummaryAssumption ==
    /\ CustomRequests \subseteq Requests
    /\ Window \in Nat \ {0}
    /\ MaxActive \in Nat \ {0}
    /\ MaxMessages \in Nat
    /\ MaxSessions \in Nat

VARIABLES
    newest,    \* the number of messages, which are 1..newest
    sessions,  \* the summary sessions in the order of their creation
    stored,    \* sessions that have their text
    active,    \* sessions with isActive
    req,       \* what each request works with
    sweptTo    \* history: sessions up to this one were under the limit

sessionVars == <<newest, sessions, stored, active, req, sweptTo>>

Sessions == 1..Len(sessions)
MaxAttempts == 2
NoSession == 0

AtWork == {"fetching", "fetched", "creating", "storing", "limiting", "deactivating"}
SessionPcs == AtWork \cup {"idle", "retry", "over"}

\* clipped: newer messages were fetched than the ones after the marker.
\* seen: the previous summary was there when it was read.
\* mine: the session created.  listed: how many sessions the limit has seen.
RequestState ==
    [pc : SessionPcs, attempt : 0..MaxAttempts, base : Nat, messages : SUBSET Nat,
     clipped : BOOLEAN, seen : BOOLEAN, mine : Nat, victims : SUBSET Nat,
     listed : Nat]

\* covers: the messages its text stands for, those of earlier texts included;
\* cut: the ones that truncation took from it or from an earlier text.
\* start: the text begins behind this message, 0 when no text it continues
\* was missing.  exact: no range, and nothing clipped, in it or before it; of
\* other summaries only the marker is kept.
SessionRecord ==
    [marker : Nat, covers : SUBSET Nat, cut : SUBSET Nat, start : Nat, exact : BOOLEAN]

Fresh == [pc |-> "idle", attempt |-> 0, base |-> NoSession, messages |-> {},
          clipped |-> FALSE, seen |-> FALSE, mine |-> NoSession, victims |-> {},
          listed |-> 0]

TypeOKSessions ==
    /\ newest \in 0..MaxMessages
    /\ sessions \in Seq(SessionRecord)
    /\ stored \subseteq Sessions
    /\ active \subseteq Sessions
    /\ req \in [Requests -> RequestState]
    /\ sweptTo \in 0..Len(sessions)

InitSessions ==
    /\ newest \in 0..MaxMessages
    /\ sessions = <<>> /\ stored = {} /\ active = {}
    /\ req = [r \in Requests |-> Fresh]
    /\ sweptTo = 0

-----------------------------------------------------------------------------
At(r, pc) == req[r].pc = pc
Goto(r, pc) == req' = [req EXCEPT ![r].pc = pc]

SessionsUnchanged == UNCHANGED <<sessions, stored, active, sweptTo>>

Newest(set) == IF set = {} THEN NoSession ELSE Max(set)

\* What a summary goes on from that has no text before it.
NoText(marker) ==
    [marker |-> marker, covers |-> {}, cut |-> {}, start |-> marker, exact |-> TRUE]

SessionAt(s) == IF s = NoSession THEN NoText(0) ELSE sessions[s]
MarkerOf(s) == SessionAt(s).marker

\* The text a request continues, if it found one behind its session's marker.
Earlier(r) ==
    IF req[r].seen THEN SessionAt(req[r].base) ELSE NoText(MarkerOf(req[r].base))

\* What an attempt works with is its own.
Leave(r, pc) ==
    req' = [req EXCEPT ![r] = [Fresh EXCEPT !.pc = pc,
                                          !.attempt = IF pc = "retry" THEN req[r].attempt ELSE 0]]

\* A throw ends the attempt, with an ERROR event or without one.
Throw(r) == Leave(r, IF req[r].attempt < MaxAttempts THEN "retry" ELSE "over")

-----------------------------------------------------------------------------
\* An attempt begins: STARTED, access, and the newest active session.
List(r) ==
    /\ At(r, "idle") \/ At(r, "retry")
    /\ req' = [req EXCEPT ![r] = [Fresh EXCEPT !.pc = "fetching",
                                             !.attempt = req[r].attempt + 1,
                                             !.base = Newest(active)]]
    /\ UNCHANGED newest /\ SessionsUnchanged

\* The internal API does not say which messages it leaves out.
Fetch(r) ==
    /\ At(r, "fetching") /\ r \notin CustomRequests
    /\ LET after == MarkerOf(req[r].base) + 1 .. newest IN
       \E messages \in SUBSET after :
          /\ Cardinality(messages) = Min({Window, Cardinality(after)})
          /\ \/ \A m \in messages, n \in after \ messages : m < n
             \/ \A m \in messages, n \in after \ messages : m > n
          /\ req' = [req EXCEPT ![r].pc = "fetched", ![r].messages = messages,
                                ![r].clipped = \E n \in after \ messages :
                                                  \E m \in messages : n < m]
    /\ UNCHANGED newest /\ SessionsUnchanged

FetchRange(r) ==
    /\ At(r, "fetching") /\ r \in CustomRequests
    /\ \E first, last \in 1..newest :
          /\ first <= last
          /\ last - first < Window
          /\ req' = [req EXCEPT ![r].pc = "fetched", ![r].messages = first..last]
    /\ UNCHANGED newest /\ SessionsUnchanged

\* More than Window messages are refused.
RangeTooLarge(r) ==
    /\ At(r, "fetching") /\ r \in CustomRequests
    /\ newest > Window
    /\ Throw(r)
    /\ UNCHANGED newest /\ SessionsUnchanged

\* Nothing new: the previous text again, or a placeholder.
UpToDate(r) ==
    /\ At(r, "fetched") /\ req[r].messages = {}
    /\ Leave(r, "over")
    /\ UNCHANGED newest /\ SessionsUnchanged

\* A text that is stored may be missing in the list the cache has.
ReadPrevious(r) ==
    /\ At(r, "fetched") /\ req[r].messages # {}
    /\ \E seen \in BOOLEAN :
          /\ seen => req[r].base \in stored
          /\ req' = [req EXCEPT ![r].pc = "creating", ![r].seen = seen]
    /\ UNCHANGED newest /\ SessionsUnchanged

ContinuesText(r) == r \notin CustomRequests /\ ~req[r].clipped /\ Earlier(r).exact

\* Mutated: the marker is the newest message, as in ask().
LatestMarker(r) == newest

\* The greatest id among the messages of the summary.
SyncMarker(r) == Max(req[r].messages)

\* The model has continued the text with the messages from some first one on,
\* the last 50000 characters; the session is created without its text.
Create(r) ==
    /\ At(r, "creating") /\ Len(sessions) < MaxSessions
    /\ \E first \in req[r].messages :
          LET kept == {m \in req[r].messages : m >= first}
          IN  sessions' = Append(sessions,
                  IF ContinuesText(r)
                  THEN [marker |-> SyncMarker(r),
                        covers |-> kept \cup Earlier(r).covers,
                        cut    |-> (req[r].messages \ kept) \cup Earlier(r).cut,
                        start  |-> Earlier(r).start,
                        exact  |-> TRUE]
                  ELSE [NoText(SyncMarker(r)) EXCEPT !.exact = FALSE])
    /\ active' = active \cup {Len(sessions) + 1}
    /\ req' = [req EXCEPT ![r] = [Fresh EXCEPT !.pc = "storing",
                                             !.attempt = req[r].attempt,
                                             !.mine = Len(sessions) + 1]]
    /\ UNCHANGED <<newest, stored, sweptTo>>

\* The text, and then the marker a second time.
Store(r) ==
    /\ At(r, "storing")
    /\ stored' = stored \cup {req[r].mine}
    /\ Goto(r, "limiting")
    /\ UNCHANGED <<newest, sessions, active, sweptTo>>

\* Mutated: one more may stay.
BeyondOneMore(set) ==
    {s \in set : Cardinality({t \in set : t > s}) > MaxActive}

\* slice(maxActive) of the sessions, newest first.
BeyondLimit(set) ==
    {s \in set : Cardinality({t \in set : t > s}) >= MaxActive}

ListForLimit(r) ==
    /\ At(r, "limiting")
    /\ req' = [req EXCEPT ![r].pc = "deactivating",
                          ![r].victims = BeyondLimit(active),
                          ![r].listed = Len(sessions)]
    /\ UNCHANGED newest /\ SessionsUnchanged

\* The sessions found before are deactivated; COMPLETED follows.
Deactivate(r) ==
    /\ At(r, "deactivating")
    /\ active' = active \ req[r].victims
    /\ sweptTo' = Max({sweptTo, req[r].listed})
    /\ Leave(r, "over")
    /\ UNCHANGED <<newest, sessions, stored>>

\* Any await may throw, be aborted, or not come back.
Fails(r) ==
    /\ req[r].pc \in AtWork
    /\ Throw(r)
    /\ UNCHANGED newest /\ SessionsUnchanged

-----------------------------------------------------------------------------
NewMessage ==
    /\ newest < MaxMessages
    /\ newest' = newest + 1
    /\ UNCHANGED req /\ SessionsUnchanged

\* softDeleteSession
UserDeletes(s) ==
    /\ s \in active
    /\ active' = active \ {s}
    /\ UNCHANGED <<newest, sessions, stored, req, sweptTo>>

StepSessions(r) ==
    \/ List(r) \/ Fetch(r) \/ FetchRange(r) \/ RangeTooLarge(r)
    \/ UpToDate(r) \/ ReadPrevious(r) \/ Create(r) \/ Store(r)
    \/ ListForLimit(r) \/ Deactivate(r) \/ Fails(r)

NextSessions ==
    \/ \E r \in Requests : StepSessions(r)
    \/ NewMessage
    \/ \E s \in Sessions : UserDeletes(s)

SpecSessions == InitSessions /\ [][NextSessions]_sessionVars

-----------------------------------------------------------------------------
(* Properties.                                                             *)

\* The next summary may start behind the marker of an exact one: of all the
\* messages between the first text of its chain and the marker each is in the
\* text or was cut off by truncation, although the marker, the text and the
\* messages are read and written at different times and other summaries and
\* deletions come between.  A chain starts anew only where the text to continue
\* was not there, and then exactly behind that session's marker: the messages
\* up to there, like the ones cut off, are in none of the later texts.
ChainExact ==
    \A s \in Sessions : sessions[s].exact =>
        /\ sessions[s].start < sessions[s].marker
        /\ sessions[s].covers \cup sessions[s].cut = sessions[s].start + 1 .. sessions[s].marker
        /\ sessions[s].marker \in sessions[s].covers

\* Once a request has completed, the sessions it listed are within the limit,
\* also when several requests list and deactivate in each other's way; what
\* exceeds the limit was created later, or by a request that failed.
LimitHolds ==
    Cardinality({s \in active : s <= sweptTo}) <= MaxActive

\* The limit never takes one of the MaxActive newest sessions there are, in
\* particular not the one that the next summary starts from.
LimitSparesNewest ==
    \A r \in Requests : \A v \in req[r].victims :
        Cardinality({s \in Sessions : s > v}) >= MaxActive

\* The limit takes what is beyond it and nothing else, although each request
\* works on the list it read while others create and deactivate sessions.
LimitExact == LimitHolds /\ LimitSparesNewest
=============================================================================
