---------------------------- MODULE MessageIndex ----------------------------
(***************************************************************************)
(* The vector index of chat messages: RedisPubsubService queues a job for  *)
(* each new message, EmbedWorkerService embeds it and QdrantService stores *)
(* it as a point.  QdrantService makes sure of its collection at each      *)
(* start; the scripts of scripts/ wipe the collection and fill it again    *)
(* from the chat's history while the service goes on.                      *)
(*                                                                         *)
(* A script is a second process of the whole application: it subscribes    *)
(* to the channel and works on the queue like the service does.  An        *)
(* attempt of a job is one step, at the time of its upsert; the messages   *)
(* around its own, which it read before, are those of any time since that  *)
(* was sent.  A job that two subscribers queued, or that is put back       *)
(* because its process was killed, is the same job waiting and written     *)
(* once more.  Qdrant, Redis and the chat backend are external.            *)
(***************************************************************************)
EXTENDS Integers, FiniteSets, Sequences

CONSTANTS
    MaxMessages,   \* bound: the messages are 1..MaxMessages, as they are sent
    MessageId,     \* the ids the chat backend gives them
    ConvOf,        \* the conversation of a message
    ShortChoices,  \* which messages may have less than two characters
    NoText,        \* those that have no text at all if they are short
    WindowSize,    \* messages around its own that a point may hold, 3 in the code
    SafeLimit,     \* 2^53: above it JavaScript numbers have gaps
    Attempts,      \* attempts of an embed job, 3 in the code
    PageSize,      \* of backfill-embeddings, 50 in the code
    ConvLimit,     \* of backfill-conversation, 500 in the code
    ScriptKinds,   \* the scripts somebody may start
    MaxScripts,    \* bound: how many are started
    MaxCrashes     \* bound: how often a process is killed

Messages == 1..MaxMessages

\* The scripts, and what they are started with.
Scripts == {[name |-> "backfill", conv |-> "all"], [name |-> "clear", conv |-> "all"]}
           \cup [name : {"conversation", "conversationClear"},
                 conv : {ConvOf[m] : m \in Messages}]

ASSUME IndexAssumption ==
    /\ MaxMessages \in Nat
    /\ \A m \in Messages : ConvOf[m] # "all"  \* which stands for no filter
    /\ MessageId \in [Messages -> Nat]
    /\ \A m, n \in Messages : m < n => MessageId[m] < MessageId[n]
    /\ ShortChoices \subseteq SUBSET Messages /\ NoText \subseteq Messages
    /\ WindowSize \in Nat
    /\ SafeLimit \in Nat /\ SafeLimit % 4 = 0
    /\ \A m \in Messages : MessageId[m] < 2 * SafeLimit
    /\ Attempts \in Nat \ {0}
    /\ PageSize \in Nat \ {0} /\ ConvLimit \in Nat \ {0}
    /\ ScriptKinds \subseteq Scripts
    /\ MaxScripts \in Nat /\ MaxCrashes \in Nat

Processes == {"service", "script"}

VARIABLES
    sent,        \* messages 1..sent exist and have been published
    short,       \* those of less than two characters, fixed from the start
    job,         \* the embed job of a message: none (never, or given up),
                 \* waiting or done, and the attempts that failed
    collection,  \* "absent", "old" (other vectors), "bare" (no payload index), "ready"
    points,      \* point id -> the message stored there
    windows,     \* point id -> the other messages its windowText holds
    at,          \* where each process is
    script,      \* what the running script holds: kind, clearing, offset, page, last
    scripts,     \* how many scripts were started
    crashes,     \* how often a process was killed
    missed,      \* history: messages wiped for good, or whose refilling failed
    spoiled      \* history: a re-creation of the collection broke off

chatVars == <<sent, short>>
scriptVars == <<script, scripts>>
qdrantVars == <<collection, points, windows>>
history == <<missed, spoiled>>
indexVars == <<chatVars, job, qdrantVars, at, scriptVars, crashes, history>>

NoPoint == 0

\* The messages that normalizeRawMessage() makes nothing of.
Blank == short \cap NoText

\* Number(messageId): beyond SafeLimit only every second integer exists, and
\* a tie goes to the even mantissa.
AsNumber(id) ==
    IF id <= SafeLimit \/ id % 2 = 0 THEN id
    ELSE IF id % 4 = 1 THEN id - 1 ELSE id + 1

PointOf(m) == AsNumber(MessageId[m])
PointIds == {PointOf(m) : m \in Messages}

\* 2^53 is exact, but 2^53 + 1 becomes the same number.
Safe(m) == MessageId[m] < SafeLimit

EnsurePcs == {"listing", "inspecting", "deleting", "creating", "indexing"}
Pcs == EnsurePcs \cup {"off", "up", "wiping", "paging", "writing", "closing"}

JobState == [pc : {"none", "waiting", "done"}, attempts : 0..Attempts]
ScriptState == [kind : Scripts, clearing : BOOLEAN, offset : Nat,
                page : SUBSET Messages, last : BOOLEAN]

NoScript == [kind |-> [name |-> "clear", conv |-> "all"], clearing |-> FALSE,
             offset |-> 0, page |-> {}, last |-> FALSE]

TypeOK ==
    /\ sent \in 0..MaxMessages /\ short \in ShortChoices
    /\ job \in [Messages -> JobState]
    /\ collection \in {"absent", "old", "bare", "ready"}
    /\ points \in [PointIds -> Messages \cup {NoPoint}]
    /\ windows \in [PointIds -> SUBSET Messages]
    /\ at \in [Processes -> Pcs]
    /\ script \in ScriptState
    /\ scripts \in 0..MaxScripts /\ crashes \in 0..MaxCrashes
    /\ missed \subseteq Messages /\ spoiled \in BOOLEAN

NoJob == [pc |-> "none", attempts |-> 0]

Init ==
    /\ sent = 0 /\ short \in ShortChoices
    /\ job = [m \in Messages |-> NoJob]
    /\ collection \in {"absent", "old"}
    /\ points = [k \in PointIds |-> NoPoint]
    /\ windows = [k \in PointIds |-> {}]
    /\ at = [p \in Processes |-> "off"]
    /\ script = NoScript /\ scripts = 0 /\ crashes = 0
    /\ missed = {} /\ spoiled = FALSE

-----------------------------------------------------------------------------
(* Qdrant, as the service uses it.                                         *)

\* A message has a point: its own, or, where ids are rounded to the same
\* number, one it shares.
HasPoint(m) ==
    /\ points[PointOf(m)] # NoPoint
    /\ Safe(m) => points[PointOf(m)] = m

Upsert(m) ==
    /\ collection # "absent"
    /\ points' = [points EXCEPT ![PointOf(m)] = m]
    /\ missed' = missed \ {m}
    /\ UNCHANGED collection

\* The payload's windowText is made of one of these sets of other messages.
Windowed(m, choices) ==
    \E window \in choices : windows' = [windows EXCEPT ![PointOf(m)] = window]

\* The collection goes, and with it messages nobody is going to write again.
Wipe(refilled) ==
    /\ collection' = "absent"
    /\ points' = [k \in PointIds |-> NoPoint]
    /\ windows' = [k \in PointIds |-> {}]
    /\ missed' = (1..sent) \ refilled

-----------------------------------------------------------------------------
(* New messages and their embed jobs.                                      *)

Listening(p) == at[p] \notin {"off", "closing"}

\* The chat backend stores and publishes a message.  A subscriber queues a
\* job for it, unless there is none or its handler throws.
Send ==
    /\ sent < MaxMessages
    /\ sent' = sent + 1
    /\ \/ /\ \E p \in Processes : Listening(p)
          /\ job' = [job EXCEPT ![sent + 1].pc = "waiting"]
       \/ UNCHANGED job
    /\ UNCHANGED <<short, qdrantVars, at, scriptVars, crashes, history>>

\* A process that works on the queue has the job's next attempt in hand.
Attempted(m) == job[m].pc = "waiting" /\ \E p \in Processes : at[p] # "off"

\* getMessages(): the chat's history, of one conversation or of all.
History(conv) == {m \in 1..sent : conv \in {"all", ConvOf[m]}}

LastOf(n, rows) == {m \in rows : Cardinality({k \in rows : k > m}) < n}

\* The conversation's last messages when they were read, of any text, except
\* the one to embed; they may be later ones.
JobWindows(m) ==
    {LastOf(WindowSize, {n \in History(ConvOf[m]) : n <= read}) \ {m} : read \in m..sent}

JobEnds(m, pc) == job' = [job EXCEPT ![m] = [NoJob EXCEPT !.pc = pc]]

\* BullMQ on an attempt that threw.  The backoff is the time a job waits.
AttemptThrows(m) ==
    IF job[m].attempts + 1 < Attempts
    THEN job' = [job EXCEPT ![m].attempts = @ + 1] ELSE JobEnds(m, "none")

\* handleEmbedMessage(): a short text is no error ...
SkipShort(m) ==
    /\ Attempted(m) /\ m \in short
    /\ JobEnds(m, "done")
    /\ UNCHANGED <<chatVars, qdrantVars, at, scriptVars, crashes, history>>

\* ... any other is embedded with its context and written,
EmbedMessage(m) ==
    /\ Attempted(m) /\ m \notin short
    /\ Upsert(m) /\ Windowed(m, JobWindows(m))
    /\ JobEnds(m, "done")
    /\ UNCHANGED <<chatVars, at, scriptVars, crashes, spoiled>>

\* which Qdrant may do while its reply is lost,
EmbedReplyLost(m) ==
    /\ Attempted(m) /\ m \notin short
    /\ Upsert(m) /\ Windowed(m, JobWindows(m))
    /\ AttemptThrows(m)
    /\ UNCHANGED <<chatVars, at, scriptVars, crashes, spoiled>>

\* or the context, the embedding or the upsert throws.
EmbedFails(m) ==
    /\ Attempted(m) /\ m \notin short
    /\ AttemptThrows(m)
    /\ UNCHANGED <<chatVars, qdrantVars, at, scriptVars, crashes, history>>

-----------------------------------------------------------------------------
(* A process begins, and makes sure of the collection.                     *)

StartService ==
    /\ at["service"] = "off"
    /\ at' = [at EXCEPT !["service"] = "listing"]
    /\ UNCHANGED <<chatVars, job, qdrantVars, scriptVars, crashes, history>>

StartScript(kind) ==
    /\ at["script"] = "off" /\ scripts < MaxScripts
    /\ at' = [at EXCEPT !["script"] = "listing"]
    /\ script' = [NoScript EXCEPT !.kind = kind]
    /\ scripts' = scripts + 1
    /\ UNCHANGED <<chatVars, job, qdrantVars, crashes, history>>

Goto(p, from, to) == at[p] = from /\ at' = [at EXCEPT ![p] = to]

\* Where ensureCollection() returns to: the start of the process, or the
\* script's clearCollection().
AfterEnsure(p) ==
    IF p = "service" THEN "up"
    ELSE IF script.clearing
         THEN IF script.kind.name = "clear" THEN "closing" ELSE "paging"
         ELSE IF script.kind.name = "conversation" THEN "paging" ELSE "wiping"

EnsureFrame == UNCHANGED <<chatVars, job, scriptVars, crashes>>

\* getCollections()
ListCollections(p) ==
    /\ Goto(p, "listing", IF collection = "absent" THEN "creating" ELSE "inspecting")
    /\ EnsureFrame /\ UNCHANGED <<qdrantVars, history>>

\* getCollection(): other vectors mean another configuration; the payload
\* indexes are not looked at.
InspectCollection(p) ==
    /\ collection # "absent"
    /\ Goto(p, "inspecting", IF collection = "old" THEN "deleting" ELSE AfterEnsure(p))
    /\ EnsureFrame /\ UNCHANGED <<qdrantVars, history>>

DeleteOldCollection(p) ==
    /\ Goto(p, "deleting", "creating")
    /\ Wipe({})
    /\ EnsureFrame /\ UNCHANGED spoiled

CreateCollection(p) ==
    /\ collection = "absent"
    /\ Goto(p, "creating", "indexing")
    /\ collection' = "bare"
    /\ EnsureFrame /\ UNCHANGED <<points, windows, history>>

\* The three calls of createPayloadIndex().
CreatePayloadIndexes(p) ==
    /\ collection # "absent"
    /\ Goto(p, "indexing", AfterEnsure(p))
    /\ collection' = "ready" /\ spoiled' = FALSE
    /\ EnsureFrame /\ UNCHANGED <<points, windows, missed>>

-----------------------------------------------------------------------------
(* The scripts.                                                            *)

\* In the sorted history a message's place is the number of those up to it.
Place(m, rows) == Cardinality({n \in rows : n <= m})

Slice(rows, offset, size) == {m \in rows : Place(m, rows) \in offset + 1 .. offset + size}

\* What a script that wipes is going to write again.
Refilled(kind) ==
    {m \in 1..sent : \/ kind.name = "backfill"
                     \/ /\ kind.name = "conversationClear"
                        /\ m \in Slice(History(kind.conv), 0, ConvLimit)}

\* Mutated: the collection is deleted and not made again.
WipeWithoutEnsure ==
    /\ Goto("script", "wiping", "paging")
    /\ Wipe(Refilled(script.kind))
    /\ UNCHANGED <<chatVars, job, scriptVars, crashes, spoiled>>

\* clearCollection(): deleteCollection(), and then ensureCollection().
WipeCollection ==
    /\ Goto("script", "wiping", "listing")
    /\ script' = [script EXCEPT !.clearing = TRUE]
    /\ Wipe(Refilled(script.kind))
    /\ UNCHANGED <<chatVars, job, scripts, crashes, spoiled>>

ScriptCloses == at' = [at EXCEPT !["script"] = "closing"] /\ script' = NoScript

\* Mutated: a full page is taken for the last one.
IsLastPage(page, size) == Cardinality(page) <= size

IsShortPage(page, size) == Cardinality(page) < size

\* The next page; the conversation's script reads one only.
FetchPage ==
    /\ at["script"] = "paging"
    /\ LET whole == script.kind.name # "backfill"
           size  == IF whole THEN ConvLimit ELSE PageSize
           rows  == History(IF whole THEN script.kind.conv ELSE "all")
           page  == Slice(rows, script.offset, size)
       IN IF page = {} THEN ScriptCloses
          ELSE /\ at' = [at EXCEPT !["script"] = "writing"]
               /\ script' = [script EXCEPT !.page = page \ short, !.offset = @ + size,
                                           !.last = whole \/ IsShortPage(page, size)]
    /\ UNCHANGED <<chatVars, job, qdrantVars, scripts, crashes, history>>

\* The loop goes through the page in the order of the messages.
Takes(m) ==
    /\ at["script"] = "writing"
    /\ m \in script.page /\ \A n \in script.page : m <= n
    /\ script' = [script EXCEPT !.page = @ \ {m}]

\* The script's buffer: the last messages of the conversation that it has
\* written itself.  Which of the earlier ones these are is left open.
ScriptWindows(m) ==
    {window \in SUBSET ({n \in History(ConvOf[m]) : n < m} \ short) :
        Cardinality(window) <= WindowSize}

\* A message is embedded and written,
WriteFromPage(m) ==
    /\ Takes(m)
    /\ Upsert(m) /\ Windowed(m, ScriptWindows(m))
    /\ UNCHANGED <<chatVars, job, at, scripts, crashes, spoiled>>

\* or there is an error, which is logged, and the loop goes on.
WriteFromPageFails(m) ==
    /\ Takes(m)
    /\ missed' = IF HasPoint(m) THEN missed ELSE missed \cup {m}
    /\ UNCHANGED <<chatVars, job, qdrantVars, at, scripts, crashes, spoiled>>

PageWritten ==
    /\ at["script"] = "writing" /\ script.page = {}
    /\ IF script.last THEN ScriptCloses
       ELSE Goto("script", "writing", "paging") /\ UNCHANGED script
    /\ UNCHANGED <<chatVars, job, qdrantVars, scripts, crashes, history>>

ScriptExits ==
    /\ Goto("script", "closing", "off")
    /\ UNCHANGED <<chatVars, job, qdrantVars, scriptVars, crashes, history>>

-----------------------------------------------------------------------------
(* A call throws, or a process is killed.                                  *)

\* A throw inside of a script's try block leads to its finally; one in
\* onModuleInit() ends the process.
CaughtByScript(p) == p = "script" /\ (script.clearing \/ at[p] \in {"wiping", "paging"})

Ends(p, pc) ==
    /\ at' = [at EXCEPT ![p] = pc]
    /\ script' = IF p = "script" THEN NoScript ELSE script
    /\ UNCHANGED <<chatVars, job, scripts>>

Stops(p) == Ends(p, IF CaughtByScript(p) THEN "closing" ELSE "off")

\* A script is between its wipe and its end.
Refilling ==
    \/ at["script"] \in EnsurePcs /\ script.clearing
    \/ at["script"] \in {"paging", "writing"}

\* The collection is gone or unfinished in the hands of this process.
Recreating(p) ==
    \/ at[p] \in {"creating", "indexing"}
    \/ p = "script" /\ script.clearing /\ at[p] \in EnsurePcs

LeavesBehind(p) ==
    /\ missed' = IF p = "script" /\ Refilling
                 THEN missed \cup {m \in 1..sent : ~HasPoint(m)} ELSE missed
    /\ spoiled' = (spoiled \/ Recreating(p))

CallThrows(p) ==
    /\ at[p] \in EnsurePcs \cup {"wiping", "paging"}
    /\ Stops(p) /\ LeavesBehind(p)
    /\ UNCHANGED <<qdrantVars, crashes>>

\* Qdrant did what it was asked, but the call throws all the same.
DeleteReplyLost(p) ==
    /\ at[p] \in {"deleting", "wiping"}
    /\ Stops(p)
    /\ Wipe({}) /\ spoiled' = TRUE
    /\ UNCHANGED crashes

CreateReplyLost(p) ==
    /\ at[p] = "creating" /\ collection = "absent"
    /\ Stops(p) /\ LeavesBehind(p)
    /\ collection' = "bare"
    /\ UNCHANGED <<points, windows, crashes>>

Kill(p) ==
    /\ crashes < MaxCrashes /\ at[p] # "off"
    /\ crashes' = crashes + 1
    /\ Ends(p, "off") /\ LeavesBehind(p)
    /\ UNCHANGED qdrantVars

-----------------------------------------------------------------------------
Ensure(p) ==
    \/ ListCollections(p) \/ InspectCollection(p) \/ DeleteOldCollection(p)
    \/ CreateCollection(p) \/ CreatePayloadIndexes(p)

Script ==
    \/ \E kind \in ScriptKinds : StartScript(kind)
    \/ \E m \in Messages : WriteFromPage(m) \/ WriteFromPageFails(m)
    \/ WipeCollection \/ FetchPage \/ PageWritten \/ ScriptExits

EmbedJob(m) == SkipShort(m) \/ EmbedMessage(m) \/ EmbedReplyLost(m) \/ EmbedFails(m)

NextIndex ==
    \/ Send
    \/ \E m \in Messages : EmbedJob(m)
    \/ StartService
    \/ Script
    \/ \E p \in Processes : \/ Ensure(p) \/ CallThrows(p)
                            \/ DeleteReplyLost(p) \/ CreateReplyLost(p)
                            \/ Kill(p)

SpecIndex == Init /\ [][NextIndex]_indexVars

-----------------------------------------------------------------------------
(* Properties.                                                             *)

\* While the service is up it has a complete collection, unless a script is
\* just re-creating it or a re-creation broke off: a restart, a script and
\* the service may create and delete it in any order, and it is not left
\* away or without its payload indexes by that alone.
IndexUsable ==
    at["service"] = "up" /\ at["script"] \notin EnsurePcs /\ ~spoiled
    => collection = "ready"

\* A message whose job is done stays in the index, under a point of its own
\* if its id is an exact number: restarts keep it, and a script that wipes
\* the collection has written it again when it ends, even if the message was
\* sent or embedded while the script ran.  The exceptions are in missed: what
\* a script wipes without refilling, what it failed to write and what it left
\* when it broke off.
IndexedStays ==
    ~Refilling =>
        \A m \in Messages \ (short \cup missed) :
            job[m].pc = "done" => HasPoint(m)
=============================================================================
