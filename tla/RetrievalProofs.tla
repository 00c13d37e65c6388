-------------------------- MODULE RetrievalProofs ---------------------------
(***************************************************************************)
(* Proofs about MessageIndex and Retrieval, for any messages, ids and      *)
(* conversations, any page sizes and limits, any plans, and however        *)
(* embedding, the scripts, the service, its faults and a question's search *)
(* interleave.                                                             *)
(***************************************************************************)
EXTENDS Retrieval, FiniteSetTheorems, TLAPS

-----------------------------------------------------------------------------
(* The types of the index.                                                 *)

LEMMA MessageTypes ==
  /\ MaxMessages \in Nat
  /\ Messages \subseteq Nat \ {0}
  /\ NoPoint \notin Messages
  /\ \A m \in Messages : PointOf(m) \in PointIds
BY IndexAssumption DEF Messages, NoPoint, PointIds

LEMMA JobUpdates ==
  ASSUME NEW j \in JobState
  PROVE  /\ NoJob \in JobState
         /\ \A pc \in {"none", "waiting", "done"} :
               [j EXCEPT !.pc = pc] \in JobState /\ [NoJob EXCEPT !.pc = pc] \in JobState
         /\ j.attempts + 1 < Attempts => [j EXCEPT !.attempts = @ + 1] \in JobState
<1> Attempts \in Nat
  BY IndexAssumption
<1> QED
  BY DEF JobState, NoJob

LEMMA ScriptUpdates ==
  ASSUME NEW s \in ScriptState
  PROVE  /\ NoScript \in ScriptState
         /\ \A kind \in Scripts : [NoScript EXCEPT !.kind = kind] \in ScriptState
         /\ [s EXCEPT !.clearing = TRUE] \in ScriptState
         /\ \A page \in SUBSET Messages : [s EXCEPT !.page = page] \in ScriptState
         /\ \A page \in SUBSET Messages, offset \in Nat, last \in BOOLEAN :
               [s EXCEPT !.page = page, !.offset = offset, !.last = last] \in ScriptState
<1>1. NoScript.kind \in Scripts
  BY DEF NoScript, Scripts
<1> QED
  BY <1>1 DEF ScriptState, NoScript

\* What the helpers of the actions leave typed.
LEMMA JobTypes ==
  ASSUME TypeOK, NEW m \in Messages
  PROVE  /\ \A pc \in {"none", "waiting", "done"} :
               JobEnds(m, pc) => job' \in [Messages -> JobState]
         /\ AttemptThrows(m) => job' \in [Messages -> JobState]
<1>1. job \in [Messages -> JobState] /\ job[m] \in JobState
  BY DEF TypeOK
<1>2. ASSUME NEW pc \in {"none", "waiting", "done"}, JobEnds(m, pc)
      PROVE  job' \in [Messages -> JobState]
  <2>1. [NoJob EXCEPT !.pc = pc] \in JobState
    BY <1>1, JobUpdates
  <2> QED
    BY <1>1, <1>2, <2>1 DEF JobEnds
<1>3. ASSUME AttemptThrows(m), job[m].attempts + 1 < Attempts
      PROVE  job' \in [Messages -> JobState]
  <2>1. [job[m] EXCEPT !.attempts = @ + 1] \in JobState
    BY <1>1, <1>3, JobUpdates
  <2> QED
    BY <1>1, <1>3, <2>1 DEF AttemptThrows
<1> QED
  BY <1>2, <1>3 DEF AttemptThrows

LEMMA PointTypes ==
  ASSUME TypeOK
  PROVE  /\ \A m \in Messages : Upsert(m) =>
               /\ points' \in [PointIds -> Messages \cup {NoPoint}]
               /\ missed' \subseteq Messages /\ collection' = collection
         /\ \A kept : Wipe(kept) =>
               /\ points' \in [PointIds -> Messages \cup {NoPoint}]
               /\ windows' \in [PointIds -> SUBSET Messages]
               /\ missed' \subseteq Messages /\ collection' = "absent"
<1>1. ASSUME NEW m \in Messages, Upsert(m)
      PROVE  /\ points' \in [PointIds -> Messages \cup {NoPoint}]
             /\ missed' \subseteq Messages /\ collection' = collection
  BY <1>1, MessageTypes DEF TypeOK, Upsert
<1>2. ASSUME NEW kept, Wipe(kept)
      PROVE  /\ points' \in [PointIds -> Messages \cup {NoPoint}]
             /\ windows' \in [PointIds -> SUBSET Messages]
             /\ missed' \subseteq Messages /\ collection' = "absent"
  <2>1. 1..sent \subseteq Messages
    BY MessageTypes DEF TypeOK, Messages
  <2> QED
    BY <1>2, <2>1 DEF Wipe
<1> QED
  BY <1>1, <1>2

LEMMA SliceTypes ==
  ASSUME TypeOK, NEW conv, NEW offset, NEW size
  PROVE  Slice(History(conv), offset, size) \in SUBSET Messages
<1>1. 1..sent \subseteq Messages
  BY MessageTypes DEF TypeOK, Messages
<1> QED
  BY <1>1 DEF Slice, History

\* What windowText is made of: other messages of the conversation.
LEMMA WindowChoices ==
  ASSUME TypeOK, NEW m \in Messages, NEW window \in JobWindows(m) \cup ScriptWindows(m)
  PROVE  window \subseteq Messages /\ \A n \in window : ConvOf[n] = ConvOf[m]
<1>1. History(ConvOf[m]) \subseteq Messages
  BY MessageTypes DEF TypeOK, Messages, History
<1>2. ConvOf[m] # "all"
  BY IndexAssumption
<1>3. \A n \in History(ConvOf[m]) : ConvOf[n] = ConvOf[m]
  BY <1>2 DEF History
<1>4. window \subseteq History(ConvOf[m])
  BY DEF JobWindows, ScriptWindows, LastOf
<1> QED
  BY <1>1, <1>3, <1>4

LEMMA WindowTypes ==
  ASSUME TypeOK, NEW m \in Messages,
         Windowed(m, JobWindows(m)) \/ Windowed(m, ScriptWindows(m))
  PROVE  /\ windows' \in [PointIds -> SUBSET Messages]
         /\ \A k \in PointIds \ {PointOf(m)} : windows'[k] = windows[k]
         /\ \A n \in windows'[PointOf(m)] : ConvOf[n] = ConvOf[m]
<1>1. PICK window \in JobWindows(m) \cup ScriptWindows(m) :
         windows' = [windows EXCEPT ![PointOf(m)] = window]
  BY DEF Windowed
<1>2. window \subseteq Messages /\ \A n \in window : ConvOf[n] = ConvOf[m]
  BY WindowChoices
<1>3. windows \in [PointIds -> SUBSET Messages] /\ PointOf(m) \in PointIds
  BY MessageTypes DEF TypeOK
<1> QED
  BY <1>1, <1>2, <1>3

LEMMA PlaceTypes ==
  ASSUME TypeOK, NEW p \in Processes
  PROVE  /\ \A pc \in Pcs : [at EXCEPT ![p] = pc] \in [Processes -> Pcs]
         /\ AfterEnsure(p) \in {"up", "closing", "paging", "wiping"}
BY DEF TypeOK, AfterEnsure, Pcs

LEMMA EndTypes ==
  ASSUME TypeOK, NEW p \in Processes, NEW pc \in {"off", "closing"}, Ends(p, pc)
  PROVE  at' \in [Processes -> Pcs] /\ script' \in ScriptState
<1>1. script \in ScriptState /\ NoScript \in ScriptState
  BY ScriptUpdates DEF TypeOK
<1> QED
  BY <1>1, PlaceTypes DEF Ends, Pcs

LEMMA LeftBehindTypes ==
  ASSUME TypeOK, NEW p \in Processes, LeavesBehind(p)
  PROVE  missed' \subseteq Messages /\ spoiled' \in BOOLEAN
<1>1. 1..sent \subseteq Messages
  BY MessageTypes DEF TypeOK, Messages
<1>2. (spoiled \/ Recreating(p)) \in BOOLEAN
  BY DEF TypeOK, Recreating
<1>3. spoiled' \in BOOLEAN
  BY <1>2 DEF LeavesBehind
<1> QED
  BY <1>1, <1>3 DEF LeavesBehind, TypeOK

LEMMA IndexTypeInit == Init => TypeOK
<1> SUFFICES ASSUME Init PROVE TypeOK
  OBVIOUS
<1>1. job \in [Messages -> JobState]
  <2>1. NoJob \in JobState
    BY IndexAssumption DEF NoJob, JobState
  <2> QED
    BY <2>1 DEF Init
<1>2. NoScript \in ScriptState
  BY DEF NoScript, ScriptState, Scripts
<1>3. sent \in 0..MaxMessages /\ scripts \in 0..MaxScripts /\ crashes \in 0..MaxCrashes
  BY IndexAssumption DEF Init
<1> QED
  BY <1>1, <1>2, <1>3 DEF Init, TypeOK, Pcs

LEMMA IndexTypeNext == TypeOK /\ [NextIndex]_indexVars => TypeOK'
<1> SUFFICES ASSUME TypeOK, [NextIndex]_indexVars PROVE TypeOK'
  OBVIOUS
<1> USE DEF chatVars, scriptVars, qdrantVars, history
<1>1. ASSUME Send PROVE TypeOK'
  <2>1. sent' \in 0..MaxMessages /\ sent + 1 \in Messages
    BY <1>1, IndexAssumption DEF Send, TypeOK, Messages
  <2>2. job' \in [Messages -> JobState]
    <3>1. job \in [Messages -> JobState] /\ job[sent + 1] \in JobState
      BY <2>1 DEF TypeOK
    <3>2. [job[sent + 1] EXCEPT !.pc = "waiting"] \in JobState
      BY <3>1, JobUpdates
    <3> QED
      BY <1>1, <2>1, <3>1, <3>2 DEF Send
  <2> QED
    BY <1>1, <2>1, <2>2 DEF Send, TypeOK
<1>2. ASSUME NEW m \in Messages, EmbedJob(m) PROVE TypeOK'
  <2>1. job' \in [Messages -> JobState]
    BY <1>2, JobTypes DEF EmbedJob, SkipShort, EmbedMessage, EmbedReplyLost, EmbedFails
  <2>2. /\ points' \in [PointIds -> Messages \cup {NoPoint}]
        /\ missed' \subseteq Messages /\ collection' = collection
    BY <1>2, PointTypes DEF EmbedJob, SkipShort, EmbedMessage, EmbedReplyLost, EmbedFails, TypeOK
  <2>3. windows' \in [PointIds -> SUBSET Messages]
    BY <1>2, WindowTypes DEF EmbedJob, SkipShort, EmbedMessage, EmbedReplyLost, EmbedFails, TypeOK
  <2> QED
    BY <1>2, <2>1, <2>2, <2>3
       DEF EmbedJob, SkipShort, EmbedMessage, EmbedReplyLost, EmbedFails, TypeOK
<1>3. CASE StartService
  BY <1>3, PlaceTypes DEF StartService, TypeOK, Processes, Pcs, EnsurePcs
<1>4. ASSUME NEW kind \in ScriptKinds, StartScript(kind) PROVE TypeOK'
  <2>1. script' \in ScriptState
    BY <1>4, ScriptUpdates, IndexAssumption DEF StartScript, TypeOK
  <2>2. scripts' \in 0..MaxScripts
    BY <1>4, IndexAssumption DEF StartScript, TypeOK
  <2>3. at' \in [Processes -> Pcs]
    BY <1>4, PlaceTypes DEF StartScript, Processes, Pcs, EnsurePcs
  <2> QED
    BY <1>4, <2>1, <2>2, <2>3 DEF StartScript, TypeOK
<1>5. ASSUME NEW m \in Messages, WriteFromPage(m) \/ WriteFromPageFails(m) PROVE TypeOK'
  <2>1. script' \in ScriptState
    <3>1. script \in ScriptState /\ script.page \ {m} \in SUBSET Messages
      BY DEF TypeOK, ScriptState
    <3>2. [script EXCEPT !.page = script.page \ {m}] \in ScriptState
      BY <3>1, ScriptUpdates
    <3> QED
      BY <1>5, <3>2 DEF WriteFromPage, WriteFromPageFails, Takes
  <2>2. /\ points' \in [PointIds -> Messages \cup {NoPoint}]
        /\ missed' \subseteq Messages /\ collection' = collection
    BY <1>5, PointTypes DEF WriteFromPage, WriteFromPageFails, TypeOK
  <2>3. windows' \in [PointIds -> SUBSET Messages]
    BY <1>5, WindowTypes DEF WriteFromPage, WriteFromPageFails, TypeOK
  <2> QED
    BY <1>5, <2>1, <2>2, <2>3 DEF WriteFromPage, WriteFromPageFails, TypeOK
<1>6. CASE WipeCollection
  <2>1. script' \in ScriptState
    BY <1>6, ScriptUpdates DEF WipeCollection, TypeOK
  <2>2. at' \in [Processes -> Pcs]
    BY <1>6, PlaceTypes DEF WipeCollection, Goto, Processes, Pcs, EnsurePcs
  <2>3. /\ points' \in [PointIds -> Messages \cup {NoPoint}]
        /\ windows' \in [PointIds -> SUBSET Messages]
        /\ missed' \subseteq Messages /\ collection' = "absent"
    BY <1>6, PointTypes DEF WipeCollection
  <2> QED
    BY <1>6, <2>1, <2>2, <2>3 DEF WipeCollection, TypeOK
<1>7. CASE FetchPage
  <2>1. script \in ScriptState
    BY DEF TypeOK
  <2>2. CASE ScriptCloses
    <3>1. at' \in [Processes -> Pcs] /\ script' \in ScriptState
      BY <2>1, <2>2, PlaceTypes, ScriptUpdates DEF ScriptCloses, Processes, Pcs
    <3> QED
      BY <1>7, <3>1 DEF FetchPage, TypeOK
  <2>3. CASE ~ScriptCloses
    <3> DEFINE whole  == script.kind.name # "backfill"
               size   == IF whole THEN ConvLimit ELSE PageSize
               page   == Slice(History(IF whole THEN script.kind.conv ELSE "all"),
                               script.offset, size)
               kept   == page \ short
               offset == script.offset + size
               last   == whole \/ IsShortPage(page, size)
    <3>1. /\ at' = [at EXCEPT !["script"] = "writing"]
          /\ script' = [script EXCEPT !.page = kept, !.offset = offset, !.last = last]
      BY <1>7, <2>3 DEF FetchPage
    <3>2. kept \in SUBSET Messages
      BY SliceTypes, Zenon
    <3>3. offset \in Nat
      BY IndexAssumption DEF TypeOK, ScriptState
    <3>4. last \in BOOLEAN
      BY DEF IsShortPage
    <3>5. at' \in [Processes -> Pcs]
      BY <3>1, PlaceTypes DEF Processes, Pcs
    <3> HIDE DEF whole, size, page, kept, offset, last
    <3>6. [script EXCEPT !.page = kept, !.offset = offset, !.last = last] \in ScriptState
      BY <2>1, <3>2, <3>3, <3>4, ScriptUpdates
    <3> QED
      BY <1>7, <3>1, <3>5, <3>6 DEF FetchPage, TypeOK
  <2> QED
    BY <2>2, <2>3
<1>8. CASE PageWritten
  <2>1. at' \in [Processes -> Pcs]
    BY <1>8, PlaceTypes DEF PageWritten, ScriptCloses, Goto, Processes, Pcs
  <2>2. script' \in ScriptState
    BY <1>8, ScriptUpdates DEF PageWritten, ScriptCloses, TypeOK
  <2> QED
    BY <1>8, <2>1, <2>2 DEF PageWritten, TypeOK
<1>9. CASE ScriptExits
  BY <1>9, PlaceTypes DEF ScriptExits, Goto, TypeOK, Processes, Pcs
<1>10. ASSUME NEW p \in Processes, Ensure(p) PROVE TypeOK'
  <2>1. at' \in [Processes -> Pcs]
    BY <1>10, PlaceTypes
       DEF Ensure, ListCollections, InspectCollection, DeleteOldCollection, CreateCollection,
           CreatePayloadIndexes, Goto, Pcs, EnsurePcs
  <2>2. /\ points' \in [PointIds -> Messages \cup {NoPoint}]
        /\ windows' \in [PointIds -> SUBSET Messages]
        /\ missed' \subseteq Messages
        /\ collection' \in {"absent", "old", "bare", "ready"}
    BY <1>10, PointTypes
       DEF Ensure, ListCollections, InspectCollection, DeleteOldCollection, CreateCollection,
           CreatePayloadIndexes, TypeOK
  <2>3. spoiled' \in BOOLEAN /\ EnsureFrame
    BY <1>10
       DEF Ensure, ListCollections, InspectCollection, DeleteOldCollection, CreateCollection,
           CreatePayloadIndexes, TypeOK
  <2> QED
    BY <2>1, <2>2, <2>3 DEF EnsureFrame, TypeOK
<1>11. ASSUME NEW p \in Processes,
              CallThrows(p) \/ DeleteReplyLost(p) \/ CreateReplyLost(p) \/ Kill(p)
       PROVE  TypeOK'
  <2>1. PICK pc \in {"off", "closing"} : Ends(p, pc)
    BY <1>11 DEF CallThrows, DeleteReplyLost, CreateReplyLost, Kill, Stops
  <2>2. at' \in [Processes -> Pcs] /\ script' \in ScriptState
    BY <2>1, EndTypes
  <2>3. missed' \subseteq Messages /\ spoiled' \in BOOLEAN
    BY <1>11, LeftBehindTypes, PointTypes
       DEF CallThrows, DeleteReplyLost, CreateReplyLost, Kill
  <2>4. /\ points' \in [PointIds -> Messages \cup {NoPoint}]
        /\ windows' \in [PointIds -> SUBSET Messages]
        /\ collection' \in {"absent", "old", "bare", "ready"}
    BY <1>11, PointTypes DEF CallThrows, DeleteReplyLost, CreateReplyLost, Kill, TypeOK
  <2>5. crashes' \in 0..MaxCrashes
    BY <1>11, IndexAssumption
       DEF CallThrows, DeleteReplyLost, CreateReplyLost, Kill, TypeOK
  <2> QED
    BY <2>1, <2>2, <2>3, <2>4, <2>5 DEF Ends, TypeOK
<1>12. CASE UNCHANGED indexVars
  BY <1>12 DEF indexVars, TypeOK
<1> QED
  BY <1>1, <1>2, <1>3, <1>4, <1>5, <1>6, <1>7, <1>8, <1>9, <1>10, <1>11, <1>12
     DEF NextIndex, Script

-----------------------------------------------------------------------------
(* The collection.                                                         *)

\* Where nothing broke off, a collection without its payload indexes is in
\* somebody's hands, and the service, once up, has a complete one unless the
\* script is re-creating it.
ReadyInv ==
    /\ TypeOK
    /\ ~spoiled /\ collection = "bare" => \E p \in Processes : at[p] = "indexing"
    /\ ~spoiled /\ at["service"] = "up" /\ ~Recreating("script") => collection = "ready"

LEMMA ReadyInit == Init => ReadyInv
BY IndexTypeInit DEF Init, ReadyInv, Processes

LEMMA ReadyNext == ReadyInv /\ [NextIndex]_indexVars => ReadyInv'
<1> SUFFICES ASSUME ReadyInv, [NextIndex]_indexVars PROVE ReadyInv'
  OBVIOUS
<1> USE DEF chatVars, scriptVars, qdrantVars, history
<1>1. TypeOK /\ TypeOK'
  BY IndexTypeNext DEF ReadyInv
<1>2. at \in [Processes -> Pcs] /\ script \in ScriptState
  BY <1>1 DEF TypeOK
<1>3. CASE UNCHANGED <<collection, at, script, spoiled>>
  BY <1>1, <1>3 DEF ReadyInv, Recreating
<1>4. ASSUME NEW m \in Messages, EmbedJob(m) PROVE ReadyInv'
  BY <1>3, <1>4 DEF EmbedJob, SkipShort, EmbedMessage, EmbedReplyLost, EmbedFails, Upsert
<1>5. CASE StartService
  BY <1>1, <1>2, <1>5 DEF StartService, ReadyInv, Recreating, Processes, EnsurePcs
<1>6. ASSUME NEW kind \in ScriptKinds, StartScript(kind) PROVE ReadyInv'
  <2>1. at["script"] = "off" /\ at'["script"] = "listing" /\ at'["service"] = at["service"]
    BY <1>2, <1>6 DEF StartScript, Processes
  <2> QED
    BY <1>1, <1>6, <2>1 DEF StartScript, ReadyInv, Recreating, Processes, EnsurePcs
<1>7. CASE \/ \E m \in Messages : WriteFromPage(m) \/ WriteFromPageFails(m)
           \/ FetchPage \/ PageWritten \/ ScriptExits
  <2>1. at["script"] \in {"paging", "writing", "closing"}
    BY <1>7 DEF WriteFromPage, WriteFromPageFails, Takes, FetchPage, PageWritten, ScriptExits, Goto
  <2>2. /\ at'["script"] \in {"paging", "writing", "closing", "off"}
        /\ at'["service"] = at["service"] /\ UNCHANGED <<collection, spoiled>>
    BY <1>2, <1>7, <2>1
       DEF WriteFromPage, WriteFromPageFails, Upsert, FetchPage, PageWritten, ScriptCloses,
           ScriptExits, Goto, Processes
  <2> QED
    BY <1>1, <2>1, <2>2 DEF ReadyInv, Recreating, Processes, EnsurePcs
<1>8. CASE WipeCollection
  <2>1. /\ at'["script"] = "listing" /\ at'["service"] = at["service"]
        /\ script'.clearing /\ collection' = "absent"
    BY <1>2, <1>8 DEF WipeCollection, Goto, Wipe, Processes, ScriptState
  <2> QED
    BY <1>1, <2>1 DEF ReadyInv, Recreating, EnsurePcs
<1>9. ASSUME NEW p \in Processes, Ensure(p) PROVE ReadyInv'
  <2> USE DEF EnsureFrame, Goto
  <2>0. script.clearing \in BOOLEAN
    BY <1>2 DEF ScriptState
  <2>1. CASE ListCollections(p)
    BY <1>1, <1>2, <2>1 DEF ListCollections, ReadyInv, Recreating, Processes, EnsurePcs
  <2>2. CASE InspectCollection(p)
    BY <1>1, <1>2, <2>0, <2>2
       DEF InspectCollection, AfterEnsure, ReadyInv, Recreating, Processes, EnsurePcs, TypeOK
  <2>3. CASE DeleteOldCollection(p)
    BY <1>1, <1>2, <2>3
       DEF DeleteOldCollection, Wipe, ReadyInv, Recreating, Processes, EnsurePcs
  <2>4. CASE CreateCollection(p)
    BY <1>1, <1>2, <2>4 DEF CreateCollection, ReadyInv, Recreating, Processes, EnsurePcs
  <2>5. CASE CreatePayloadIndexes(p)
    BY <1>1, <1>2, <2>5
       DEF CreatePayloadIndexes, AfterEnsure, ReadyInv, Recreating, Processes, EnsurePcs
  <2> QED
    BY <1>9, <2>1, <2>2, <2>3, <2>4, <2>5 DEF Ensure
<1>10. ASSUME NEW p \in Processes,
              CallThrows(p) \/ DeleteReplyLost(p) \/ CreateReplyLost(p) \/ Kill(p)
       PROVE  ReadyInv'
  <2>1. CASE spoiled'
    BY <1>1, <2>1 DEF ReadyInv
  <2>2. CASE ~spoiled'
    <3>1. /\ LeavesBehind(p) /\ ~spoiled /\ ~Recreating(p)
          /\ CallThrows(p) \/ CreateReplyLost(p) \/ Kill(p)
      BY <1>10, <2>2 DEF CallThrows, DeleteReplyLost, CreateReplyLost, Kill, LeavesBehind
    <3>2. CallThrows(p) \/ Kill(p)
      BY <3>1 DEF CreateReplyLost, Recreating
    <3>3. PICK pc \in {"off", "closing"} : Ends(p, pc)
      BY <3>2 DEF CallThrows, Kill, Stops
    <3>4. /\ at'[p] = pc /\ \A q \in Processes \ {p} : at'[q] = at[q]
          /\ p # "script" => script' = script
      BY <1>2, <3>3 DEF Ends
    <3>5. UNCHANGED collection
      BY <3>2 DEF CallThrows, Kill
    <3> QED
      BY <1>1, <2>2, <3>1, <3>4, <3>5 DEF ReadyInv, Recreating, Processes, EnsurePcs
  <2> QED
    BY <2>1, <2>2
<1>11. CASE Send \/ UNCHANGED indexVars
  BY <1>3, <1>11 DEF Send, indexVars
<1> QED
  BY <1>4, <1>5, <1>6, <1>7, <1>8, <1>9, <1>10, <1>11 DEF NextIndex, Script

-----------------------------------------------------------------------------
(* What stays in the index.                                                *)

\* The page a script reads next, and later ones, have the message.
Ahead(m) ==
    \/ script.kind.name = "backfill" /\ m > script.offset
    \/ /\ script.kind.name \in {"conversation", "conversationClear"}
       /\ m \in Slice(History(script.kind.conv), 0, ConvLimit)

\* The script is still going to take the message.
ToCome(m) ==
    /\ Refilling /\ m \in 1..sent
    /\ IF at["script"] = "writing"
       THEN m \in script.page \/ (~script.last /\ Ahead(m))
       ELSE Ahead(m)

\* A script that has read nothing is at the start of the history, and so is one
\* that reads a single page.
OffsetInv ==
    /\ at["script"] \in EnsurePcs \cup {"wiping"} => script.offset = 0
    /\ at["script"] = "paging" /\ script.kind.name # "backfill" => script.offset = 0
    /\ at["script"] = "writing" /\ script.kind.name # "backfill" => script.last

\* A message whose job is done has its point, or a script that wiped it has
\* not come to it yet.
StayInv ==
    /\ TypeOK /\ OffsetInv
    /\ \A m \in Messages : job[m].pc # "none" => m \in 1..sent
    /\ \A m \in Messages \ (short \cup missed) :
          job[m].pc = "done" => HasPoint(m) \/ ToCome(m)

\* Ids may be rounded to that of a safe one only if they are the same.
LEMMA SafeUnique ==
  ASSUME NEW m \in Messages, NEW n \in Messages, Safe(m), PointOf(n) = PointOf(m)
  PROVE  n = m /\ PointOf(m) = MessageId[m]
<1>1. /\ MessageId[m] \in Nat /\ MessageId[n] \in Nat /\ SafeLimit \in Nat
      /\ m \in Int /\ n \in Int
      /\ m < n => MessageId[m] < MessageId[n]
      /\ n < m => MessageId[n] < MessageId[m]
  BY IndexAssumption DEF Messages
<1>2. MessageId[m] < SafeLimit
  BY DEF Safe
<1>3. PointOf(m) = MessageId[m]
  BY <1>1, <1>2 DEF PointOf, AsNumber
<1>4. MessageId[n] <= SafeLimit => PointOf(n) = MessageId[n]
  BY DEF PointOf, AsNumber
<1>5. MessageId[n] > SafeLimit => PointOf(n) >= SafeLimit
  BY <1>1 DEF PointOf, AsNumber
<1>6. MessageId[n] = MessageId[m]
  BY <1>1, <1>2, <1>3, <1>4, <1>5
<1> QED
  BY <1>1, <1>3, <1>6

LEMMA IntervalSize ==
  ASSUME NEW a \in Int, NEW b \in Int, a <= b
  PROVE  Cardinality(a..b) = b - a + 1
BY FS_Interval

\* All of the history has each message at its own place.
LEMMA WholeHistory ==
  ASSUME TypeOK
  PROVE  /\ History("all") = 1..sent
         /\ \A m \in 1..sent : Place(m, History("all")) = m
<1>1. sent \in Nat
  BY IndexAssumption DEF TypeOK
<1>2. History("all") = 1..sent
  BY DEF History
<1>3. ASSUME NEW m \in 1..sent PROVE Place(m, 1..sent) = m
  <2>1. {n \in 1..sent : n <= m} = 1..m
    BY <1>1
  <2>2. Cardinality(1..m) = m
    <3>1. 1 \in Int /\ m \in Int /\ 1 <= m
      BY <1>1
    <3>2. Cardinality(1..m) = m - 1 + 1
      BY <3>1, IntervalSize
    <3> QED
      BY <3>1, <3>2
  <2> QED
    BY <2>1, <2>2 DEF Place
<1> QED
  BY <1>2, <1>3

\* A page of it goes on where the last one ended, and a short one is the last.
LEMMA Pages ==
  ASSUME TypeOK, NEW offset \in Nat, NEW m \in 1..sent, m > offset
  PROVE  LET page == Slice(History("all"), offset, PageSize) IN
         /\ page # {}
         /\ m \in page \/ (m > offset + PageSize /\ ~IsShortPage(page, PageSize))
<1> DEFINE page == Slice(History("all"), offset, PageSize)
<1>1. sent \in Nat /\ PageSize \in Nat /\ PageSize > 0
  BY IndexAssumption DEF TypeOK
<1>2. page = {n \in 1..sent : n \in offset + 1 .. offset + PageSize}
  BY WholeHistory DEF Slice
<1> HIDE DEF page
<1>3. offset + 1 \in page
  BY <1>1, <1>2
<1>4. CASE m <= offset + PageSize
  <2>1. m \in page
    BY <1>1, <1>2, <1>4
  <2> QED
    BY <1>3, <2>1 DEF page
<1>5. CASE m > offset + PageSize
  <2>1. page = offset + 1 .. offset + PageSize
    BY <1>1, <1>2, <1>5
  <2>2. Cardinality(offset + 1 .. offset + PageSize) = PageSize
    <3> DEFINE first == offset + 1
               end   == offset + PageSize
    <3>1. first \in Int /\ end \in Int /\ first <= end
      BY <1>1
    <3> HIDE DEF first, end
    <3>2. Cardinality(first .. end) = end - first + 1
      BY <3>1, IntervalSize
    <3> USE DEF first, end
    <3> QED
      BY <1>1, <3>2
  <2>3. ~IsShortPage(page, PageSize)
    BY <1>1, <2>1, <2>2 DEF IsShortPage
  <2> QED
    BY <1>3, <1>5, <2>3 DEF page
<1> QED
  BY <1>1, <1>4, <1>5 DEF page

\* New messages come after all others, and change no place.
LEMMA PlacesStay ==
  ASSUME TypeOK, sent' = sent + 1, NEW m \in 1..sent, NEW conv, NEW size,
         m \in Slice(History(conv), 0, size)
  PROVE  m \in Slice(History(conv), 0, size)'
<1>1. sent \in Nat
  BY IndexAssumption DEF TypeOK
<1>2. m \in History(conv)' <=> m \in History(conv)
  BY <1>1 DEF History
<1>3. {n \in History(conv)' : n <= m} = {n \in History(conv) : n <= m}
  BY <1>1 DEF History
<1>4. Place(m, History(conv)) = Place(m, History(conv)')
  BY <1>3 DEF Place
<1> QED
  BY <1>2, <1>4 DEF Slice

\* A point that is written is there, and takes no other one away.
LEMMA UpsertKeeps ==
  ASSUME TypeOK, NEW n \in Messages, Upsert(n)
  PROVE  HasPoint(n)' /\ \A m \in Messages : HasPoint(m) => HasPoint(m)'
<1>1. /\ points' = [points EXCEPT ![PointOf(n)] = n]
      /\ points \in [PointIds -> Messages \cup {NoPoint}]
      /\ n # NoPoint /\ PointOf(n) \in PointIds
  BY MessageTypes DEF Upsert, TypeOK
<1>2. points'[PointOf(n)] = n
  BY <1>1
<1>3. ASSUME NEW m \in Messages, HasPoint(m) PROVE HasPoint(m)'
  <2>1. CASE PointOf(m) = PointOf(n)
    <3>1. Safe(m) => n = m
      BY <2>1, SafeUnique
    <3> QED
      BY <1>1, <1>2, <2>1, <3>1 DEF HasPoint
  <2>2. CASE PointOf(m) # PointOf(n)
    <3>1. PointOf(m) \in PointIds
      BY MessageTypes
    <3>2. points'[PointOf(m)] = points[PointOf(m)]
      BY <1>1, <2>2, <3>1
    <3> QED
      BY <1>3, <3>2 DEF HasPoint
  <2> QED
    BY <2>1, <2>2
<1> QED
  BY <1>1, <1>2, <1>3 DEF HasPoint

\* What is to come is a matter of the script and of the history.
LEMMA ToComeStays ==
  ASSUME at'["script"] = at["script"], UNCHANGED <<script, sent>>, NEW m
  PROVE  ToCome(m)' <=> ToCome(m)
<1>1. Refilling' <=> Refilling
  BY DEF Refilling
<1>2. History(script.kind.conv)' = History(script.kind.conv)
  BY DEF History
<1>3. Ahead(m)' <=> Ahead(m)
  BY <1>2 DEF Ahead, Slice, Place
<1> QED
  BY <1>1, <1>3 DEF ToCome

LEMMA StayInit == Init => StayInv
<1> SUFFICES ASSUME Init PROVE StayInv
  OBVIOUS
<1>1. TypeOK
  BY IndexTypeInit
<1>2. \A m \in Messages : job[m].pc = "none"
  BY DEF Init, NoJob
<1>3. OffsetInv
  BY DEF Init, OffsetInv, EnsurePcs, Processes
<1> QED
  BY <1>1, <1>2, <1>3 DEF StayInv

\* The jobs of messages: what an attempt does to the others' is nothing.
LEMMA StayEmbed ==
  ASSUME StayInv, NEW n \in Messages, EmbedJob(n)
  PROVE  StayInv'
<1> USE DEF chatVars, scriptVars, qdrantVars, history
<1>1. TypeOK /\ TypeOK'
  BY IndexTypeNext DEF StayInv, NextIndex
<1>2. UNCHANGED <<sent, short, at, script>>
  BY DEF EmbedJob, SkipShort, EmbedMessage, EmbedReplyLost, EmbedFails
<1>3. OffsetInv'
  BY <1>2 DEF StayInv, OffsetInv
<1>4. job[n].pc = "waiting"
  BY DEF EmbedJob, SkipShort, EmbedMessage, EmbedReplyLost, EmbedFails, Attempted
<1>5. \A m \in Messages \ {n} : job'[m] = job[m]
  BY <1>1 DEF TypeOK, EmbedJob, SkipShort, EmbedMessage, EmbedReplyLost, EmbedFails, JobEnds,
              AttemptThrows
<1>6. \A m \in Messages : job'[m].pc # "none" => m \in 1..sent'
  BY <1>2, <1>4, <1>5 DEF StayInv
<1>7. /\ missed' \in {missed, missed \ {n}}
      /\ \A m \in Messages : HasPoint(m) => HasPoint(m)'
      /\ missed' # missed => HasPoint(n)'
  BY <1>1, UpsertKeeps
     DEF EmbedJob, SkipShort, EmbedMessage, EmbedReplyLost, EmbedFails, Upsert, HasPoint
<1>8. job'[n].pc = "done" => n \in short \/ HasPoint(n)'
  <2>1. job \in [Messages -> JobState] /\ job[n] \in JobState
    BY <1>1 DEF TypeOK
  <2>2. AttemptThrows(n) => job'[n].pc # "done"
    BY <1>4, <2>1 DEF AttemptThrows, JobEnds, NoJob, JobState
  <2> QED
    BY <1>1, <2>2, UpsertKeeps DEF EmbedJob, SkipShort, EmbedMessage, EmbedReplyLost, EmbedFails
<1>9. ASSUME NEW m \in Messages, m \notin short', m \notin missed', job'[m].pc = "done"
      PROVE  HasPoint(m)' \/ ToCome(m)'
  <2>1. CASE m = n
    BY <1>2, <1>8, <1>9, <2>1
  <2>2. CASE m # n
    <3>1. HasPoint(m) \/ ToCome(m)
      BY <1>2, <1>5, <1>7, <1>9, <2>2 DEF StayInv
    <3> QED
      BY <1>2, <1>7, <3>1, ToComeStays
  <2> QED
    BY <2>1, <2>2
<1> QED
  BY <1>1, <1>3, <1>6, <1>9 DEF StayInv

LEMMA StaySend == StayInv /\ Send => StayInv'
<1> SUFFICES ASSUME StayInv, Send PROVE StayInv'
  OBVIOUS
<1> USE DEF chatVars, scriptVars, qdrantVars, history
<1>1. TypeOK /\ TypeOK'
  BY IndexTypeNext DEF StayInv, NextIndex
<1>2. sent' = sent + 1 /\ UNCHANGED <<short, points, at, script, missed>>
  BY DEF Send
<1>3. OffsetInv'
  BY <1>2 DEF StayInv, OffsetInv
<1>4. sent \in Nat /\ \A m \in 1..sent : m \in 1..sent' /\ m # sent + 1
  BY <1>2, IndexAssumption DEF TypeOK, StayInv
<1>5. \A m \in Messages : m = sent + 1 \/ job'[m] = job[m]
  BY <1>1 DEF Send, TypeOK
<1>6. sent + 1 \in Messages => job'[sent + 1].pc # "done"
  <2> SUFFICES ASSUME sent + 1 \in Messages PROVE job'[sent + 1].pc # "done"
    OBVIOUS
  <2>1. job \in [Messages -> JobState] /\ job[sent + 1] \in JobState
    BY <1>1 DEF TypeOK
  <2>2. job[sent + 1].pc = "none"
    BY <1>4 DEF StayInv
  <2> QED
    BY <2>1, <2>2 DEF Send, JobState
<1>7. \A m \in Messages : job'[m].pc # "none" => m \in 1..sent'
  BY <1>2, <1>4, <1>5 DEF StayInv
<1>8. ASSUME NEW m \in Messages, ToCome(m) PROVE ToCome(m)'
  <2>1. m \in 1..sent /\ m \in 1..sent'
    BY <1>4, <1>8 DEF ToCome
  <2>2. Ahead(m) => Ahead(m)'
    <3>1. \A conv : m \in Slice(History(conv), 0, ConvLimit)
                      => m \in Slice(History(conv), 0, ConvLimit)'
      BY <1>1, <1>2, <2>1, PlacesStay
    <3>2. m \in Slice(History(script.kind.conv), 0, ConvLimit)
            => m \in Slice(History(script.kind.conv), 0, ConvLimit)'
      <4> DEFINE conv == script.kind.conv
      <4>1. UNCHANGED conv
        BY <1>2
      <4> QED
        BY <1>2, <3>1 DEF Slice, History
    <3> QED
      BY <1>2, <3>2 DEF Ahead
  <2> QED
    BY <1>2, <1>8, <2>1, <2>2 DEF ToCome, Refilling
<1>9. \A m \in Messages : HasPoint(m) => HasPoint(m)'
  BY <1>2 DEF HasPoint
<1>10. ASSUME NEW m \in Messages, m \notin short', m \notin missed', job'[m].pc = "done"
       PROVE  HasPoint(m)' \/ ToCome(m)'
  <2>1. job'[m] = job[m]
    BY <1>5, <1>6, <1>10
  <2> QED
    BY <1>2, <1>8, <1>9, <1>10, <2>1 DEF StayInv
<1> QED
  BY <1>1, <1>3, <1>7, <1>10 DEF StayInv

\* A step of the script or of ensureCollection() that changes no job, no
\* message and no record of what was missed.
LEMMA StayMoves ==
  ASSUME StayInv, TypeOK', OffsetInv', UNCHANGED <<sent, short, job, points, missed>>,
         \A m \in Messages : ToCome(m) /\ m \notin short => ToCome(m)'
  PROVE  StayInv'
<1>1. \A m \in Messages : HasPoint(m)' <=> HasPoint(m)
  BY DEF HasPoint
<1> QED
  BY <1>1 DEF StayInv

\* Where the index is wiped, every message that was sent is missed.
LEMMA StayWiped ==
  ASSUME StayInv, TypeOK', OffsetInv', UNCHANGED <<sent, short, job>>, Wipe({})
  PROVE  StayInv'
<1>1. missed' = 1..sent
  BY DEF Wipe
<1> QED
  BY <1>1 DEF StayInv

LEMMA StayEnsure ==
  ASSUME StayInv, NEW p \in Processes, Ensure(p)
  PROVE  StayInv'
<1> USE DEF chatVars, scriptVars, qdrantVars, history
<1>1. TypeOK /\ TypeOK' /\ OffsetInv
  BY IndexTypeNext DEF StayInv, NextIndex
<1>2. UNCHANGED <<sent, short, job, script, scripts>>
  BY DEF Ensure, ListCollections, InspectCollection, DeleteOldCollection, CreateCollection,
         CreatePayloadIndexes, EnsureFrame
<1>3. PICK to \in EnsurePcs \cup {AfterEnsure(p)} : at[p] \in EnsurePcs /\ at' = [at EXCEPT ![p] = to]
  BY DEF Ensure, ListCollections, InspectCollection, DeleteOldCollection, CreateCollection,
         CreatePayloadIndexes, Goto, EnsurePcs
<1>4. /\ p = "service" => at'["script"] = at["script"]
      /\ p = "script" => at["script"] \in EnsurePcs /\ at'["script"] = to
  BY <1>1, <1>3 DEF TypeOK, Processes
<1>5. OffsetInv'
  BY <1>1, <1>2, <1>3, <1>4 DEF OffsetInv, AfterEnsure, Processes, EnsurePcs
<1>6. ASSUME NEW m \in Messages, ToCome(m) PROVE ToCome(m)'
  <2>1. CASE p = "service"
    BY <1>2, <1>4, <1>6, <2>1, ToComeStays
  <2>2. CASE p = "script"
    <3>1. script.clearing /\ Ahead(m) /\ m \in 1..sent
      BY <1>4, <1>6, <2>2 DEF ToCome, Refilling, EnsurePcs
    <3>2. script.kind.name # "clear"
      BY <3>1 DEF Ahead
    <3>3. at'["script"] \in EnsurePcs \cup {"paging"}
      BY <1>3, <1>4, <2>2, <3>1, <3>2 DEF AfterEnsure
    <3>4. Ahead(m)'
      <4>1. History(script.kind.conv)' = History(script.kind.conv)
        BY <1>2 DEF History
      <4> QED
        BY <1>2, <3>1, <4>1 DEF Ahead, Slice, Place
    <3> QED
      BY <1>2, <3>1, <3>3, <3>4 DEF ToCome, Refilling, EnsurePcs
  <2> QED
    BY <2>1, <2>2 DEF Processes
<1>7. CASE DeleteOldCollection(p)
  BY <1>1, <1>2, <1>5, <1>7, StayWiped DEF DeleteOldCollection
<1>8. CASE UNCHANGED <<points, missed>>
  BY <1>1, <1>2, <1>5, <1>6, <1>8, StayMoves
<1> QED
  BY <1>7, <1>8
     DEF Ensure, ListCollections, InspectCollection, CreateCollection, CreatePayloadIndexes

LEMMA StayWipeCollection == StayInv /\ WipeCollection => StayInv'
<1> SUFFICES ASSUME StayInv, WipeCollection PROVE StayInv'
  OBVIOUS
<1> USE DEF chatVars, scriptVars, qdrantVars, history
<1>1. TypeOK /\ TypeOK' /\ OffsetInv
  BY IndexTypeNext DEF StayInv, NextIndex, Script
<1>2. /\ UNCHANGED <<sent, short, job>> /\ Wipe(Refilled(script.kind))
      /\ at["script"] = "wiping" /\ at'["script"] = "listing"
      /\ script' = [script EXCEPT !.clearing = TRUE]
  BY <1>1 DEF WipeCollection, Goto, TypeOK, Processes
<1>3. script'.clearing /\ script'.kind = script.kind /\ script'.offset = 0
  BY <1>1, <1>2 DEF TypeOK, ScriptState, OffsetInv
<1>4. OffsetInv'
  BY <1>2, <1>3 DEF OffsetInv, EnsurePcs
<1>5. ASSUME NEW m \in Messages, m \notin missed', m \in 1..sent PROVE ToCome(m)'
  <2>1. m \in Refilled(script.kind)
    BY <1>2, <1>5 DEF Wipe
  <2>2. History(script.kind.conv)' = History(script.kind.conv)
    BY <1>2, <1>3 DEF History
  <2>3. \/ script'.kind.name = "backfill"
        \/ /\ script'.kind.name = "conversationClear"
           /\ m \in Slice(History(script.kind.conv), 0, ConvLimit)'
    BY <1>3, <2>1, <2>2 DEF Refilled, Slice, Place
  <2>4. m \in Nat /\ m > 0
    BY MessageTypes
  <2>5. Ahead(m)'
    BY <1>3, <2>2, <2>3, <2>4 DEF Ahead, Slice, Place
  <2> QED
    BY <1>2, <1>3, <1>5, <2>5 DEF ToCome, Refilling, EnsurePcs
<1> QED
  BY <1>1, <1>2, <1>4, <1>5 DEF StayInv

LEMMA StayFetchPage == StayInv /\ FetchPage => StayInv'
<1> SUFFICES ASSUME StayInv, FetchPage PROVE StayInv'
  OBVIOUS
<1> USE DEF chatVars, scriptVars, qdrantVars, history
<1>1. TypeOK /\ TypeOK' /\ OffsetInv
  BY IndexTypeNext DEF StayInv, NextIndex, Script
<1>2. UNCHANGED <<sent, short, job, points, missed>> /\ at["script"] = "paging"
  BY DEF FetchPage
<1> DEFINE whole == script.kind.name # "backfill"
           size  == IF whole THEN ConvLimit ELSE PageSize
           page  == Slice(History(IF whole THEN script.kind.conv ELSE "all"),
                          script.offset, size)
<1>3. IF page = {} THEN ScriptCloses
      ELSE /\ at' = [at EXCEPT !["script"] = "writing"]
           /\ script' = [script EXCEPT !.page = page \ short, !.offset = script.offset + size,
                                       !.last = whole \/ IsShortPage(page, size)]
  BY DEF FetchPage
<1>4. script.offset \in Nat /\ size \in Nat
  BY <1>1, IndexAssumption DEF TypeOK, ScriptState
<1>5. ASSUME NEW m \in Messages, ToCome(m), m \notin short
      PROVE  /\ page # {}
             /\ \/ m \in page
                \/ ~whole /\ m > script.offset + size /\ ~IsShortPage(page, size)
  <2>1. m \in 1..sent /\ Ahead(m)
    BY <1>2, <1>5 DEF ToCome
  <2>2. CASE whole
    <3>1. script.offset = 0
      BY <1>1, <1>2, <2>2 DEF OffsetInv
    <3>2. m \in page
      BY <2>1, <2>2, <3>1 DEF Ahead
    <3> QED
      BY <3>2
  <2>3. CASE ~whole
    <3>1. m > script.offset /\ page = Slice(History("all"), script.offset, PageSize)
      BY <2>1, <2>3 DEF Ahead
    <3> QED
      BY <1>1, <1>4, <2>1, <2>3, <3>1, Pages
  <2> QED
    BY <2>2, <2>3
<1>6. CASE page = {}
  <2>1. ScriptCloses
    BY <1>3, <1>6
  <2>2. OffsetInv'
    BY <1>1, <2>1 DEF ScriptCloses, OffsetInv, EnsurePcs, TypeOK, Processes
  <2> HIDE DEF page
  <2> QED
    BY <1>1, <1>2, <1>5, <1>6, <2>2, StayMoves
<1>7. CASE page # {}
  <2>1. /\ at'["script"] = "writing"
        /\ script'.page = page \ short /\ script'.offset = script.offset + size
        /\ script'.last = (whole \/ IsShortPage(page, size)) /\ script'.kind = script.kind
    <3> HIDE DEF page, size
    <3>1. /\ at' = [at EXCEPT !["script"] = "writing"]
          /\ script' = [script EXCEPT !.page = page \ short, !.offset = script.offset + size,
                                      !.last = whole \/ IsShortPage(page, size)]
      BY <1>3, <1>7
    <3> HIDE DEF whole
    <3> QED
      BY <1>1, <3>1 DEF TypeOK, ScriptState, Processes
  <2>2. OffsetInv'
    <3> HIDE DEF page, size
    <3> QED
      BY <2>1 DEF OffsetInv, EnsurePcs
  <2>3. ASSUME NEW m \in Messages, ToCome(m), m \notin short PROVE ToCome(m)'
    <3>1. m \in 1..sent'
      BY <1>2, <2>3 DEF ToCome
    <3>2. \/ m \in script'.page
          \/ script'.kind.name = "backfill" /\ m > script'.offset /\ ~script'.last
      <4>1. \/ m \in page
            \/ ~whole /\ m > script.offset + size /\ ~IsShortPage(page, size)
        BY <1>5, <2>3
      <4> HIDE DEF page, size
      <4> QED
        BY <2>1, <2>3, <4>1
    <3> HIDE DEF page, size, whole
    <3> QED
      BY <2>1, <3>1, <3>2 DEF ToCome, Refilling, Ahead
  <2> HIDE DEF page, size, whole
  <2> QED
    BY <1>1, <1>2, <2>2, <2>3, StayMoves
<1> QED
  BY <1>6, <1>7

LEMMA StayWriting ==
  ASSUME StayInv, NEW n \in Messages, WriteFromPage(n) \/ WriteFromPageFails(n)
  PROVE  StayInv'
<1> USE DEF chatVars, scriptVars, qdrantVars, history
<1>1. TypeOK /\ TypeOK' /\ OffsetInv
  BY IndexTypeNext DEF StayInv, NextIndex, Script
<1>2. /\ UNCHANGED <<sent, short, job, at>> /\ at["script"] = "writing"
      /\ script' = [script EXCEPT !.page = script.page \ {n}]
  BY DEF WriteFromPage, WriteFromPageFails, Takes
<1>3. /\ script'.page = script.page \ {n}
      /\ script'.kind = script.kind /\ script'.offset = script.offset
      /\ script'.last = script.last
  BY <1>1, <1>2 DEF TypeOK, ScriptState
<1>4. OffsetInv'
  BY <1>1, <1>2, <1>3 DEF OffsetInv, EnsurePcs
<1>5. ASSUME NEW m \in Messages, m # n, ToCome(m) PROVE ToCome(m)'
  <2>1. History(script.kind.conv)' = History(script.kind.conv)
    BY <1>2, <1>3 DEF History
  <2>2. Ahead(m)' <=> Ahead(m)
    BY <1>3, <2>1 DEF Ahead, Slice, Place
  <2> QED
    BY <1>2, <1>3, <1>5, <2>2 DEF ToCome, Refilling
<1>6. /\ \A m \in Messages : HasPoint(m) => HasPoint(m)'
      /\ n \in missed' \/ HasPoint(n)'
      /\ \A m \in Messages \ {n} : m \notin missed' => m \notin missed
  BY <1>1, UpsertKeeps DEF WriteFromPage, WriteFromPageFails, Upsert, HasPoint
<1> QED
  BY <1>1, <1>2, <1>4, <1>5, <1>6 DEF StayInv

LEMMA StayPageWritten == StayInv /\ PageWritten => StayInv'
<1> SUFFICES ASSUME StayInv, PageWritten PROVE StayInv'
  OBVIOUS
<1> USE DEF chatVars, scriptVars, qdrantVars, history
<1>1. TypeOK /\ TypeOK' /\ OffsetInv
  BY IndexTypeNext DEF StayInv, NextIndex, Script
<1>2. /\ UNCHANGED <<sent, short, job, points, missed>>
      /\ at["script"] = "writing" /\ script.page = {}
  BY DEF PageWritten
<1>3. CASE script.last
  <2>1. ScriptCloses
    BY <1>3 DEF PageWritten
  <2>2. OffsetInv'
    BY <1>1, <2>1 DEF ScriptCloses, OffsetInv, EnsurePcs, TypeOK, Processes
  <2>3. \A m \in Messages : ~ToCome(m)
    BY <1>2, <1>3 DEF ToCome
  <2> QED
    BY <1>1, <1>2, <2>2, <2>3, StayMoves
<1>4. CASE ~script.last
  <2>1. at'["script"] = "paging" /\ UNCHANGED script
    BY <1>1, <1>4 DEF PageWritten, Goto, TypeOK, Processes
  <2>2. OffsetInv'
    BY <1>1, <1>2, <1>4, <2>1 DEF OffsetInv, EnsurePcs
  <2>3. ASSUME NEW m \in Messages, ToCome(m) PROVE ToCome(m)'
    <3>1. m \in 1..sent /\ Ahead(m)
      BY <1>2, <2>3 DEF ToCome
    <3>2. History(script.kind.conv)' = History(script.kind.conv)
      BY <1>2, <2>1 DEF History
    <3>3. Ahead(m)'
      BY <2>1, <3>1, <3>2 DEF Ahead, Slice, Place
    <3> QED
      BY <1>2, <2>1, <3>1, <3>3 DEF ToCome, Refilling
  <2> QED
    BY <1>1, <1>2, <2>2, <2>3, StayMoves
<1> QED
  BY <1>3, <1>4

LEMMA StayStarts ==
  ASSUME StayInv, \/ StartService \/ ScriptExits
                  \/ \E kind \in ScriptKinds : StartScript(kind)
  PROVE  StayInv'
<1> USE DEF chatVars, scriptVars, qdrantVars, history
<1>1. TypeOK /\ TypeOK' /\ OffsetInv
  BY IndexTypeNext DEF StayInv, NextIndex, Script
<1>2. UNCHANGED <<sent, short, job, points, missed>>
  BY DEF StartService, ScriptExits, StartScript
<1>3. CASE StartService
  <2>1. at'["script"] = at["script"] /\ UNCHANGED script
    BY <1>1, <1>3 DEF StartService, TypeOK, Processes
  <2>2. OffsetInv'
    BY <1>1, <2>1 DEF OffsetInv
  <2> QED
    BY <1>1, <1>2, <2>1, <2>2, ToComeStays, StayMoves
<1>4. CASE ScriptExits
  <2>1. at["script"] = "closing" /\ at'["script"] = "off"
    BY <1>1, <1>4 DEF ScriptExits, Goto, TypeOK, Processes
  <2>2. OffsetInv'
    BY <2>1 DEF OffsetInv, EnsurePcs
  <2>3. \A m \in Messages : ~ToCome(m)
    BY <2>1 DEF ToCome, Refilling, EnsurePcs
  <2> QED
    BY <1>1, <1>2, <2>2, <2>3, StayMoves
<1>5. ASSUME NEW kind \in ScriptKinds, StartScript(kind) PROVE StayInv'
  <2>1. at["script"] = "off" /\ at'["script"] = "listing" /\ script'.offset = 0
    BY <1>1, <1>5 DEF StartScript, NoScript, TypeOK, Processes
  <2>2. OffsetInv'
    BY <2>1 DEF OffsetInv, EnsurePcs
  <2>3. \A m \in Messages : ~ToCome(m)
    BY <2>1 DEF ToCome, Refilling, EnsurePcs
  <2> QED
    BY <1>1, <1>2, <2>2, <2>3, StayMoves
<1> QED
  BY <1>3, <1>4, <1>5

\* A script that breaks off leaves what has no point in missed.
LEMMA StayBroken ==
  ASSUME StayInv, NEW p \in Processes,
         CallThrows(p) \/ DeleteReplyLost(p) \/ CreateReplyLost(p) \/ Kill(p)
  PROVE  StayInv'
<1> USE DEF chatVars, scriptVars, qdrantVars, history
<1>1. TypeOK /\ TypeOK' /\ OffsetInv
  BY IndexTypeNext DEF StayInv, NextIndex
<1>2. PICK pc \in {"off", "closing"} : Ends(p, pc)
  BY DEF CallThrows, DeleteReplyLost, CreateReplyLost, Kill, Stops
<1>3. /\ UNCHANGED <<sent, short, job>>
      /\ p = "script" => at'["script"] \in {"off", "closing"}
      /\ p # "script" => at'["script"] = at["script"] /\ script' = script
  BY <1>1, <1>2 DEF Ends, TypeOK, Processes
<1>4. OffsetInv'
  BY <1>1, <1>3 DEF OffsetInv, EnsurePcs
<1>5. CASE DeleteReplyLost(p)
  BY <1>1, <1>3, <1>4, <1>5, StayWiped DEF DeleteReplyLost
<1>6. CASE CallThrows(p) \/ CreateReplyLost(p) \/ Kill(p)
  <2>1. LeavesBehind(p) /\ UNCHANGED points
    BY <1>6 DEF CallThrows, CreateReplyLost, Kill
  <2>2. \A m \in Messages : HasPoint(m)' <=> HasPoint(m)
    BY <2>1 DEF HasPoint
  <2>3. missed \subseteq missed'
    BY <2>1 DEF LeavesBehind
  <2>4. ASSUME NEW m \in Messages, m \notin missed', ToCome(m), ~HasPoint(m)
        PROVE  ToCome(m)'
    <3>1. p # "script"
      BY <2>1, <2>4 DEF LeavesBehind, ToCome
    <3> QED
      BY <1>3, <2>4, <3>1, ToComeStays
  <2> QED
    BY <1>1, <1>3, <1>4, <2>2, <2>3, <2>4 DEF StayInv
<1> QED
  BY <1>5, <1>6

LEMMA StayNext == StayInv /\ [NextIndex]_indexVars => StayInv'
<1> SUFFICES ASSUME StayInv, [NextIndex]_indexVars PROVE StayInv'
  OBVIOUS
<1>1. CASE UNCHANGED indexVars
  <2>1. TypeOK /\ TypeOK' /\ OffsetInv
    BY <1>1, IndexTypeNext DEF StayInv
  <2>2. UNCHANGED <<sent, short, job, points, missed, at, script>>
    BY <1>1 DEF indexVars, chatVars, scriptVars, qdrantVars, history
  <2>3. OffsetInv'
    BY <2>1, <2>2 DEF OffsetInv
  <2> QED
    BY <2>1, <2>2, <2>3, ToComeStays, StayMoves
<1> QED
  BY <1>1, StaySend, StayEmbed, StayStarts, StayWriting, StayWipeCollection, StayFetchPage,
     StayPageWritten, StayEnsure, StayBroken DEF NextIndex, Script

-----------------------------------------------------------------------------
(* A question.                                                             *)

Asked == [pc : {"none", "rewriting", "reading", "searching", "answered"},
          conv : Conversations, plan : Plans, range : SUBSET Messages,
          queries : Nat, recents : SUBSET Messages, found : SUBSET Doc,
          fellBack : BOOLEAN, context : SUBSET Doc]

\* What is stored at a point is a message of that id, with others of its
\* conversation.
PointsOwn ==
    \A k \in PointIds :
        points[k] # NoPoint => /\ PointOf(points[k]) = k
                               /\ \A n \in windows[k] : ConvOf[n] = ConvOf[points[k]]

Fits(d) ==
    /\ \A m \in d.window \cup {d.message} : ConvOf[m] = ask.conv
    /\ ask.fellBack \/ d.message \in ask.range

OneForEachId(docs) == \A d, e \in docs : d.id = e.id => d = e

FoundFit ==
    /\ OneForEachId(ask.found)
    /\ ask.pc \in {"rewriting", "reading"} => ask.found = {} /\ ask.recents = {}
    /\ \A d \in ask.found : Fits(d) /\ d.id = PointOf(d.message)
    /\ \A m \in ask.recents : ConvOf[m] = ask.conv /\ m \in ask.range /\ m \notin Blank

WindowOnce ==
    \A m \in Window : Safe(m) => Cardinality({d \in ask.context : d.message = m}) = 1

ContextOK ==
    ask.pc = "answered" => (\A d \in ask.context : Fits(d)) /\ WindowOnce

RetrievalInv ==
    /\ TypeOK /\ TypeOKRetrieval
    /\ PointsOwn /\ FoundFit /\ ContextOK

LEMMA RangeTypes ==
  AllTime \in Ranges /\ \A range \in Ranges : range \in SUBSET Messages
<1>1. \A first \in Messages, last \in 0..MaxMessages : first..last \subseteq Messages
  BY IndexAssumption DEF Messages
<1>2. ASSUME NEW range \in Ranges PROVE range \in SUBSET Messages
  <2>1. range \in {first..last : first \in Messages, last \in 0..MaxMessages}
    BY RetrievalAssumption
  <2>2. PICK first \in Messages, last \in 0..MaxMessages : range = first..last
    BY <2>1
  <2> QED
    BY <1>1, <2>2
<1>3. AllTime \in Ranges
  BY RetrievalAssumption
<1> QED
  BY <1>2, <1>3

LEMMA AskTypes ==
  /\ TypeOKRetrieval <=> ask \in Asked /\ asks \in 0..MaxAsks
  /\ NoAsk \in Asked
  /\ \A conv \in Conversations, plan \in Plans, dates \in SUBSET Messages :
        NewAsk(conv, plan, dates, "rewriting") \in Asked
<1>1. TypeOKRetrieval <=> ask \in Asked /\ asks \in 0..MaxAsks
  BY DEF TypeOKRetrieval, Asked
<1>2. 1 \in Messages /\ ConvOf[1] \in Conversations
  BY IndexAssumption, RetrievalAssumption DEF Messages, Conversations
<1>3. (CHOOSE plan \in Plans : TRUE) \in Plans
  BY RetrievalAssumption
<1>4. ASSUME NEW conv \in Conversations, NEW plan \in Plans, NEW dates \in SUBSET Messages,
             NEW pc \in {"none", "rewriting"}
      PROVE  NewAsk(conv, plan, dates, pc) \in Asked
  BY DEF NewAsk, Asked
<1>5. NoAsk \in Asked
  BY <1>2, <1>3, <1>4 DEF NoAsk, AllTime
<1> QED
  BY <1>1, <1>4, <1>5

\* What a search finds are documents of the conversation and the range.
LEMMA HitTypes ==
  ASSUME TypeOK, PointsOwn, NEW conv, NEW range, NEW h \in Hits(conv, range)
  PROVE  /\ h \in Doc /\ h.id = PointOf(h.message) /\ h.message \in range
         /\ \A m \in h.window \cup {h.message} : ConvOf[m] = conv
<1>1. PICK k \in PointIds : /\ points[k] # NoPoint /\ ConvOf[points[k]] = conv
                            /\ points[k] \in range
                            /\ h = [id |-> k, message |-> points[k], window |-> windows[k]]
  BY DEF Hits
<1>2. points[k] \in Messages /\ windows[k] \in SUBSET Messages
  BY <1>1 DEF TypeOK
<1>3. h.id = k /\ h.message = points[k] /\ h.window = windows[k]
  BY <1>1
<1>4. h \in Doc
  BY <1>1, <1>2 DEF Doc
<1>5. \A m \in windows[k] : ConvOf[m] = conv
  BY <1>1 DEF PointsOwn
<1> QED
  BY <1>1, <1>3, <1>4, <1>5 DEF PointsOwn

LEMMA PointsOwnNext ==
  ASSUME TypeOK, PointsOwn, [NextIndex]_indexVars
  PROVE  PointsOwn'
<1> USE DEF chatVars, scriptVars, qdrantVars, history
<1>1. ASSUME NEW m \in Messages, Upsert(m),
             Windowed(m, JobWindows(m)) \/ Windowed(m, ScriptWindows(m))
      PROVE  PointsOwn'
  <2>1. /\ points \in [PointIds -> Messages \cup {NoPoint}]
        /\ points' = [points EXCEPT ![PointOf(m)] = m]
    BY <1>1 DEF TypeOK, Upsert
  <2>2. /\ \A k \in PointIds \ {PointOf(m)} : windows'[k] = windows[k]
        /\ \A n \in windows'[PointOf(m)] : ConvOf[n] = ConvOf[m]
    BY <1>1, WindowTypes
  <2> QED
    BY <2>1, <2>2 DEF PointsOwn
<1>2. ASSUME NEW kept, Wipe(kept) PROVE PointsOwn'
  BY <1>2 DEF Wipe, PointsOwn
<1>3. CASE UNCHANGED <<points, windows>>
  BY <1>3 DEF PointsOwn
<1>4. \/ UNCHANGED <<points, windows>>
      \/ \E m \in Messages :
            Upsert(m) /\ (Windowed(m, JobWindows(m)) \/ Windowed(m, ScriptWindows(m)))
      \/ \E kept : Wipe(kept)
  BY DEF NextIndex, Send, EmbedJob, SkipShort, EmbedMessage, EmbedReplyLost, EmbedFails,
         StartService, Script, StartScript, WriteFromPage, WriteFromPageFails, WipeCollection,
         FetchPage, PageWritten, ScriptExits, Ensure, ListCollections, InspectCollection,
         DeleteOldCollection, CreateCollection, CreatePayloadIndexes, EnsureFrame, CallThrows,
         DeleteReplyLost, CreateReplyLost, Kill, indexVars
<1> QED
  BY <1>1, <1>2, <1>3, <1>4

\* Whether a message has a text does not change.
LEMMA BlankStays ==
  ASSUME NextIndex
  PROVE  Blank' = Blank
<1> USE DEF chatVars, scriptVars, qdrantVars, history
<1>1. short' = short
  BY DEF NextIndex, Send, EmbedJob, SkipShort, EmbedMessage, EmbedReplyLost, EmbedFails,
         StartService, Script, StartScript, WriteFromPage, WriteFromPageFails, WipeCollection,
         FetchPage, PageWritten, ScriptExits, Ensure, ListCollections, InspectCollection,
         DeleteOldCollection, CreateCollection, CreatePayloadIndexes, EnsureFrame, CallThrows,
         DeleteReplyLost, CreateReplyLost, Kill, Stops, Ends
<1> QED
  BY <1>1 DEF Blank

\* Of found documents there is one for an id, that of the message's point, and
\* a recent message joins them with its own id: together each safe one of the
\* latter is there once.
LEMMA CombinedOnce ==
  ASSUME NEW ranked \in SUBSET Doc, OneForEachId(ranked),
         \A d \in ranked : d.id = PointOf(d.message),
         NEW recents \in SUBSET Messages, NEW m \in recents, Safe(m)
  PROVE  Cardinality({d \in Combined(ranked, recents) : d.message = m}) = 1
<1> DEFINE own(n) == [id |-> MessageId[n], message |-> n, window |-> {}]
           context == Combined(ranked, recents)
<1>1. \A d \in context : \/ d \in ranked
                         \/ \E n \in recents : /\ d = own(n)
                                               /\ \A e \in ranked : e.id # MessageId[n]
  BY DEF Combined
<1>2. \A n \in Messages : own(n).id = MessageId[n] /\ own(n).message = n
  OBVIOUS
<1>3. \A d \in ranked : d.message = m <=> d.id = MessageId[m]
  <2> SUFFICES ASSUME NEW d \in ranked PROVE d.message = m <=> d.id = MessageId[m]
    OBVIOUS
  <2>1. d.message \in Messages /\ m \in Messages
    BY DEF Doc
  <2>2. PointOf(m) = MessageId[m]
    BY SafeUnique
  <2>3. PointOf(d.message) = PointOf(m) => d.message = m
    BY <2>1, SafeUnique
  <2> QED
    BY <2>2, <2>3
<1>4. \E e : {d \in context : d.message = m} = {e}
  <2>1. CASE \E e \in ranked : e.id = MessageId[m]
    <3>1. PICK e \in ranked : e.id = MessageId[m]
      BY <2>1
    <3>2. e \in context
      BY DEF Combined
    <3>3. \A d \in ranked : d.message = m => d = e
      BY <1>3, <3>1 DEF OneForEachId
    <3>4. \A d \in context : d.message = m => d = e
      <4> SUFFICES ASSUME NEW d \in context, d.message = m PROVE d = e
        OBVIOUS
      <4>1. CASE d \in ranked
        BY <3>3, <4>1
      <4>2. CASE d \notin ranked
        <5>1. PICK n \in recents : d = own(n) /\ \A x \in ranked : x.id # MessageId[n]
          BY <1>1, <4>2
        <5>2. n = m
          BY <1>2, <5>1
        <5> QED
          BY <3>1, <5>1, <5>2
      <4> QED
        BY <4>1, <4>2
    <3>5. e.message = m
      BY <1>3, <3>1
    <3> HIDE DEF context
    <3>6. {d \in context : d.message = m} = {e}
      BY <3>2, <3>4, <3>5
    <3> QED
      BY <3>6
  <2>2. CASE \A e \in ranked : e.id # MessageId[m]
    <3>1. own(m) \in context
      BY <2>2 DEF Combined
    <3>2. \A d \in context : d.message = m => d = own(m)
      <4> SUFFICES ASSUME NEW d \in context, d.message = m PROVE d = own(m)
        OBVIOUS
      <4>1. d \notin ranked
        BY <1>3, <2>2
      <4>2. PICK n \in recents : d = own(n)
        BY <1>1, <4>1
      <4> QED
        BY <1>2, <4>2
    <3>3. own(m).message = m
      OBVIOUS
    <3> HIDE DEF context, own
    <3>4. {d \in context : d.message = m} = {own(m)}
      BY <3>1, <3>2, <3>3
    <3> QED
      BY <3>4
  <2> QED
    BY <2>1, <2>2
<1>5. PICK e : {d \in context : d.message = m} = {e}
  BY <1>4
<1>6. Cardinality({e}) = 1
  BY FS_Singleton
<1> QED
  BY <1>5, <1>6

LEMMA NobodyAsks ==
  ASSUME ask = NoAsk
  PROVE  FoundFit /\ ContextOK
BY DEF NoAsk, NewAsk, FoundFit, OneForEachId, ContextOK

LEMMA RetrievalInit == InitRetrieval => RetrievalInv
<1> SUFFICES ASSUME InitRetrieval PROVE RetrievalInv
  OBVIOUS
<1>1. TypeOK
  BY IndexTypeInit DEF InitRetrieval
<1>2. TypeOKRetrieval
  BY AskTypes, RetrievalAssumption DEF InitRetrieval
<1>3. PointsOwn
  BY DEF InitRetrieval, Init, PointsOwn
<1> QED
  BY <1>1, <1>2, <1>3, NobodyAsks DEF InitRetrieval, RetrievalInv

\* The question keeps what a step of the index leaves it.
LEMMA AskKept ==
  ASSUME RetrievalInv, NextIndex, UNCHANGED asks, ask' = ask \/ ask' = NoAsk
  PROVE  RetrievalInv'
<1>1. TypeOK' /\ PointsOwn'
  BY IndexTypeNext, PointsOwnNext DEF RetrievalInv
<1>2. ask \in Asked /\ asks \in 0..MaxAsks
  BY AskTypes DEF RetrievalInv
<1>3. TypeOKRetrieval'
  BY <1>2, AskTypes DEF TypeOKRetrieval, Asked
<1>4. FoundFit' /\ ContextOK'
  <2>1. CASE ask' = ask
    BY <2>1, BlankStays DEF RetrievalInv, FoundFit, ContextOK, WindowOnce, Window, Fits
  <2>2. CASE ask' = NoAsk
    BY <2>2 DEF NoAsk, NewAsk, FoundFit, OneForEachId, ContextOK
  <2> QED
    BY <2>1, <2>2
<1> QED
  BY <1>1, <1>3, <1>4 DEF RetrievalInv

LEMMA AskMoves ==
  ASSUME RetrievalInv, UNCHANGED indexVars,
         ask' \in Asked, asks' \in 0..MaxAsks, FoundFit', ContextOK'
  PROVE  RetrievalInv'
<1>1. TypeOK'
  BY IndexTypeNext DEF RetrievalInv
<1>2. PointsOwn'
  BY PointsOwnNext DEF RetrievalInv
<1>3. TypeOKRetrieval'
  BY DEF TypeOKRetrieval, Asked
<1> QED
  BY <1>1, <1>2, <1>3 DEF RetrievalInv

LEMMA RetrievalNext == RetrievalInv /\ [NextRetrieval]_<<retrievalVars, indexVars>> => RetrievalInv'
<1> SUFFICES ASSUME RetrievalInv, [NextRetrieval]_<<retrievalVars, indexVars>>
             PROVE  RetrievalInv'
  OBVIOUS
<1>0. /\ TypeOK /\ PointsOwn /\ FoundFit /\ ContextOK
      /\ ask \in Asked /\ asks \in 0..MaxAsks
  BY AskTypes DEF RetrievalInv
<1>1. ASSUME NEW conv \in Conversations, NEW plan \in Plans, NEW dates \in Ranges,
             Ask(conv, plan, dates)
      PROVE  RetrievalInv'
  <2>1. asks' \in 0..MaxAsks /\ UNCHANGED indexVars
    BY <1>0, <1>1, RetrievalAssumption DEF Ask
  <2>2. dates \in SUBSET Messages
    BY RangeTypes
  <2>3. ask' = NewAsk(conv, plan, dates, "rewriting")
    BY <1>1 DEF Ask
  <2>4. ask' \in Asked
    BY <2>2, <2>3, AskTypes
  <2>5. FoundFit' /\ ContextOK'
    BY <2>3 DEF NewAsk, FoundFit, OneForEachId, ContextOK
  <2> QED
    BY <2>1, <2>4, <2>5, AskMoves
<1>2. CASE RewriteQueries
  <2>1. PICK result \in Rewritten(ask.plan) :
           ask' = [ask EXCEPT !.pc = "reading", !.queries = result.queries,
                              !.range = FinalRange(ask.range, result.range)]
    BY <1>2 DEF RewriteQueries
  <2>2. result.queries \in Nat /\ result.range \in SUBSET Messages
    <3>1. ask.plan.maxRewriteQueries \in Nat
      BY <1>0, RetrievalAssumption DEF Asked
    <3> QED
      BY <3>1, RangeTypes DEF Rewritten, AllTime
  <2>3. FinalRange(ask.range, result.range) \in SUBSET Messages
    BY <1>0, <2>2 DEF FinalRange, Asked
  <2>4. ask' \in Asked
    BY <1>0, <2>1, <2>2, <2>3 DEF Asked
  <2>5. ask'.pc = "reading" /\ ask'.found = {} /\ ask'.recents = {}
    BY <1>0, <1>2, <2>1 DEF Asked, FoundFit, RewriteQueries
  <2>6. FoundFit' /\ ContextOK'
    BY <2>5 DEF FoundFit, OneForEachId, ContextOK
  <2> QED
    BY <1>0, <1>2, <2>4, <2>6, AskMoves DEF RewriteQueries
<1>3. CASE ReadRecents
  <2> DEFINE latest == Normalized(LastOf(ask.plan.recentLimit,
                                         History(ask.conv) \cap ask.range))
  <2>1. ask' = [ask EXCEPT !.pc = "searching", !.recents = latest]
    BY <1>3 DEF ReadRecents
  <2>2. /\ latest \in SUBSET Messages
        /\ \A m \in latest : ConvOf[m] = ask.conv /\ m \in ask.range /\ m \notin Blank
    <3>1. History(ask.conv) \subseteq Messages
      BY <1>0, MessageTypes DEF History, TypeOK, Messages
    <3>2. ask.conv # "all"
      BY <1>0, IndexAssumption DEF Asked, Conversations
    <3>3. latest \subseteq (History(ask.conv) \cap ask.range) \ Blank
      BY DEF LastOf, Normalized
    <3>4. \A m \in History(ask.conv) : ConvOf[m] = ask.conv
      BY <3>2 DEF History
    <3> HIDE DEF latest
    <3> QED
      BY <3>1, <3>3, <3>4
  <2> HIDE DEF latest
  <2>3. ask' \in Asked
    BY <1>0, <2>1, <2>2 DEF Asked
  <2>4. /\ ask'.pc = "searching" /\ ask'.recents = latest /\ ask'.found = {}
        /\ ask'.conv = ask.conv /\ ask'.range = ask.range
    BY <1>0, <1>3, <2>1 DEF Asked, FoundFit, ReadRecents
  <2>5. Blank' = Blank
    BY <1>3 DEF ReadRecents, indexVars, chatVars, Blank
  <2>6. FoundFit' /\ ContextOK'
    BY <2>2, <2>4, <2>5 DEF FoundFit, OneForEachId, ContextOK
  <2> QED
    BY <1>0, <1>3, <2>3, <2>6, AskMoves DEF ReadRecents
<1>4. ASSUME NEW range \in SUBSET Messages, NEW fellBack \in BOOLEAN, Finds(range, fellBack),
             fellBack \/ range = ask.range
      PROVE  RetrievalInv'
  <2>1. PICK hits \in SUBSET Hits(ask.conv, range) :
           ask' = [ask EXCEPT !.queries = ask.queries - 1, !.found = Merged(ask.found, hits),
                              !.fellBack = ask.fellBack \/ fellBack]
    BY <1>4 DEF Finds
  <2>2. \A h \in hits : /\ h \in Doc /\ h.id = PointOf(h.message) /\ h.message \in range
                        /\ \A m \in h.window \cup {h.message} : ConvOf[m] = ask.conv
    BY <1>0, HitTypes
  <2>3. Merged(ask.found, hits) \subseteq ask.found \cup hits
    BY DEF Merged
  <2>4. Merged(ask.found, hits) \in SUBSET Doc
    BY <1>0, <2>2, <2>3 DEF Asked
  <2>5. ask.queries - 1 \in Nat /\ ask.pc = "searching"
    BY <1>0, <1>4 DEF Finds, Asked
  <2>6. (ask.fellBack \/ fellBack) \in BOOLEAN
    OBVIOUS
  <2>7. ask' \in Asked
    BY <1>0, <2>1, <2>4, <2>5, <2>6 DEF Asked
  <2>8. /\ ask'.pc = "searching" /\ ask'.recents = ask.recents
        /\ ask'.conv = ask.conv /\ ask'.range = ask.range
        /\ ask'.fellBack = (ask.fellBack \/ fellBack)
        /\ ask'.found = Merged(ask.found, hits)
    BY <1>0, <2>1, <2>5 DEF Asked
  <2>9. OneForEachId(Merged(ask.found, hits))
    <3>1. OneForEachId(hits)
      BY DEF Hits, OneForEachId
    <3> QED
      BY <1>0, <3>1 DEF FoundFit, OneForEachId, Merged
  <2>10. Blank' = Blank
    BY <1>4 DEF Finds, indexVars, chatVars, Blank
  <2>11. \A d \in Merged(ask.found, hits) :
           /\ d.id = PointOf(d.message)
           /\ \A m \in d.window \cup {d.message} : ConvOf[m] = ask.conv
           /\ ask.fellBack \/ fellBack \/ d.message \in ask.range
    BY <1>0, <1>4, <2>2, <2>3 DEF FoundFit, Fits
  <2>12. FoundFit'
    BY <1>0, <2>8, <2>9, <2>10, <2>11 DEF FoundFit, Fits
  <2>13. ContextOK'
    BY <2>8 DEF ContextOK
  <2> QED
    BY <1>0, <1>4, <2>7, <2>12, <2>13, AskMoves DEF Finds
<1>5. CASE HybridSearch \/ FallbackSearch
  <2>1. ask.range \in SUBSET Messages /\ AllTime \in SUBSET Messages
    BY <1>0 DEF Asked, AllTime
  <2> QED
    BY <1>4, <1>5, <2>1 DEF HybridSearch, FallbackSearch
<1>6. CASE SearchFails
  <2>1. ask.queries - 1 \in Nat /\ ask.pc = "searching"
    BY <1>0, <1>6 DEF SearchFails, Asked
  <2>2. ask' \in Asked
    BY <1>0, <1>6, <2>1 DEF SearchFails, Asked
  <2>3. /\ ask'.pc = "searching" /\ ask'.recents = ask.recents
        /\ ask'.conv = ask.conv /\ ask'.range = ask.range
        /\ ask'.fellBack = ask.fellBack /\ ask'.found = ask.found
    BY <1>0, <1>6, <2>1 DEF SearchFails, Asked
  <2>4. Blank' = Blank
    BY <1>6 DEF SearchFails, indexVars, chatVars, Blank
  <2>5. FoundFit' /\ ContextOK'
    BY <1>0, <2>3, <2>4 DEF FoundFit, ContextOK, Fits
  <2> QED
    BY <1>0, <1>6, <2>2, <2>5, AskMoves DEF SearchFails
<1>7. CASE Rank
  <2>1. PICK ranked \in Reranked(ask.found, ask.plan.rerankTopN) :
           ask' = [ask EXCEPT !.pc = "answered", !.found = {},
                              !.context = Combined(ranked, Window)]
    BY <1>7 DEF Rank
  <2>2. ranked \subseteq ask.found
    BY DEF Reranked
  <2>3. /\ ranked \in SUBSET Doc
        /\ \A d \in ranked : Fits(d) /\ d.id = PointOf(d.message)
        /\ OneForEachId(ranked)
    BY <1>0, <2>2 DEF Asked, FoundFit, OneForEachId
  <2>4. /\ Window \in SUBSET Messages
        /\ \A m \in Window : ConvOf[m] = ask.conv /\ m \in ask.range
    BY <1>0 DEF Window, LastOf, Asked, FoundFit
  <2>5. \A d \in Combined(ranked, Window) :
           \/ d \in ranked
           \/ \E m \in Window : d = [id |-> MessageId[m], message |-> m, window |-> {}]
    BY DEF Combined
  <2>6. Combined(ranked, Window) \in SUBSET Doc
    BY <2>3, <2>4, <2>5 DEF Doc
  <2>7. ask' \in Asked
    BY <1>0, <2>1, <2>6 DEF Asked
  <2>8. /\ ask'.pc = "answered" /\ ask'.recents = ask.recents
        /\ ask'.conv = ask.conv /\ ask'.range = ask.range
        /\ ask'.fellBack = ask.fellBack /\ ask'.found = {}
        /\ ask'.context = Combined(ranked, Window)
    BY <1>0, <2>1 DEF Asked
  <2>9. Blank' = Blank
    BY <1>7 DEF Rank, indexVars, chatVars, Blank
  <2>10. FoundFit'
    BY <1>0, <2>8, <2>9 DEF FoundFit, OneForEachId
  <2>11. \A d \in Combined(ranked, Window) : Fits(d)
    BY <2>3, <2>4, <2>5 DEF Fits
  <2>12. \A m \in Window :
            Safe(m) => Cardinality({d \in Combined(ranked, Window) : d.message = m}) = 1
    BY <2>3, <2>4, CombinedOnce
  <2>13. Window' = Window
    BY <2>8 DEF Window
  <2>14. WindowOnce'
    BY <2>8, <2>12, <2>13 DEF WindowOnce
  <2>15. ContextOK'
    BY <2>8, <2>11, <2>14 DEF ContextOK, Fits
  <2> QED
    BY <1>0, <1>7, <2>7, <2>10, <2>15, AskMoves DEF Rank
<1>8. CASE AskThrows \/ HandOver
  <2>1. ask' = NoAsk /\ UNCHANGED <<asks, indexVars>>
    BY <1>8 DEF AskThrows, HandOver
  <2>2. FoundFit' /\ ContextOK'
    BY <2>1 DEF NoAsk, NewAsk, FoundFit, OneForEachId, ContextOK
  <2> QED
    BY <1>0, <2>1, <2>2, AskTypes, AskMoves
<1>9. CASE IndexStep
  BY <1>9, AskKept DEF IndexStep
<1>10. CASE UNCHANGED <<retrievalVars, indexVars>>
  <2>1. ask' = ask /\ asks' = asks /\ UNCHANGED indexVars
    BY <1>10 DEF retrievalVars
  <2>2. Blank' = Blank
    BY <2>1 DEF indexVars, chatVars, Blank
  <2>3. FoundFit' /\ ContextOK'
    BY <1>0, <2>1, <2>2 DEF FoundFit, ContextOK, WindowOnce, Window, Fits
  <2> QED
    BY <1>0, <2>1, <2>3, AskMoves
<1> QED
  BY <1>1, <1>2, <1>3, <1>5, <1>6, <1>7, <1>8, <1>9, <1>10 DEF NextRetrieval, Retrieve

-----------------------------------------------------------------------------
(* The theorems.                                                           *)

\* A question changes nothing of the index: with questions asked, the index
\* does what it may do without them.
THEOREM AskingKeepsIndex == Spec => SpecIndex
<1>1. InitRetrieval => Init
  BY DEF InitRetrieval
<1>2. [NextRetrieval]_<<retrievalVars, indexVars>> => [NextIndex]_indexVars
  BY DEF NextRetrieval, Retrieve, Ask, RewriteQueries, ReadRecents, HybridSearch, FallbackSearch,
         Finds, SearchFails, Rank, HandOver, AskThrows, IndexStep
<1> QED
  BY <1>1, <1>2, PTL DEF Spec, SpecIndex

\* The types of the index and of the question are right in all reachable states.
THEOREM RetrievalTypeCorrect == Spec => [](TypeOK /\ TypeOKRetrieval)
<1>1. RetrievalInv => TypeOK /\ TypeOKRetrieval
  BY DEF RetrievalInv
<1> QED
  BY <1>1, RetrievalInit, RetrievalNext, PTL DEF Spec

\* While the service is up it has a complete collection, whatever restarts,
\* scripts and lost replies came before, unless a script is just re-creating it
\* or a re-creation broke off.
THEOREM UsableWhileUp == Spec => []IndexUsable
<1>1. ReadyInv => IndexUsable
  BY DEF ReadyInv, IndexUsable, Recreating, EnsurePcs
<1>2. SpecIndex => []IndexUsable
  BY <1>1, ReadyInit, ReadyNext, PTL DEF SpecIndex
<1> QED
  BY <1>2, AskingKeepsIndex, PTL

\* A message whose job is done is not lost from the index by restarts, by
\* rounded ids, or by a script that wipes the collection and fills it again
\* while messages are sent and embedded.
THEOREM EmbeddedStays == Spec => []IndexedStays
<1>1. StayInv => IndexedStays
  BY DEF StayInv, IndexedStays, ToCome
<1>2. SpecIndex => []IndexedStays
  BY <1>1, StayInit, StayNext, PTL DEF SpecIndex
<1> QED
  BY <1>2, AskingKeepsIndex, PTL

\* A question's context is of its conversation, with the neighbours its
\* documents bring along, and the documents are of its dates, unless a search
\* fell back to the one that knows no dates.
THEOREM ContextIsFit == Spec => []ContextFits
<1>1. RetrievalInv => ContextFits
  BY DEF RetrievalInv, ContextOK, Fits, ContextFits, Answered
<1> QED
  BY <1>1, RetrievalInit, RetrievalNext, PTL DEF Spec

\* Each of the latest messages with a text and an exact id is one document of
\* the context, be it indexed or not and even if all searches failed.
THEOREM RecentsAreOnce == Spec => []RecentsOnce
<1>1. RetrievalInv => RecentsOnce
  <2> SUFFICES ASSUME RetrievalInv, Answered PROVE RecentsOnce
    BY DEF RecentsOnce
  <2>1. ask.recents \ Blank = ask.recents
    BY DEF RetrievalInv, FoundFit
  <2> QED
    BY <2>1 DEF RetrievalInv, ContextOK, WindowOnce, Window, RecentsOnce, Answered
<1> QED
  BY <1>1, RetrievalInit, RetrievalNext, PTL DEF Spec
=============================================================================
