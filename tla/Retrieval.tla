----------------------------- MODULE Retrieval -----------------------------
(***************************************************************************)
(* RetrieverService: what an answer is based on.  A question's context is  *)
(* made of the conversation's latest messages, read from the chat backend, *)
(* and of what a search of the vector index finds, by points, while        *)
(* embedding goes on.                                                      *)
(*                                                                         *)
(* What is relevant is a choice: a search returns any of the points its    *)
(* filter lets through, and the reranker any of the documents.  Messages   *)
(* are numbered in the order of their dates, so that a date range is an    *)
(* interval of them.  Names, the order of the context and its compression  *)
(* change no document and are left out but for the calls that may throw.   *)
(***************************************************************************)
EXTENDS MessageIndex

CONSTANTS
    Plans,         \* PASS_1_PLAN and PASS_2_PLAN
    Ranges,        \* the date ranges somebody may ask about
    RecentWindow,  \* how many of the latest messages join every context: 8
    MaxAsks        \* bound: how many questions are asked; after the last one
                   \* nothing is looked at any more

AllTime == Messages

ASSUME RetrievalAssumption ==
    /\ MaxMessages > 0 /\ Plans # {}
    /\ AllTime \in Ranges
    /\ Ranges \subseteq {first..last : first \in Messages, last \in 0..MaxMessages}
    /\ Plans \subseteq [recentLimit : Nat, qdrantLimit : Nat,
                        maxRewriteQueries : Nat, rerankTopN : Nat]
    /\ RecentWindow \in Nat \ {0}
    /\ MaxAsks \in Nat \ {0}

VARIABLES
    ask,  \* what the running retrieveContext() holds
    asks  \* how many were begun

retrievalVars == <<ask, asks>>

\* A document of the context, made of a message or of a point: its id, the
\* message it is, and the others its windowText puts before that one.
Doc == [id : {MessageId[m] : m \in Messages} \cup PointIds, message : Messages,
        window : SUBSET Messages]

Conversations == {ConvOf[m] : m \in Messages}

TypeOKRetrieval ==
    /\ ask \in [pc : {"none", "rewriting", "reading", "searching", "answered"},
                conv : Conversations, plan : Plans, range : SUBSET Messages,
                queries : Nat, recents : SUBSET Messages, found : SUBSET Doc,
                fellBack : BOOLEAN, context : SUBSET Doc]
    /\ asks \in 0..MaxAsks

NewAsk(conv, plan, range, pc) ==
    [pc |-> pc, conv |-> conv, plan |-> plan, range |-> range, queries |-> 0,
     recents |-> {}, found |-> {}, fellBack |-> FALSE, context |-> {}]

NoAsk == NewAsk(ConvOf[1], CHOOSE plan \in Plans : TRUE, AllTime, "none")

InitRetrieval == Init /\ ask = NoAsk /\ asks = 0

-----------------------------------------------------------------------------
Running == ask.pc \in {"rewriting", "reading", "searching"}

\* A question is asked only where no script was started: one takes points away
\* or puts them back, and a search may miss any of them as it is.  No caller has
\* dates for a plan that rewrites.
Ask(conv, plan, dates) ==
    /\ at["service"] = "up" /\ scripts = 0
    /\ plan.maxRewriteQueries > 0 => dates = AllTime
    /\ ask.pc = "none" /\ asks < MaxAsks
    /\ ask' = NewAsk(conv, plan, dates, "rewriting")
    /\ asks' = asks + 1
    /\ UNCHANGED indexVars

\* startDate || extractedStart
FinalRange(given, extracted) == IF given # AllTime THEN given ELSE extracted

\* rewriteQueries(): no call without rewriting; a date that is written out is
\* parsed here; else the model writes queries and names dates, or fails.
Rewritten(plan) ==
    IF plan.maxRewriteQueries = 0 THEN {[queries |-> 1, range |-> AllTime]}
    ELSE [queries : 1..(plan.maxRewriteQueries + 1), range : Ranges]

RewriteQueries ==
    /\ ask.pc = "rewriting"
    /\ \E result \in Rewritten(ask.plan) :
          ask' = [ask EXCEPT !.pc = "reading", !.queries = result.queries,
                             !.range = FinalRange(@, result.range)]
    /\ UNCHANGED <<asks, indexVars>>

\* normalizeRawMessage() makes nothing of a message without text.
Normalized(rows) == rows \ Blank

\* getMessages() with sort desc: the last ones in the range.
ReadRecents ==
    /\ ask.pc = "reading"
    /\ ask' = [ask EXCEPT !.pc = "searching",
                  !.recents = Normalized(LastOf(ask.plan.recentLimit,
                                                History(ask.conv) \cap ask.range))]
    /\ UNCHANGED <<asks, indexVars>>

-----------------------------------------------------------------------------
(* One search for each query, on the points as they are then.              *)

\* Mutated: the filter has the conversation only.
HitsOfAnyTime(conv, range) ==
    {[id |-> k, message |-> points[k], window |-> windows[k]] :
        k \in {i \in PointIds : points[i] # NoPoint /\ ConvOf[points[i]] = conv}}

\* The points a filter lets through; the payload is that of the last upsert.
Hits(conv, range) ==
    {[id |-> k, message |-> points[k], window |-> windows[k]] :
        k \in {i \in PointIds : /\ points[i] # NoPoint
                                /\ ConvOf[points[i]] = conv
                                /\ points[i] \in range}}

\* mergedMap: the latest result for an id.
Merged(found, hits) == {d \in found : \A h \in hits : h.id # d.id} \cup hits

Finds(range, fellBack) ==
    /\ ask.pc = "searching" /\ ask.queries > 0
    /\ \E hits \in SUBSET Hits(ask.conv, range) :
          /\ Cardinality(hits) <= ask.plan.qdrantLimit
          /\ ask' = [ask EXCEPT !.queries = @ - 1, !.found = Merged(@, hits),
                                !.fellBack = @ \/ fellBack]
    /\ UNCHANGED <<asks, indexVars>>

\* hybridSearch(); the prefetches and their fusion are any choice of points,
HybridSearch == collection # "absent" /\ Finds(ask.range, FALSE)

\* or it throws and search() answers, which knows of no dates;
FallbackSearch == collection # "absent" /\ Finds(AllTime, TRUE)

\* or that, or the embedding of the query, fails too: the next query.
SearchFails ==
    /\ ask.pc = "searching" /\ ask.queries > 0
    /\ ask' = [ask EXCEPT !.queries = @ - 1]
    /\ UNCHANGED <<asks, indexVars>>

-----------------------------------------------------------------------------
\* Mutated: no context where the search found nothing.
CombinedIfFound(ranked, recents) ==
    IF ranked = {} THEN {}
    ELSE ranked \cup {[id |-> MessageId[m], message |-> m, window |-> {}] :
                        m \in {n \in recents : \A d \in ranked : d.id # MessageId[n]}}

\* combinedDocsMap: a recent message joins unless its id is there already.
Combined(ranked, recents) ==
    ranked \cup {[id |-> MessageId[m], message |-> m, window |-> {}] :
                    m \in {n \in recents : \A d \in ranked : d.id # MessageId[n]}}

\* slice(-8)
Window == LastOf(RecentWindow, ask.recents)

\* rerank() keeps topN documents, Cohere's choice or the first ones.
Reranked(docs, topN) ==
    IF Cardinality(docs) <= topN THEN {docs}
    ELSE {ranked \in SUBSET docs : Cardinality(ranked) = topN}

\* Neither rerank() nor enrichDisplayNames() throws.  A long context is
\* compressed, and compress() falls back to the whole of it whatever fails.
Rank ==
    /\ ask.pc = "searching" /\ ask.queries = 0
    /\ \E ranked \in Reranked(ask.found, ask.plan.rerankTopN) :
          ask' = [ask EXCEPT !.pc = "answered", !.found = {},
                             !.context = Combined(ranked, Window)]
    /\ UNCHANGED <<asks, indexVars>>

\* What passes all catch blocks: an abort, or an error that reads like one, in
\* the rewriting, before and in a search or before the compression, and any
\* error of getMessages().
AskThrows ==
    /\ Running
    /\ ask.pc = "rewriting" => ask.plan.maxRewriteQueries > 0
    /\ ask' = NoAsk
    /\ UNCHANGED <<asks, indexVars>>

\* The caller has the context, before anything else happens.
HandOver ==
    /\ ask.pc = "answered"
    /\ ask' = NoAsk
    /\ UNCHANGED <<asks, indexVars>>

\* The index goes on; a question dies with the service.
IndexStep ==
    /\ ask.pc # "answered"
    /\ asks = MaxAsks => Running
    /\ NextIndex
    /\ asks > 0 => scripts' = 0
    /\ ask' = IF at'["service"] = "up" THEN ask ELSE NoAsk
    /\ UNCHANGED asks

-----------------------------------------------------------------------------
Retrieve ==
    \/ \E conv \in Conversations, plan \in Plans, dates \in Ranges : Ask(conv, plan, dates)
    \/ RewriteQueries \/ ReadRecents
    \/ HybridSearch \/ FallbackSearch \/ SearchFails
    \/ Rank \/ HandOver \/ AskThrows

NextRetrieval == Retrieve \/ IndexStep

Spec == InitRetrieval /\ [][NextRetrieval]_<<retrievalVars, indexVars>>

-----------------------------------------------------------------------------
(* Properties.                                                             *)

Answered == ask.pc = "answered"

\* A context is of one conversation, with the neighbours that windowText puts
\* beside a message too, although messages of two conversations may share a
\* point.  What answers a question about certain dates is from these, whichever
\* of its two sources it came from, unless a search fell back to the one that
\* knows no dates.  That is not so of the neighbours: a point holds up to three
\* messages of any date beside its own.
ContextFits ==
    Answered => \A d \in ask.context :
                    /\ \A m \in d.window \cup {d.message} : ConvOf[m] = ask.conv
                    /\ ask.fellBack \/ d.message \in ask.range

\* Each of the latest messages that have a text is a document of the context,
\* and only one, whether the index has it yet or not and even if every search
\* failed, and what is no text does not take its place among the latest.  As a
\* neighbour in the windowText of others a message may be there again.  The
\* exception are ids that numbers cannot tell apart: such a message may be
\* there under two ids, or be kept out by the point of another.
RecentsOnce ==
    Answered => \A m \in LastOf(RecentWindow, ask.recents \ Blank) :
                    Safe(m) => Cardinality({d \in ask.context : d.message = m}) = 1
=============================================================================
