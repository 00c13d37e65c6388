------------------------------ MODULE AgentGraph ------------------------------
(***************************************************************************)
(* AgentGraphService: the graph that answers an agent request, and the     *)
(* thread it keeps.  The thread is the conversation's: messages and        *)
(* retryCount are checkpointed after every node and found again by the     *)
(* next run.  A run that is aborted or fails leaves what it had.           *)
(*                                                                         *)
(* The worker runs one graph at a time.  What the model answers, what a    *)
(* tool finds and how documents are graded are choices.  LangGraph itself  *)
(* is external: it appends messages, replaces those whose id it knows, and *)
(* stops after RecursionLimit nodes.                                       *)
(***************************************************************************)
EXTENDS Integers, Sequences, FiniteSets

CONSTANTS
    MaxRetries,      \* bound: the greatest CRAG_MAX_RETRIES; any number is admitted
    RecursionLimit,  \* 15 in the code
    TrimTo,          \* maxTokens of trimMessages, 20 in the code
    ToolCalls,       \* what one answer of the model may call, in order
    MaxRuns          \* bound: how often the graph is invoked

Tools == {"search_chat_history", "other"}

ASSUME AgentGraphAssumption ==
    /\ ToolCalls \subseteq Seq(Tools) \ {<<>>}
    /\ MaxRetries \in Nat
    /\ RecursionLimit \in Nat \ {0}
    /\ TrimTo \in Nat \ {0}
    /\ MaxRuns \in Nat

VARIABLES
    node,       \* the node to be run next, or how the run ended
    run,        \* the number of the run
    steps,      \* nodes this run has gone through
    messages,   \* the thread
    maxRetries, \* CRAG_MAX_RETRIES, read from the environment
    retryCount, \* of the thread
    cited,      \* the messages finalize() takes the sources from
    evals,      \* critic-eval jobs, by run
    rewrites,   \* history: how often the runs of the thread rewrote a query
    rewritten,  \* history: how often this one did
    cutOff,     \* history: runs that ended between a rewriting and its search
    broken      \* history: a run ended with tool calls that have no result

counts == <<rewrites, rewritten, cutOff>>
vars == <<node, run, steps, messages, maxRetries, retryCount, cited, evals, counts, broken>>

Runs == 1..MaxRuns
\* crag_rewrite is left and entered again between its two awaits.
Nodes == {"reasoner", "tools", "validate_context", "crag_rewrite", "crag_retrieve",
          "finalize"}

\* tools: what a "call" calls, or what a "tool" message is the result of.
\* docs: whether that result has a context.
Message == [kind : {"human", "call", "tool", "answer"}, of : Runs,
            tools : Seq(Tools), docs : BOOLEAN]

TypeOK ==
    /\ node \in Nodes \cup {"end", "failed"}
    /\ run \in 0..MaxRuns
    /\ steps \in 0..RecursionLimit
    /\ messages \in Seq(Message)
    /\ maxRetries \in 0..MaxRetries
    /\ retryCount \in Nat
    /\ cited \subseteq Runs
    /\ evals \in [Runs -> Nat]
    /\ rewrites \in Nat /\ rewritten \in Nat /\ cutOff \in Nat
    /\ broken \in BOOLEAN

Init ==
    /\ node = "end" /\ run = 0 /\ steps = 0
    /\ messages = <<>> /\ retryCount = 0
    /\ maxRetries \in 0..MaxRetries
    /\ cited = {}
    /\ evals = [r \in Runs |-> 0]
    /\ rewrites = 0 /\ rewritten = 0 /\ cutOff = 0
    /\ broken = FALSE

-----------------------------------------------------------------------------
LastMessage == messages[Len(messages)]

Add(kind, tools, docs) ==
    Append(messages, [kind |-> kind, of |-> run, tools |-> tools, docs |-> docs])

\* One node of the run, and the edge taken from it.
At(from, to) ==
    /\ node = from
    /\ steps < RecursionLimit
    /\ steps' = steps + 1
    /\ node' = to
    /\ UNCHANGED <<run, maxRetries>>

Invocations(r) == {i \in DOMAIN messages : messages[i].kind = "human" /\ messages[i].of \in r}

\* The graph is invoked with a question and the thread as it is: retryCount is
\* not reset.
Invoke(r) ==
    /\ Cardinality(Invocations(Runs)) < MaxRuns
    /\ run' = r
    /\ node' = "reasoner"
    /\ steps' = 0
    /\ cited' = {}
    /\ messages' = Append(messages, [kind |-> "human", of |-> r,
                                     tools |-> <<>>, docs |-> FALSE])
    /\ rewritten' = 0
    /\ UNCHANGED <<maxRetries, retryCount, evals, rewrites, cutOff, broken>>

Start == node \in {"end", "failed"} /\ Invoke(run + 1)

\* Where the events of a run that is streamed did not show its final state,
\* the graph is invoked once more with the same question.
InvokeAgain ==
    /\ node = "end"
    /\ Cardinality(Invocations({run})) = 1
    /\ Invoke(run)

\* reasonerNode, with the edge of toolsCondition.
Call(calls) ==
    /\ At("reasoner", "tools")
    /\ messages' = Add("call", calls, FALSE)
    /\ UNCHANGED <<retryCount, cited, evals, counts, broken>>

Answer ==
    /\ At("reasoner", "finalize")
    /\ messages' = Add("answer", <<>>, FALSE)
    /\ UNCHANGED <<retryCount, cited, evals, counts, broken>>

\* A search returns what it found as a context, or that it found nothing; the
\* other tools return texts, of their errors too.
ToolResult(tool, docs) ==
    [kind |-> "tool", of |-> run, tools |-> <<tool>>,
     docs |-> docs /\ tool = "search_chat_history"]

\* ToolNode answers every call; the edge looks at the last result only.
RunTools(docs) ==
    LET calls == LastMessage.tools IN
    /\ At("tools", IF calls[Len(calls)] = "search_chat_history"
                   THEN "validate_context" ELSE "reasoner")
    /\ messages' = messages \o [i \in 1..Len(calls) |-> ToolResult(calls[i], docs)]
    /\ UNCHANGED <<retryCount, cited, evals, counts, broken>>

Judged(verdict) ==
    IF verdict = "CORRECT" \/ retryCount >= maxRetries
    THEN "reasoner" ELSE "crag_rewrite"

\* gradeDocuments(): no documents are INCORRECT, others are what the model says.
Verdicts(docs) == IF docs THEN {"CORRECT", "AMBIGUOUS", "INCORRECT"} ELSE {"INCORRECT"}

\* validateContextNode
Validate(verdict) ==
    /\ At("validate_context", Judged(verdict))
    /\ verdict \in Verdicts(LastMessage.docs)
    /\ UNCHANGED <<messages, retryCount, cited, evals, counts, broken>>

\* gradeDocuments() catches its errors and calls the documents AMBIGUOUS.
GradingFails ==
    /\ At("validate_context", Judged("AMBIGUOUS"))
    /\ LastMessage.docs
    /\ UNCHANGED <<messages, retryCount, cited, evals, counts, broken>>

\* rewriteQuery(), the first await of cragRewriteNode, which answers its errors
\* with the question as it was.
RewriteQuery ==
    /\ At("crag_rewrite", "crag_retrieve")
    /\ rewrites' = rewrites + 1
    /\ rewritten' = rewritten + 1
    /\ UNCHANGED <<messages, retryCount, cited, evals, cutOff, broken>>

LeaveRewriting ==
    /\ node = "crag_retrieve"
    /\ node' = "reasoner"
    /\ UNCHANGED <<run, steps, maxRetries, cited, evals, counts, broken>>

\* Mutated: the new result has no id, and is appended.
RetrieveAppends(docs) ==
    /\ LeaveRewriting
    /\ messages' = Add("tool", LastMessage.tools, docs)
    /\ retryCount' = 1

\* Mutated: retryCount is not written.
RetrieveUncounted(docs) ==
    /\ LeaveRewriting
    /\ messages' = [messages EXCEPT ![Len(messages)].docs = docs]
    /\ UNCHANGED retryCount

\* retrieveOnly(), the second.  The result of the search is replaced in the
\* thread, and the rewriting counted: the count becomes 1, whatever it was.
RetrieveAgain(docs) ==
    /\ LeaveRewriting
    /\ messages' = [messages EXCEPT ![Len(messages)].docs = docs]
    /\ retryCount' = 1

IsSearch(m) == m.kind = "tool" /\ m.tools = <<"search_chat_history">>

\* Mutated: the first search result of the thread.
FirstSearch ==
    {messages[i] : i \in {j \in DOMAIN messages :
        /\ IsSearch(messages[j])
        /\ \A k \in 1..(j - 1) : ~IsSearch(messages[k])}}

\* The last search result of the whole thread, if there is one.
LastSearch ==
    {messages[i] : i \in {j \in DOMAIN messages :
        /\ IsSearch(messages[j])
        /\ \A k \in (j + 1)..Len(messages) : ~IsSearch(messages[k])}}

\* formatWithCitations(): the whole context is listed under the answer.
Citations(context) == {m.of : m \in context}

\* finalizeNode: the sources, and a critic-eval job.
Finalize ==
    /\ At("finalize", "end")
    /\ cited' = Citations({m \in LastSearch : m.docs})
    /\ evals' = [evals EXCEPT ![run] = @ + 1]
    /\ UNCHANGED <<messages, retryCount, counts, broken>>

CallsAreOpen == LastMessage.kind = "call"

\* Mutated: no loop protection.
NeverExceeds == FALSE

\* GraphRecursionError
ExceedsLimit == node \in Nodes \ {"crag_retrieve"} /\ steps = RecursionLimit

RecursionError ==
    /\ ExceedsLimit
    /\ node' = "failed"
    /\ broken' = (broken \/ CallsAreOpen)
    /\ UNCHANGED <<run, steps, messages, maxRetries, retryCount, cited, evals, counts>>

\* The signal was aborted, a node threw, or the process died; validate_context
\* throws nothing of its own, but is aborted like the others.  What a node had
\* not returned is not in the thread.
RunFails ==
    /\ node \in Nodes
    /\ node' = "failed"
    /\ broken' = (broken \/ CallsAreOpen)
    /\ cutOff' = IF node = "crag_retrieve" THEN cutOff + 1 ELSE cutOff
    /\ UNCHANGED <<run, steps, messages, maxRetries, retryCount, cited, evals,
                   rewrites, rewritten>>

NodeStep ==
    \/ \E calls \in ToolCalls : Call(calls)
    \/ Answer
    \/ \E docs \in BOOLEAN : RunTools(docs) \/ RetrieveAgain(docs)
    \/ RewriteQuery
    \/ \E verdict \in {"CORRECT", "AMBIGUOUS", "INCORRECT"} : Validate(verdict)
    \/ GradingFails
    \/ Finalize
    \/ RecursionError

Next == Start \/ InvokeAgain \/ NodeStep \/ RunFails

Spec == Init /\ [][Next]_vars

\* Nodes, and the awaits in them, settle.
FairSpec == Spec /\ WF_vars(NodeStep)

-----------------------------------------------------------------------------
(* Properties.                                                             *)

\* The thread is a history the model accepts: every tool call is followed by
\* exactly its results, in order, whether they were rewritten or not; only a
\* run that ended between the two leaves it broken.  What trimming makes of it
\* before the model sees it is TrimKeepsPairs.
CallsAnswered ==
    node \in {"reasoner", "finalize", "end"} /\ ~broken =>
        \A i \in DOMAIN messages :
            /\ messages[i].kind = "call" =>
                 \A k \in 1..Len(messages[i].tools) :
                     /\ i + k <= Len(messages)
                     /\ messages[i + k].kind = "tool"
                     /\ messages[i + k].tools = <<messages[i].tools[k]>>
            /\ messages[i].kind = "tool" =>
                 \E j \in 1..(i - 1) :
                     /\ messages[j].kind = "call"
                     /\ i <= j + Len(messages[j].tools)

\* A run that searched cites its own search, although the thread holds the
\* results of all earlier runs and of interrupted ones.
CitesOwnSearch ==
    node = "end" /\ (\E i \in DOMAIN messages : IsSearch(messages[i]) /\ messages[i].of = run)
        => cited \subseteq {run}

\* Every run ends, whatever the model keeps calling.
EveryRunEnds == node \in Nodes ~> node \in {"end", "failed"}

\* How often queries are rewritten, for every CRAG_MAX_RETRIES (app.module.ts:70
\* admits any number).  With none or one it bounds the rewritings of the whole
\* thread, since no run resets the count, except that a run cut off between a
\* rewriting and its search has rewritten without counting.  With two or more
\* it bounds nothing, because the count is set to 1 and not increased
\* (agent-graph.service.ts:194); a run's rewritings are then bounded by its
\* nodes alone, of which each takes four.
RewritesWithinMax ==
    /\ maxRetries <= 1 => rewrites <= maxRetries + cutOff
    /\ 4 * rewritten <= steps

\* What trimMessages leaves of the thread for the model.
Trimmed ==
    SubSeq(messages, IF Len(messages) <= TrimTo THEN 1
                     ELSE Len(messages) - TrimTo + 1, Len(messages))

\* agent-graph.service.ts:89: call and result are not cut apart.
TrimKeepsPairs == node = "reasoner" => Trimmed[1].kind # "tool"
=============================================================================
