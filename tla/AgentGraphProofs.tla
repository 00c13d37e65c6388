--------------------------- MODULE AgentGraphProofs ---------------------------
(* Proofs about AgentGraph, for every recursion limit, every number of runs,  *)
(* all calls the model may make and every setting of CRAG_MAX_RETRIES.        *)
EXTENDS AgentGraph, SequenceTheorems, FiniteSetTheorems, TLAPS

\* A rewriting is only begun while the thread's count is below the maximum,
\* and what is rewritten without being counted is under way or was cut off.
CountInv ==
    maxRetries <= 1 =>
        /\ retryCount <= maxRetries
        /\ node \in {"crag_rewrite", "crag_retrieve"} => retryCount < maxRetries
        /\ node # "crag_retrieve" => rewrites <= retryCount + cutOff
        /\ node = "crag_retrieve" => rewrites <= retryCount + cutOff + 1

\* The nodes before each rewriting of a run.
PaceInv ==
    /\ 4 * rewritten <= steps
    /\ node = "tools" => 4 * rewritten + 1 <= steps
    /\ node = "validate_context" => 4 * rewritten + 2 <= steps
    /\ node = "crag_rewrite" => 4 * rewritten + 3 <= steps

NumbersOK ==
    /\ maxRetries \in Nat /\ retryCount \in {0, 1} /\ steps \in Nat
    /\ rewrites \in Nat /\ rewritten \in Nat /\ cutOff \in Nat

RewriteInv == NumbersOK /\ CountInv /\ PaceInv

LEMMA RewriteInit == Init => RewriteInv
  BY AgentGraphAssumption DEF Init, RewriteInv, NumbersOK, CountInv, PaceInv

\* A node that rewrites and counts nothing.
LEMMA PlainNode ==
  ASSUME RewriteInv, NEW from, NEW to, At(from, to), from # "crag_retrieve",
         to \notin {"validate_context", "crag_rewrite", "crag_retrieve"},
         to = "tools" => from = "reasoner",
         UNCHANGED <<retryCount, counts>>
  PROVE  RewriteInv'
<1>1. /\ node = from /\ node' = to /\ steps' = steps + 1
      /\ UNCHANGED <<maxRetries, retryCount, rewrites, rewritten, cutOff>>
  BY DEF At, counts
<1>2. NumbersOK'
  BY <1>1 DEF RewriteInv, NumbersOK
<1>3. CountInv'
  BY <1>1 DEF RewriteInv, NumbersOK, CountInv
<1>4. PaceInv'
  BY <1>1 DEF RewriteInv, NumbersOK, PaceInv
<1> QED BY <1>2, <1>3, <1>4 DEF RewriteInv

LEMMA RewriteStep ==
  ASSUME RewriteInv, [Next]_vars
  PROVE  RewriteInv'
<1> USE AgentGraphAssumption
<1>1. CASE Start \/ InvokeAgain
  <2>1. /\ node' = "reasoner" /\ steps' = 0 /\ rewritten' = 0 /\ node \in {"end", "failed"}
        /\ UNCHANGED <<maxRetries, retryCount, rewrites, cutOff>>
    BY <1>1 DEF Start, InvokeAgain, Invoke
  <2> QED BY <2>1 DEF RewriteInv, NumbersOK, CountInv, PaceInv
<1>2. ASSUME NEW calls \in ToolCalls, Call(calls)
      PROVE  RewriteInv'
  <2>1. At("reasoner", "tools") /\ UNCHANGED <<retryCount, counts>>
    BY <1>2 DEF Call
  <2> QED BY <2>1, PlainNode
<1>3. CASE Answer
  <2>1. At("reasoner", "finalize") /\ UNCHANGED <<retryCount, counts>>
    BY <1>3 DEF Answer
  <2> QED BY <2>1, PlainNode
<1>4. ASSUME NEW docs \in BOOLEAN, RunTools(docs)
      PROVE  RewriteInv'
  <2>1. /\ node = "tools" /\ node' \in {"validate_context", "reasoner"} /\ steps' = steps + 1
        /\ UNCHANGED <<maxRetries, retryCount, rewrites, rewritten, cutOff>>
    BY <1>4 DEF RunTools, At, counts
  <2>2. NumbersOK' /\ CountInv'
    BY <2>1 DEF RewriteInv, NumbersOK, CountInv
  <2>3. PaceInv'
    BY <2>1 DEF RewriteInv, NumbersOK, PaceInv
  <2> QED BY <2>2, <2>3 DEF RewriteInv
<1>5. CASE RewriteQuery
  <2>1. /\ node = "crag_rewrite" /\ node' = "crag_retrieve" /\ steps' = steps + 1
        /\ rewrites' = rewrites + 1 /\ rewritten' = rewritten + 1
        /\ UNCHANGED <<maxRetries, retryCount, cutOff>>
    BY <1>5 DEF RewriteQuery, At
  <2>2. NumbersOK'
    BY <2>1 DEF RewriteInv, NumbersOK
  <2>3. CountInv'
    BY <2>1 DEF RewriteInv, NumbersOK, CountInv
  <2>4. PaceInv'
    BY <2>1 DEF RewriteInv, NumbersOK, PaceInv
  <2> QED BY <2>2, <2>3, <2>4 DEF RewriteInv
<1>6. ASSUME NEW docs \in BOOLEAN, RetrieveAgain(docs)
      PROVE  RewriteInv'
  <2>1. /\ node = "crag_retrieve" /\ node' = "reasoner" /\ retryCount' = 1
        /\ UNCHANGED <<steps, maxRetries, rewrites, rewritten, cutOff>>
    BY <1>6 DEF RetrieveAgain, LeaveRewriting, counts
  <2>2. NumbersOK' /\ PaceInv'
    BY <2>1 DEF RewriteInv, NumbersOK, PaceInv
  <2>3. CountInv'
    BY <2>1 DEF RewriteInv, NumbersOK, CountInv
  <2> QED BY <2>2, <2>3 DEF RewriteInv
<1>7. ASSUME NEW verdict, At("validate_context", Judged(verdict)),
             UNCHANGED <<retryCount, counts>>
      PROVE  RewriteInv'
  <2>1. /\ node = "validate_context" /\ node' \in {"reasoner", "crag_rewrite"}
        /\ node' = "crag_rewrite" => ~(retryCount >= maxRetries)
        /\ steps' = steps + 1
        /\ UNCHANGED <<maxRetries, retryCount, rewrites, rewritten, cutOff>>
    BY <1>7 DEF At, Judged, counts
  <2>2. NumbersOK'
    BY <2>1 DEF RewriteInv, NumbersOK
  <2>3. CountInv'
    BY <2>1 DEF RewriteInv, NumbersOK, CountInv
  <2>4. PaceInv'
    BY <2>1 DEF RewriteInv, NumbersOK, PaceInv
  <2> QED BY <2>2, <2>3, <2>4 DEF RewriteInv
<1>8. ASSUME NEW verdict \in {"CORRECT", "AMBIGUOUS", "INCORRECT"}, Validate(verdict)
      PROVE  RewriteInv'
  BY <1>7, <1>8 DEF Validate
<1>9. CASE GradingFails
  BY <1>7, <1>9 DEF GradingFails
<1>10. CASE Finalize
  <2>1. At("finalize", "end") /\ UNCHANGED <<retryCount, counts>>
    BY <1>10 DEF Finalize
  <2> QED BY <2>1, PlainNode
<1>11. CASE RecursionError \/ RunFails
  <2>1. /\ node' = "failed" /\ UNCHANGED <<steps, maxRetries, retryCount, rewrites, rewritten>>
        /\ cutOff' = IF node = "crag_retrieve" THEN cutOff + 1 ELSE cutOff
    BY <1>11 DEF RecursionError, ExceedsLimit, RunFails, counts
  <2>2. NumbersOK'
    BY <2>1 DEF RewriteInv, NumbersOK
  <2>3. CountInv'
    BY <2>1 DEF RewriteInv, NumbersOK, CountInv
  <2>4. PaceInv'
    BY <2>1 DEF RewriteInv, NumbersOK, PaceInv
  <2> QED BY <2>2, <2>3, <2>4 DEF RewriteInv
<1>12. CASE UNCHANGED vars
  BY <1>12 DEF vars, counts, RewriteInv, NumbersOK, CountInv, PaceInv
<1> QED BY <1>1, <1>2, <1>3, <1>4, <1>5, <1>6, <1>8, <1>9, <1>10, <1>11, <1>12 DEF Next, NodeStep

\* How often queries are rewritten, for every CRAG_MAX_RETRIES and every
\* recursion limit: at most the maximum where that is none or one, except for
\* the runs cut off inside a rewriting, and once per four nodes of a run
\* where it is more.
THEOREM RewritesBounded == Spec => []RewritesWithinMax
<1>1. RewriteInv /\ [Next]_vars => RewriteInv'
  BY RewriteStep
<1>2. RewriteInv => RewritesWithinMax
  BY DEF RewriteInv, NumbersOK, CountInv, PaceInv, RewritesWithinMax
<1> QED BY <1>1, <1>2, RewriteInit, PTL DEF Spec

-----------------------------------------------------------------------------
(* The thread.                                                             *)

LastIsCall == Len(messages) > 0 /\ LastMessage.kind = "call" /\ LastMessage.tools \in ToolCalls
LastIsSearch == Len(messages) > 0 /\ IsSearch(LastMessage)

\* Every run has its question in the thread, which bounds their number.
ThreadInv ==
    /\ TypeOK
    /\ \A r \in 1..run : \E i \in 1..Len(messages) :
          messages[i].kind = "human" /\ messages[i].of = r
    /\ node \in Nodes => run \in Runs
    /\ node = "tools" => LastIsCall
    /\ node \in {"validate_context", "crag_rewrite", "crag_retrieve"} => LastIsSearch

\* A step adds messages of the run behind the others, of which it changes the
\* context at most.
ThreadGrows ==
    /\ messages' \in Seq(Message)
    /\ Len(messages) <= Len(messages')
    /\ \A i \in 1..Len(messages) : /\ messages'[i].kind = messages[i].kind
                                   /\ messages'[i].of = messages[i].of
                                   /\ messages'[i].tools = messages[i].tools
    /\ \A i \in 1..Len(messages') : i > Len(messages) => messages'[i].of = run'
    /\ run' >= run

LEMMA ToolCallsAreSequences ==
  ASSUME NEW calls \in ToolCalls
  PROVE  /\ calls \in Seq(Tools) /\ Len(calls) \in Nat /\ Len(calls) > 0
         /\ calls[Len(calls)] \in Tools
<1>1. calls \in Seq(Tools) /\ calls # <<>>
  BY AgentGraphAssumption
<1>2. Len(calls) \in Nat /\ Len(calls) # 0
  BY <1>1, EmptySeq
<1> QED BY <1>1, <1>2

LEMMA AppendGrows ==
  ASSUME messages \in Seq(Message), run \in Nat, NEW m \in Message, m.of = run', run' >= run,
         messages' = Append(messages, m)
  PROVE  /\ ThreadGrows
         /\ Len(messages') = Len(messages) + 1
         /\ \A i \in 1..Len(messages) : messages'[i] = messages[i]
         /\ messages'[Len(messages) + 1] = m
<1>1. /\ messages' \in Seq(Message) /\ Len(messages') = Len(messages) + 1
      /\ Len(messages) \in Nat
      /\ \A i \in 1..Len(messages) : messages'[i] = messages[i]
      /\ messages'[Len(messages) + 1] = m
  BY AppendProperties
<1>2. \A i \in 1..Len(messages') : i > Len(messages) => i = Len(messages) + 1
  BY <1>1
<1> QED
  BY <1>1, <1>2 DEF ThreadGrows

LEMMA SameGrows ==
  ASSUME messages \in Seq(Message), run \in Nat, UNCHANGED <<messages, run>>
  PROVE  ThreadGrows
<1>1. \A i \in 1..Len(messages') : ~(i > Len(messages))
  BY LenProperties
<1> QED
  BY <1>1 DEF ThreadGrows

\* The effect of the steps of a run that add or change messages.
LEMMA InvokeThread ==
  ASSUME ThreadInv, NEW r, Invoke(r), r = run + 1 \/ (r = run /\ r \in Runs)
  PROVE  /\ ThreadGrows /\ r \in Runs
         /\ Len(messages') = Len(messages) + 1
         /\ messages'[Len(messages) + 1] =
              [kind |-> "human", of |-> r, tools |-> <<>>, docs |-> FALSE]
<1> DEFINE asked == Invocations(Runs)
           m == [kind |-> "human", of |-> r, tools |-> <<>>, docs |-> FALSE]
<1>1. /\ messages \in Seq(Message) /\ run \in Nat /\ run <= MaxRuns /\ MaxRuns \in Nat
      /\ DOMAIN messages = 1..Len(messages) /\ Len(messages) \in Nat
  BY AgentGraphAssumption DEF ThreadInv, TypeOK
<1>2. run < MaxRuns
  <2>1. asked \in SUBSET (1..Len(messages)) /\ \A i \in asked : messages[i].of \in Runs
    BY <1>1 DEF Invocations
  <2>2. IsFiniteSet(asked)
    <3>1. IsFiniteSet(1..Len(messages))
      BY <1>1, FS_Interval
    <3> QED
      BY <2>1, <3>1, FS_Subset
  <2>3. PICK question \in [1..run -> 1..Len(messages)] :
          \A q \in 1..run : messages[question[q]].kind = "human" /\ messages[question[q]].of = q
    <3> DEFINE question == [q \in 1..run |-> CHOOSE i \in 1..Len(messages) :
                              messages[i].kind = "human" /\ messages[i].of = q]
    <3>1. \A q \in 1..run : /\ question[q] \in 1..Len(messages)
                            /\ messages[question[q]].kind = "human"
                            /\ messages[question[q]].of = q
      BY DEF ThreadInv
    <3>2. question \in [1..run -> 1..Len(messages)]
      BY <3>1
    <3> QED
      BY <3>1, <3>2
  <2>4. \A q \in 1..run : question[q] \in asked
    BY <1>1, <2>3 DEF Invocations, Runs
  <2>5. \A p, q \in 1..run : question[p] = question[q] => p = q
    BY <2>3
  <2>6. question \in Injection(1..run, asked)
    BY <2>3, <2>4, <2>5 DEF Injection, IsInjective
  <2>7. Cardinality(1..run) <= Cardinality(asked) /\ Cardinality(asked) \in Nat
    BY <2>2, <2>6, FS_Injection, FS_CardinalityType
  <2>8. Cardinality(1..run) = run
    BY <1>1, FS_Interval
  <2>9. Cardinality(asked) < MaxRuns
    BY DEF Invoke
  <2> HIDE DEF asked
  <2> QED
    BY <1>1, <2>2, <2>7, <2>8, <2>9
<1>3. r \in Runs /\ r >= run /\ run' = r
  BY <1>1, <1>2 DEF Runs, Invoke
<1>4. m \in Message /\ messages' = Append(messages, m)
  BY <1>3 DEF Message, Invoke
<1> QED
  BY <1>1, <1>3, <1>4, AppendGrows

LEMMA AnswerThread ==
  ASSUME ThreadInv, NEW kind \in {"call", "answer"}, NEW tools \in Seq(Tools),
         UNCHANGED run, run \in Runs, messages' = Add(kind, tools, FALSE)
  PROVE  /\ ThreadGrows
         /\ Len(messages') = Len(messages) + 1
         /\ messages'[Len(messages) + 1] =
              [kind |-> kind, of |-> run, tools |-> tools, docs |-> FALSE]
<1> DEFINE m == [kind |-> kind, of |-> run, tools |-> tools, docs |-> FALSE]
<1>1. m \in Message /\ messages' = Append(messages, m)
  BY DEF Message, Add
<1>2. messages \in Seq(Message) /\ run \in Nat /\ run' >= run
  BY DEF ThreadInv, TypeOK
<1> QED
  BY <1>1, <1>2, AppendGrows

\* What two sequences have in their concatenation.
LEMMA ConcatParts ==
  ASSUME NEW S, NEW s \in Seq(S), NEW t \in Seq(S)
  PROVE  /\ s \o t \in Seq(S)
         /\ Len(s \o t) = Len(s) + Len(t)
         /\ \A i \in 1..Len(s) : (s \o t)[i] = s[i]
         /\ \A k \in 1..Len(t) : (s \o t)[Len(s) + k] = t[k]
<1>1. Len(s) \in Nat /\ Len(t) \in Nat
  BY LenProperties
<1>2. s \o t \in Seq(S) /\ Len(s \o t) = Len(s) + Len(t)
  BY ConcatProperties
<1>3. \A i \in 1..Len(s) : (s \o t)[i] = s[i]
  BY <1>1
<1>4. \A k \in 1..Len(t) : (s \o t)[Len(s) + k] = t[k]
  BY <1>1
<1> QED
  BY <1>2, <1>3, <1>4

\* ToolNode adds the results in the order of the calls.
LEMMA ResultsThread ==
  ASSUME ThreadInv, NEW docs \in BOOLEAN, RunTools(docs)
  PROVE  LET calls == LastMessage.tools IN
         /\ LastIsCall /\ calls \in ToolCalls /\ ThreadGrows
         /\ Len(messages') = Len(messages) + Len(calls)
         /\ \A k \in 1..Len(calls) :
               messages'[Len(messages) + k] = ToolResult(calls[k], docs)
<1> DEFINE calls == LastMessage.tools
           results == [k \in 1..Len(calls) |-> ToolResult(calls[k], docs)]
<1>1. /\ LastIsCall /\ calls \in ToolCalls /\ messages' = messages \o results
      /\ messages \in Seq(Message) /\ Len(messages) \in Nat
      /\ run' = run /\ run \in Runs /\ run \in Nat
  BY DEF ThreadInv, TypeOK, LastIsCall, RunTools, At, Nodes
<1> HIDE DEF calls
<1>2. calls \in Seq(Tools) /\ Len(calls) \in Nat
  BY <1>1, ToolCallsAreSequences
<1>3. \A k \in 1..Len(calls) : /\ ToolResult(calls[k], docs) \in Message
                               /\ ToolResult(calls[k], docs).of = run
  <2> SUFFICES ASSUME NEW k \in 1..Len(calls)
               PROVE  /\ ToolResult(calls[k], docs) \in Message
                      /\ ToolResult(calls[k], docs).of = run
    OBVIOUS
  <2>1. calls[k] \in Tools
    BY <1>2
  <2>2. <<calls[k]>> \in Seq(Tools) /\ (docs /\ calls[k] = "search_chat_history") \in BOOLEAN
    BY <2>1
  <2> QED
    BY <1>1, <2>2 DEF ToolResult, Message
<1>4. /\ results \in Seq(Message) /\ Len(results) = Len(calls)
      /\ \A k \in 1..Len(calls) : results[k] = ToolResult(calls[k], docs)
  <2>1. results \in [1..Len(calls) -> Message]
    BY <1>3
  <2> QED
    BY <1>2, <2>1, IsASeq, LenProperties
<1> HIDE DEF results
<1>5. /\ messages' \in Seq(Message) /\ Len(messages') = Len(messages) + Len(calls)
      /\ \A i \in 1..Len(messages) : messages'[i] = messages[i]
      /\ \A k \in 1..Len(calls) : messages'[Len(messages) + k] = results[k]
  <2>1. messages' = messages \o results /\ Len(results) = Len(calls)
    BY <1>1, <1>4
  <2>2. messages \in Seq(Message) /\ results \in Seq(Message)
    BY <1>1, <1>4
  <2>3. /\ messages \o results \in Seq(Message)
        /\ Len(messages \o results) = Len(messages) + Len(results)
        /\ \A i \in 1..Len(messages) : (messages \o results)[i] = messages[i]
        /\ \A k \in 1..Len(results) : (messages \o results)[Len(messages) + k] = results[k]
    BY <2>2, ConcatParts
  <2> QED
    BY <2>1, <2>3, Zenon
<1>6. \A i \in 1..Len(messages') : i > Len(messages) =>
         i - Len(messages) \in 1..Len(calls) /\ i = Len(messages) + (i - Len(messages))
  BY <1>1, <1>2, <1>5
<1>7. \A i \in 1..Len(messages') : i > Len(messages) => messages'[i].of = run'
  BY <1>1, <1>3, <1>4, <1>5, <1>6
<1>8. ThreadGrows
  BY <1>1, <1>2, <1>5, <1>7 DEF ThreadGrows
<1> QED
  BY <1>1, <1>4, <1>5, <1>8 DEF calls

\* A rewriting replaces the context of the last message.
LEMMA RewriteThread ==
  ASSUME ThreadInv, NEW docs \in BOOLEAN, RetrieveAgain(docs)
  PROVE  ThreadGrows /\ Len(messages') = Len(messages)
<1>1. /\ messages' = [messages EXCEPT ![Len(messages)].docs = docs]
      /\ messages \in Seq(Message) /\ Len(messages) \in Nat
      /\ run' = run /\ run \in Nat
  BY DEF ThreadInv, TypeOK, RetrieveAgain, LeaveRewriting
<1>2. Len(messages) > 0
  BY DEF ThreadInv, LastIsSearch, RetrieveAgain, LeaveRewriting
<1> DEFINE n == Len(messages)
           m == [messages[n] EXCEPT !.docs = docs]
<1>3. n \in 1..Len(messages) /\ messages[n] \in Message
  BY <1>1, <1>2
<1>4. /\ m \in Message /\ m.kind = messages[n].kind /\ m.of = messages[n].of
      /\ m.tools = messages[n].tools
  BY <1>3 DEF Message
<1>5. messages' = [messages EXCEPT ![n] = m]
  BY <1>1
<1> HIDE DEF m, n
<1>6. messages' \in Seq(Message) /\ Len(messages') = Len(messages)
  BY <1>1, <1>3, <1>4, <1>5, ExceptSeq
<1>7. \A i \in 1..Len(messages) : messages'[i] = IF i = n THEN m ELSE messages[i]
  BY <1>1, <1>3, <1>4, <1>5, ExceptSeq
<1> QED
  BY <1>1, <1>4, <1>6, <1>7 DEF ThreadGrows

LEMMA StepsInThread ==
  ASSUME ThreadInv, [Next]_vars
  PROVE  \/ Start \/ InvokeAgain
         \/ \E calls \in ToolCalls : Call(calls)
         \/ Answer
         \/ \E docs \in BOOLEAN : RunTools(docs)
         \/ \E docs \in BOOLEAN : RetrieveAgain(docs)
         \/ RewriteQuery
         \/ \E verdict \in {"CORRECT", "AMBIGUOUS", "INCORRECT"} : Validate(verdict)
         \/ GradingFails \/ Finalize
         \/ RecursionError \/ RunFails
         \/ UNCHANGED vars
BY DEF Next, NodeStep

\* The graph is invoked again with a question of a run that there is.
LEMMA AgainIsARun ==
  ASSUME ThreadInv, InvokeAgain
  PROVE  run \in Runs
<1> DEFINE asked == Invocations({run})
<1>1. Cardinality(asked) = 1
  BY DEF InvokeAgain
<1>2. asked # {}
  <2> HIDE DEF asked
  <2> QED
    BY <1>1, FS_EmptySet
<1>3. PICK i \in DOMAIN messages : messages[i].of = run
  BY <1>2 DEF Invocations
<1>4. messages[i] \in Message
  BY <1>3 DEF ThreadInv, TypeOK
<1> QED
  BY <1>3, <1>4 DEF Message

LEMMA InvokeCases ==
  ASSUME ThreadInv, Start \/ InvokeAgain
  PROVE  \E r \in Runs : /\ Invoke(r) /\ ThreadGrows /\ run' = r
                         /\ node' = "reasoner" /\ node \in {"end", "failed"}
                         /\ r = run + 1 \/ r = run
                         /\ UNCHANGED <<maxRetries, retryCount, evals, rewrites, cutOff, broken>>
                         /\ Len(messages') = Len(messages) + 1
                         /\ messages'[Len(messages) + 1] =
                              [kind |-> "human", of |-> r, tools |-> <<>>, docs |-> FALSE]
<1>1. CASE Start
  <2>1. Invoke(run + 1) /\ node \in {"end", "failed"}
    BY <1>1 DEF Start
  <2> QED
    BY <2>1, InvokeThread DEF Invoke
<1>2. CASE InvokeAgain
  <2>1. Invoke(run) /\ node = "end"
    BY <1>2 DEF InvokeAgain
  <2>2. run \in Runs
    BY <1>2, AgainIsARun
  <2> QED
    BY <2>1, <2>2, InvokeThread DEF Invoke
<1> QED
  BY <1>1, <1>2

-----------------------------------------------------------------------------
(* The types, and what the last message is.                                *)

CountsOK ==
    /\ maxRetries \in 0..MaxRetries /\ retryCount \in Nat
    /\ rewrites \in Nat /\ rewritten \in Nat /\ cutOff \in Nat

LEMMA CountsStep ==
  ASSUME CountsOK, [Next]_vars
  PROVE  CountsOK'
<1> USE DEF CountsOK
<1>1. CASE Start \/ InvokeAgain
  BY <1>1 DEF Start, InvokeAgain, Invoke
<1>2. CASE RewriteQuery
  BY <1>2 DEF RewriteQuery, At
<1>3. ASSUME NEW docs \in BOOLEAN, RetrieveAgain(docs) PROVE CountsOK'
  BY <1>3 DEF RetrieveAgain, LeaveRewriting, counts
<1>4. CASE RunFails
  BY <1>4 DEF RunFails
<1>5. CASE UNCHANGED <<maxRetries, retryCount, counts>>
  BY <1>5 DEF counts
<1>6. ASSUME NEW docs \in BOOLEAN, RunTools(docs) PROVE CountsOK'
  <2>1. UNCHANGED <<maxRetries, retryCount, counts>>
    BY <1>6 DEF RunTools, At
  <2> QED BY <2>1, <1>5
<1>7. ASSUME NEW calls \in ToolCalls, Call(calls) PROVE CountsOK'
  <2>1. UNCHANGED <<maxRetries, retryCount, counts>>
    BY <1>7 DEF Call, At
  <2> QED BY <2>1, <1>5
<1>8. ASSUME NEW verdict \in {"CORRECT", "AMBIGUOUS", "INCORRECT"}, Validate(verdict) PROVE CountsOK'
  <2>1. UNCHANGED <<maxRetries, retryCount, counts>>
    BY <1>8 DEF Validate, At
  <2> QED BY <2>1, <1>5
<1>9. CASE Answer \/ GradingFails \/ Finalize \/ RecursionError \/ UNCHANGED vars
  <2>1. UNCHANGED <<maxRetries, retryCount, counts>>
    BY <1>9 DEF Answer, GradingFails, Finalize, RecursionError, At, vars
  <2> QED BY <2>1, <1>5
<1> QED BY <1>1, <1>2, <1>3, <1>4, <1>6, <1>7, <1>8, <1>9 DEF Next, NodeStep

LEMMA ThreadInit == Init => ThreadInv
<1>1. <<>> \in Seq(Message) /\ Len(<<>>) = 0
  OBVIOUS
<1>2. 0 \in 0..MaxRuns /\ 0 \in 0..RecursionLimit
  BY AgentGraphAssumption
<1>3. ASSUME Init PROVE TypeOK
  <2>1. messages \in Seq(Message)
    BY <1>1, <1>3 DEF Init
  <2>2. /\ run \in 0..MaxRuns /\ steps \in 0..RecursionLimit
        /\ CountsOK /\ broken \in BOOLEAN
    BY <1>2, <1>3 DEF Init, CountsOK
  <2>3. evals \in [Runs -> Nat] /\ cited \subseteq Runs /\ node \in Nodes \cup {"end"}
    BY <1>3 DEF Init
  <2> QED
    BY <2>1, <2>2, <2>3 DEF TypeOK, CountsOK
<1>4. Init => node \notin Nodes /\ node = "end" /\ run = 0
  BY DEF Init, Nodes
<1> QED
  BY <1>3, <1>4 DEF ThreadInv

\* The questions of earlier runs stay.
LEMMA QuestionsStay ==
  ASSUME ThreadInv, ThreadGrows
  PROVE  \A r \in 1..run : \E i \in 1..Len(messages') :
            messages'[i].kind = "human" /\ messages'[i].of = r
<1> SUFFICES ASSUME NEW r \in 1..run
             PROVE  \E i \in 1..Len(messages') :
                       messages'[i].kind = "human" /\ messages'[i].of = r
  OBVIOUS
<1>1. PICK i \in 1..Len(messages) : messages[i].kind = "human" /\ messages[i].of = r
  BY DEF ThreadInv
<1>2. i \in 1..Len(messages')
  BY LenProperties DEF ThreadGrows, ThreadInv, TypeOK
<1> QED
  BY <1>1, <1>2 DEF ThreadGrows

\* A step inside a run, to a node before which nothing special is expected.
LEMMA ThreadKept ==
  ASSUME ThreadInv, ThreadGrows, UNCHANGED run,
         node' \in Nodes => node \in Nodes,
         node' \in Nodes \cup {"end", "failed"}, steps' \in 0..RecursionLimit,
         CountsOK', cited' \subseteq Runs, evals' \in [Runs -> Nat],
         broken' \in BOOLEAN,
         node' = "tools" => LastIsCall',
         node' \in {"validate_context", "crag_rewrite", "crag_retrieve"} => LastIsSearch'
  PROVE  ThreadInv'
<1>1. TypeOK'
  BY DEF ThreadInv, TypeOK, ThreadGrows, CountsOK
<1>2. \A r \in 1..run' : \E i \in 1..Len(messages') :
         messages'[i].kind = "human" /\ messages'[i].of = r
  BY QuestionsStay
<1>3. node' \in Nodes => run' \in Runs
  BY DEF ThreadInv
<1> QED
  BY <1>1, <1>2, <1>3 DEF ThreadInv

LEMMA ThreadStep ==
  ASSUME ThreadInv, [Next]_vars
  PROVE  ThreadInv'
<1>1. /\ TypeOK /\ messages \in Seq(Message) /\ run \in Nat /\ Len(messages) \in Nat
      /\ steps \in Nat /\ RecursionLimit \in Nat /\ steps <= RecursionLimit
      /\ cited \subseteq Runs /\ evals \in [Runs -> Nat]
      /\ broken \in BOOLEAN /\ node \in Nodes \cup {"end", "failed"}
  BY AgentGraphAssumption DEF ThreadInv, TypeOK
<1>0. CountsOK'
  BY CountsStep DEF ThreadInv, TypeOK, CountsOK
<1>2. CASE Start \/ InvokeAgain
  <2>1. PICK r \in Runs :
          /\ Invoke(r) /\ ThreadGrows /\ run' = r
          /\ node' = "reasoner" /\ node \in {"end", "failed"}
          /\ r = run + 1 \/ r = run
          /\ UNCHANGED <<maxRetries, retryCount, evals, rewrites, cutOff, broken>>
          /\ Len(messages') = Len(messages) + 1
          /\ messages'[Len(messages) + 1] =
               [kind |-> "human", of |-> r, tools |-> <<>>, docs |-> FALSE]
    BY <1>2, InvokeCases
  <2>2. /\ steps' = 0 /\ cited' = {} /\ r \in 0..MaxRuns /\ r \in Nat
    BY <2>1 DEF Invoke, Runs
  <2>3. TypeOK'
    BY <1>0, <1>1, <2>1, <2>2 DEF TypeOK, ThreadGrows, Nodes, CountsOK
  <2>4. ASSUME NEW q \in 1..run'
        PROVE  \E i \in 1..Len(messages') : messages'[i].kind = "human" /\ messages'[i].of = q
    <3>1. CASE q \in 1..run
      BY <2>1, <3>1, QuestionsStay
    <3>2. CASE q \notin 1..run
      <4>1. q = r
        BY <1>1, <2>1, <2>2, <3>2
      <4>2. Len(messages) + 1 \in 1..Len(messages')
        BY <1>1, <2>1
      <4> QED
        BY <2>1, <4>1, <4>2
    <3> QED
      BY <3>1, <3>2
  <2> QED
    BY <2>1, <2>3, <2>4 DEF ThreadInv
<1>3. ASSUME NEW from \in Nodes, NEW to, At(from, to)
      PROVE  /\ node = from /\ node' = to /\ UNCHANGED run /\ run \in Runs
             /\ steps' \in 0..RecursionLimit
  BY <1>1, <1>3 DEF At, ThreadInv
<1>4. ASSUME NEW calls \in ToolCalls, Call(calls)
      PROVE  ThreadInv'
  <2>1. /\ At("reasoner", "tools") /\ messages' = Add("call", calls, FALSE)
        /\ UNCHANGED <<retryCount, cited, evals, counts, broken>>
    BY <1>4 DEF Call
  <2>2. /\ node = "reasoner" /\ node' = "tools" /\ UNCHANGED run /\ run \in Runs
        /\ steps' \in 0..RecursionLimit /\ {"reasoner", "tools"} \subseteq Nodes
    BY <1>3, <2>1 DEF Nodes
  <2>3. /\ ThreadGrows /\ Len(messages') = Len(messages) + 1
        /\ messages'[Len(messages) + 1] =
             [kind |-> "call", of |-> run, tools |-> calls, docs |-> FALSE]
    BY <2>1, <2>2, ToolCallsAreSequences, AnswerThread
  <2>4. LastIsCall'
    BY <1>1, <2>3 DEF LastIsCall, LastMessage
  <2> QED
    BY <1>0, <1>1, <2>1, <2>2, <2>3, <2>4, ThreadKept
<1>5. CASE Answer
  <2>1. /\ At("reasoner", "finalize") /\ messages' = Add("answer", <<>>, FALSE)
        /\ UNCHANGED <<retryCount, cited, evals, counts, broken>>
    BY <1>5 DEF Answer
  <2>2. /\ node = "reasoner" /\ node' = "finalize" /\ UNCHANGED run /\ run \in Runs
        /\ steps' \in 0..RecursionLimit /\ {"reasoner", "finalize"} \subseteq Nodes
    BY <1>3, <2>1 DEF Nodes
  <2>3. <<>> \in Seq(Tools)
    OBVIOUS
  <2>4. ThreadGrows
    BY <2>1, <2>2, <2>3, AnswerThread
  <2> QED
    BY <1>0, <1>1, <2>1, <2>2, <2>4, ThreadKept
<1>6. ASSUME NEW docs \in BOOLEAN, RunTools(docs)
      PROVE  ThreadInv'
  <2> DEFINE calls == LastMessage.tools
             last == calls[Len(calls)]
             to == IF last = "search_chat_history" THEN "validate_context" ELSE "reasoner"
  <2>1. At("tools", to) /\ UNCHANGED <<retryCount, cited, evals, counts, broken>>
    BY <1>6 DEF RunTools
  <2>2. /\ LastIsCall /\ calls \in ToolCalls /\ ThreadGrows
        /\ Len(messages') = Len(messages) + Len(calls)
        /\ \A k \in 1..Len(calls) :
              messages'[Len(messages) + k] = ToolResult(calls[k], docs)
    BY <1>6, ResultsThread
  <2>3. Len(calls) \in Nat /\ Len(calls) > 0
    BY <2>2, ToolCallsAreSequences
  <2>4. messages'[Len(messages')] = ToolResult(last, docs) /\ Len(messages') > 0
    <3> HIDE DEF calls
    <3>1. Len(calls) \in 1..Len(calls)
      BY <2>3
    <3> QED
      BY <1>1, <2>2, <2>3, <3>1
  <2>5. last = "search_chat_history" => LastIsSearch'
    BY <2>4 DEF LastIsSearch, LastMessage, IsSearch, ToolResult
  <2> HIDE DEF last, calls
  <2>6. /\ node = "tools" /\ node' = to /\ UNCHANGED run /\ run \in Runs
        /\ steps' \in 0..RecursionLimit
        /\ {"tools", "validate_context", "reasoner"} \subseteq Nodes
    BY <1>3, <2>1 DEF Nodes
  <2> QED
    BY <1>0, <1>1, <2>1, <2>2, <2>5, <2>6, ThreadKept
<1>7. ASSUME NEW docs \in BOOLEAN, RetrieveAgain(docs)
      PROVE  ThreadInv'
  <2>1. /\ node = "crag_retrieve" /\ node' = "reasoner"
        /\ UNCHANGED <<run, steps, cited, evals, broken>>
        /\ {"crag_retrieve", "reasoner"} \subseteq Nodes
    BY <1>7 DEF RetrieveAgain, LeaveRewriting, Nodes
  <2>2. steps' \in 0..RecursionLimit
    BY <1>1, <2>1
  <2>3. ThreadGrows
    BY <1>7, RewriteThread
  <2> QED
    BY <1>0, <1>1, <2>1, <2>2, <2>3, ThreadKept
<1>14. CASE RewriteQuery
  <2>1. /\ At("crag_rewrite", "crag_retrieve") /\ UNCHANGED <<messages, cited, evals, broken>>
    BY <1>14 DEF RewriteQuery
  <2>2. /\ node = "crag_rewrite" /\ node' = "crag_retrieve" /\ UNCHANGED run /\ run \in Runs
        /\ steps' \in 0..RecursionLimit /\ {"crag_rewrite", "crag_retrieve"} \subseteq Nodes
    BY <1>3, <2>1 DEF Nodes
  <2>3. ThreadGrows
    BY <1>1, <2>1, <2>2, SameGrows
  <2>4. LastIsSearch'
    BY <2>1, <2>2 DEF ThreadInv, LastIsSearch, LastMessage
  <2> QED
    BY <1>0, <1>1, <2>1, <2>2, <2>3, <2>4, ThreadKept
<1>8. ASSUME NEW verdict \in {"CORRECT", "AMBIGUOUS", "INCORRECT"},
             At("validate_context", Judged(verdict)),
             UNCHANGED <<messages, retryCount, cited, evals, counts, broken>>
      PROVE  ThreadInv'
  <2>1. /\ node = "validate_context" /\ node' \in {"reasoner", "crag_rewrite"}
        /\ UNCHANGED run /\ run \in Runs /\ steps' \in 0..RecursionLimit
        /\ {"validate_context", "reasoner", "crag_rewrite"} \subseteq Nodes
    BY <1>3, <1>8 DEF Nodes, Judged
  <2>2. ThreadGrows
    BY <1>1, <1>8, <2>1, SameGrows
  <2>3. LastIsSearch'
    BY <1>8, <2>1 DEF ThreadInv, LastIsSearch, LastMessage
  <2> QED
    BY <1>0, <1>1, <1>8, <2>1, <2>2, <2>3, ThreadKept
<1>9. ASSUME NEW verdict \in {"CORRECT", "AMBIGUOUS", "INCORRECT"}, Validate(verdict)
      PROVE  ThreadInv'
  BY <1>8, <1>9 DEF Validate
<1>10. CASE GradingFails
  BY <1>8, <1>10 DEF GradingFails
<1>11. CASE Finalize
  <2>1. /\ At("finalize", "end")
        /\ cited' = Citations({m \in LastSearch : m.docs})
        /\ evals' = [evals EXCEPT ![run] = evals[run] + 1]
        /\ UNCHANGED <<messages, retryCount, counts, broken>>
    BY <1>11 DEF Finalize
  <2>2. /\ node = "finalize" /\ node' = "end" /\ UNCHANGED run /\ run \in Runs
        /\ steps' \in 0..RecursionLimit /\ "finalize" \in Nodes /\ "end" \notin Nodes
    BY <1>3, <2>1 DEF Nodes
  <2>3. cited' \subseteq Runs
    <3>1. \A m \in LastSearch : m \in Message
      BY <1>1 DEF LastSearch
    <3>2. \A m \in Message : m.of \in Runs
      BY DEF Message
    <3> QED
      BY <2>1, <3>1, <3>2 DEF Citations
  <2>4. ThreadGrows
    BY <1>1, <2>1, <2>2, SameGrows
  <2>5. evals' \in [Runs -> Nat]
    BY <1>1, <2>1, <2>2
  <2> QED
    BY <1>0, <1>1, <2>1, <2>2, <2>3, <2>4, <2>5, ThreadKept
<1>12. CASE RecursionError \/ RunFails
  <2>1. /\ node' = "failed" /\ broken' \in BOOLEAN /\ "failed" \notin Nodes
        /\ UNCHANGED <<run, steps, messages, cited, evals>>
    BY <1>1, <1>12 DEF RecursionError, RunFails, CallsAreOpen, Nodes
  <2>2. ThreadGrows
    BY <1>1, <2>1, SameGrows
  <2>3. steps' \in 0..RecursionLimit
    BY <1>1, <2>1
  <2> QED
    BY <1>0, <1>1, <2>1, <2>2, <2>3, ThreadKept
<1>13. CASE UNCHANGED vars
  BY <1>13 DEF vars, counts, ThreadInv, TypeOK, LastIsCall, LastIsSearch, LastMessage
<1> QED
  BY <1>2, <1>4, <1>5, <1>6, <1>7, <1>9, <1>10, <1>11, <1>12, <1>13, <1>14, StepsInThread

LEMMA ThreadInvariant == Spec => []ThreadInv
<1>1. ThreadInv /\ [Next]_vars => ThreadInv'
  BY ThreadStep
<1> QED
  BY <1>1, ThreadInit, PTL DEF Spec

\* The types of the graph's variables: the questions in the thread bound the
\* number of runs, and no run goes through more nodes than RecursionLimit.
THEOREM GraphTypeCorrect == Spec => []TypeOK
<1>1. ThreadInv => TypeOK
  BY DEF ThreadInv
<1> QED
  BY <1>1, ThreadInvariant, PTL

-----------------------------------------------------------------------------
(* Calls and their results.                                                *)

AnsweredAt(i) ==
    messages[i].kind = "call" =>
        \A k \in 1..Len(messages[i].tools) :
            /\ i + k <= Len(messages)
            /\ messages[i + k].kind = "tool"
            /\ messages[i + k].tools = <<messages[i].tools[k]>>

CalledAt(i) ==
    messages[i].kind = "tool" =>
        \E j \in 1..(i - 1) :
            /\ messages[j].kind = "call"
            /\ i <= j + Len(messages[j].tools)

\* Only the last message may be a call without results, until the tools have
\* run; a run that is cut off there breaks the thread.
CallsInv ==
    ~broken => \A i \in 1..Len(messages) :
        /\ CalledAt(i)
        /\ AnsweredAt(i) \/ (node = "tools" /\ i = Len(messages))

LEMMA AnswersStay ==
  ASSUME ThreadInv, ThreadGrows, NEW i \in 1..Len(messages)
  PROVE  /\ AnsweredAt(i) => AnsweredAt(i)'
         /\ CalledAt(i) => CalledAt(i)'
<1>1. messages \in Seq(Message) /\ Len(messages) \in Nat /\ Len(messages') \in Nat
  BY LenProperties DEF ThreadInv, TypeOK, ThreadGrows
<1>2. AnsweredAt(i) => AnsweredAt(i)'
  <2> SUFFICES ASSUME AnsweredAt(i), messages'[i].kind = "call",
                      NEW k \in 1..Len(messages'[i].tools)
               PROVE  /\ i + k <= Len(messages')
                      /\ messages'[i + k].kind = "tool"
                      /\ messages'[i + k].tools = <<messages'[i].tools[k]>>
    BY DEF AnsweredAt
  <2>1. messages'[i].kind = messages[i].kind /\ messages'[i].tools = messages[i].tools
    BY DEF ThreadGrows
  <2>2. /\ i + k <= Len(messages) /\ messages[i + k].kind = "tool"
        /\ messages[i + k].tools = <<messages[i].tools[k]>>
    BY <2>1 DEF AnsweredAt
  <2>3. k \in Nat
    BY <1>1, <2>1, LenProperties DEF Message
  <2>4. i + k \in 1..Len(messages)
    BY <1>1, <2>2, <2>3
  <2>5. Len(messages) <= Len(messages')
    BY DEF ThreadGrows
  <2>6. i + k <= Len(messages')
    BY <1>1, <2>2, <2>3, <2>5
  <2> QED
    BY <2>1, <2>2, <2>4, <2>6 DEF ThreadGrows
<1>3. CalledAt(i) => CalledAt(i)'
  <2> SUFFICES ASSUME CalledAt(i), messages'[i].kind = "tool"
               PROVE  \E j \in 1..(i - 1) : /\ messages'[j].kind = "call"
                                            /\ i <= j + Len(messages'[j].tools)
    BY DEF CalledAt
  <2>1. messages[i].kind = "tool"
    BY DEF ThreadGrows
  <2>2. PICK j \in 1..(i - 1) : messages[j].kind = "call" /\ i <= j + Len(messages[j].tools)
    BY <2>1 DEF CalledAt
  <2>3. j \in 1..Len(messages)
    BY <1>1
  <2>4. messages'[j].kind = "call" /\ messages'[j].tools = messages[j].tools
    BY <2>2, <2>3 DEF ThreadGrows
  <2> QED
    BY <2>2, <2>4
<1> QED
  BY <1>2, <1>3

\* A step after which the new messages are in order too.
LEMMA CallsKept ==
  ASSUME ThreadInv, CallsInv, ThreadGrows, ~broken' => ~broken,
         ~broken' => node # "tools",
         \A i \in 1..Len(messages') : i > Len(messages) =>
            CalledAt(i)' /\ (AnsweredAt(i)' \/ (node' = "tools" /\ i = Len(messages')))
  PROVE  CallsInv'
<1> SUFFICES ASSUME ~broken', NEW i \in 1..Len(messages')
             PROVE  CalledAt(i)' /\ (AnsweredAt(i)' \/ (node' = "tools" /\ i = Len(messages')))
  BY DEF CallsInv
<1>1. Len(messages) \in Nat /\ Len(messages') \in Nat
  BY LenProperties DEF ThreadInv, TypeOK, ThreadGrows
<1>2. CASE i \in 1..Len(messages)
  <2>1. CalledAt(i) /\ AnsweredAt(i)
    BY <1>2 DEF CallsInv
  <2> QED
    BY <1>2, <2>1, AnswersStay
<1>3. CASE i > Len(messages)
  BY <1>3
<1> QED
  BY <1>1, <1>2, <1>3

LEMMA CallsStep ==
  ASSUME ThreadInv, CallsInv, [Next]_vars
  PROVE  CallsInv'
<1>1. /\ messages \in Seq(Message) /\ Len(messages) \in Nat /\ run \in Nat
  BY DEF ThreadInv, TypeOK
<1>2. ASSUME NEW kind, ThreadGrows, Len(messages') = Len(messages) + 1,
             messages'[Len(messages) + 1].kind = kind,
             kind \in {"human", "answer"} \/ (kind = "call" /\ node' = "tools"),
             node # "tools", UNCHANGED broken
      PROVE  CallsInv'
  <2>1. ASSUME NEW i \in 1..Len(messages'), i > Len(messages)
        PROVE  CalledAt(i)' /\ (AnsweredAt(i)' \/ (node' = "tools" /\ i = Len(messages')))
    <3>1. i = Len(messages')
      BY <1>1, <1>2, <2>1
    <3>2. messages'[i].kind = kind
      BY <1>2, <3>1
    <3> QED
      BY <1>2, <3>1, <3>2 DEF CalledAt, AnsweredAt
  <2> QED
    BY <1>2, <2>1, CallsKept
<1>3. ASSUME ThreadGrows, Len(messages') = Len(messages),
             ~broken' => node # "tools", ~broken' => ~broken
      PROVE  CallsInv'
  <2>1. \A i \in 1..Len(messages') : ~(i > Len(messages))
    BY <1>1, <1>3
  <2> QED
    BY <1>3, <2>1, CallsKept
<1>4. CASE Start \/ InvokeAgain
  <2>1. PICK r \in Runs :
          /\ Invoke(r) /\ ThreadGrows /\ run' = r
          /\ node' = "reasoner" /\ node \in {"end", "failed"}
          /\ r = run + 1 \/ r = run
          /\ UNCHANGED <<maxRetries, retryCount, evals, rewrites, cutOff, broken>>
          /\ Len(messages') = Len(messages) + 1
          /\ messages'[Len(messages) + 1] =
               [kind |-> "human", of |-> r, tools |-> <<>>, docs |-> FALSE]
    BY <1>4, InvokeCases
  <2>2. messages'[Len(messages) + 1].kind = "human" /\ node # "tools" /\ UNCHANGED broken
    BY <2>1
  <2> QED
    BY <1>2, <2>1, <2>2
<1>5. ASSUME NEW calls \in ToolCalls, Call(calls)
      PROVE  CallsInv'
  <2>1. /\ node = "reasoner" /\ node' = "tools" /\ UNCHANGED <<run, broken>>
        /\ messages' = Add("call", calls, FALSE)
    BY <1>5 DEF Call, At
  <2>2. run \in Runs /\ calls \in Seq(Tools)
    BY <2>1, ToolCallsAreSequences DEF ThreadInv, Nodes
  <2>3. /\ ThreadGrows /\ Len(messages') = Len(messages) + 1
        /\ messages'[Len(messages) + 1] =
             [kind |-> "call", of |-> run, tools |-> calls, docs |-> FALSE]
    BY <2>1, <2>2, AnswerThread
  <2>4. messages'[Len(messages) + 1].kind = "call"
    BY <2>3
  <2>5. UNCHANGED broken /\ node # "tools"
    BY <2>1
  <2> QED
    BY <1>2, <2>1, <2>3, <2>4, <2>5
<1>6. CASE Answer
  <2>1. /\ node = "reasoner" /\ UNCHANGED <<run, broken>>
        /\ messages' = Add("answer", <<>>, FALSE)
    BY <1>6 DEF Answer, At
  <2>2. run \in Runs /\ <<>> \in Seq(Tools)
    BY <2>1 DEF ThreadInv, Nodes
  <2>3. /\ ThreadGrows /\ Len(messages') = Len(messages) + 1
        /\ messages'[Len(messages) + 1] =
             [kind |-> "answer", of |-> run, tools |-> <<>>, docs |-> FALSE]
    BY <2>1, <2>2, AnswerThread
  <2>4. messages'[Len(messages) + 1].kind = "answer"
    BY <2>3
  <2>5. UNCHANGED broken /\ node # "tools"
    BY <2>1
  <2> QED
    BY <1>2, <2>1, <2>3, <2>4, <2>5
<1>7. ASSUME NEW docs \in BOOLEAN, RunTools(docs)
      PROVE  CallsInv'
  <2> DEFINE calls == LastMessage.tools
             n == Len(messages)
  <2>1. /\ LastIsCall /\ calls \in ToolCalls /\ ThreadGrows
        /\ Len(messages') = n + Len(calls)
        /\ \A k \in 1..Len(calls) : messages'[n + k] = ToolResult(calls[k], docs)
    BY <1>7, ResultsThread
  <2>2. Len(calls) \in Nat /\ Len(calls) > 0 /\ n \in Nat /\ n > 0 /\ UNCHANGED broken
    BY <1>1, <1>7, <2>1, ToolCallsAreSequences DEF LastIsCall, RunTools
  <2>3. /\ messages[n] = LastMessage /\ messages[n].kind = "call" /\ messages[n].tools = calls
        /\ messages'[n].kind = "call" /\ messages'[n].tools = calls
    BY <2>1, <2>2 DEF LastIsCall, LastMessage, ThreadGrows
  <2>4. \A k \in 1..Len(calls) : /\ messages'[n + k].kind = "tool"
                                 /\ messages'[n + k].tools = <<calls[k]>>
    <3>1. \A t : ToolResult(t, docs).kind = "tool" /\ ToolResult(t, docs).tools = <<t>>
      BY DEF ToolResult
    <3> HIDE DEF calls, n
    <3> QED
      BY <2>1, <3>1
  <2> SUFFICES ASSUME ~broken', NEW i \in 1..Len(messages')
               PROVE  CalledAt(i)' /\ AnsweredAt(i)'
    BY DEF CallsInv
  <2> HIDE DEF calls
  <2>5. CASE i \in 1..n /\ i # n
    <3>1. CalledAt(i) /\ AnsweredAt(i)
      BY <2>2, <2>5 DEF CallsInv
    <3> QED
      BY <2>1, <2>5, <3>1, AnswersStay
  <2>6. CASE i = n
    <3>1. AnsweredAt(i)'
      BY <2>1, <2>2, <2>3, <2>4, <2>6 DEF AnsweredAt
    <3>2. CalledAt(i)'
      BY <2>3, <2>6 DEF CalledAt
    <3> QED
      BY <3>1, <3>2
  <2>7. CASE i > n
    <3>1. /\ i - n \in 1..Len(calls) /\ i = n + (i - n)
          /\ n \in 1..(i - 1) /\ i <= n + Len(calls)
      BY <2>1, <2>2, <2>7
    <3>2. messages'[i].kind = "tool"
      BY <2>4, <3>1
    <3>3. AnsweredAt(i)'
      BY <3>2 DEF AnsweredAt
    <3>4. CalledAt(i)'
      BY <2>3, <3>1 DEF CalledAt
    <3> QED
      BY <3>3, <3>4
  <2> QED
    BY <2>2, <2>5, <2>6, <2>7
<1>8. ASSUME NEW docs \in BOOLEAN, RetrieveAgain(docs)
      PROVE  CallsInv'
  <2>1. node # "tools" /\ UNCHANGED broken
    BY <1>8 DEF RetrieveAgain, LeaveRewriting
  <2> QED
    BY <1>3, <1>8, <2>1, RewriteThread
<1>9. ASSUME NEW verdict \in {"CORRECT", "AMBIGUOUS", "INCORRECT"},
             Validate(verdict) \/ GradingFails \/ RewriteQuery \/ Finalize
      PROVE  CallsInv'
  <2>1. node # "tools" /\ UNCHANGED <<messages, run, broken>>
    BY <1>9 DEF Validate, GradingFails, RewriteQuery, Finalize, At
  <2> QED
    BY <1>1, <1>3, <2>1, SameGrows
<1>10. CASE RecursionError \/ RunFails
  <2>1. UNCHANGED <<messages, run>> /\ broken' = (broken \/ CallsAreOpen)
    BY <1>10 DEF RecursionError, RunFails
  <2>2. node = "tools" => CallsAreOpen
    BY DEF ThreadInv, LastIsCall, CallsAreOpen
  <2>3. (~broken' => node # "tools") /\ (~broken' => ~broken)
    BY <2>1, <2>2
  <2> QED
    BY <1>1, <1>3, <2>1, <2>3, SameGrows
<1>11. CASE UNCHANGED vars
  BY <1>11 DEF vars, CallsInv, CalledAt, AnsweredAt
<1> QED
  BY <1>4, <1>5, <1>6, <1>7, <1>8, <1>9, <1>10, <1>11, StepsInThread

\* The model is given a history in which every tool call is followed by its
\* results, unless a run ended between the two.
THEOREM EveryCallIsAnswered == Spec => []CallsAnswered
<1>1. ASSUME Init PROVE CallsInv
  BY <1>1 DEF Init, CallsInv
<1>2. ThreadInv /\ CallsInv /\ [Next]_vars => CallsInv'
  BY CallsStep
<1>3. ASSUME ThreadInv, CallsInv PROVE CallsAnswered
  <2>1. DOMAIN messages = 1..Len(messages)
    BY <1>3 DEF ThreadInv, TypeOK
  <2>2. node \in {"reasoner", "finalize", "end"} => node # "tools"
    OBVIOUS
  <2> QED
    BY <1>3, <2>1, <2>2 DEF CallsInv, CallsAnswered, CalledAt, AnsweredAt
<1> QED
  BY <1>1, <1>2, <1>3, ThreadInvariant, PTL DEF Spec

-----------------------------------------------------------------------------
(* Whose search a run cites.                                               *)

\* The messages are in the order of the runs they belong to.
CiteInv ==
    /\ \A i \in 1..Len(messages) : messages[i].of <= run
    /\ \A i, j \in 1..Len(messages) : i < j => messages[i].of <= messages[j].of
    /\ CitesOwnSearch

\* The order of the runs stays when messages of the latest are added.
LEMMA RunsStayInOrder ==
  ASSUME ThreadInv, CiteInv, ThreadGrows, run' \in Nat,
         node' = "end" => CitesOwnSearch'
  PROVE  CiteInv'
<1>1. /\ messages \in Seq(Message) /\ Len(messages) \in Nat /\ Len(messages') \in Nat
      /\ run \in Nat /\ run <= run'
  BY LenProperties, AgentGraphAssumption DEF ThreadInv, TypeOK, ThreadGrows
<1>2. \A i \in 1..Len(messages') :
         \/ i \in 1..Len(messages) /\ messages'[i].of = messages[i].of
         \/ i > Len(messages) /\ messages'[i].of = run'
  BY <1>1 DEF ThreadGrows
<1>3. \A i \in 1..Len(messages') : messages'[i].of <= run'
  <2> SUFFICES ASSUME NEW i \in 1..Len(messages') PROVE messages'[i].of <= run'
    OBVIOUS
  <2>1. CASE i \in 1..Len(messages) /\ messages'[i].of = messages[i].of
    <3>1. messages[i].of <= run /\ messages[i] \in Message
      BY <1>1, <2>1 DEF CiteInv
    <3>2. messages[i].of \in Nat
      BY <3>1, AgentGraphAssumption DEF Message, Runs
    <3> QED
      BY <1>1, <2>1, <3>1, <3>2
  <2>2. CASE messages'[i].of = run'
    BY <2>2
  <2> QED
    BY <1>2, <2>1, <2>2
<1>4. ASSUME NEW i \in 1..Len(messages'), NEW j \in 1..Len(messages'), i < j
      PROVE  messages'[i].of <= messages'[j].of
  <2>1. CASE j \in 1..Len(messages)
    <3>1. i \in 1..Len(messages)
      BY <1>1, <1>4, <2>1
    <3>2. messages[i].of <= messages[j].of
      BY <1>4, <2>1, <3>1 DEF CiteInv
    <3> QED
      BY <2>1, <3>1, <3>2 DEF ThreadGrows
  <2>2. CASE j > Len(messages)
    BY <1>1, <1>2, <1>3, <2>2
  <2> QED
    BY <1>1, <2>1, <2>2
<1>5. CitesOwnSearch'
  BY DEF CitesOwnSearch
<1> QED
  BY <1>3, <1>4, <1>5 DEF CiteInv

\* The last search of the thread is the run's own if it has searched.
LEMMA FinalizeCitesOwn ==
  ASSUME ThreadInv, CiteInv, Finalize
  PROVE  CitesOwnSearch'
<1>1. /\ messages \in Seq(Message) /\ DOMAIN messages = 1..Len(messages)
      /\ cited' = Citations({m \in LastSearch : m.docs}) /\ UNCHANGED <<messages, run>>
      /\ run \in Nat
  BY DEF ThreadInv, TypeOK, Finalize, At
<1> SUFFICES ASSUME NEW i \in 1..Len(messages), IsSearch(messages[i]), messages[i].of = run,
                    NEW c \in cited'
             PROVE  c = run
  BY <1>1 DEF CitesOwnSearch, IsSearch
<1>2. PICK m \in LastSearch : c = m.of
  BY <1>1 DEF Citations
<1>3. PICK j \in 1..Len(messages) :
         /\ m = messages[j]
         /\ \A k \in (j + 1)..Len(messages) : ~IsSearch(messages[k])
  BY <1>1, <1>2 DEF LastSearch
<1>4. i <= j
  <2>1. ~(i \in (j + 1)..Len(messages))
    BY <1>3
  <2> QED
    BY <1>1, <2>1, LenProperties
<1>5. messages[i].of <= messages[j].of /\ messages[j].of <= run
  <2>1. messages[j].of <= run
    BY DEF CiteInv
  <2>2. CASE i = j
    BY <2>1, <2>2
  <2>3. CASE i < j
    BY <2>1, <2>3 DEF CiteInv
  <2> QED
    BY <1>1, <1>4, <2>2, <2>3, LenProperties
<1>6. messages[j].of \in Nat
  <2>1. messages[j] \in Message
    BY <1>1
  <2> QED
    BY <2>1, AgentGraphAssumption DEF Message, Runs
<1> QED
  BY <1>1, <1>2, <1>3, <1>5, <1>6

LEMMA CiteStep ==
  ASSUME ThreadInv, CiteInv, [Next]_vars
  PROVE  CiteInv'
<1>1. messages \in Seq(Message) /\ run \in Nat
  BY DEF ThreadInv, TypeOK
<1>2. CASE Start \/ InvokeAgain
  <2>1. ThreadGrows /\ run' \in Nat /\ node' = "reasoner"
    <3>1. Runs \subseteq Nat
      BY AgentGraphAssumption DEF Runs
    <3> QED
      BY <1>2, <3>1, InvokeCases
  <2> QED
    BY <2>1, RunsStayInOrder
<1>3. ASSUME NEW calls \in ToolCalls, Call(calls)
      PROVE  CiteInv'
  <2>1. /\ node = "reasoner" /\ node' = "tools" /\ UNCHANGED run
        /\ messages' = Add("call", calls, FALSE)
    BY <1>3 DEF Call, At
  <2>2. run \in Runs /\ calls \in Seq(Tools)
    BY <2>1, ToolCallsAreSequences DEF ThreadInv, Nodes
  <2> QED
    BY <1>1, <2>1, <2>2, AnswerThread, RunsStayInOrder
<1>4. CASE Answer
  <2>1. /\ node = "reasoner" /\ node' = "finalize" /\ UNCHANGED run
        /\ messages' = Add("answer", <<>>, FALSE)
    BY <1>4 DEF Answer, At
  <2>2. run \in Runs /\ <<>> \in Seq(Tools)
    BY <2>1 DEF ThreadInv, Nodes
  <2> QED
    BY <1>1, <2>1, <2>2, AnswerThread, RunsStayInOrder
<1>5. ASSUME NEW docs \in BOOLEAN, RunTools(docs)
      PROVE  CiteInv'
  <2>1. node' # "end" /\ UNCHANGED run
    BY <1>5 DEF RunTools, At
  <2>2. ThreadGrows
    BY <1>5, ResultsThread
  <2> QED
    BY <1>1, <2>1, <2>2, RunsStayInOrder
<1>6. ASSUME NEW docs \in BOOLEAN, RetrieveAgain(docs)
      PROVE  CiteInv'
  <2>1. node' # "end" /\ UNCHANGED run
    BY <1>6 DEF RetrieveAgain, LeaveRewriting
  <2> QED
    BY <1>1, <1>6, <2>1, RewriteThread, RunsStayInOrder
<1>7. ASSUME NEW verdict \in {"CORRECT", "AMBIGUOUS", "INCORRECT"},
             Validate(verdict) \/ GradingFails \/ RewriteQuery \/ RecursionError \/ RunFails
      PROVE  CiteInv'
  <2>1. node' # "end" /\ UNCHANGED <<messages, run>>
    BY <1>7 DEF Validate, GradingFails, RewriteQuery, RecursionError, RunFails, At, Judged
  <2> QED
    BY <1>1, <2>1, SameGrows, RunsStayInOrder
<1>8. CASE Finalize
  <2>1. UNCHANGED <<messages, run>>
    BY <1>8 DEF Finalize, At
  <2> QED
    BY <1>1, <1>8, <2>1, SameGrows, FinalizeCitesOwn, RunsStayInOrder
<1>9. CASE UNCHANGED vars
  BY <1>9 DEF vars, CiteInv, CitesOwnSearch, IsSearch
<1> QED
  BY <1>2, <1>3, <1>4, <1>5, <1>6, <1>7, <1>8, <1>9, StepsInThread

\* A run that searched cites its own search and none of another run.
THEOREM SourcesAreOwn == Spec => []CitesOwnSearch
<1>1. ASSUME Init PROVE CiteInv
  BY <1>1 DEF Init, CiteInv, CitesOwnSearch
<1>2. ThreadInv /\ CiteInv /\ [Next]_vars => CiteInv'
  BY CiteStep
<1>3. CiteInv => CitesOwnSearch
  BY DEF CiteInv
<1> QED
  BY <1>1, <1>2, <1>3, ThreadInvariant, PTL DEF Spec
=============================================================================
