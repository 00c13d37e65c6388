------------------------- MODULE ModelClientsProofs -------------------------
(***************************************************************************)
(* Proofs about LlmGateway: no call leaves a listener on a signal that may *)
(* still fire, and a provider that failed is not tried again at once, for  *)
(* any number of calls and every configuration.                            *)
(*                                                                         *)
(* And about ModelClients: what the router, the translator and the         *)
(* internal client keep, for every lifetime of their keys, all languages,  *)
(* all texts, and whatever the gateway makes of their calls.               *)
(***************************************************************************)
EXTENDS ModelClients, TLAPS

-----------------------------------------------------------------------------
(* The gateway.                                                            *)

\* TypeOK without the listeners, which need more than types.
StateTyped ==
    /\ config \in [default : Providers, fallback : Providers]
    /\ aborted \in BOOLEAN
    /\ call \in Call
    /\ calls \in 0..MaxCalls

\* Each signalled wrapper has exactly one listener while the call runs.  After
\* the abort the signal may have others, of streams it interrupted, but no
\* signalled call runs beside them.
CallOwnsListeners ==
    /\ IsRunning /\ call.signalled => listeners = Layers(call)
    /\ ~aborted => listeners = IF IsRunning THEN Layers(call) ELSE 0

ListenerInv == listeners \in Nat /\ CallOwnsListeners

\* The thinking stream is Gemini's, and whoever runs has been asked.
ElsewhereInv ==
    /\ IsRunning => call.tried # <<>>
    /\ IsRunning /\ call.stage = "thinking" => Provider = "gemini"
    /\ FallbackElsewhere

-----------------------------------------------------------------------------
\* A signalled call has at least the outer wrapper, another one none.
LEMMA LayersCounted ==
    ASSUME NEW c, c.signalled \in BOOLEAN
    PROVE  /\ Layers(c) \in Nat
           /\ c.signalled => Layers(c) >= 1
           /\ ~c.signalled => Layers(c) = 0
<1>1. GatewayLayers(c.kind, c.stage) \in {1, 2}
  BY DEF GatewayLayers
<1>2. ProviderLayers(c.kind, c.stage, c.tried[Len(c.tried)]) \in {0, 1, 2}
  BY DEF ProviderLayers
<1> QED
  BY <1>1, <1>2 DEF Layers

LEMMA FallbackTyped ==
    ASSUME config \in [default : Providers, fallback : Providers], NEW current
    PROVE  GetFallbackProvider(current) \in Providers
BY DEF GetFallbackProvider, Providers

LEMMA FirstTyped ==
    ASSUME config \in [default : Providers, fallback : Providers], NEW kind
    PROVE  FirstProvider(kind) \in Providers /\ FirstStage(kind) \in Stages
BY DEF FirstProvider, FirstStage, GetProvider, Providers, Stages

LEMMA NextTyped ==
    ASSUME config \in [default : Providers, fallback : Providers]
    PROVE  NextProvider \in Providers /\ NextStage \in Stages
<1>1. GetFallbackProvider(Provider) \in Providers
  BY FallbackTyped
<1>2. \A model : GetProvider(model) \in Providers
  BY DEF GetProvider, Providers
<1>3. NextProvider \in Providers
  BY <1>1, <1>2 DEF NextProvider, ThinkingFallback, PlainFallback, Providers
<1> QED
  BY <1>3 DEF NextStage, Stages

LEMMA NewCallTyped ==
    ASSUME StateTyped, NEW kind \in Kinds, NEW signalled \in BOOLEAN,
           NEW stage \in Stages, NEW pc \in Running \cup Ended,
           NEW tried \in Seq(Providers)
    PROVE  NewCall(kind, signalled, stage, pc, tried) \in Call
  BY DEF NewCall, Call

LEMMA StateInit == Init => StateTyped
<1> SUFFICES ASSUME Init PROVE StateTyped
  OBVIOUS
<1>1. <<>> \in Seq(Providers)
  OBVIOUS
<1>2. call \in Call
  BY <1>1 DEF Init, Call, Kinds, Stages, Running, Ended
<1>3. calls \in 0..MaxCalls
  BY LlmAssumption DEF Init
<1>4. config \in [default : Providers, fallback : Providers] /\ aborted \in BOOLEAN
  BY DEF Init
<1> QED
  BY <1>2, <1>3, <1>4 DEF StateTyped

LEMMA StateStep == StateTyped /\ [Next]_vars => StateTyped'
<1> SUFFICES ASSUME StateTyped, [Next]_vars PROVE StateTyped'
  OBVIOUS
<1> USE LlmAssumption
<1>1. ASSUME NEW pc \in Running \cup Ended
      PROVE  [call EXCEPT !.pc = pc] \in Call
  BY <1>1 DEF StateTyped, Call
<1>3. ASSUME NEW pc \in Ended, EndWith(pc)
      PROVE  call' \in Call
  BY <1>1, <1>3 DEF EndWith
<1>4. ASSUME NEW kind \in Kinds, NEW signalled \in BOOLEAN, Begin(kind, signalled)
      PROVE  StateTyped'
  <2>1. <<FirstProvider(kind)>> \in Seq(Providers) /\ FirstStage(kind) \in Stages
    BY FirstTyped DEF StateTyped
  <2>2. call' \in Call
    BY <1>4, <2>1, NewCallTyped DEF Begin, Running
  <2>3. calls' \in 0..MaxCalls
    BY <1>4 DEF Begin, StateTyped
  <2>4. config' = config /\ aborted' = aborted
    BY <1>4 DEF Begin
  <2> QED
    BY <2>2, <2>3, <2>4 DEF StateTyped
<1>5. CASE StreamTooLate
  <2>1. <<>> \in Seq(Providers) /\ "last" \in Stages /\ "think" \in Kinds
    BY DEF Stages, Kinds
  <2>2. call' \in Call
    BY <1>5, <2>1, NewCallTyped DEF StreamTooLate, Ended
  <2>3. calls' \in 0..MaxCalls
    BY <1>5 DEF StreamTooLate, StateTyped
  <2> QED
    BY <1>5, <2>2, <2>3 DEF StreamTooLate, StateTyped
<1>6. CASE GenerateTooLate
  <2>1. PICK tried \in {<<GetProvider("none")>>,
                        <<GetProvider("none"), GetFallbackProvider(GetProvider("none"))>>} :
           call' = NewCall("generate", TRUE, "last", "cancelled", tried)
    BY <1>6 DEF GenerateTooLate
  <2>2. GetProvider("none") \in Providers
    BY DEF GetProvider, StateTyped
  <2>3. GetFallbackProvider(GetProvider("none")) \in Providers
    BY FallbackTyped DEF StateTyped
  <2>4. tried \in Seq(Providers)
    <3>1. /\ <<GetProvider("none")>> \in Seq(Providers)
          /\ <<GetProvider("none"), GetFallbackProvider(GetProvider("none"))>>
                \in Seq(Providers)
      BY <2>2, <2>3
    <3> QED
      BY <2>1, <3>1
  <2>5. "last" \in Stages /\ "generate" \in Kinds /\ "cancelled" \in Ended
    BY DEF Stages, Kinds, Ended
  <2>6. call' \in Call
    BY <2>1, <2>4, <2>5, NewCallTyped
  <2>8. calls' \in 0..MaxCalls
        /\ config' = config /\ aborted' = aborted
    BY <1>6 DEF GenerateTooLate, StateTyped
  <2> QED
    BY <2>6, <2>8 DEF StateTyped
<1>7. CASE Answer
  BY <1>3, <1>7 DEF Answer, StateTyped, Ended
<1>8. CASE Yield
  BY <1>1, <1>8 DEF Yield, StateTyped, Running
<1>9. CASE Pull
  <2>1. call' \in Call
    BY <1>1, <1>3, <1>9 DEF Pull, Running, Ended
  <2> QED
    BY <1>9, <2>1 DEF Pull, StateTyped
<1>10. CASE FallBack
  <2>1. Append(call.tried, NextProvider) \in Seq(Providers) /\ NextStage \in Stages
    BY NextTyped DEF StateTyped, Call
  <2>2. call' \in Call
    BY <1>10, <2>1 DEF FallBack, StateTyped, Call
  <2> QED
    BY <1>10, <2>2 DEF FallBack, StateTyped
<1>11. CASE Fail
  BY <1>3, <1>11 DEF Fail, StateTyped, Ended
<1>12. CASE FailAsAbort
  BY <1>3, <1>12 DEF FailAsAbort, StateTyped, Ended
<1>13. CASE Abort
  BY <1>13 DEF Abort, StateTyped
<1>14. CASE CancelWaiting
  BY <1>3, <1>14 DEF CancelWaiting, StateTyped, Ended
<1>15. CASE CancelHeld
  BY <1>1, <1>15 DEF CancelHeld, StateTyped, Ended
<1>16. CASE UNCHANGED vars
  BY <1>16 DEF vars, StateTyped
<1> QED
  BY <1>4, <1>5, <1>6, <1>7, <1>8, <1>9, <1>10, <1>11, <1>12, <1>13, <1>14,
     <1>15, <1>16 DEF Next

-----------------------------------------------------------------------------
LEMMA ListenerInit == Init => ListenerInv
<1> SUFFICES ASSUME Init PROVE ListenerInv
  OBVIOUS
<1>1. ~IsRunning /\ listeners = 0
  BY DEF Init, IsRunning, Running
<1> QED
  BY <1>1 DEF ListenerInv, CallOwnsListeners

LEMMA ListenerStep == StateTyped /\ ListenerInv /\ [Next]_vars => ListenerInv'
<1> SUFFICES ASSUME StateTyped, ListenerInv, [Next]_vars PROVE ListenerInv'
  OBVIOUS
<1> USE DEF ListenerInv, CallOwnsListeners, IsRunning, Running, StateTyped, Call
<1>c. /\ Layers(call) \in Nat
      /\ call.signalled => Layers(call) >= 1
      /\ ~call.signalled => Layers(call) = 0
  BY LayersCounted
<1>1. ASSUME NEW kind \in Kinds, NEW signalled \in BOOLEAN, Begin(kind, signalled)
      PROVE  ListenerInv'
  <2>1. /\ call'.signalled = signalled /\ call'.pc = "waiting"
        /\ listeners' = listeners + Layers(call')
        /\ aborted' = aborted
        /\ ~(call.pc \in {"waiting", "held"})
        /\ ~(signalled /\ aborted)
    BY <1>1 DEF Begin, NewCall
  <2>2. /\ Layers(call') \in Nat
        /\ ~call'.signalled => Layers(call') = 0
    BY <2>1, LayersCounted
  <2> QED
    BY <2>1, <2>2
<1>2. CASE StreamTooLate
  BY <1>2 DEF StreamTooLate, NewCall
<1>3. CASE GenerateTooLate
  <2>1. /\ call'.signalled = TRUE /\ call'.pc = "cancelled"
        /\ aborted' = aborted /\ aborted /\ listeners' = listeners
    BY <1>3 DEF GenerateTooLate, NewCall
  <2> QED
    BY <2>1
<1>4. ASSUME NEW pc \in Ended, EndWith(pc), aborted' = aborted, IsRunning
      PROVE  ListenerInv'
  <2>1. /\ call'.signalled = call.signalled
        /\ ~(call'.pc \in {"waiting", "held"})
        /\ listeners' = listeners - Layers(call)
    BY <1>4 DEF EndWith, Ended
  <2> QED
    BY <2>1, <1>c, <1>4
<1>5. CASE Answer
  BY <1>4, <1>5 DEF Answer, Waits, Ended
<1>6. CASE Yield
  <2>1. Layers(call') = Layers(call)
    BY <1>6 DEF Yield, Layers
  <2> QED
    BY <1>6, <2>1 DEF Yield, Waits
<1>7. CASE Pull
  <2>1. CASE Provider = "openai"
    BY <1>4, <1>7, <2>1 DEF Pull, Ended
  <2>2. CASE Provider # "openai"
    <3>1. Layers(call') = Layers(call)
      BY <1>7, <2>2 DEF Pull, Layers
    <3> QED
      BY <1>7, <2>2, <3>1 DEF Pull
  <2> QED
    BY <2>1, <2>2
<1>8. CASE FallBack
  <2>1. /\ call'.signalled = call.signalled /\ call'.pc = "waiting"
        /\ call.pc = "waiting" /\ aborted' = aborted
        /\ ~(call.signalled /\ aborted)
        /\ listeners' = listeners - Layers(call) + Layers(call')
    BY <1>8 DEF FallBack, Waits, IsCancelled
  <2>2. /\ Layers(call') \in Nat
        /\ ~call'.signalled => Layers(call') = 0
    BY <2>1, LayersCounted
  <2> QED
    BY <2>1, <2>2, <1>c
<1>9. CASE Fail
  BY <1>4, <1>9 DEF Fail, Waits, Ended
<1>10. CASE FailAsAbort
  BY <1>4, <1>10 DEF FailAsAbort, Waits, Ended
<1>11. CASE Abort
  BY <1>11 DEF Abort
<1>12. CASE CancelWaiting
  BY <1>4, <1>12 DEF CancelWaiting, Waits, Ended
<1>13. CASE CancelHeld
  <2>1. /\ call'.signalled = call.signalled /\ call'.pc = "cancelled"
        /\ aborted' = aborted /\ aborted /\ call.signalled
        /\ listeners' = listeners - 1 /\ listeners = Layers(call)
    BY <1>13 DEF CancelHeld, IsCancelled
  <2> QED
    BY <2>1, <1>c
<1>14. CASE UNCHANGED vars
  BY <1>14 DEF vars
<1> QED
  BY <1>1, <1>2, <1>3, <1>5, <1>6, <1>7, <1>8, <1>9, <1>10, <1>11, <1>12,
     <1>13, <1>14 DEF Next

\* A call of any number has left no listener, in none of its wrappers, on a
\* signal that has not fired: the finally blocks of AbortUtils.
THEOREM NoListenerIsLeft == Spec => []NoLiveListener
<1>1. ListenerInv => NoLiveListener
  BY DEF ListenerInv, CallOwnsListeners, NoLiveListener
<1> QED
  BY <1>1, StateInit, StateStep, ListenerInit, ListenerStep, PTL DEF Spec

-----------------------------------------------------------------------------
\* The nested catch blocks together never choose the provider that failed.
LEMMA NextIsAnother ==
    ASSUME StateTyped, ElsewhereInv, IsRunning, config.fallback # "openai"
    PROVE  NextProvider # Provider
<1>1. config.fallback \in {"gemini", "groq"}
  BY DEF StateTyped, Providers
<1>2. \A p : GetFallbackProvider(p) \in {"gemini", "groq"} /\ GetFallbackProvider(p) # p
  BY <1>1 DEF GetFallbackProvider
<1>3. CASE call.stage = "thinking"
  <2>1. Provider = "gemini"
    BY <1>3 DEF ElsewhereInv
  <2>2. GetFallbackProvider("gemini") = "groq"
    BY <1>2
  <2>3. NextProvider = "groq"
    BY <1>3, <2>2 DEF NextProvider, ThinkingFallback, GetProvider
  <2> QED
    BY <2>1, <2>3
<1>4. CASE call.stage # "thinking"
  BY <1>2, <1>4 DEF NextProvider, PlainFallback
<1> QED
  BY <1>3, <1>4

LEMMA ElsewhereInit == Init => ElsewhereInv
<1> SUFFICES ASSUME Init PROVE ElsewhereInv
  OBVIOUS
<1>1. ~IsRunning /\ call.tried = <<>>
  BY DEF Init, IsRunning, Running
<1> QED
  BY <1>1 DEF ElsewhereInv, FallbackElsewhere

\* A step that asks nobody else keeps what was asked.
LEMMA ElsewhereKept ==
    ASSUME ElsewhereInv, config' = config, call'.tried = call.tried,
           call'.stage = call.stage, IsRunning' => IsRunning
    PROVE  ElsewhereInv'
BY DEF ElsewhereInv, FallbackElsewhere, Provider

LEMMA ElsewhereStep == StateTyped /\ ElsewhereInv /\ [Next]_vars => ElsewhereInv'
<1> SUFFICES ASSUME StateTyped, ElsewhereInv, [Next]_vars PROVE ElsewhereInv'
  OBVIOUS
<1>1. ASSUME NEW kind \in Kinds, NEW signalled \in BOOLEAN, Begin(kind, signalled)
      PROVE  ElsewhereInv'
  <2>1. /\ call'.tried = <<FirstProvider(kind)>>
        /\ call'.stage = FirstStage(kind)
        /\ config' = config
    BY <1>1 DEF Begin, NewCall
  <2>2. FirstStage(kind) = "thinking" => FirstProvider(kind) = "gemini"
    BY DEF FirstStage, FirstProvider, Kinds
  <2> QED
    BY <2>1, <2>2 DEF ElsewhereInv, FallbackElsewhere, Provider
<1>2. CASE StreamTooLate
  <2>1. call'.tried = <<>> /\ call'.pc = "cancelled"
    BY <1>2 DEF StreamTooLate, NewCall
  <2> QED
    BY <2>1 DEF ElsewhereInv, FallbackElsewhere, IsRunning, Running
<1>3. CASE GenerateTooLate
  <2> DEFINE first == GetProvider("none")
  <2>1. /\ call'.tried = <<first>> \/ call'.tried = <<first, GetFallbackProvider(first)>>
        /\ call'.pc = "cancelled"
        /\ config' = config
    BY <1>3 DEF GenerateTooLate, NewCall
  <2>2. config.fallback # "openai" => GetFallbackProvider(first) # first
    BY DEF GetFallbackProvider
  <2>3. FallbackElsewhere'
    BY <2>1, <2>2 DEF FallbackElsewhere
  <2> QED
    BY <2>1, <2>3 DEF ElsewhereInv, IsRunning, Running
<1>4. CASE FallBack
  <2>1. /\ call'.tried = Append(call.tried, NextProvider)
        /\ call'.stage = NextStage
        /\ config' = config
        /\ IsRunning /\ call.tried \in Seq(Providers) /\ NextProvider \in Providers
    BY <1>4, NextTyped DEF FallBack, StateTyped, Call, Waits, IsRunning, Running
  <2>2. call'.stage # "thinking" /\ call'.tried # <<>>
    BY <2>1 DEF NextStage
  <2>3. ASSUME config.fallback # "openai", NEW i \in 1..Len(call'.tried) - 1
        PROVE  call'.tried[i] # call'.tried[i + 1]
    <3>1. Len(call'.tried) = Len(call.tried) + 1
      BY <2>1
    <3>2. CASE i = Len(call.tried)
      <4>1. call'.tried[i] = Provider /\ call'.tried[i + 1] = NextProvider
        BY <2>1, <3>1, <3>2, <2>3 DEF Provider
      <4> QED
        BY <2>1, <2>3, <4>1, NextIsAnother
    <3>3. CASE i # Len(call.tried)
      <4>1. i \in 1..Len(call.tried) - 1
        BY <2>1, <2>3, <3>1, <3>3
      <4>2. call'.tried[i] = call.tried[i] /\ call'.tried[i + 1] = call.tried[i + 1]
        BY <2>1, <4>1
      <4> QED
        BY <2>3, <4>1, <4>2 DEF ElsewhereInv, FallbackElsewhere
    <3> QED
      BY <3>2, <3>3
  <2> QED
    BY <2>1, <2>2, <2>3 DEF ElsewhereInv, FallbackElsewhere
<1>5. ASSUME NEW pc, call' = [call EXCEPT !.pc = pc], config' = config, IsRunning
      PROVE  ElsewhereInv'
  <2>1. call'.tried = call.tried /\ call'.stage = call.stage
    BY <1>5 DEF StateTyped, Call
  <2> QED
    BY <1>5, <2>1, ElsewhereKept
<1>6. CASE Answer \/ Fail \/ FailAsAbort \/ CancelWaiting
  BY <1>5, <1>6 DEF Answer, Fail, FailAsAbort, CancelWaiting, EndWith, Waits, IsRunning, Running
<1>7. CASE Yield \/ Pull \/ CancelHeld
  BY <1>5, <1>7 DEF Yield, Pull, CancelHeld, EndWith, Waits, IsRunning, Running
<1>8. CASE Abort \/ UNCHANGED vars
  <2>1. call' = call /\ config' = config
    BY <1>8 DEF Abort, vars
  <2> QED
    BY <2>1, ElsewhereKept DEF IsRunning
<1> QED
  BY <1>1, <1>2, <1>3, <1>4, <1>6, <1>7, <1>8 DEF Next

\* In every configuration that does not name OpenAI, a fallback goes to another
\* provider than the one that has just failed.
THEOREM FallbackGoesElsewhere == Spec => []FallbackElsewhere
<1>1. ElsewhereInv => FallbackElsewhere
  BY DEF ElsewhereInv
<1> QED
  BY <1>1, StateInit, StateStep, ElsewhereInit, ElsewhereStep, PTL DEF Spec

-----------------------------------------------------------------------------
\* The state has its types, the listeners among them: their number is never
\* lowered below zero.
THEOREM TypeCorrect == Spec => []TypeOK
<1>1. StateTyped /\ ListenerInv => TypeOK
  BY DEF StateTyped, ListenerInv, TypeOK
<1> QED
  BY <1>1, StateInit, StateStep, ListenerInit, ListenerStep, PTL DEF Spec

-----------------------------------------------------------------------------
(* Its clients.                                                            *)

ClientType ==
    [op : {"off", "none", "fact", "rewrite", "translate"},
     pc : {"idle", "looking", "asking", "reading", "model", "storing"},
     fact : Facts \cup {"none"}, lang : Langs \cup {"none"}, inContext : BOOLEAN]

KeyType == [left : Nat, age : Nat, answered : BOOLEAN]
TranslationType == {"none", "confirmed", "unconfirmed"}

ClientTypes ==
    /\ client \in ClientType
    /\ kept \in [Facts -> KeyType]
    /\ translations \in [Langs -> TranslationType]
    /\ sinceYes \in Nat

\* A key that is left has been answered, and what is left of its lifetime and
\* its age make up the whole.
KeysAge ==
    \A f \in Facts :
        kept[f].left > 0 => kept[f].answered /\ kept[f].left + kept[f].age = TTL[f]

\* The key of the access is not younger than its last confirmation.
AccessConfirmed == kept["access"].left > 0 => sinceYes <= kept["access"].age

\* A translation looks for the access before it is stored, and nothing else.
TranslatesInOrder ==
    /\ client.pc \in {"looking", "asking"} => client.fact \in Facts
    /\ client.pc = "storing" => client.op = "translate"
    /\ client.op = "translate" =>
          /\ client.lang \in Langs
          /\ client.pc \in {"looking", "asking"} => client.fact = "access"
          /\ client.pc \in {"looking", "asking", "storing"} => client.inContext
          /\ client.pc = "storing" => sinceYes <= TTL["access"]

\* What is stored was confirmed.
TranslationsConfirmed == \A l \in Langs : translations[l] \in {"none", "confirmed"}

ClientInv ==
    /\ ClientTypes /\ KeysAge /\ AccessConfirmed
    /\ TranslatesInOrder /\ TranslationsConfirmed /\ AnswerRecent

\* At first nothing is kept.
LEMMA InitClientInv == InitClients => ClientInv
<1> SUFFICES ASSUME InitClients PROVE ClientInv
  OBVIOUS
<1> USE ClientsAssumption DEF InitClients
<1>1. client \in {Off, Idle}
  OBVIOUS
<1>2. ClientTypes
  <2>1. Off \in ClientType /\ Idle \in ClientType
    BY DEF ClientType, Off, Idle
  <2>2. Nothing \in KeyType /\ "none" \in TranslationType
    BY DEF Nothing, KeyType, TranslationType
  <2>3. kept \in [Facts -> KeyType] /\ translations \in [Langs -> TranslationType]
    BY <2>2
  <2>4. sinceYes \in Nat
    BY DEF Facts
  <2> QED
    BY <1>1, <2>1, <2>3, <2>4 DEF ClientTypes
<1>3. KeysAge /\ AccessConfirmed
  BY DEF KeysAge, AccessConfirmed, Nothing, Facts
<1>4. TranslatesInOrder
  BY <1>1 DEF TranslatesInOrder, Off, Idle
<1>5. TranslationsConfirmed /\ AnswerRecent
  BY DEF TranslationsConfirmed, AnswerRecent, NoAnswer
<1> QED
  BY <1>2, <1>3, <1>4, <1>5 DEF ClientInv

\* An operation that ends leaves what is kept to what the invariant says of it.
LEMMA EndKeeps ==
  ASSUME ClientInv, NEW a, EndsWith(a), UNCHANGED <<kept, translations, sinceYes>>,
         a.fact # "none" => a.age <= TTL[a.fact]
  PROVE  ClientInv'
<1>1. client' = Idle /\ answer' = a
  BY DEF EndsWith
<1>2. Idle \in ClientType /\ Idle.pc = "idle" /\ Idle.op = "none"
  BY DEF Idle, Off, ClientType
<1>3. ClientTypes'
  BY <1>1, <1>2 DEF ClientInv, ClientTypes
<1>4. KeysAge' /\ AccessConfirmed' /\ TranslationsConfirmed'
  BY DEF ClientInv, KeysAge, AccessConfirmed, TranslationsConfirmed
<1>5. TranslatesInOrder' /\ AnswerRecent'
  BY <1>1, <1>2 DEF TranslatesInOrder, AnswerRecent
<1> QED
  BY <1>3, <1>4, <1>5 DEF ClientInv

\* An operation that goes on is in order, and changes nothing that is kept.
LEMMA GoKeeps ==
  ASSUME ClientInv, NEW x \in ClientType, client' = x,
         UNCHANGED <<kept, translations, sinceYes>>, answer' \in {answer, NoAnswer},
         TranslatesInOrder'
  PROVE  ClientInv'
<1>1. ClientTypes' /\ KeysAge' /\ AccessConfirmed'
  BY DEF ClientInv, ClientTypes, KeysAge, AccessConfirmed
<1>2. TranslationsConfirmed'
  BY DEF ClientInv, TranslationsConfirmed
<1>3. AnswerRecent'
  BY DEF ClientInv, AnswerRecent, NoAnswer
<1> QED
  BY <1>1, <1>2, <1>3 DEF ClientInv

\* An operation moves on and keeps what it was about.
LEMMA GotoKeeps ==
  ASSUME ClientInv, NEW pc \in {"looking", "asking", "reading", "model", "storing"},
         Goto(pc), UNCHANGED <<kept, translations, answer, sinceYes>>,
         pc \in {"looking", "asking"} => client.pc \in {"looking", "asking"},
         pc = "storing" => /\ client.op = "translate"
                           /\ client.pc \in {"looking", "asking"}
                           /\ sinceYes <= TTL["access"]
  PROVE  ClientInv'
<1> DEFINE x == [client EXCEPT !.pc = pc]
<1>1. /\ x \in ClientType /\ x.pc = pc /\ x.op = client.op /\ x.fact = client.fact
      /\ x.lang = client.lang /\ x.inContext = client.inContext
  BY DEF ClientInv, ClientTypes, ClientType
<1>2. client' = x
  BY DEF Goto
<1> HIDE DEF x
<1>3. TranslatesInOrder'
  BY <1>1, <1>2 DEF ClientInv, TranslatesInOrder
<1> QED
  BY <1>1, <1>2, <1>3, GoKeeps

\* A key that is found, or a fact that is answered, is of its age; and of the
\* access it says that it was confirmed within its lifetime.
LEMMA FoundKeeps == ClientInv /\ KeyFound => ClientInv'
<1> SUFFICES ASSUME ClientInv, KeyFound PROVE ClientInv'
  OBVIOUS
<1> DEFINE f == client.fact
<1>1. /\ f \in Facts /\ kept[f] \in KeyType
      /\ kept[f].left > 0 /\ kept[f].left + kept[f].age = TTL[f]
      /\ UNCHANGED <<kept, translations, sinceYes>>
      /\ Known(kept[f].age)
  BY DEF KeyFound, ClientInv, ClientTypes, TranslatesInOrder, KeysAge
<1>2. kept[f].age <= TTL[f] /\ TTL[f] \in Nat
  BY <1>1, ClientsAssumption DEF KeyType
<1>3. CASE client.op = "translate"
  <2>1. f = "access" /\ client.pc = "looking"
    BY <1>3 DEF KeyFound, ClientInv, TranslatesInOrder
  <2>2. sinceYes <= TTL["access"]
    BY <1>1, <1>2, <2>1 DEF ClientInv, ClientTypes, AccessConfirmed, KeyType
  <2>3. Goto("storing") /\ UNCHANGED answer
    BY <1>1, <1>3 DEF Known
  <2> QED
    BY <1>1, <1>3, <2>1, <2>2, <2>3, GotoKeeps
<1>4. CASE client.op # "translate"
  <2> DEFINE a == [fact |-> f, age |-> kept[f].age]
  <2>1. a.fact = f /\ a.age = kept[f].age
    OBVIOUS
  <2>2. EndsWith(a)
    BY <1>1, <1>4 DEF Known
  <2> HIDE DEF a
  <2> QED
    BY <1>1, <1>2, <2>1, <2>2, EndKeeps
<1> QED
  BY <1>3, <1>4

\* An answer renews the key of its fact, or at least the confirmation.
LEMMA AnsweredKeeps == ClientInv /\ FactAnswered => ClientInv'
<1> SUFFICES ASSUME ClientInv, FactAnswered PROVE ClientInv'
  OBVIOUS
<1> DEFINE f == client.fact
           fresh == [left |-> TTL[f], age |-> 0, answered |-> TRUE]
<1>1. /\ f \in Facts /\ client.pc = "asking"
      /\ UNCHANGED translations /\ Known(0)
      /\ sinceYes' = IF f = "access" THEN 0 ELSE sinceYes
      /\ kept' = [kept EXCEPT ![f] = fresh] \/ kept' = kept
  BY DEF FactAnswered, ClientInv, TranslatesInOrder, Keep
<1>2. TTL[f] \in Nat /\ TTL["access"] \in Nat /\ fresh \in KeyType
  BY <1>1, ClientsAssumption DEF KeyType, Facts
<1>3. /\ sinceYes' \in Nat /\ kept' \in [Facts -> KeyType]
      /\ translations' \in [Langs -> TranslationType]
  BY <1>1, <1>2 DEF ClientInv, ClientTypes
<1>4. KeysAge'
  BY <1>1, <1>2 DEF ClientInv, ClientTypes, KeysAge
<1>5. AccessConfirmed'
  <2>1. "access" \in Facts /\ kept["access"] \in KeyType
    BY DEF Facts, ClientInv, ClientTypes
  <2>2. CASE f = "access"
    BY <1>1, <2>1, <2>2 DEF ClientInv, ClientTypes, AccessConfirmed, KeyType
  <2>3. CASE f # "access"
    BY <1>1, <2>1, <2>3 DEF ClientInv, ClientTypes, AccessConfirmed
  <2> QED
    BY <2>2, <2>3
<1>6. TranslationsConfirmed'
  BY <1>1 DEF ClientInv, TranslationsConfirmed
<1>7. client' \in ClientType /\ TranslatesInOrder' /\ AnswerRecent'
  <2>1. CASE client.op = "translate"
    <3> DEFINE x == [client EXCEPT !.pc = "storing"]
    <3>1. /\ x \in ClientType /\ x.pc = "storing" /\ x.op = "translate"
          /\ x.lang = client.lang
          /\ x.inContext = client.inContext
      BY <2>1 DEF ClientInv, ClientTypes, ClientType
    <3>2. client' = x /\ answer' = answer
      BY <1>1, <2>1 DEF Known, Goto
    <3> HIDE DEF x
    <3>3. client.lang \in Langs /\ client.inContext /\ f = "access"
      BY <1>1, <2>1 DEF ClientInv, TranslatesInOrder
    <3>4. TranslatesInOrder'
      <4>1. /\ client'.pc = "storing" /\ client'.op = "translate"
            /\ client'.lang \in Langs
        BY <1>1, <3>1, <3>2, <3>3
      <4>2. client'.inContext
        BY <3>1, <3>2, <3>3
      <4>3. sinceYes' <= TTL["access"]
        BY <1>1, <1>2, <3>3
      <4> QED
        BY <4>1, <4>2, <4>3 DEF TranslatesInOrder
    <3>5. AnswerRecent'
      BY <3>2 DEF ClientInv, AnswerRecent
    <3> QED
      BY <3>1, <3>2, <3>4, <3>5
  <2>2. CASE client.op # "translate"
    <3> DEFINE a == [fact |-> f, age |-> 0]
    <3>1. client' = Idle /\ answer' = a
      BY <1>1, <2>2 DEF Known, EndsWith
    <3>2. a.fact = f /\ a.age = 0
      OBVIOUS
    <3> HIDE DEF a
    <3>3. Idle \in ClientType /\ Idle.pc = "idle" /\ Idle.op = "none"
      BY DEF Idle, Off, ClientType
    <3>4. AnswerRecent'
      BY <1>1, <1>2, <3>1, <3>2 DEF AnswerRecent
    <3>5. TranslatesInOrder'
      BY <3>1, <3>3 DEF TranslatesInOrder
    <3> QED
      BY <3>1, <3>3, <3>4, <3>5
  <2> QED
    BY <2>1, <2>2
<1> QED
  BY <1>3, <1>4, <1>5, <1>6, <1>7 DEF ClientInv, ClientTypes

\* A translation that is stored is of a message the access to which was confirmed.
LEMMA StoreKeeps == ClientInv /\ StoreTranslation => ClientInv'
<1> SUFFICES ASSUME ClientInv, StoreTranslation PROVE ClientInv'
  OBVIOUS
<1>1. client.lang \in Langs /\ sinceYes <= TTL["access"]
  BY DEF StoreTranslation, At, ClientInv, TranslatesInOrder
<1>2. /\ translations' = [translations EXCEPT ![client.lang] = "confirmed"]
         \/ translations' = translations
      /\ UNCHANGED <<kept, sinceYes>>
      /\ client' = Idle /\ answer' = NoAnswer
  BY <1>1 DEF StoreTranslation, Store, EndsWith
<1>3. Idle \in ClientType /\ Idle.pc = "idle" /\ Idle.op = "none"
  BY DEF Idle, Off, ClientType
<1>4. ClientTypes'
  BY <1>2, <1>3 DEF ClientInv, ClientTypes, TranslationType
<1>5. TranslationsConfirmed'
  BY <1>1, <1>2 DEF ClientInv, ClientTypes, TranslationsConfirmed
<1>6. KeysAge' /\ AccessConfirmed'
  BY <1>2 DEF ClientInv, KeysAge, AccessConfirmed
<1>7. TranslatesInOrder'
  BY <1>2, <1>3 DEF TranslatesInOrder
<1>8. AnswerRecent'
  BY <1>2 DEF AnswerRecent, NoAnswer
<1> QED
  BY <1>4, <1>5, <1>6, <1>7, <1>8 DEF ClientInv

\* A new operation has nothing to store yet.
LEMMA TranslateKeeps ==
  ASSUME ClientInv, NEW text \in Texts, NEW lang \in Langs, NEW inContext \in BOOLEAN,
         Translate(text, lang, inContext)
  PROVE  ClientInv'
<1>1. UNCHANGED <<kept, translations, sinceYes>> /\ client = Idle
  BY DEF Translate, IsIdle
<1> DEFINE began == [Idle EXCEPT !.op = "translate", !.lang = lang, !.inContext = inContext]
<1>4. CASE client' = [began EXCEPT !.pc = "reading"] /\ answer' = NoAnswer
  <2> DEFINE x == [began EXCEPT !.pc = "reading"]
  <2>1. /\ x \in ClientType /\ x.op = "translate" /\ x.pc = "reading"
        /\ x.lang = lang /\ x.inContext = inContext
    BY DEF Idle, Off, ClientType
  <2>2. client' = x
    BY <1>4
  <2> HIDE DEF x
  <2>3. TranslatesInOrder'
    BY <2>1, <2>2 DEF TranslatesInOrder
  <2> QED
    BY <1>1, <1>4, <2>1, <2>2, <2>3, GoKeeps
<1>5. CASE /\ client' = [began EXCEPT !.fact = "access", !.pc = "looking"]
           /\ answer' = NoAnswer /\ inContext
  <2> DEFINE x == [began EXCEPT !.fact = "access", !.pc = "looking"]
  <2>1. /\ x \in ClientType /\ x.op = "translate" /\ x.pc = "looking"
        /\ x.fact = "access" /\ x.fact \in Facts
        /\ x.lang = lang /\ x.inContext = inContext
    BY DEF Idle, Off, ClientType, Facts
  <2>2. client' = x
    BY <1>5
  <2> HIDE DEF x
  <2>3. TranslatesInOrder'
    BY <1>5, <2>1, <2>2 DEF TranslatesInOrder
  <2> QED
    BY <1>1, <1>5, <2>1, <2>2, <2>3, GoKeeps
<1>6. CASE EndsWith(NoAnswer) /\ ~inContext
  BY <1>1, <1>6, EndKeeps DEF NoAnswer
<1> QED
  BY <1>4, <1>5, <1>6 DEF Translate

\* Time ages the keys and the confirmation alike.
LEMMA TickKeeps == ClientInv /\ Tick => ClientInv'
<1> SUFFICES ASSUME ClientInv, Tick PROVE ClientInv'
  OBVIOUS
<1>1. /\ kept' = [f \in Facts |-> Aged(kept[f])]
      /\ sinceYes' = IF sinceYes > TTL["access"] THEN sinceYes ELSE sinceYes + 1
      /\ client.pc # "storing"
      /\ UNCHANGED <<client, translations, answer>>
  BY DEF Tick
<1>2. \A f \in Facts : TTL[f] \in Nat /\ kept[f] \in KeyType
  BY ClientsAssumption DEF ClientInv, ClientTypes
<1>3. ASSUME NEW f \in Facts
      PROVE  /\ kept'[f] \in KeyType
             /\ kept'[f].left > 0 => /\ kept[f].left > 0
                                     /\ kept'[f].left = kept[f].left - 1
                                     /\ kept'[f].age = kept[f].age + 1
                                     /\ kept'[f].answered = kept[f].answered
  <2>1. kept'[f] = Aged(kept[f])
    BY <1>1
  <2>2. CASE kept[f].left > 1
    <3> DEFINE older == [kept[f] EXCEPT !.left = kept[f].left - 1, !.age = kept[f].age + 1]
    <3>1. kept'[f] = older
      BY <2>1, <2>2 DEF Aged
    <3>2. kept[f].left \in Nat /\ kept[f].left - 1 \in Nat /\ kept[f].age + 1 \in Nat
      BY <1>2, <2>2 DEF KeyType
    <3>3. /\ older.left = kept[f].left - 1 /\ older.age = kept[f].age + 1
          /\ older.answered = kept[f].answered
      BY <1>2 DEF KeyType
    <3>4. older \in KeyType
      BY <1>2, <3>2 DEF KeyType
    <3> HIDE DEF older
    <3> QED
      BY <2>2, <3>1, <3>2, <3>3, <3>4
  <2>3. CASE ~(kept[f].left > 1)
    <3>1. kept'[f] = Nothing
      BY <2>1, <2>3 DEF Aged
    <3> QED
      BY <3>1 DEF Nothing, KeyType
  <2> QED
    BY <2>2, <2>3
<1>4. "access" \in Facts
  BY DEF Facts
<1>5. sinceYes \in Nat /\ sinceYes' \in Nat
  BY <1>1, <1>2, <1>4 DEF ClientInv, ClientTypes
<1>6. ClientTypes'
  BY <1>1, <1>3, <1>5 DEF ClientInv, ClientTypes
<1>7. KeysAge'
  BY <1>2, <1>3 DEF ClientInv, KeysAge, KeyType
<1>8. AccessConfirmed'
  <2>1. SUFFICES ASSUME kept'["access"].left > 0
                 PROVE  sinceYes' <= kept'["access"].age
    BY DEF AccessConfirmed
  <2>2. sinceYes <= kept["access"].age
    BY <1>3, <1>4, <2>1 DEF ClientInv, AccessConfirmed
  <2>3. kept["access"].left + kept["access"].age = TTL["access"]
    BY <1>3, <1>4, <2>1 DEF ClientInv, KeysAge
  <2> QED
    BY <1>1, <1>2, <1>3, <1>4, <1>5, <2>1, <2>2, <2>3 DEF KeyType
<1>9. TranslatesInOrder' /\ TranslationsConfirmed' /\ AnswerRecent'
  BY <1>1 DEF ClientInv, TranslatesInOrder, TranslationsConfirmed, AnswerRecent
<1> QED
  BY <1>6, <1>7, <1>8, <1>9 DEF ClientInv

\* Every operation, tick and step of the gateway preserves the invariant.
LEMMA StepClientInv == ClientInv /\ [NextClients]_<<vars, clientVars>> => ClientInv'
<1> SUFFICES ASSUME ClientInv, [NextClients]_<<vars, clientVars>> PROVE ClientInv'
  OBVIOUS
<1>1. ASSUME NEW fact \in Facts, AskFact(fact) PROVE ClientInv'
  <2> DEFINE x == [Idle EXCEPT !.op = "fact", !.pc = "looking", !.fact = fact]
  <2>1. x \in ClientType /\ x.op = "fact" /\ x.pc = "looking" /\ x.fact = fact
    BY DEF Idle, Off, ClientType
  <2>2. /\ client' = x /\ answer' = NoAnswer
        /\ UNCHANGED <<kept, translations, sinceYes>>
    BY <1>1 DEF AskFact
  <2> HIDE DEF x
  <2>3. TranslatesInOrder'
    BY <2>1, <2>2 DEF TranslatesInOrder
  <2> QED
    BY <2>1, <2>2, <2>3, GoKeeps
<1>2. CASE KeyFound
  BY <1>2, FoundKeeps
<1>3. CASE KeyMissed
  BY <1>3, GotoKeeps DEF KeyMissed
<1>4. CASE FactAnswered
  BY <1>4, AnsweredKeeps
<1>5. CASE FactRefused \/ RewriteEnds \/ ModelFails
  <2>1. EndsWith(NoAnswer) /\ UNCHANGED <<kept, translations, sinceYes>>
    BY <1>5 DEF FactRefused, RewriteEnds, ModelFails
  <2> QED
    BY <2>1, EndKeeps DEF NoAnswer
<1>6. CASE Rewrite
  <2> DEFINE x == [Idle EXCEPT !.op = "rewrite", !.pc = "model"]
  <2>1. x \in ClientType /\ x.op = "rewrite" /\ x.pc = "model"
    BY DEF Idle, Off, ClientType
  <2>2. /\ client' = x /\ answer' = NoAnswer
        /\ UNCHANGED <<kept, translations, sinceYes>>
    BY <1>6 DEF Rewrite
  <2> HIDE DEF x
  <2>3. TranslatesInOrder'
    BY <2>1, <2>2 DEF TranslatesInOrder
  <2> QED
    BY <2>1, <2>2, <2>3, GoKeeps
<1>7. ASSUME NEW text \in Texts, NEW lang \in Langs,
             TranslateTool(text, lang) \/ TranslateMessage(text, lang)
      PROVE  ClientInv'
  BY <1>7, TranslateKeeps DEF TranslateTool, TranslateMessage
<1>8. CASE TranslationFound
  <2>1. EndsWith(NoAnswer) /\ UNCHANGED <<kept, translations, sinceYes>>
    BY <1>8 DEF TranslationFound
  <2> QED
    BY <2>1, EndKeeps DEF NoAnswer
<1>9. CASE AskModel
  BY <1>9, GotoKeeps DEF AskModel
<1>10. CASE ModelTranslates
  <2>1. /\ UNCHANGED <<kept, translations, sinceYes>>
        /\ client.op = "translate"
    BY <1>10 DEF ModelTranslates, At
  <2>2. CASE client.inContext
    <3> DEFINE x == [client EXCEPT !.fact = "access", !.pc = "looking"]
    <3>1. /\ x \in ClientType /\ x.op = "translate" /\ x.pc = "looking"
          /\ x.fact = "access" /\ x.fact \in Facts
          /\ x.lang = client.lang /\ x.inContext = client.inContext
      BY <2>1 DEF ClientInv, ClientTypes, ClientType, Facts
    <3>2. client' = x /\ answer' = answer
      BY <1>10, <2>2 DEF ModelTranslates, CheckAccess
    <3> HIDE DEF x
    <3>3. TranslatesInOrder'
      BY <2>1, <2>2, <3>1, <3>2 DEF ClientInv, TranslatesInOrder
    <3> QED
      BY <2>1, <3>1, <3>2, <3>3, GoKeeps
  <2>3. CASE ~client.inContext
    <3>1. EndsWith(NoAnswer) /\ NoAnswer.fact = "none"
      BY <1>10, <2>3 DEF ModelTranslates, NoAnswer
    <3> QED
      BY <2>1, <3>1, EndKeeps
  <2> QED
    BY <2>2, <2>3
<1>11. CASE StoreTranslation
  BY <1>11, StoreKeeps
<1>12. CASE Tick
  BY <1>12, TickKeeps
<1>13. ASSUME NEW lang \in Langs, Forget(lang) PROVE ClientInv'
  <2>1. /\ translations' = [translations EXCEPT ![lang] = "none"]
        /\ UNCHANGED <<client, kept, answer, sinceYes>>
    BY <1>13 DEF Forget
  <2>3. ClientTypes' /\ TranslationsConfirmed'
    BY <2>1 DEF TranslationType, ClientInv, ClientTypes, TranslationsConfirmed
  <2>4. KeysAge' /\ AccessConfirmed' /\ TranslatesInOrder' /\ AnswerRecent'
    BY <2>1 DEF ClientInv, KeysAge, AccessConfirmed, TranslatesInOrder, AnswerRecent
  <2> QED
    BY <2>3, <2>4 DEF ClientInv
<1>14. CASE UNCHANGED clientVars
  BY <1>14 DEF clientVars, ClientInv, ClientTypes, KeysAge, AccessConfirmed,
               TranslatesInOrder, TranslationsConfirmed, AnswerRecent
<1> QED
  BY <1>1, <1>2, <1>3, <1>4, <1>5, <1>6, <1>7, <1>8, <1>9, <1>10, <1>11, <1>12,
     <1>13, <1>14
  DEF NextClients, ClientStep, GatewayStep

\* The invariant holds in every state of the clients and their gateway.
THEOREM ClientInvariant == SpecClients => []ClientInv
<1>1. InitClients => ClientInv
  BY InitClientInv
<1>2. ClientInv /\ [NextClients]_<<vars, clientVars>> => ClientInv'
  BY StepClientInv
<1> QED
  BY <1>1, <1>2, PTL DEF SpecClients

\* Whatever the lifetimes are, and however often and by whomever a key is read
\* and the backend asked: what validateAccess(), classify() and
\* getConversationInfo() answer is never older than the lifetime of its key.
THEOREM AnswersAreRecent == SpecClients => []AnswerRecent
<1>1. ClientInv => AnswerRecent
  BY DEF ClientInv
<1> QED
  BY <1>1, ClientInvariant, PTL

\* No denial or failure is ever kept, and no translation is stored for a user
\* whose access was not confirmed within the lifetime of that confirmation.
THEOREM WhatIsKeptWasEarned == SpecClients => []KeptIsEarned
<1>1. ClientInv => KeptIsEarned
  BY DEF ClientInv, KeysAge, TranslationsConfirmed, KeptIsEarned
<1> QED
  BY <1>1, ClientInvariant, PTL

\* The clients use the gateway as any caller does: what is proved of the
\* gateway is so with them, too.
THEOREM ClientsKeepGateway == SpecClients => Spec
<1>1. InitClients => Init
  BY DEF InitClients
<1>2. [NextClients]_<<vars, clientVars>> => [Next]_vars
  <2>1. ASSUME ClientStep PROVE [Next]_vars
    BY <2>1 DEF ClientStep, AskFact, KeyFound, KeyMissed, FactAnswered, FactRefused, Rewrite,
                RewriteEnds, TranslateTool, TranslateMessage, Translate, TranslationFound,
                AskModel, ModelTranslates, ModelFails, StoreTranslation, Next, Kinds
  <2>2. ASSUME GatewayStep PROVE Next
    BY <2>2 DEF GatewayStep, Next
  <2> QED
    BY <2>1, <2>2 DEF NextClients, Tick, Forget
<1> QED
  BY <1>1, <1>2, PTL DEF SpecClients, Spec

AnswerType == [fact : Facts \cup {"none"}, age : Nat]

\* What the caches' invariant leaves open of the types.
AnswerTypes ==
    /\ answer \in AnswerType
    /\ sinceYes \in 0..(TTL["access"] + 1)

LEMMA AnswerTyped ==
  /\ NoAnswer \in AnswerType
  /\ \A fact \in Facts \cup {"none"}, age \in Nat :
        [fact |-> fact, age |-> age] \in AnswerType
BY DEF NoAnswer, AnswerType

LEMMA AnswerTypesStep ==
  ClientInv /\ AnswerTypes /\ [NextClients]_<<vars, clientVars>> => AnswerTypes'
<1> SUFFICES ASSUME ClientInv, AnswerTypes, [NextClients]_<<vars, clientVars>>
             PROVE  AnswerTypes'
  OBVIOUS
<1> USE DEF AnswerTypes
<1>1. /\ client \in ClientType /\ kept \in [Facts -> KeyType]
      /\ translations \in [Langs -> TranslationType]
      /\ TTL["access"] \in Nat \ {0}
  BY ClientsAssumption DEF ClientInv, ClientTypes, Facts
<1>2. ASSUME NEW age \in Nat, Known(age) PROVE answer' \in AnswerType
  <2>1. client.fact \in Facts \cup {"none"}
    BY <1>1 DEF ClientType
  <2>2. [fact |-> client.fact, age |-> age] \in AnswerType
    BY <2>1, AnswerTyped
  <2> QED
    BY <1>2, <2>2 DEF Known, EndsWith
<1>3. CASE UNCHANGED sinceYes /\ answer' \in {answer, NoAnswer}
  BY <1>3, AnswerTyped
<1>4. CASE KeyFound
  <2>1. client.fact \in Facts /\ kept[client.fact].age \in Nat
    BY <1>1, <1>4 DEF KeyFound, ClientInv, TranslatesInOrder, KeyType
  <2> QED
    BY <1>2, <1>4, <2>1, AnswerTyped DEF KeyFound
<1>5. CASE FactAnswered
  <2>1. sinceYes' \in 0..(TTL["access"] + 1)
    BY <1>1, <1>5 DEF FactAnswered
  <2> QED
    BY <1>2, <1>5, <2>1, AnswerTyped DEF FactAnswered
<1>6. ASSUME NEW text \in Texts, NEW lang \in Langs, NEW inContext \in BOOLEAN,
             Translate(text, lang, inContext)
      PROVE  AnswerTypes'
  BY <1>6, AnswerTyped DEF Translate, EndsWith
<1>7. CASE TranslationFound \/ ModelTranslates \/ StoreTranslation
  BY <1>7, AnswerTyped DEF TranslationFound, ModelTranslates, StoreTranslation, EndsWith
<1>9. CASE Tick
  BY <1>1, <1>9 DEF Tick
<1> QED
  BY <1>3, <1>4, <1>5, <1>6, <1>7, <1>9
     DEF NextClients, GatewayStep, ClientStep, AskFact, KeyMissed, FactRefused, EndsWith, Rewrite,
         RewriteEnds, TranslateTool, TranslateMessage, AskModel, ModelFails, Forget, clientVars

\* The types of the clients are right in all reachable states.
THEOREM ClientsTypeCorrect == SpecClients => []TypeOKClients
<1>1. InitClients => AnswerTypes
  BY ClientsAssumption DEF InitClients, AnswerTypes, AnswerType, NoAnswer, Facts
<1>2. ClientInv /\ AnswerTypes => TypeOKClients
  BY DEF ClientInv, ClientTypes, AnswerTypes, AnswerType, TypeOKClients, ClientType, KeyType, TranslationType
<1> QED
  BY <1>1, <1>2, InitClientInv, StepClientInv, AnswerTypesStep, PTL DEF SpecClients
=============================================================================
