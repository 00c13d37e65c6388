------------------------------ MODULE LlmGateway ------------------------------
(***************************************************************************)
(* LlmGatewayService and AbortUtils: the calls one request makes to the    *)
(* language models, one after the other, under one AbortSignal.            *)
(*                                                                         *)
(* A stream is a nest of generators, in the gateway and in the service of  *)
(* the provider, and most of them are wrapped in abortableStream(); a text *)
(* is a promise wrapped in withAbort() likewise.  Each wrapper has a       *)
(* listener on the signal.  What passes through all of them in one round   *)
(* of microtasks is one step.  A text or a thought is a chunk.             *)
(***************************************************************************)
EXTENDS Integers, Sequences

CONSTANT MaxCalls  \* bound: how many calls the request makes

ASSUME LlmAssumption == MaxCalls \in Nat

VARIABLES
    config,     \* DEFAULT_LLM_PROVIDER and FALLBACK_LLM_PROVIDER
    aborted,    \* signal.aborted
    call,       \* the call that is running, or the last one
    calls,      \* how many calls were made
    listeners   \* how many abort listeners of the wrappers the signal has

vars == <<config, aborted, call, calls, listeners>>

Providers == {"gemini", "groq", "openai"}

\* streamTextWithThinking, generateText and structured.
Kinds == {"think", "generate", "structured"}

\* Which catch block a failure of the provider ends in: that of the thinking
\* stream, that of streamText or generateText, or none that goes on.
Stages == {"thinking", "plain", "last"}

\* waiting: for the provider.  held: the consumer works on a chunk.
Running == {"waiting", "held"}
Ended == {"none", "answered", "failed", "cancelled"}

\* tried: the providers called.
Call == [kind : Kinds, signalled : BOOLEAN, stage : Stages,
         pc : Running \cup Ended, tried : Seq(Providers)]

TypeOK ==
    /\ config \in [default : Providers, fallback : Providers]
    /\ aborted \in BOOLEAN
    /\ call \in Call
    /\ calls \in 0..MaxCalls
    /\ listeners \in Nat

Init ==
    /\ config \in [default : Providers, fallback : Providers]
    /\ aborted = FALSE
    /\ call = [kind |-> "generate", signalled |-> FALSE, stage |-> "last",
               pc |-> "none", tried |-> <<>>]
    /\ calls = 0 /\ listeners = 0

-----------------------------------------------------------------------------
IsRunning == call.pc \in Running
Waits == call.pc = "waiting"
IsCancelled == call.signalled /\ aborted
Provider == call.tried[Len(call.tried)]

\* No caller names a model; the thinking stream falls back to a llama.
GetProvider(model) == IF model = "llama" THEN "groq" ELSE config.default

\* Mutated: the provider that failed may be the configured fallback.
FallbackAsConfigured(current) == config.fallback

GetFallbackProvider(current) ==
    IF config.fallback # current THEN config.fallback
    ELSE IF current = "gemini" THEN "groq" ELSE "gemini"

FirstStage(kind) ==
    CASE kind = "structured" -> "last"
      [] kind = "think" /\ GetProvider("none") = "gemini" -> "thinking"
      [] OTHER -> "plain"

FirstProvider(kind) == IF kind = "structured" THEN "openai" ELSE GetProvider("none")

NextStage == IF call.stage = "thinking" THEN "plain" ELSE "last"

ThinkingFallback ==
    GetProvider(IF GetFallbackProvider("gemini") = "groq" THEN "llama" ELSE "none")

\* streamText() streams from Groq whatever the fallback is, if not Gemini.
PlainFallback ==
    LET fallback == GetFallbackProvider(Provider) IN
    IF call.kind = "generate" \/ fallback = "gemini" THEN fallback ELSE "groq"

NextProvider == IF call.stage = "thinking" THEN ThinkingFallback ELSE PlainFallback

\* Wrappers of the gateway: streamText() has its own inside of the outer one.
GatewayLayers(kind, stage) == IF kind = "think" /\ stage # "thinking" THEN 2 ELSE 1

\* Gemini's streamText() wraps its own streamTextWithThinking(); the OpenAI
\* service leaves the signal to its client.
ProviderLayers(kind, stage, provider) ==
    CASE provider = "openai" -> 0
      [] provider = "gemini" /\ kind = "think" /\ stage # "thinking" -> 2
      [] OTHER -> 1

Layers(c) ==
    IF c.signalled
    THEN GatewayLayers(c.kind, c.stage)
         + ProviderLayers(c.kind, c.stage, c.tried[Len(c.tried)])
    ELSE 0

-----------------------------------------------------------------------------
NewCall(kind, signalled, stage, pc, tried) ==
    [kind |-> kind, signalled |-> signalled, stage |-> stage, pc |-> pc, tried |-> tried]

\* All layers return or throw, and remove their listeners in a finally.
EndWith(pc) ==
    /\ call' = [call EXCEPT !.pc = pc]
    /\ listeners' = listeners - Layers(call)

\* structured() is called without a signal, streamTextWithThinking() with one.
Begin(kind, signalled) ==
    /\ ~IsRunning /\ calls < MaxCalls
    /\ kind = "structured" => ~signalled
    /\ kind = "think" => signalled
    /\ ~(signalled /\ aborted)
    /\ call' = NewCall(kind, signalled, FirstStage(kind), "waiting",
                       <<FirstProvider(kind)>>)
    /\ calls' = calls + 1
    /\ listeners' = listeners + Layers(call')
    /\ UNCHANGED <<config, aborted>>

\* The outermost abortableStream() throws before the generators start.
StreamTooLate ==
    /\ ~IsRunning /\ calls < MaxCalls /\ aborted
    /\ call' = NewCall("think", TRUE, "last", "cancelled", <<>>)
    /\ calls' = calls + 1
    /\ UNCHANGED <<config, aborted, listeners>>

\* The promise starts before withAbort() looks at the signal, and so does the
\* one in the provider's service: the provider is called and throws an
\* AbortError, or Groq has no key and the next is called.  Their errors go to
\* promises that nobody waits for, and the caller gets one of its own.
GenerateTooLate ==
    /\ ~IsRunning /\ calls < MaxCalls /\ aborted
    /\ LET first == GetProvider("none") IN
       \E tried \in {<<first>>, <<first, GetFallbackProvider(first)>>} :
          /\ Len(tried) = 2 => first = "groq"
          /\ call' = NewCall("generate", TRUE, "last", "cancelled", tried)
    /\ calls' = calls + 1
    /\ UNCHANGED <<config, aborted, listeners>>

-----------------------------------------------------------------------------
\* The text, or the end of a stream, which OpenAI does not have.
Answer ==
    /\ Waits /\ ~IsCancelled
    /\ ~(call.kind = "think" /\ Provider = "openai")
    /\ EndWith("answered")
    /\ UNCHANGED <<config, aborted, calls>>

Yield ==
    /\ Waits /\ ~IsCancelled /\ call.kind = "think"
    /\ call' = [call EXCEPT !.pc = "held"]
    /\ UNCHANGED <<config, aborted, calls, listeners>>

\* OpenAI's text is the only chunk.
Pull ==
    /\ call.pc = "held" /\ ~IsCancelled
    /\ IF Provider = "openai"
       THEN EndWith("answered")
       ELSE call' = [call EXCEPT !.pc = "waiting"] /\ UNCHANGED listeners
    /\ UNCHANGED <<config, aborted, calls>>

\* Mutated: the layers of the provider that failed stay.
FallBackWithoutFinally ==
    /\ Waits /\ ~IsCancelled /\ call.stage # "last"
    /\ call' = [call EXCEPT !.stage = NextStage, !.tried = Append(@, NextProvider)]
    /\ listeners' = listeners + Layers(call')
    /\ UNCHANGED <<config, aborted, calls>>

\* The provider fails, perhaps after some chunks; the next one starts anew.
FallBack ==
    /\ Waits /\ ~IsCancelled /\ call.stage # "last"
    /\ call' = [call EXCEPT !.stage = NextStage, !.tried = Append(@, NextProvider)]
    /\ listeners' = listeners - Layers(call) + Layers(call')
    /\ UNCHANGED <<config, aborted, calls>>

Fail ==
    /\ Waits /\ ~IsCancelled /\ call.stage = "last"
    /\ EndWith("failed")
    /\ UNCHANGED <<config, aborted, calls>>

\* The message of the error contains "aborted": it passes all catch blocks.
FailAsAbort ==
    /\ Waits /\ ~IsCancelled
    /\ EndWith("cancelled")
    /\ UNCHANGED <<config, aborted, calls>>

Abort ==
    /\ ~aborted
    /\ aborted' = TRUE
    /\ UNCHANGED <<config, call, calls, listeners>>

\* Mutated: a stream is only looked after between two chunks.
CancelWaitingText ==
    /\ Waits /\ IsCancelled /\ call.kind # "think"
    /\ EndWith("cancelled")
    /\ UNCHANGED <<config, aborted, calls>>

\* Every layer loses its race against the abort; the provider goes on unheard.
CancelWaiting ==
    /\ Waits /\ IsCancelled
    /\ EndWith("cancelled")
    /\ UNCHANGED <<config, aborted, calls>>

\* The outermost layer throws without asking the next one, and removes its own
\* listener; the inner ones stay where they are.
CancelHeld ==
    /\ call.pc = "held" /\ IsCancelled
    /\ call' = [call EXCEPT !.pc = "cancelled"]
    /\ listeners' = listeners - 1
    /\ UNCHANGED <<config, aborted, calls>>

-----------------------------------------------------------------------------
Next ==
    \/ \E kind \in Kinds, signalled \in BOOLEAN : Begin(kind, signalled)
    \/ StreamTooLate \/ GenerateTooLate
    \/ Answer \/ Yield \/ Pull
    \/ FallBack \/ Fail \/ FailAsAbort
    \/ Abort \/ CancelWaiting \/ CancelHeld

Spec == Init /\ [][Next]_vars

\* Node runs the listeners and the consumer goes on; a provider may be silent
\* for ever, since the gateway has no timeout.
FairSpec == Spec /\ WF_vars(CancelWaiting) /\ WF_vars(Pull \/ CancelHeld)

-----------------------------------------------------------------------------
(* Properties.                                                             *)

\* A provider that failed is not tried again at once, although two nested
\* catch blocks choose a fallback, one by the name of a model; unless the
\* configured fallback is OpenAI, which the streams replace.
FallbackElsewhere ==
    config.fallback # "openai" =>
        \A i \in 1..Len(call.tried) - 1 : call.tried[i] # call.tried[i + 1]

\* A call that has ended, in whichever of up to four nested wrappers, has left
\* no listener on a signal that may still fire: the request makes more calls
\* with it.
NoLiveListener == ~IsRunning /\ listeners > 0 => aborted

\* A cancelled call ends, whatever stage it is in and even if the provider
\* never answers.
AbortEndsCall == IsRunning /\ IsCancelled ~> ~IsRunning
=============================================================================
