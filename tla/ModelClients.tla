---------------------------- MODULE ModelClients ----------------------------
(***************************************************************************)
(* RouterService, TranslateService and the cached calls of                 *)
(* InternalClientService: what they ask of the language models, through    *)
(* LlmGateway, and of the chat backend, and for how long they keep it in   *)
(* Redis.                                                                  *)
(*                                                                         *)
(* One conversation, user, question and message; operations come one after *)
(* the other, of whichever requests.  A Redis key with a fixed lifetime    *)
(* has the ticks that are left of it; the thirty days of a translation,    *)
(* which every read begins anew, may end at any time.  A question that     *)
(* names a day is answered relative to now, so what is kept has an age.    *)
(* The chain that classifies, the chat backend and Redis are external.     *)
(***************************************************************************)
EXTENDS LlmGateway

CONSTANTS
    Langs,        \* target languages
    Texts,        \* texts that requests bring along for the message
    Traits,       \* what detectLikelySourceLang() sees in a text
    TTL,          \* lifetime of each fact, in ticks
    ClientConfig  \* bound: the configuration in which the clients are run

\* validateAccess(), RouterService.classify() and getConversationInfo().
Facts == {"access", "route", "info"}

ASSUME ClientsAssumption ==
    /\ Traits \in [Texts -> [marks : BOOLEAN, vi : Nat, en : Nat]]
    /\ TTL \in [Facts -> Nat \ {0}]
    /\ ClientConfig \in [default : Providers, fallback : Providers]

VARIABLES
    client,        \* the running operation: op, pc, fact, lang, inContext
    kept,          \* the key of a fact: left, age, and whether it was answered
    translations,  \* the key of the message and a language: whether a translation is
                   \* there, and if the access was confirmed when it was stored
    answer,        \* the fact that the last operation answered with
    sinceYes       \* history: ticks since the backend confirmed the access

clientVars == <<client, kept, translations, answer, sinceYes>>

NoAnswer == [fact |-> "none", age |-> 0]
Nothing == [left |-> 0, age |-> 0, answered |-> FALSE]

\* Of the operations none is made: the gateway's callers are others.
Off == [op |-> "off", pc |-> "idle", fact |-> "none", lang |-> "none", inContext |-> FALSE]
Idle == [Off EXCEPT !.op = "none"]

TypeOKClients ==
    /\ client \in [op : {"off", "none", "fact", "rewrite", "translate"},
                   pc : {"idle", "looking", "asking", "reading", "model", "storing"},
                   fact : Facts \cup {"none"}, lang : Langs \cup {"none"},
                   inContext : BOOLEAN]
    /\ kept \in [Facts -> [left : Nat, age : Nat, answered : BOOLEAN]]
    /\ translations \in [Langs -> {"none", "confirmed", "unconfirmed"}]
    /\ answer \in [fact : Facts \cup {"none"}, age : Nat]
    /\ sinceYes \in 0..(TTL["access"] + 1)

InitClients ==
    /\ Init
    /\ (client = Off \/ (client = Idle /\ config = ClientConfig))
    /\ kept = [f \in Facts |-> Nothing]
    /\ translations = [l \in Langs |-> "none"]
    /\ answer = NoAnswer
    /\ sinceYes = TTL["access"] + 1

-----------------------------------------------------------------------------
IsIdle == client = Idle
At(op, pc) == client.op = op /\ client.pc = pc
Goto(pc) == client' = [client EXCEPT !.pc = pc]

\* The operation ends, without an answer if it throws or was denied.
EndsWith(result) == client' = Idle /\ answer' = result

-----------------------------------------------------------------------------
(* Facts: classify(), getConversationInfo(), and validateAccess(), which   *)
(* translate() calls too.                                                  *)

AskFact(fact) ==
    /\ IsIdle
    /\ client' = [Idle EXCEPT !.op = "fact", !.pc = "looking", !.fact = fact]
    /\ answer' = NoAnswer
    /\ UNCHANGED <<vars, kept, translations, sinceYes>>

\* What the fact is needed for goes on.
Known(age) ==
    IF client.op = "translate" THEN Goto("storing") /\ UNCHANGED answer
    ELSE EndsWith([fact |-> client.fact, age |-> age])

\* Mutated: reading a key renews it, as it does for translations.
KeyFoundRenewed ==
    /\ client.pc = "looking" /\ kept[client.fact].left > 0
    /\ kept' = [kept EXCEPT ![client.fact].left = TTL[client.fact]]
    /\ Known(kept[client.fact].age)
    /\ UNCHANGED <<vars, translations, sinceYes>>

KeyFound ==
    /\ client.pc = "looking" /\ kept[client.fact].left > 0
    /\ Known(kept[client.fact].age)
    /\ UNCHANGED <<vars, kept, translations, sinceYes>>

\* There is none, or Redis cannot say.
KeyMissed ==
    /\ client.pc = "looking"
    /\ Goto("asking")
    /\ UNCHANGED <<vars, kept, translations, answer, sinceYes>>

\* setex(), the errors of which are swallowed.
Keep(answered) ==
    \/ kept' = [kept EXCEPT ![client.fact] =
                   [left |-> TTL[client.fact], age |-> 0, answered |-> answered]]
    \/ UNCHANGED kept

\* The backend, or the classifying model, answers,
FactAnswered ==
    /\ client.pc = "asking"
    /\ Keep(TRUE)
    /\ Known(0)
    /\ sinceYes' = IF client.fact = "access" THEN 0 ELSE sinceYes
    /\ UNCHANGED <<vars, translations>>

\* or denies, or fails: access is denied, the router wants a clarification or
\* is cancelled, the conversation's data are left out.
FactRefused ==
    /\ client.pc = "asking"
    /\ EndsWith(NoAnswer)
    /\ UNCHANGED <<vars, kept, translations, sinceYes>>

-----------------------------------------------------------------------------
(* rewriteForClarity(), under the signal of its request.                   *)

Rewrite ==
    /\ IsIdle
    /\ Begin("generate", TRUE) \/ GenerateTooLate
    /\ client' = [Idle EXCEPT !.op = "rewrite", !.pc = "model"]
    /\ answer' = NoAnswer
    /\ UNCHANGED <<kept, translations, sinceYes>>

\* The new text; the old one, if the model failed; or the AbortError.
RewriteEnds ==
    /\ At("rewrite", "model") /\ call.pc \in Ended
    /\ EndsWith(NoAnswer)
    /\ UNCHANGED <<vars, kept, translations, sinceYes>>

-----------------------------------------------------------------------------
(* translate() of a text that was validated.  Only executeTool() names the *)
(* conversation, the user and the message, if it has one.                  *)

\* detectLikelySourceLang(): letters with marks that Vietnamese has, and French
\* too, decide at once; else the words of the two lists of hints do.
SourceLang(text) ==
    LET seen == Traits[text] IN
    IF seen.marks \/ (seen.vi >= 2 /\ seen.vi > seen.en) THEN "vi"
    ELSE IF seen.en >= 2 /\ seen.en > seen.vi THEN "en"
    ELSE "unknown"

CheckAccess == client' = [client EXCEPT !.fact = "access", !.pc = "looking"]

Translate(text, lang, inContext) ==
    /\ IsIdle
    /\ LET began == [Idle EXCEPT !.op = "translate", !.lang = lang, !.inContext = inContext]
       IN \/ /\ SourceLang(text) # lang
             /\ client' = [began EXCEPT !.pc = "reading"]
             /\ answer' = NoAnswer
          \/ /\ SourceLang(text) = lang /\ inContext
             /\ client' = [began EXCEPT !.fact = "access", !.pc = "looking"]
             /\ answer' = NoAnswer
          \/ /\ SourceLang(text) = lang /\ ~inContext
             /\ EndsWith(NoAnswer)
    /\ UNCHANGED <<vars, kept, translations, sinceYes>>

\* translate_message of the graph: no conversation and no message.
TranslateTool(text, lang) == Translate(text, lang, FALSE)

\* executeTool(): a text, or that of the message it names.
TranslateMessage(text, lang) == Translate(text, lang, TRUE)

\* The message's translation is there, whoever asked for it, and of whatever text
\* was brought along then: the key has the message and the language.
TranslationFound ==
    /\ At("translate", "reading") /\ client.inContext
    /\ translations[client.lang] # "none"
    /\ EndsWith(NoAnswer)
    /\ UNCHANGED <<vars, kept, translations, sinceYes>>

\* None, or no message, or no Redis: the model is asked, without a signal.
AskModel ==
    /\ At("translate", "reading")
    /\ Begin("generate", FALSE)
    /\ Goto("model")
    /\ UNCHANGED <<kept, translations, answer, sinceYes>>

Store ==
    \/ translations' = [translations EXCEPT ![client.lang] =
            IF sinceYes <= TTL["access"] THEN "confirmed" ELSE "unconfirmed"]
    \/ UNCHANGED translations

\* Mutated: the translation is stored before the access is checked.
ModelTranslatesStores ==
    /\ At("translate", "model") /\ call.pc = "answered"
    /\ IF client.inContext THEN Store /\ CheckAccess /\ UNCHANGED answer
       ELSE EndsWith(NoAnswer) /\ UNCHANGED translations
    /\ UNCHANGED <<vars, kept, sinceYes>>

ModelTranslates ==
    /\ At("translate", "model") /\ call.pc = "answered"
    /\ IF client.inContext THEN CheckAccess /\ UNCHANGED answer
       ELSE EndsWith(NoAnswer)
    /\ UNCHANGED <<vars, kept, translations, sinceYes>>

ModelFails ==
    /\ At("translate", "model") /\ call.pc \in Ended \ {"answered"}
    /\ EndsWith(NoAnswer)
    /\ UNCHANGED <<vars, kept, translations, sinceYes>>

\* setTranslationCache(), and the answer.
StoreTranslation ==
    /\ At("translate", "storing")
    /\ Store
    /\ EndsWith(NoAnswer)
    /\ UNCHANGED <<vars, kept, sinceYes>>

-----------------------------------------------------------------------------
(* Time.                                                                   *)

Aged(k) == IF k.left > 1 THEN [k EXCEPT !.left = @ - 1, !.age = @ + 1] ELSE Nothing

\* A key that is found is answered in the same tick, and an answer is kept in
\* the tick in which it came.
Tick ==
    /\ client.op # "off"
    /\ kept' = [f \in Facts |-> Aged(kept[f])]
    /\ sinceYes' = IF sinceYes > TTL["access"] THEN sinceYes ELSE sinceYes + 1
    /\ client.pc # "storing"
    /\ UNCHANGED <<vars, client, translations, answer>>

Forget(lang) ==
    /\ translations[lang] # "none"
    /\ translations' = [translations EXCEPT ![lang] = "none"]
    /\ UNCHANGED <<vars, client, kept, answer, sinceYes>>

-----------------------------------------------------------------------------
\* The gateway's own steps, and the calls of others.
GatewayStep ==
    /\ \/ client.op = "off" /\ Next
       \/ /\ client.op # "off"
          /\ Answer \/ FallBack \/ Fail \/ FailAsAbort \/ Abort \/ CancelWaiting
    /\ UNCHANGED clientVars

ClientStep ==
    \/ \E fact \in Facts : AskFact(fact)
    \/ KeyFound \/ KeyMissed \/ FactAnswered \/ FactRefused
    \/ Rewrite \/ RewriteEnds
    \/ \E text \in Texts, lang \in Langs :
          TranslateTool(text, lang) \/ TranslateMessage(text, lang)
    \/ TranslationFound \/ AskModel \/ ModelTranslates \/ ModelFails \/ StoreTranslation

NextClients == GatewayStep \/ ClientStep \/ Tick \/ \E lang \in Langs : Forget(lang)

SpecClients == InitClients /\ [][NextClients]_<<vars, clientVars>>

\* As of the gateway: Node runs the listeners and the consumer goes on.
FairSpecClients ==
    /\ SpecClients
    /\ WF_vars(CancelWaiting) /\ WF_vars(Pull \/ CancelHeld)

-----------------------------------------------------------------------------
(* Properties.                                                             *)

\* Access that is confirmed, an intent with its dates and a conversation's
\* data are never older than the lifetime of their key, however often they
\* are read: only translations are renewed by reading.
AnswerRecent == answer.fact # "none" => answer.age <= TTL[answer.fact]

\* What the caches hold was answered: no denial, failure or stand-in for one
\* is kept; and a translation was stored while the user's access, which is
\* checked after the model has worked, was confirmed.
KeptIsEarned ==
    /\ \A f \in Facts : kept[f].left > 0 => kept[f].answered
    /\ \A l \in Langs : translations[l] \in {"none", "confirmed"}
=============================================================================
