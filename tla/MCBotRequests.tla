---------------------------- MODULE MCBotRequests ----------------------------
(* BotRequests for TLC: an agent job and, in the same conversation or in     *)
(* another, a tool job or a streaming ask.                                   *)
EXTENDS BotRequests, TLC

CONSTANTS a1, q1, s1, c1, c2

\* The worker's queue: both jobs in one conversation.
QueueRequests == {a1, q1}
QueueConvOf == a1 :> c1 @@ q1 :> c1
QueueKindOf == a1 :> "agent" @@ q1 :> "summary"

\* The fast path next to the queue, in another conversation.
StreamRequests == {a1, s1}
StreamConvOf == a1 :> c1 @@ s1 :> c2
StreamKindOf == a1 :> "agent" @@ s1 :> "askStream"

\* One job, for the counterexamples.
SingleRequests == {a1}
SingleConvOf == a1 :> c1
SingleKindOf == a1 :> "agent"

OneConversation == {c1}
TwoConversations == {c1, c2}
=============================================================================
