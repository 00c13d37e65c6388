---------------------------- MODULE MCAskPipeline ----------------------------
(* AskPipeline for TLC: a streaming ask and a queued one with the same       *)
(* question, so that each may answer from what the other has cached.         *)
EXTENDS AskPipeline, TLC

CONSTANTS s1, j1, x

MCAsks == {s1, j1}
MCQuestionOf == s1 :> x @@ j1 :> x
MCIsStreaming == s1 :> TRUE @@ j1 :> FALSE
=============================================================================
