--------------------------- MODULE MCModelClients ---------------------------
(* ModelClients over LlmGateway for TLC: other callers under every           *)
(* configuration of the providers, and the clients under one.                *)
EXTENDS ModelClients

MCTexts == {"original", "other"}
MCLangs == {"vi", "en"}
MCTraits == [t \in MCTexts |-> [marks |-> FALSE, vi |-> IF t = "original" THEN 2 ELSE 1,
                               en |-> 1]]
MCTTL == [f \in Facts |-> IF f = "route" THEN 2 ELSE 1]
MCConfig == [default |-> "groq", fallback |-> "gemini"]
=============================================================================
