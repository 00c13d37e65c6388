----------------------------- MODULE MCAgentGraph -----------------------------
(* AgentGraph for TLC.  The thread grows with every node, so the runs are    *)
(* few.  The recursion limit lets a run rewrite twice.  An answer calls two  *)
(* tools: the second is a search, which is judged, or hides the search.      *)
EXTENDS AgentGraph

MCToolCalls ==
    {<<"search_chat_history", "search_chat_history">>, <<"search_chat_history", "other">>}
=============================================================================
