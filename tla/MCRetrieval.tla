---------------------------- MODULE MCRetrieval -----------------------------
(* Retrieval over MessageIndex for TLC.  Numbers have gaps from 8 on: 8 and   *)
(* 9 share a point.                                                           *)
EXTENDS Retrieval, TLC

CONSTANTS c1, c2

MCMessageId == <<7, 8, 9>>
MCConvOf == <<c1, c1, c2>>
MCShort == {{}, {2}}
MCNoText == {2}
MCPlans == {[recentLimit |-> 2, qdrantLimit |-> 1, maxRewriteQueries |-> 0, rerankTopN |-> 1],
            [recentLimit |-> 3, qdrantLimit |-> 1, maxRewriteQueries |-> 1, rerankTopN |-> 1]}
MCRanges == {1..3, 2..2}
\* The two that wipe and fill.  The one that only wipes and the one that only
\* fills do nothing that these do not.
WipingScripts == {[name |-> "backfill", conv |-> "all"],
                  [name |-> "conversationClear", conv |-> c1]}
=============================================================================
