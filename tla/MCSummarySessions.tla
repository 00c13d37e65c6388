-------------------------- MODULE MCSummarySessions --------------------------
(* SummarySessions for TLC: a request for the latest messages and one for a  *)
(* range.                                                                    *)
EXTENDS SummarySessions

CONSTANTS r1, c1

MCRequests == {r1, c1}
MCCustomRequests == {c1}
=============================================================================
