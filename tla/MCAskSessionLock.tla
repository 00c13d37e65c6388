-------------------------- MODULE MCAskSessionLock --------------------------
(* AskSessionLock for TLC: two concurrent calls.  The theorems stand for any *)
(* number of them.                                                           *)
EXTENDS AskSessionLock

CONSTANTS a1, a2

MCCallers == {a1, a2}
=============================================================================
