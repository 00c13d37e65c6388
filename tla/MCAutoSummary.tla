---------------------------- MODULE MCAutoSummary ----------------------------
(* AutoSummary for TLC: five messages and a threshold of two, so that        *)
(* batches meet.                                                             *)
EXTENDS AutoSummary, TLC

CONSTANTS m1, m2, m3, m4, m5

MCMessages == {m1, m2, m3, m4, m5}
MessageSymmetry == Permutations(MCMessages)
=============================================================================
