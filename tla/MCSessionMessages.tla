-------------------------- MODULE MCSessionMessages --------------------------
(* SessionMessages for TLC: three exchanges, whose six messages do not fit   *)
(* into a cached list of three.                                              *)
EXTENDS SessionMessages, TLC

CONSTANTS e1, e2, e3

MCExchanges == {e1, e2, e3}
ExchangeSymmetry == Permutations(MCExchanges)
=============================================================================
