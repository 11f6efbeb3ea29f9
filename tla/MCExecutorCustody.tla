-------------------------- MODULE MCExecutorCustody --------------------------
(* Instances of ExecutorCustody for TLC.                                      *)
EXTENDS ExecutorCustody, TLC

CONSTANTS t1, t2, t3, mint, rug, other

ThreeTrades == {t1, t2, t3}
TradeSymmetry == Permutations(Trades)
=============================================================================
