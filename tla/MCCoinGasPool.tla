---------------------------- MODULE MCCoinGasPool ----------------------------
(* CoinGasPool for TLC.                                                      *)
EXTENDS CoinGasPool, TLC

CONSTANTS r1, r2

OneRef == <<r1>>
TwoRefs == <<r1, r2>>

(* Tasks are interchangeable (safety runs only).                             *)
TaskSymmetry == Permutations(Tasks)
=============================================================================
