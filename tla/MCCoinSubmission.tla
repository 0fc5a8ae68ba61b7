--------------------------- MODULE MCCoinSubmission ---------------------------
(* CoinSubmission for TLC.                                                   *)
EXTENDS CoinSubmission, TLC

CONSTANTS c1, c2, t1, t2, t3

OneCoin == <<c1>>
TwoCoins == <<c1, c2>>

(* Tasks are interchangeable (safety runs only).                             *)
TaskSymmetry == Permutations(Tasks)
===============================================================================
