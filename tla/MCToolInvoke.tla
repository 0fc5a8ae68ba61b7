----------------------------- MODULE MCToolInvoke -----------------------------
(* ToolInvoke for TLC.  Requests, nonces and leaders are interchangeable.    *)
EXTENDS ToolInvoke, TLC
Symmetry == Permutations(Requests) \cup Permutations(Nonces) \cup Permutations(Leaders)
================================================================================
