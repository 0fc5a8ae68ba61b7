------------------------------ MODULE CoinLease ------------------------------
(***************************************************************************)
(* What the coin gas pool promises: every gas coin is pooled, leased to    *)
(* exactly one submission, or away (the caller's own coin, or one that an  *)
(* abandoned submission took with it).  A lease goes from the pool to one  *)
(* submission that has none and back, in one step each.                    *)
(***************************************************************************)
CONSTANTS
    Tasks, Coins,
    Pooled, Away     \* two owners that are not tasks

VARIABLE owner

Init == owner \in [Coins -> {Pooled, Away}]

Lease(t, c) ==
    /\ owner[c] = Pooled
    /\ \A d \in Coins : owner[d] # t
    /\ owner' = [owner EXCEPT ![c] = t]

GiveBack(t, c) ==
    /\ owner[c] = t
    /\ owner' = [owner EXCEPT ![c] = Pooled]

TakeAway(t, c) ==
    /\ owner[c] = t
    /\ owner' = [owner EXCEPT ![c] = Away]

Deposit(c) ==
    /\ owner[c] = Away
    /\ owner' = [owner EXCEPT ![c] = Pooled]

Next ==
    \E c \in Coins :
        \/ Deposit(c)
        \/ \E t \in Tasks : Lease(t, c) \/ GiveBack(t, c) \/ TakeAway(t, c)

Spec == Init /\ [][Next]_owner
=============================================================================
