----------------------------- MODULE CoinGasPool -----------------------------
(***************************************************************************)
(* The shared owned-coin gas source of a NexusClient                       *)
(* (sdk/src/nexus/client.rs, CoinGasPool).  The coins are a Vec behind a   *)
(* tokio Mutex; tasks that find it empty wait on a tokio Notify.  The lock *)
(* is never held across an await other than its own, so taking it, pushing *)
(* or popping, and dropping it is one step.  Everything between two such   *)
(* steps may interleave: the client is cloned into tasks of a              *)
(* multi-threaded runtime.                                                 *)
(*                                                                         *)
(* Notify (external) is modelled from its use: notified() registers a      *)
(* waiter only when it is first polled, notify_one() wakes the longest     *)
(* waiting one or, when there is none, leaves ONE permit, however often it *)
(* is called.                                                              *)
(***************************************************************************)
EXTENDS Naturals, Sequences

CONSTANTS
    Tasks,           \* concurrent callers of submit_transaction
    Refs,            \* references of owned coins
    NoRef,           \* "holds no coin"
    InitialRefs,     \* the gas_coins given to the builder, in order
    CanDrop,         \* may a caller drop its future, or signing fail?
    MaxSubmissions   \* bound: submissions started by each task

ASSUME NoRefAssumption == NoRef \notin Refs

(* The builder refuses an empty list; that the caller owns each coin once   *)
(* is the caller's business.                                                *)
ASSUME InitialRefsAssumption ==
    /\ InitialRefs \in Seq(Refs)
    /\ InitialRefs # <<>>
    /\ \A i, j \in 1..Len(InitialRefs) : InitialRefs[i] = InitialRefs[j] => i = j

(* The names of the two owners that are not tasks (OwnerOf below).          *)
ASSUME TasksAssumption == {"pooled", "away"} \cap Tasks = {}

ASSUME BoundsAssumption == CanDrop \in BOOLEAN /\ MaxSubmissions \in Nat

VARIABLES
    pool,      \* the Vec: released at the end, acquired from the end
    permit,    \* Notify: is a permit stored?
    parked,    \* Notify: the registered waiters, longest waiting first
    pc,        \* where each task is
    holding,   \* the coin a task has acquired
    left       \* the submissions a task may still start

vars == <<pool, permit, parked, pc, holding, left>>

(* "acquire"       about to lock the Vec and pop                            *)
(* "unregistered"  saw it empty, notified() not polled yet                  *)
(* "parked"        registered with Notify                                   *)
(* "woken"         notified, not polled yet                                 *)
(* "holding"       owns a coin                                              *)
(* "pushed"        pushed a coin, notify_one() not called yet               *)
Stages == {"idle", "acquire", "unregistered", "parked", "woken", "holding", "pushed"}

TypeOK ==
    /\ pool \in Seq(Refs)
    /\ permit \in BOOLEAN
    /\ parked \in Seq(Tasks)
    /\ pc \in [Tasks -> Stages]
    /\ holding \in [Tasks -> Refs \cup {NoRef}]
    /\ left \in [Tasks -> 0..MaxSubmissions]

Init ==
    /\ pool = InitialRefs
    /\ permit = FALSE
    /\ parked = <<>>
    /\ pc = [t \in Tasks |-> "idle"]
    /\ holding = [t \in Tasks |-> NoRef]
    /\ left = [t \in Tasks |-> MaxSubmissions]

Pooled == {pool[i] : i \in 1..Len(pool)}
Held == {holding[t] : t \in Tasks} \ {NoRef}

Start(t) ==
    /\ pc[t] = "idle"
    /\ left[t] > 0
    /\ left' = [left EXCEPT ![t] = @ - 1]
    /\ pc' = [pc EXCEPT ![t] = "acquire"]
    /\ UNCHANGED <<pool, permit, parked, holding>>

(* Mutants of PopCoin: clone the last coin instead of popping it; read the   *)
(* last coin but remove the first.                                           *)
PeekCoin(t) ==
    /\ pc[t] = "acquire"
    /\ pool # <<>>
    /\ holding' = [holding EXCEPT ![t] = pool[Len(pool)]]
    /\ pc' = [pc EXCEPT ![t] = "holding"]
    /\ UNCHANGED <<pool, permit, parked, left>>

PopWrongEnd(t) ==
    /\ pc[t] = "acquire"
    /\ pool # <<>>
    /\ holding' = [holding EXCEPT ![t] = pool[Len(pool)]]
    /\ pool' = Tail(pool)
    /\ pc' = [pc EXCEPT ![t] = "holding"]
    /\ UNCHANGED <<permit, parked, left>>

PopCoin(t) ==
    /\ pc[t] = "acquire"
    /\ pool # <<>>
    /\ holding' = [holding EXCEPT ![t] = pool[Len(pool)]]
    /\ pool' = SubSeq(pool, 1, Len(pool) - 1)
    /\ pc' = [pc EXCEPT ![t] = "holding"]
    /\ UNCHANGED <<permit, parked, left>>

FoundEmpty(t) ==
    /\ pc[t] = "acquire"
    /\ pool = <<>>
    /\ pc' = [pc EXCEPT ![t] = "unregistered"]
    /\ UNCHANGED <<pool, permit, parked, holding, left>>

(* The first poll of notified(): take the permit, or register.              *)
ConsumePermit(t) ==
    /\ pc[t] = "unregistered"
    /\ permit
    /\ permit' = FALSE
    /\ pc' = [pc EXCEPT ![t] = "acquire"]
    /\ UNCHANGED <<pool, parked, holding, left>>

Park(t) ==
    /\ pc[t] = "unregistered"
    /\ ~permit
    /\ parked' = Append(parked, t)
    /\ pc' = [pc EXCEPT ![t] = "parked"]
    /\ UNCHANGED <<pool, permit, holding, left>>

Resume(t) ==
    /\ pc[t] = "woken"
    /\ pc' = [pc EXCEPT ![t] = "acquire"]
    /\ UNCHANGED <<pool, permit, parked, holding, left>>

(* notify_one(), called by a task that moves on to "idle".                  *)
WakeOneAndLeave(t) ==
    \/ /\ parked = <<>>
       /\ permit' = TRUE
       /\ pc' = [pc EXCEPT ![t] = "idle"]
       /\ UNCHANGED parked
    \/ /\ parked # <<>>
       /\ parked' = Tail(parked)
       /\ pc' = [pc EXCEPT ![t] = "idle", ![Head(parked)] = "woken"]
       /\ UNCHANGED permit

(* Mutant of PushCoin: also release on leaving the wait without a coin.      *)
PushUnacquired(t, r) ==
    /\ pc[t] \in {"holding", "woken"}
    /\ pool' = Append(pool, r)
    /\ holding' = [holding EXCEPT ![t] = NoRef]
    /\ pc' = [pc EXCEPT ![t] = "pushed"]
    /\ UNCHANGED <<permit, parked, left>>

(* release_gas_coin, in its two steps: r is the reference to the held coin  *)
(* once execute_tx is through with it.                                      *)
PushCoin(t, r) ==
    /\ pc[t] = "holding"
    /\ pool' = Append(pool, r)
    /\ holding' = [holding EXCEPT ![t] = NoRef]
    /\ pc' = [pc EXCEPT ![t] = "pushed"]
    /\ UNCHANGED <<permit, parked, left>>

NotifyOne(t) ==
    /\ pc[t] = "pushed"
    /\ WakeOneAndLeave(t)
    /\ UNCHANGED <<pool, holding, left>>

(* After an execution paid with a coin of the caller, the workflow releases *)
(* that coin into the pool although nobody acquired it there.               *)
DepositPayment(t, r) ==
    /\ pc[t] = "idle"
    /\ pool' = Append(pool, r)
    /\ pc' = [pc EXCEPT ![t] = "pushed"]
    /\ UNCHANGED <<permit, parked, holding, left>>

(* submit_transaction leaves between acquire and release: the `?` after     *)
(* sign_tx, or the caller drops the future.  Nothing gives the coin back.   *)
LoseCoin(t) ==
    /\ CanDrop
    /\ pc[t] = "holding"
    /\ holding' = [holding EXCEPT ![t] = NoRef]
    /\ pc' = [pc EXCEPT ![t] = "idle"]
    /\ UNCHANGED <<pool, permit, parked, left>>

(* The caller drops the future while it waits for the lock, for a           *)
(* notification, or after a notification it has not seen: Notify then hands *)
(* the notification on.                                                     *)
CancelAcquire(t) ==
    /\ CanDrop
    /\ pc[t] = "acquire"
    /\ pc' = [pc EXCEPT ![t] = "idle"]
    /\ UNCHANGED <<pool, permit, parked, holding, left>>

CancelParked(t) ==
    /\ CanDrop
    /\ pc[t] = "parked"
    /\ \E i \in 1..Len(parked) :
          /\ parked[i] = t
          /\ parked' = SubSeq(parked, 1, i - 1) \o SubSeq(parked, i + 1, Len(parked))
    /\ pc' = [pc EXCEPT ![t] = "idle"]
    /\ UNCHANGED <<pool, permit, holding, left>>

CancelWoken(t) ==
    /\ CanDrop
    /\ pc[t] = "woken"
    /\ WakeOneAndLeave(t)
    /\ UNCHANGED <<pool, holding, left>>

Drop(t) == LoseCoin(t) \/ CancelAcquire(t) \/ CancelParked(t) \/ CancelWoken(t)

(* Here a caller pays with a coin that is neither pooled nor held; nothing   *)
(* in the code asks for it, and CoinSubmission is without this guard.        *)
Deposit(t) == \E r \in Refs \ (Pooled \cup Held) : DepositPayment(t, r)

(* What the runtime drives once a submission has started.                   *)
Progress(t) ==
    \/ PopCoin(t)
    \/ FoundEmpty(t)
    \/ ConsumePermit(t)
    \/ Park(t)
    \/ Resume(t)
    \/ PushCoin(t, holding[t])
    \/ NotifyOne(t)

Next == \E t \in Tasks : Start(t) \/ Progress(t) \/ Deposit(t) \/ Drop(t)

Spec == Init /\ [][Next]_vars

------------------------------------------------------------------------------
(* A coin is the gas of at most one submission at a time: no reference is in *)
(* the Vec twice, held by two submissions, or pooled while it is held        *)
(* (client.rs acquire_gas_coin / release_gas_coin).                          *)
ExclusiveCoins ==
    /\ \A i, j \in 1..Len(pool) : pool[i] = pool[j] => i = j
    /\ \A t, u \in Tasks : holding[t] = holding[u] => t = u \/ holding[t] = NoRef
    /\ Pooled \cap Held = {}

(* A task sleeps only while no coin is available, up to wake-ups on their    *)
(* way: when a coin lies in the Vec and a task is parked, some task will     *)
(* look at the Vec, or is about to notify (client.rs:81, "waiting until one  *)
(* is available").                                                           *)
NoSleepOnCoin ==
    pool # <<>> /\ parked # <<>> =>
        \E t \in Tasks : pc[t] \in {"acquire", "woken", "pushed"}

(* The coins in circulation only ever change by a caller's deposit or by a   *)
(* submission abandoned while it holds one: no interleaving of acquisition,  *)
(* release and wake-up loses or invents a coin.                              *)
CoinsConserved ==
    [][\/ (Pooled \cup Held)' = Pooled \cup Held
       \/ \E t \in Tasks : pc[t] = "idle" /\ pc'[t] = "pushed"
       \/ \E t \in Tasks : pc[t] = "holding" /\ pc'[t] = "idle"]_vars

------------------------------------------------------------------------------
(* The owner of a coin: the task that holds it, the pool, or nobody here.    *)
OwnerOf(r) ==
    IF \E t \in Tasks : holding[t] = r THEN CHOOSE t \in Tasks : holding[t] = r
    ELSE IF r \in Pooled THEN "pooled"
    ELSE "away"

Lease ==
    INSTANCE CoinLease WITH
        Coins <- Refs, Pooled <- "pooled", Away <- "away",
        owner <- [r \in Refs |-> OwnerOf(r)]

(* The pool is a lease manager: pushing, popping, waking and dropping, in    *)
(* any interleaving, implement atomic moves of a coin between the pool and   *)
(* one submission (client.rs:80-97).                                         *)
ImplementsLease == Lease!Spec
=============================================================================
