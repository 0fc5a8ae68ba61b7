---------------------------- MODULE CoinSubmission ----------------------------
(***************************************************************************)
(* NexusClient::submit_transaction with a coin gas source: the pool of     *)
(* CoinGasPool, the Signer (sdk/src/nexus/signer.rs) and the chain.        *)
(*                                                                         *)
(* A coin reference carries the object's version; the chain executes a     *)
(* transaction only if every reference in it is current, and that bumps    *)
(* the versions.  A transaction whose response was lost or that timed out  *)
(* is still on the wire: it may execute later.  The client itself, a mutex *)
(* around the gRPC client, is cloned by the signer, but the crawler holds  *)
(* the lock during its request.                                            *)
(***************************************************************************)
EXTENDS Naturals, Sequences

CONSTANTS
    Tasks, Coins, NoRef, NoTx, Nobody,
    InitialCoins,    \* the builder's gas coins, in order
    PayCoins,        \* coins the callers may pay executions with, the builder's too
    CanDrop,         \* may signing fail, or a caller drop its future?
    MaxSubmissions,  \* bound: submissions per task
    MaxVersion       \* bound: version of a coin (implied by the one above)

Refs == [coin : Coins, ver : 0..MaxVersion]
InitialRefs == [i \in 1..Len(InitialCoins) |-> [coin |-> InitialCoins[i], ver |-> 0]]

ASSUME CoinsAssumption ==
    /\ InitialCoins \in Seq(Coins)
    /\ InitialCoins # <<>>
    /\ \A i, j \in 1..Len(InitialCoins) : InitialCoins[i] = InitialCoins[j] => i = j
    /\ PayCoins \subseteq Coins

ASSUME NoRefIsNoRef == NoRef \notin [coin : Coins, ver : Nat]

ASSUME SubmissionsAreMany == MaxSubmissions \in Nat

VARIABLES
    pool, permit, parked, pc, holding, left,   \* CoinGasPool
    stage,     \* how far a submission is with its coin
    tx,        \* the transaction of a submission
    pays,      \* the payment coin its caller passed, NoRef if none
    verdict,   \* what became of tx[t] at the node
    outcome,   \* what submit_transaction is about to return
    wire,      \* transactions sent and neither executed nor refused
    chain,     \* current version of each coin
    lock,      \* who holds the client mutex across a request
    suspect,   \* history: coins whose last submission sent a transaction and failed
    abandoned, \* history: was a submission ever abandoned?
    reused     \* history: coins a caller paid with while this client used them

poolVars == <<pool, permit, parked, pc, holding, left>>
txVars == <<stage, tx, pays, verdict, outcome>>
netVars == <<wire, chain>>
historyVars == <<suspect, abandoned, reused>>
vars == <<poolVars, txVars, netVars, lock, historyVars>>

Pool == INSTANCE CoinGasPool

Txs == [task : Tasks, n : 0..MaxSubmissions, gas : Refs, pay : Refs \cup {NoRef}]
Steps == {"none", "sign", "subscribe", "execute", "confirm", "fetch", "fetching",
          "release", "notify", "deposit", "deposited"}

TypeOK ==
    /\ Pool!TypeOK
    /\ stage \in [Tasks -> Steps]
    /\ tx \in [Tasks -> Txs \cup {NoTx}]
    /\ pays \in [Tasks -> Refs \cup {NoRef}]
    /\ verdict \in [Tasks -> {"none", "success", "failure", "refused"}]
    /\ outcome \in [Tasks -> {"none", "ok", "err"}]
    /\ wire \subseteq Txs
    /\ chain \in [Coins -> 0..MaxVersion]
    /\ lock \in Tasks \cup {Nobody}
    /\ suspect \subseteq Coins
    /\ abandoned \in BOOLEAN
    /\ reused \subseteq Coins

Init ==
    /\ Pool!Init
    /\ stage = [t \in Tasks |-> "none"]
    /\ tx = [t \in Tasks |-> NoTx]
    /\ pays = [t \in Tasks |-> NoRef]
    /\ verdict = [t \in Tasks |-> "none"]
    /\ outcome = [t \in Tasks |-> "none"]
    /\ wire = {}
    /\ chain = [c \in Coins |-> 0]
    /\ lock = Nobody
    /\ suspect = {}
    /\ abandoned = FALSE
    /\ reused = {}

Goto(t, s) == stage' = [stage EXCEPT ![t] = s]
Leave(t) ==
    /\ Goto(t, "none")
    /\ tx' = [tx EXCEPT ![t] = NoTx]
    /\ pays' = [pays EXCEPT ![t] = NoRef]
    /\ verdict' = [verdict EXCEPT ![t] = "none"]
    /\ outcome' = [outcome EXCEPT ![t] = "none"]
Return(t, o) == outcome' = [outcome EXCEPT ![t] = o]

CoinsInUse ==
    {pool[i].coin : i \in 1..Len(pool)}
        \cup {holding[t].coin : t \in {u \in Tasks : holding[u] # NoRef}}
        \cup {pays[t].coin : t \in {u \in Tasks : pays[u] # NoRef}}

------------------------------------------------------------------------------
(* The pool's own steps.  A caller names the coin it pays with by its        *)
(* current reference; nothing asks whether the pool has that coin, another   *)
(* submission holds it, or another caller has named it.                      *)
Submit(t) ==
    /\ stage[t] = "none"
    /\ Pool!Start(t)
    /\ \/ pays' = [pays EXCEPT ![t] = NoRef] /\ UNCHANGED reused
       \/ \E c \in PayCoins :
             /\ pays' = [pays EXCEPT ![t] = [coin |-> c, ver |-> chain[c]]]
             /\ reused' = reused \cup ({c} \cap CoinsInUse)
    /\ UNCHANGED <<stage, tx, verdict, outcome, netVars, lock, suspect, abandoned>>

Wait(t) ==
    /\ Pool!FoundEmpty(t) \/ Pool!ConsumePermit(t) \/ Pool!Park(t) \/ Pool!Resume(t)
    /\ UNCHANGED <<txVars, netVars, lock, historyVars>>

Acquire(t) ==
    /\ Pool!PopCoin(t)
    /\ Goto(t, "sign")
    /\ UNCHANGED <<tx, pays, verdict, outcome, netVars, lock, historyVars>>

------------------------------------------------------------------------------
(* The signer.                                                               *)
Sign(t) ==
    /\ stage[t] = "sign"
    /\ tx' = [tx EXCEPT ![t] =
                [task |-> t, n |-> left[t], gas |-> holding[t], pay |-> pays[t]]]
    /\ Goto(t, "subscribe")
    /\ UNCHANGED <<poolVars, pays, verdict, outcome, netVars, lock, historyVars>>

(* sign_tx fails (its `?` keeps the coin), or the caller drops the future    *)
(* wherever it is; a lock guard it holds is dropped with it.                 *)
Abandon(t) ==
    /\ Pool!LoseCoin(t)
    /\ Leave(t)
    /\ lock' = IF lock = t THEN Nobody ELSE lock
    /\ abandoned' = TRUE
    /\ UNCHANGED <<netVars, suspect, reused>>

(* The subscription fails: nothing was sent.                                 *)
SubscribeFails(t) ==
    /\ stage[t] = "subscribe"
    /\ lock = Nobody
    /\ Goto(t, "release")
    /\ Return(t, "err")
    /\ UNCHANGED <<poolVars, tx, pays, verdict, netVars, lock, historyVars>>

(* Clone the client, subscribe to checkpoints, then send the transaction.    *)
Send(t) ==
    /\ stage[t] = "subscribe"
    /\ lock = Nobody
    /\ wire' = wire \cup {tx[t]}
    /\ Goto(t, "execute")
    /\ UNCHANGED <<poolVars, tx, pays, verdict, outcome, chain, lock, historyVars>>

(* Mutants of Fail, Confirm and Refresh: propagate the error before the      *)
(* release; do not look at the status of the effects; fetch the reference    *)
(* and do not assign it.                                                     *)
FailWithoutRelease(t) ==
    /\ \/ stage[t] = "execute" /\ verdict[t] \in {"none", "refused"}
       \/ stage[t] = "confirm"
    /\ Leave(t)
    /\ holding' = [holding EXCEPT ![t] = NoRef]
    /\ pc' = [pc EXCEPT ![t] = "idle"]
    /\ UNCHANGED <<pool, permit, parked, left, netVars, lock, historyVars>>

ConfirmAnyStatus(t) ==
    /\ stage[t] = "confirm"
    /\ Goto(t, "fetch")
    /\ UNCHANGED <<poolVars, tx, pays, verdict, outcome, netVars, lock, historyVars>>

RefreshNothing(t) ==
    /\ stage[t] = "fetching"
    /\ lock' = Nobody
    /\ suspect' = suspect \ {holding[t].coin}
    /\ Goto(t, "release")
    /\ Return(t, "ok")
    /\ UNCHANGED <<poolVars, tx, pays, verdict, netVars, abandoned, reused>>

(* The error paths after sending: the RPC fails or the response is lost; the *)
(* node refused the transaction; the confirmation times out or its stream    *)
(* ends; the effects report a failure; the response does not decode.  The    *)
(* `?` in execute_tx skips the refresh of the coin.                          *)
Fail(t) ==
    /\ \/ stage[t] = "execute" /\ verdict[t] \in {"none", "refused"}
       \/ stage[t] = "confirm"
    /\ Goto(t, "release")
    /\ Return(t, "err")
    /\ suspect' = suspect \cup {holding[t].coin}
    /\ UNCHANGED <<poolVars, tx, pays, verdict, netVars, lock, abandoned, reused>>

Executed(t) ==
    /\ stage[t] = "execute"
    /\ verdict[t] \in {"success", "failure"}
    /\ Goto(t, "confirm")
    /\ UNCHANGED <<poolVars, tx, pays, verdict, outcome, netVars, lock, historyVars>>

(* The transaction is in a checkpoint and its effects decode as a success.   *)
Confirm(t) ==
    /\ stage[t] = "confirm"
    /\ verdict[t] = "success"
    /\ Goto(t, "fetch")
    /\ UNCHANGED <<poolVars, tx, pays, verdict, outcome, netVars, lock, historyVars>>

(* Crawler::get_object_metadata locks the client for the whole request.      *)
LockClient(t) ==
    /\ stage[t] = "fetch"
    /\ lock = Nobody
    /\ lock' = t
    /\ Goto(t, "fetching")
    /\ UNCHANGED <<poolVars, tx, pays, verdict, outcome, netVars, historyVars>>

Refresh(t) ==
    /\ stage[t] = "fetching"
    /\ holding' = [holding EXCEPT ![t].ver = chain[holding[t].coin]]
    /\ lock' = Nobody
    /\ suspect' = suspect \ {holding[t].coin}
    /\ Goto(t, "release")
    /\ Return(t, "ok")
    /\ UNCHANGED <<pool, permit, parked, pc, left, tx, pays, verdict, netVars, abandoned, reused>>

RefreshFails(t) ==
    /\ stage[t] = "fetching"
    /\ lock' = Nobody
    /\ suspect' = suspect \cup {holding[t].coin}
    /\ Goto(t, "release")
    /\ Return(t, "err")
    /\ UNCHANGED <<poolVars, tx, pays, verdict, netVars, abandoned, reused>>

------------------------------------------------------------------------------
(* Back to the pool.                                                         *)
Release(t) ==
    /\ stage[t] = "release"
    /\ Pool!PushCoin(t, holding[t])
    /\ Goto(t, "notify")
    /\ UNCHANGED <<tx, pays, verdict, outcome, netVars, lock, historyVars>>

Finish(t) ==
    /\ stage[t] = "notify"
    /\ Pool!NotifyOne(t)
    /\ IF outcome[t] = "ok" /\ pays[t] # NoRef
       THEN Goto(t, "deposit") /\ UNCHANGED <<tx, pays, verdict, outcome>>
       ELSE Leave(t)
    /\ UNCHANGED <<netVars, lock, historyVars>>

(* Mutant of Deposit: the first object of the response is the gas coin.      *)
DepositGas(t) ==
    /\ stage[t] = "deposit"
    /\ Pool!DepositPayment(t, [tx[t].gas EXCEPT !.ver = @ + 1])
    /\ pays' = [pays EXCEPT ![t] = NoRef]
    /\ Goto(t, "deposited")
    /\ UNCHANGED <<tx, verdict, outcome, netVars, lock, historyVars>>

(* The workflow gives the payment coin, as the transaction left it, to the   *)
(* pool; nothing if the response does not list the coin.                     *)
Deposit(t) ==
    /\ stage[t] = "deposit"
    /\ Pool!DepositPayment(t, [pays[t] EXCEPT !.ver = @ + 1])
    /\ pays' = [pays EXCEPT ![t] = NoRef]
    /\ Goto(t, "deposited")
    /\ UNCHANGED <<tx, verdict, outcome, netVars, lock, historyVars>>

NotifyDeposit(t) ==
    /\ stage[t] = "deposited"
    /\ Pool!NotifyOne(t)
    /\ Leave(t)
    /\ UNCHANGED <<netVars, lock, historyVars>>

NothingToDeposit(t) ==
    /\ stage[t] = "deposit"
    /\ Leave(t)
    /\ UNCHANGED <<poolVars, netVars, lock, historyVars>>

------------------------------------------------------------------------------
(* The chain.                                                                *)
Current(r) == r.ver = chain[r.coin]
Spent(x) == {x.gas.coin} \cup IF x.pay = NoRef THEN {} ELSE {x.pay.coin}
Valid(x) ==
    /\ Current(x.gas)
    /\ x.pay # NoRef => Current(x.pay) /\ x.pay.coin # x.gas.coin
Tell(x, v) ==
    verdict' = IF tx[x.task] = x /\ stage[x.task] = "execute"
               THEN [verdict EXCEPT ![x.task] = v] ELSE verdict

(* A failed execution charges gas and bumps the versions as well.            *)
Execute(x) ==
    /\ x \in wire
    /\ Valid(x)
    /\ wire' = wire \ {x}
    /\ chain' = [c \in Coins |-> IF c \in Spent(x) THEN chain[c] + 1 ELSE chain[c]]
    /\ \E v \in {"success", "failure"} : Tell(x, v)
    /\ UNCHANGED <<poolVars, stage, tx, pays, outcome, lock, historyVars>>

Refuse(x) ==
    /\ x \in wire
    /\ wire' = wire \ {x}
    /\ Tell(x, "refused")
    /\ UNCHANGED <<poolVars, stage, tx, pays, outcome, chain, lock, historyVars>>

Node == \E x \in wire : Execute(x) \/ Refuse(x)

Progress(t) ==
    \/ Wait(t) \/ Acquire(t) \/ Sign(t) \/ SubscribeFails(t) \/ Send(t) \/ Fail(t)
    \/ Executed(t) \/ Confirm(t) \/ LockClient(t) \/ Refresh(t) \/ RefreshFails(t)
    \/ Release(t) \/ Finish(t) \/ Deposit(t) \/ NotifyDeposit(t) \/ NothingToDeposit(t)

Next == Node \/ \E t \in Tasks : Submit(t) \/ Progress(t) \/ Abandon(t)

Spec == Init /\ [][Next]_vars

(* Every task is polled, every request answered or failed by its transport.  *)
FairSpec == Spec /\ WF_vars(Node) /\ \A t \in Tasks : WF_vars(Progress(t))

------------------------------------------------------------------------------
(* However submissions, payments, failures and orphaned transactions         *)
(* interleave, a coin is in one place: never twice in the pool, never with   *)
(* two submissions, never pooled while it is gas or payment of one.  The     *)
(* client does not ask for it: it fails for a coin that a caller names for a *)
(* payment while the client has it, and for no other coin, so that such a    *)
(* caller harms nobody who pays with another (client.rs:384-399,             *)
(* workflow.rs:1526-1541).                                                   *)
CoinsInOnePlace ==
    \A c \in Coins \ reused :
        /\ \A i, j \in 1..Len(pool) : pool[i].coin = c /\ pool[j].coin = c => i = j
        /\ \A t \in Tasks, i \in 1..Len(pool) : pool[i].coin = c =>
              /\ holding[t] # NoRef => holding[t].coin # c
              /\ pays[t] # NoRef => pays[t].coin # c
        /\ \A t, u \in Tasks : holding[t] # NoRef /\ holding[t].coin = c =>
              /\ holding[u] # NoRef /\ t # u => holding[u].coin # c
              /\ pays[u] # NoRef => pays[u].coin # c

(* A pooled reference is behind the chain only when the last submission that *)
(* used the coin sent a transaction and failed, or a caller paid with the    *)
(* coin while the client had it: a success always leaves a usable coin, and  *)
(* no orphan of an older submission can spoil it later (signer.rs:75-88).    *)
StaleOnlyAfterFailure ==
    \A i \in 1..Len(pool) : Current(pool[i]) \/ pool[i].coin \in suspect \cup reused

(* Two transactions on the wire compete for a coin, as gas or as payment,    *)
(* only if one of them is an orphan: nobody ever waits for two transactions  *)
(* of one coin, unless a caller paid with a coin the client had.             *)
Awaited(x) == stage[x.task] = "execute" /\ tx[x.task] = x
OneAwaitedPerCoin ==
    \A x, y \in wire : x # y /\ Awaited(x) /\ Awaited(y) => Spent(x) \cap Spent(y) \subseteq reused

(* The Ok of submit_transaction is about its own transaction: it executed    *)
(* with success before, and it is not on the wire any more, whoever else     *)
(* uses its coins (signer.rs:99-162).                                        *)
OkMeansExecuted ==
    \A t \in Tasks : outcome[t] = "ok" =>
        verdict[t] = "success" /\ tx[t] \notin wire /\ tx[t].gas.ver < chain[tx[t].gas.coin]

(* Every submission returns, if requests return and none was abandoned.  No  *)
(* error path keeps a coin or the client lock, and a wake-up that two        *)
(* releases share only delays the second waiter: whoever takes a coin        *)
(* releases it, and wakes the next (client.rs:81-97, 378-400).               *)
SubmissionsEnd ==
    \A t \in Tasks : []<>((stage[t] = "none" /\ pc[t] = "idle") \/ abandoned)

(* What execute_tx's doc promises of the coin it returns to the pool         *)
(* (signer.rs:63, "refreshes its owned gas coin"): once nothing is on the    *)
(* wire, pooled references are current.                                      *)
PooledCoinsCurrent ==
    wire = {} => \A i \in 1..Len(pool) : Current(pool[i])
===============================================================================
