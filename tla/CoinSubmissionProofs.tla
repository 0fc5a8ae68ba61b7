-------------------------- MODULE CoinSubmissionProofs --------------------------
(***************************************************************************)
(* Proofs about CoinSubmission, for any tasks, coins and submissions.  The *)
(* versions of a coin are any numbers here: the bound of the runs on them  *)
(* is a consequence of the one on submissions.                             *)
(***************************************************************************)
EXTENDS CoinSubmission, SequenceTheorems, TLAPS

AnyRefs == [coin : Coins, ver : Nat]
AnyTxs == [task : Tasks, n : Nat, gas : AnyRefs, pay : AnyRefs \cup {NoRef}]

Types ==
    /\ pool \in Seq(AnyRefs) /\ parked \in Seq(Tasks)
    /\ pc \in [Tasks -> Pool!Stages] /\ left \in [Tasks -> Nat]
    /\ holding \in [Tasks -> AnyRefs \cup {NoRef}]
    /\ stage \in [Tasks -> Steps]
    /\ tx \in [Tasks -> AnyTxs \cup {NoTx}]
    /\ pays \in [Tasks -> AnyRefs \cup {NoRef}]
    /\ verdict \in [Tasks -> {"none", "success", "failure", "refused"}]
    /\ outcome \in [Tasks -> {"none", "ok", "err"}]
    /\ wire \subseteq AnyTxs
    /\ chain \in [Coins -> Nat]

(* Who waits for a coin has no submission under way, and the queue has each   *)
(* waiter once, so a wake-up moves nobody who holds a coin.                   *)
WaitersKnown ==
    /\ \A t \in Tasks :
          pc[t] \in {"acquire", "unregistered", "parked", "woken"} => stage[t] = "none"
    /\ \A i \in 1..Len(parked) : pc[parked[i]] = "parked"
    /\ \A i, j \in 1..Len(parked) : parked[i] = parked[j] => i = j

(* What a stage says of the coin, the transaction and the answers so far.     *)
WithCoin == {"sign", "subscribe", "execute", "confirm", "fetch", "fetching", "release"}
Signed == {"subscribe", "execute", "confirm", "fetch", "fetching"}
StageKnown(t) ==
    /\ stage[t] \in WithCoin => holding[t] \in AnyRefs
    /\ stage[t] \in {"none", "sign", "subscribe"} => verdict[t] = "none"
    /\ stage[t] \in {"none", "sign"} \cup Signed => outcome[t] = "none"
    /\ stage[t] = "confirm" => verdict[t] \in {"success", "failure"}
    /\ stage[t] \in {"fetch", "fetching"} => verdict[t] = "success"
    /\ outcome[t] = "ok" => verdict[t] = "success"
    /\ stage[t] = "deposit" => pays[t] \in AnyRefs /\ outcome[t] = "ok"
    /\ stage[t] \in Signed => tx[t].gas = holding[t] /\ tx[t].pay = pays[t]
    /\ stage[t] \in Signed \/ outcome[t] = "ok" => tx[t] \in AnyTxs /\ tx[t].task = t
StagesKnown == \A t \in Tasks : StageKnown(t)

(* A coin is in one place, or a caller has named it while it was in use.      *)
Reused(c) == c \in reused
Apart ==
    /\ \A i, j \in 1..Len(pool) : pool[i].coin = pool[j].coin => i = j \/ Reused(pool[i].coin)
    /\ \A t \in Tasks, i \in 1..Len(pool) :
          /\ holding[t] # NoRef /\ holding[t].coin = pool[i].coin => Reused(pool[i].coin)
          /\ pays[t] # NoRef /\ pays[t].coin = pool[i].coin => Reused(pool[i].coin)
    /\ \A t, u \in Tasks :
          /\ holding[t] # NoRef /\ holding[u] # NoRef /\ t # u /\ holding[t].coin = holding[u].coin
                => Reused(holding[t].coin)
          /\ holding[t] # NoRef /\ pays[u] # NoRef /\ holding[t].coin = pays[u].coin
                => Reused(holding[t].coin)
          /\ pays[t] # NoRef /\ pays[u] # NoRef /\ t # u /\ pays[t].coin = pays[u].coin
                => Reused(pays[t].coin)

Base == Types /\ WaitersKnown /\ StagesKnown

-------------------------------------------------------------------------------
(* A sequence without its last element.                                      *)
LEMMA FrontFacts ==
    ASSUME NEW S, NEW s \in Seq(S), s # <<>>
    PROVE  /\ SubSeq(s, 1, Len(s) - 1) \in Seq(S)
           /\ Len(s) \in Nat \ {0}
           /\ Len(SubSeq(s, 1, Len(s) - 1)) = Len(s) - 1
           /\ s[Len(s)] \in S
           /\ \A i \in 1..(Len(s) - 1) : SubSeq(s, 1, Len(s) - 1)[i] = s[i]
<1>1. Len(s) \in Nat \ {0}
  BY EmptySeq
<1>2. s[Len(s)] \in S
  BY <1>1, ElementOfSeq
<1>3. \A i \in 1..(Len(s) - 1) : s[i] \in S
  BY <1>1, ElementOfSeq
<1>4. /\ SubSeq(s, 1, Len(s) - 1) \in Seq(S)
      /\ Len(SubSeq(s, 1, Len(s) - 1)) = Len(s) - 1
      /\ \A i \in 1..(Len(s) - 1) : SubSeq(s, 1, Len(s) - 1)[i] = s[i]
  <2> DEFINE n == Len(s) - 1
  <2>1. n \in Int /\ 1 \in Int /\ (\A i \in 1..n : s[i] \in S) /\ n - 1 + 1 = n
    BY <1>1, <1>3
  <2>2. /\ SubSeq(s, 1, n) \in Seq(S)
        /\ Len(SubSeq(s, 1, n)) = IF 1 <= n THEN n - 1 + 1 ELSE 0
        /\ \A i \in 1..(n - 1 + 1) : SubSeq(s, 1, n)[i] = s[1 + i - 1]
    BY <2>1, SubSeqProperties
  <2>3. n \in Nat /\ n - 1 + 1 = n /\ \A i \in 1..n : 1 + i - 1 = i
    BY <1>1
  <2>4. Len(SubSeq(s, 1, n)) = n
    BY <2>2, <2>3
  <2>5. \A i \in 1..n : SubSeq(s, 1, n)[i] = s[i]
    BY <2>2, <2>3
  <2>6. QED
    BY <2>2, <2>4, <2>5
<1>5. QED
  BY <1>1, <1>2, <1>4

(* A wake-up moves the caller to "idle" and at most one waiter to "woken".    *)
LEMMA WakeMoves ==
    ASSUME Types, WaitersKnown, NEW t \in Tasks, pc[t] = "pushed", Pool!WakeOneAndLeave(t)
    PROVE  /\ parked' \in Seq(Tasks) /\ pc' \in [Tasks -> Pool!Stages] /\ pc'[t] = "idle"
           /\ \A u \in Tasks \ {t} : pc'[u] = pc[u] \/ (pc[u] = "parked" /\ pc'[u] = "woken")
           /\ \A i \in 1..Len(parked') : pc'[parked'[i]] = "parked"
           /\ \A i, j \in 1..Len(parked') : parked'[i] = parked'[j] => i = j
<1>0. parked \in Seq(Tasks) /\ pc \in [Tasks -> Pool!Stages] /\ {"idle", "woken"} \subseteq Pool!Stages
  BY DEF Types, Pool!Stages
<1>1. CASE parked = <<>>
  BY <1>0, <1>1 DEF Pool!WakeOneAndLeave
<1>2. CASE parked # <<>>
  <2> DEFINE h == Head(parked)
  <2>1. /\ h \in Tasks /\ h = parked[1] /\ Len(parked) \in Nat \ {0}
        /\ Tail(parked) \in Seq(Tasks) /\ Len(Tail(parked)) = Len(parked) - 1
        /\ \A i \in 1..Len(Tail(parked)) : Tail(parked)[i] = parked[i + 1]
    BY <1>0, <1>2, HeadTailProperties, EmptySeq
  <2>2. parked' = Tail(parked) /\ pc' = [pc EXCEPT ![t] = "idle", ![h] = "woken"]
    BY <1>2 DEF Pool!WakeOneAndLeave
  <2>3. 1 \in 1..Len(parked) /\ pc[h] = "parked" /\ h # t
    BY <2>1 DEF WaitersKnown
  <2>4. \A i \in 1..Len(Tail(parked)) : i + 1 \in 1..Len(parked) /\ i + 1 # 1
    BY <2>1
  <2>5. \A i \in 1..Len(parked') : parked'[i] \in Tasks \ {t, h} /\ pc[parked'[i]] = "parked"
    <3> SUFFICES ASSUME NEW i \in 1..Len(parked')
                 PROVE  parked'[i] \in Tasks \ {t, h} /\ pc[parked'[i]] = "parked"
      OBVIOUS
    <3>1. parked'[i] = parked[i + 1] /\ i + 1 \in 1..Len(parked) /\ i + 1 # 1
      BY <2>1, <2>2, <2>4
    <3>2. parked[i + 1] \in Tasks /\ pc[parked[i + 1]] = "parked" /\ parked[i + 1] # h
      BY <1>0, <2>1, <2>3, <3>1, ElementOfSeq DEF WaitersKnown
    <3>3. QED
      BY <3>1, <3>2
  <2>6. \A i, j \in 1..Len(parked') : parked'[i] = parked'[j] => i = j
    BY <2>1, <2>2, <2>4 DEF WaitersKnown
  <2> HIDE DEF h
  <2>7. /\ pc' \in [Tasks -> Pool!Stages] /\ pc'[t] = "idle" /\ pc'[h] = "woken"
        /\ \A u \in Tasks \ {t, h} : pc'[u] = pc[u]
    BY <1>0, <2>1, <2>2, <2>3
  <2>8. QED
    BY <2>1, <2>2, <2>3, <2>5, <2>6, <2>7
<1>3. QED
  BY <1>1, <1>2

(* The steps that leave coins, payments, transactions and the chain alone.    *)
Frame == UNCHANGED <<pool, parked, pc, left, holding, tx, pays, verdict, chain>>

LEMMA SignerFrame ==
    ASSUME NEW t \in Tasks,
           SubscribeFails(t) \/ Fail(t) \/ Executed(t) \/ Confirm(t) \/ LockClient(t)
              \/ RefreshFails(t)
    PROVE  Frame /\ UNCHANGED wire
  BY DEF SubscribeFails, Fail, Executed, Confirm, LockClient, RefreshFails, Frame, poolVars, netVars

(* The pool's answers to a caller that waits.                                 *)
LEMMA WaitMoves ==
    ASSUME Types, WaitersKnown, NEW t \in Tasks, Wait(t)
    PROVE  /\ parked' \in Seq(Tasks) /\ pc' \in [Tasks -> Pool!Stages]
           /\ pc[t] \in {"acquire", "unregistered", "woken"}
           /\ \A u \in Tasks \ {t} : pc'[u] = pc[u]
           /\ \A i \in 1..Len(parked') : pc'[parked'[i]] = "parked"
           /\ \A i, j \in 1..Len(parked') : parked'[i] = parked'[j] => i = j
           /\ UNCHANGED <<pool, left, holding, txVars, netVars, suspect>>
<1>0. parked \in Seq(Tasks) /\ pc \in [Tasks -> Pool!Stages] /\ Len(parked) \in Nat
  BY LenProperties DEF Types
<1>u. UNCHANGED <<pool, left, holding, txVars, netVars, suspect>>
  BY DEF Wait, Pool!FoundEmpty, Pool!ConsumePermit, Pool!Park, Pool!Resume, historyVars
<1>1. CASE Pool!FoundEmpty(t) \/ Pool!ConsumePermit(t) \/ Pool!Resume(t)
  <2>1. /\ parked' = parked /\ pc[t] \in {"acquire", "unregistered", "woken"}
        /\ \E s \in {"acquire", "unregistered"} : pc' = [pc EXCEPT ![t] = s]
    BY <1>1 DEF Pool!FoundEmpty, Pool!ConsumePermit, Pool!Resume
  <2>2. \A i \in 1..Len(parked) : parked[i] # t
    BY <2>1 DEF WaitersKnown
  <2>3. QED
    BY <1>0, <1>u, <2>1, <2>2 DEF WaitersKnown, Pool!Stages
<1>2. CASE Pool!Park(t)
  <2>1. pc[t] = "unregistered" /\ parked' = Append(parked, t) /\ pc' = [pc EXCEPT ![t] = "parked"]
    BY <1>2 DEF Pool!Park
  <2>2. /\ parked' \in Seq(Tasks) /\ Len(parked') = Len(parked) + 1
        /\ \A i \in 1..Len(parked) : parked'[i] = parked[i]
        /\ parked'[Len(parked) + 1] = t
    BY <1>0, <2>1, AppendProperties
  <2>3. \A i \in 1..Len(parked) : parked[i] # t /\ parked[i] \in Tasks
    BY <1>0, <2>1, ElementOfSeq DEF WaitersKnown
  <2>4. \A i \in 1..Len(parked') : i \in 1..Len(parked) \/ i = Len(parked) + 1
    BY <1>0, <2>2
  <2>5. QED
    BY <1>0, <1>u, <2>1, <2>2, <2>3, <2>4 DEF WaitersKnown, Pool!Stages
<1>3. QED
  BY <1>1, <1>2 DEF Wait

(* A transaction is executed or refused.                                      *)
LEMMA NodeMoves ==
    ASSUME Types, NEW x \in wire, Execute(x) \/ Refuse(x)
    PROVE  /\ x \in AnyTxs /\ wire' = wire \ {x}
           /\ UNCHANGED <<poolVars, stage, tx, pays, outcome, suspect, reused>>
           /\ verdict' \in [Tasks -> {"none", "success", "failure", "refused"}]
           /\ \A t \in Tasks : verdict'[t] # verdict[t] => stage[t] = "execute" /\ tx[t] = x
           /\ chain' \in [Coins -> Nat]
<1>1. x \in AnyTxs /\ x.task \in Tasks
  BY DEF Types, AnyTxs
<1>2. wire' = wire \ {x} /\ UNCHANGED <<poolVars, stage, tx, pays, outcome, suspect, reused>>
  BY DEF Execute, Refuse, historyVars
<1>3. \E v \in {"success", "failure", "refused"} : Tell(x, v)
  BY DEF Execute, Refuse
<1>4. \/ verdict' = verdict
      \/ \E v \in {"success", "failure", "refused"} :
           tx[x.task] = x /\ stage[x.task] = "execute" /\ verdict' = [verdict EXCEPT ![x.task] = v]
  BY <1>3 DEF Tell
<1>5. verdict \in [Tasks -> {"none", "success", "failure", "refused"}]
  BY DEF Types
<1>6. /\ verdict' \in [Tasks -> {"none", "success", "failure", "refused"}]
      /\ \A t \in Tasks : verdict'[t] # verdict[t] => stage[t] = "execute" /\ tx[t] = x
  BY <1>1, <1>4, <1>5
<1>7. chain' \in [Coins -> Nat]
  <2>1. chain \in [Coins -> Nat]
    BY DEF Types
  <2>2. chain' = chain \/ chain' = [c \in Coins |-> IF c \in Spent(x) THEN chain[c] + 1 ELSE chain[c]]
    BY DEF Execute, Refuse
  <2>3. QED
    BY <2>1, <2>2
<1>8. QED
  BY <1>1, <1>2, <1>6, <1>7

(* What leaving a submission resets.                                          *)
LEMMA LeaveMoves ==
    ASSUME Types, NEW t \in Tasks, Leave(t)
    PROVE  /\ stage' = [stage EXCEPT ![t] = "none"] /\ tx' = [tx EXCEPT ![t] = NoTx]
           /\ pays' = [pays EXCEPT ![t] = NoRef] /\ verdict' = [verdict EXCEPT ![t] = "none"]
           /\ outcome' = [outcome EXCEPT ![t] = "none"]
           /\ stage' \in [Tasks -> Steps] /\ tx' \in [Tasks -> AnyTxs \cup {NoTx}]
           /\ pays' \in [Tasks -> AnyRefs \cup {NoRef}]
           /\ verdict' \in [Tasks -> {"none", "success", "failure", "refused"}]
           /\ outcome' \in [Tasks -> {"none", "ok", "err"}]
  BY DEF Leave, Goto, Types, Steps

LEMMA TypesNext == ASSUME Base, [Next]_vars PROVE Types'
<1>0. Types /\ WaitersKnown /\ StagesKnown
  BY DEF Base
<1>1. ASSUME NEW t \in Tasks, Submit(t) PROVE Types'
  <2>1. /\ UNCHANGED <<pool, parked, holding, stage, tx, verdict, outcome, wire, chain>>
        /\ left' = [left EXCEPT ![t] = @ - 1] /\ left[t] > 0
        /\ pc' = [pc EXCEPT ![t] = "acquire"]
    BY <1>1 DEF Submit, Pool!Start, netVars
  <2>2. \E r \in AnyRefs \cup {NoRef} : pays' = [pays EXCEPT ![t] = r]
    <3>1. \A c \in PayCoins : [coin |-> c, ver |-> chain[c]] \in AnyRefs
      BY <1>0, CoinsAssumption DEF Types, AnyRefs
    <3>2. QED
      BY <1>1, <3>1 DEF Submit
  <2>3. QED
    BY <1>0, <2>1, <2>2 DEF Types, Pool!Stages
<1>2. ASSUME NEW t \in Tasks, Wait(t) PROVE Types'
  BY <1>0, <1>2, WaitMoves DEF Types, txVars, netVars
<1>3. ASSUME NEW t \in Tasks, Acquire(t) PROVE Types'
  <2>1. /\ SubSeq(pool, 1, Len(pool) - 1) \in Seq(AnyRefs) /\ pool[Len(pool)] \in AnyRefs
    BY <1>0, <1>3, FrontFacts DEF Types, Acquire, Pool!PopCoin
  <2>2. QED
    BY <1>0, <1>3, <2>1 DEF Types, Acquire, Goto, Pool!PopCoin, Pool!Stages, Steps, netVars
<1>4. ASSUME NEW t \in Tasks, Sign(t) PROVE Types'
  <2>1. holding[t] \in AnyRefs
    BY <1>0, <1>4 DEF Sign, StagesKnown, StageKnown, WithCoin
  <2>2. [task |-> t, n |-> left[t], gas |-> holding[t], pay |-> pays[t]] \in AnyTxs
    BY <1>0, <2>1 DEF Types, AnyTxs
  <2>3. QED
    BY <1>0, <1>4, <2>2 DEF Types, Sign, Goto, Steps, poolVars, netVars
<1>5. ASSUME NEW t \in Tasks, Abandon(t) PROVE Types'
  BY <1>0, <1>5, LeaveMoves DEF Types, Abandon, Pool!LoseCoin, Pool!Stages, netVars
<1>6. ASSUME NEW t \in Tasks,
             SubscribeFails(t) \/ Fail(t) \/ Executed(t) \/ Confirm(t) \/ LockClient(t)
               \/ RefreshFails(t)
      PROVE  Types'
  <2>1. \E s \in {"release", "confirm", "fetch", "fetching"} : stage' = [stage EXCEPT ![t] = s]
    BY <1>6 DEF SubscribeFails, Fail, Executed, Confirm, LockClient, RefreshFails, Goto, Return
  <2>2. outcome' = outcome \/ outcome' = [outcome EXCEPT ![t] = "err"]
    BY <1>6 DEF SubscribeFails, Fail, Executed, Confirm, LockClient, RefreshFails, Return
  <2>3. stage' \in [Tasks -> Steps]
    BY <1>0, <2>1 DEF Types, Steps
  <2>4. outcome' \in [Tasks -> {"none", "ok", "err"}]
    BY <1>0, <2>2 DEF Types
  <2>5. QED
    BY <1>0, <1>6, <2>3, <2>4, SignerFrame DEF Types, Frame
<1>7. ASSUME NEW t \in Tasks, Send(t) PROVE Types'
  <2>1. tx[t] \in AnyTxs
    BY <1>0, <1>7 DEF Send, StagesKnown, StageKnown, Signed
  <2>2. QED
    BY <1>0, <1>7, <2>1 DEF Types, Send, Goto, Steps, poolVars
<1>8. ASSUME NEW t \in Tasks, Refresh(t) PROVE Types'
  <2>1. holding[t] \in AnyRefs
    BY <1>0, <1>8 DEF Refresh, StagesKnown, StageKnown, WithCoin
  <2>2. [holding[t] EXCEPT !.ver = chain[holding[t].coin]] \in AnyRefs
    BY <1>0, <2>1 DEF Types, AnyRefs
  <2>3. holding' = [holding EXCEPT ![t] = [holding[t] EXCEPT !.ver = chain[holding[t].coin]]]
    BY <1>8 DEF Refresh
  <2>4. holding' \in [Tasks -> AnyRefs \cup {NoRef}]
    BY <1>0, <2>2, <2>3 DEF Types
  <2>5. QED
    BY <1>0, <1>8, <2>4 DEF Types, Refresh, Goto, Return, Steps, netVars
<1>9. ASSUME NEW t \in Tasks, Release(t) PROVE Types'
  <2>1. holding[t] \in AnyRefs
    BY <1>0, <1>9 DEF Release, StagesKnown, StageKnown, WithCoin
  <2>2. Append(pool, holding[t]) \in Seq(AnyRefs)
    BY <1>0, <2>1, AppendProperties DEF Types
  <2>3. QED
    BY <1>0, <1>9, <2>2 DEF Types, Release, Goto, Steps, Pool!PushCoin, Pool!Stages, netVars
<1>10. ASSUME NEW t \in Tasks, Finish(t) \/ NotifyDeposit(t) PROVE Types'
  <2>1. /\ pc[t] = "pushed" /\ Pool!WakeOneAndLeave(t)
        /\ UNCHANGED <<pool, holding, left, wire, chain>>
    BY <1>10 DEF Finish, NotifyDeposit, Pool!NotifyOne, netVars
  <2>2. parked' \in Seq(Tasks) /\ pc' \in [Tasks -> Pool!Stages]
    BY <1>0, <2>1, WakeMoves
  <2>3. Leave(t) \/ (Goto(t, "deposit") /\ UNCHANGED <<tx, pays, verdict, outcome>>)
    BY <1>10 DEF Finish, NotifyDeposit
  <2>4. CASE Leave(t)
    BY <1>0, <2>1, <2>2, <2>4, LeaveMoves DEF Types
  <2>5. CASE Goto(t, "deposit") /\ UNCHANGED <<tx, pays, verdict, outcome>>
    BY <1>0, <2>1, <2>2, <2>5 DEF Types, Goto, Steps
  <2>6. QED
    BY <2>3, <2>4, <2>5
<1>11. ASSUME NEW t \in Tasks, Deposit(t) PROVE Types'
  <2>1. pays[t] \in AnyRefs
    BY <1>0, <1>11 DEF Deposit, StagesKnown, StageKnown
  <2>2. [pays[t] EXCEPT !.ver = pays[t].ver + 1] \in AnyRefs
    BY <2>1 DEF AnyRefs
  <2>3. Append(pool, [pays[t] EXCEPT !.ver = pays[t].ver + 1]) \in Seq(AnyRefs)
    BY <1>0, <2>2, AppendProperties DEF Types
  <2>4. QED
    BY <1>0, <1>11, <2>3 DEF Types, Deposit, Goto, Steps, Pool!DepositPayment, Pool!Stages, netVars
<1>12. ASSUME NEW t \in Tasks, NothingToDeposit(t) PROVE Types'
  BY <1>0, <1>12, LeaveMoves DEF Types, NothingToDeposit, poolVars, netVars
<1>13. ASSUME NEW x \in wire, Execute(x) \/ Refuse(x) PROVE Types'
  BY <1>0, <1>13, NodeMoves DEF Types, poolVars
<1>14. CASE UNCHANGED vars
  BY <1>0, <1>14 DEF Types, vars, poolVars, txVars, netVars
<1>15. QED
  BY <1>1, <1>2, <1>3, <1>4, <1>5, <1>6, <1>7, <1>8, <1>9, <1>10, <1>11, <1>12, <1>13, <1>14
     DEF Next, Node, Progress

-------------------------------------------------------------------------------
(* A step of a task that does not wait in the queue.                          *)
LEMMA PcMoves ==
    ASSUME Types, WaitersKnown, NEW t \in Tasks, pc[t] # "parked", UNCHANGED parked,
           \A u \in Tasks \ {t} : pc'[u] = pc[u] /\ stage'[u] = stage[u],
           pc'[t] \in {"acquire", "unregistered", "parked", "woken"} => stage'[t] = "none"
    PROVE  WaitersKnown'
<1>1. \A i \in 1..Len(parked) : parked[i] \in Tasks \ {t}
  BY ElementOfSeq DEF Types, WaitersKnown
<1>2. QED
  BY <1>1 DEF WaitersKnown

LEMMA WaitersNext == ASSUME Base, [Next]_vars PROVE WaitersKnown'
<1>0. Types /\ WaitersKnown /\ stage \in [Tasks -> Steps] /\ pc \in [Tasks -> Pool!Stages]
  BY DEF Base, Types
<1>1. ASSUME NEW t \in Tasks, Submit(t) PROVE WaitersKnown'
  <2>1. pc[t] = "idle" /\ pc' = [pc EXCEPT ![t] = "acquire"] /\ UNCHANGED <<parked, stage>> /\ stage[t] = "none"
    BY <1>1 DEF Submit, Pool!Start
  <2>2. QED
    BY <1>0, <2>1, PcMoves
<1>2. ASSUME NEW t \in Tasks, Wait(t) PROVE WaitersKnown'
  <2>1. stage' = stage /\ stage[t] = "none"
    BY <1>0, <1>2, WaitMoves DEF txVars, WaitersKnown
  <2>2. QED
    BY <1>0, <1>2, <2>1, WaitMoves DEF WaitersKnown
<1>3. ASSUME NEW t \in Tasks, Acquire(t) \/ Release(t) \/ Deposit(t) PROVE WaitersKnown'
  <2>1. /\ pc[t] \in {"acquire", "holding", "idle"} /\ UNCHANGED parked
        /\ \E p \in {"holding", "pushed"} : pc' = [pc EXCEPT ![t] = p]
        /\ \E s \in Steps : stage' = [stage EXCEPT ![t] = s]
    BY <1>3 DEF Acquire, Release, Deposit, Goto, Steps, Pool!PopCoin, Pool!PushCoin, Pool!DepositPayment
  <2>2. pc'[t] \in {"holding", "pushed"} /\ \A u \in Tasks \ {t} : pc'[u] = pc[u] /\ stage'[u] = stage[u]
    BY <1>0, <2>1
  <2>3. QED
    BY <1>0, <2>1, <2>2, PcMoves
<1>4. ASSUME NEW t \in Tasks, Abandon(t) PROVE WaitersKnown'
  <2>1. pc[t] = "holding" /\ pc' = [pc EXCEPT ![t] = "idle"] /\ UNCHANGED parked
        /\ stage' = [stage EXCEPT ![t] = "none"]
    BY <1>4 DEF Abandon, Pool!LoseCoin, Leave, Goto
  <2>2. QED
    BY <1>0, <2>1, PcMoves
<1>5. ASSUME NEW t \in Tasks,
             Sign(t) \/ SubscribeFails(t) \/ Fail(t) \/ Executed(t) \/ Confirm(t) \/ LockClient(t)
               \/ RefreshFails(t) \/ Send(t) \/ Refresh(t) \/ NothingToDeposit(t)
      PROVE  WaitersKnown'
  <2>1. /\ stage[t] # "none" /\ UNCHANGED <<pc, parked>>
        /\ \E s \in Steps : stage' = [stage EXCEPT ![t] = s]
    BY <1>5 DEF Sign, SubscribeFails, Fail, Executed, Confirm, LockClient, RefreshFails, Send, Refresh,
                NothingToDeposit, Leave, Goto, Steps, poolVars
  <2>2. pc[t] \notin {"acquire", "unregistered", "parked", "woken"}
    BY <1>0, <2>1 DEF WaitersKnown
  <2>3. \A u \in Tasks \ {t} : stage'[u] = stage[u]
    BY <1>0, <2>1
  <2>4. QED
    BY <1>0, <2>1, <2>2, <2>3, PcMoves
<1>6. ASSUME NEW t \in Tasks, Finish(t) \/ NotifyDeposit(t) PROVE WaitersKnown'
  <2>1. /\ pc[t] = "pushed" /\ Pool!WakeOneAndLeave(t)
        /\ \E s \in Steps : stage' = [stage EXCEPT ![t] = s]
    BY <1>6 DEF Finish, NotifyDeposit, Pool!NotifyOne, Leave, Goto, Steps
  <2>2. \A u \in Tasks \ {t} : stage'[u] = stage[u]
    BY <1>0, <2>1
  <2>3. QED
    BY <1>0, <2>1, <2>2, WakeMoves DEF WaitersKnown
<1>7. ASSUME NEW x \in wire, Execute(x) \/ Refuse(x) PROVE WaitersKnown'
  BY <1>0, <1>7, NodeMoves DEF WaitersKnown, poolVars
<1>8. CASE UNCHANGED vars
  BY <1>0, <1>8 DEF WaitersKnown, vars, poolVars, txVars
<1>9. QED
  BY <1>1, <1>2, <1>3, <1>4, <1>5, <1>6, <1>7, <1>8 DEF Next, Node, Progress

-------------------------------------------------------------------------------
(* A step of one task leaves what is known of the others.                     *)
OthersKeep(t) ==
    \A u \in Tasks \ {t} :
        /\ stage'[u] = stage[u] /\ holding'[u] = holding[u] /\ tx'[u] = tx[u]
        /\ pays'[u] = pays[u] /\ verdict'[u] = verdict[u] /\ outcome'[u] = outcome[u]

LEMMA OneKnown ==
    ASSUME StagesKnown, NEW t \in Tasks, OthersKeep(t), StageKnown(t)'
    PROVE  StagesKnown'
  BY DEF StagesKnown, StageKnown, OthersKeep

(* Each step of a task changes only its own entries.                          *)
LEMMA StepsAreOwn ==
    ASSUME Types, NEW t \in Tasks, Submit(t) \/ Progress(t) \/ Abandon(t)
    PROVE  OthersKeep(t)
<1>0. /\ stage \in [Tasks -> Steps] /\ holding \in [Tasks -> AnyRefs \cup {NoRef}]
      /\ tx \in [Tasks -> AnyTxs \cup {NoTx}] /\ pays \in [Tasks -> AnyRefs \cup {NoRef}]
      /\ verdict \in [Tasks -> {"none", "success", "failure", "refused"}]
      /\ outcome \in [Tasks -> {"none", "ok", "err"}]
  BY DEF Types
<1>1. CASE Submit(t)
  BY <1>0, <1>1 DEF Submit, Pool!Start, OthersKeep
<1>2. CASE Wait(t)
  BY <1>2 DEF Wait, Pool!FoundEmpty, Pool!ConsumePermit, Pool!Park, Pool!Resume, txVars, OthersKeep
<1>3. CASE Acquire(t) \/ Sign(t) \/ Release(t) \/ Deposit(t)
  BY <1>0, <1>3 DEF Acquire, Sign, Release, Deposit, Goto, Pool!PopCoin, Pool!PushCoin,
                    Pool!DepositPayment, poolVars, OthersKeep
<1>4. CASE SubscribeFails(t) \/ Send(t) \/ Fail(t) \/ Executed(t) \/ Confirm(t) \/ LockClient(t)
             \/ RefreshFails(t)
  BY <1>0, <1>4 DEF SubscribeFails, Send, Fail, Executed, Confirm, LockClient, RefreshFails, Goto,
                    Return, poolVars, OthersKeep
<1>5. CASE Refresh(t)
  BY <1>0, <1>5 DEF Refresh, Goto, Return, OthersKeep
<1>6. CASE Finish(t) \/ NotifyDeposit(t) \/ NothingToDeposit(t) \/ Abandon(t)
  BY <1>0, <1>6 DEF Finish, NotifyDeposit, NothingToDeposit, Abandon, Pool!NotifyOne, Pool!LoseCoin,
                    Leave, Goto, poolVars, OthersKeep
<1>7. QED
  BY <1>1, <1>2, <1>3, <1>4, <1>5, <1>6 DEF Progress

LEMMA StagesNext == ASSUME Base, [Next]_vars PROVE StagesKnown'
<1>0. Types /\ Types' /\ WaitersKnown /\ StagesKnown
  BY TypesNext DEF Base
<1>t. /\ stage \in [Tasks -> Steps] /\ holding \in [Tasks -> AnyRefs \cup {NoRef}]
      /\ tx \in [Tasks -> AnyTxs \cup {NoTx}] /\ pays \in [Tasks -> AnyRefs \cup {NoRef}]
      /\ verdict \in [Tasks -> {"none", "success", "failure", "refused"}]
      /\ outcome \in [Tasks -> {"none", "ok", "err"}]
  BY <1>0 DEF Types
<1>s. ASSUME NEW t \in Tasks, Submit(t) \/ Progress(t) \/ Abandon(t), StageKnown(t)'
      PROVE  StagesKnown'
  BY <1>0, <1>s, StepsAreOwn, OneKnown
<1>k. \A t \in Tasks : StageKnown(t)
  BY <1>0 DEF StagesKnown
<1>1. ASSUME NEW t \in Tasks, Submit(t) PROVE StageKnown(t)'
  <2>1. stage[t] = "none" /\ UNCHANGED <<stage, holding, tx, verdict, outcome>>
    BY <1>1 DEF Submit, Pool!Start
  <2>2. outcome[t] = "none"
    BY <1>k, <2>1 DEF StageKnown
  <2>3. QED
    BY <1>k, <2>1, <2>2 DEF StageKnown, WithCoin, Signed
<1>2. ASSUME NEW t \in Tasks, Wait(t) PROVE StageKnown(t)'
  BY <1>0, <1>k, <1>2, WaitMoves DEF StageKnown, txVars
<1>3. ASSUME NEW t \in Tasks, Acquire(t) PROVE StageKnown(t)'
  <2>1. pc[t] = "acquire" /\ pool # <<>> /\ holding' = [holding EXCEPT ![t] = pool[Len(pool)]]
        /\ stage' = [stage EXCEPT ![t] = "sign"] /\ UNCHANGED <<tx, pays, verdict, outcome>>
    BY <1>3 DEF Acquire, Goto, Pool!PopCoin
  <2>2. stage[t] = "none"
    BY <1>0, <2>1 DEF WaitersKnown
  <2>3. pool[Len(pool)] \in AnyRefs
    BY <1>0, <2>1, FrontFacts DEF Types
  <2>4. stage'[t] = "sign" /\ holding'[t] \in AnyRefs /\ verdict'[t] = "none" /\ outcome'[t] = "none"
    BY <1>k, <1>t, <2>1, <2>2, <2>3 DEF StageKnown
  <2>5. QED
    BY <2>4 DEF StageKnown, Signed
<1>4. ASSUME NEW t \in Tasks, Sign(t) PROVE StageKnown(t)'
  <2>1. holding[t] \in AnyRefs /\ verdict[t] = "none" /\ outcome[t] = "none"
    BY <1>4, <1>k DEF Sign, StageKnown, WithCoin
  <2>2. /\ stage'[t] = "subscribe" /\ UNCHANGED <<holding, pays, verdict, outcome>>
        /\ tx'[t] = [task |-> t, n |-> left[t], gas |-> holding[t], pay |-> pays[t]]
    BY <1>4, <1>t DEF Sign, Goto, poolVars
  <2>3. tx'[t] \in AnyTxs
    BY <1>0, <2>1, <2>2 DEF Types, AnyTxs
  <2>4. QED
    BY <2>1, <2>2, <2>3 DEF StageKnown
<1>5. ASSUME NEW t \in Tasks, Abandon(t) \/ NothingToDeposit(t) \/ NotifyDeposit(t) PROVE StageKnown(t)'
  <2>1. stage'[t] = "none" /\ verdict'[t] = "none" /\ outcome'[t] = "none"
    BY <1>5, <1>t DEF Abandon, NothingToDeposit, NotifyDeposit, Leave, Goto
  <2>2. QED
    BY <2>1 DEF StageKnown, WithCoin, Signed
<1>6. ASSUME NEW t \in Tasks, SubscribeFails(t) \/ Fail(t) \/ RefreshFails(t) PROVE StageKnown(t)'
  <2>1. stage[t] \in WithCoin /\ stage'[t] = "release" /\ outcome'[t] = "err" /\ holding' = holding
    BY <1>6, <1>t DEF SubscribeFails, Fail, RefreshFails, Goto, Return, WithCoin, poolVars
  <2>2. QED
    BY <1>k, <2>1 DEF StageKnown, Signed
<1>7. ASSUME NEW t \in Tasks, Executed(t) \/ Confirm(t) \/ LockClient(t) PROVE StageKnown(t)'
  <2>1. /\ stage[t] \in {"execute", "confirm", "fetch"} /\ UNCHANGED <<holding, tx, pays, verdict, outcome>>
        /\ \/ stage'[t] = "confirm" /\ verdict[t] \in {"success", "failure"}
           \/ stage'[t] \in {"fetch", "fetching"} /\ verdict[t] = "success"
    BY <1>7, <1>t, <1>k DEF Executed, Confirm, LockClient, Goto, poolVars, StageKnown
  <2>2. QED
    BY <1>k, <2>1 DEF StageKnown, WithCoin, Signed
<1>8. ASSUME NEW t \in Tasks, Send(t) PROVE StageKnown(t)'
  <2>1. stage[t] = "subscribe" /\ stage'[t] = "execute" /\ UNCHANGED <<holding, tx, pays, verdict, outcome>>
    BY <1>8, <1>t DEF Send, Goto, poolVars
  <2>2. QED
    BY <1>k, <2>1 DEF StageKnown, WithCoin, Signed
<1>9. ASSUME NEW t \in Tasks, Refresh(t) PROVE StageKnown(t)'
  <2>1. /\ stage[t] = "fetching" /\ stage'[t] = "release" /\ outcome'[t] = "ok"
        /\ UNCHANGED <<tx, pays, verdict>>
        /\ holding'[t] = [holding[t] EXCEPT !.ver = chain[holding[t].coin]]
    BY <1>9, <1>t DEF Refresh, Goto, Return
  <2>2. holding[t] \in AnyRefs /\ verdict[t] = "success" /\ tx[t] \in AnyTxs /\ tx[t].task = t
    BY <1>k, <2>1 DEF StageKnown, WithCoin, Signed
  <2>3. chain[holding[t].coin] \in Nat
    BY <1>0, <2>2 DEF Types, AnyRefs
  <2>4. \A h \in AnyRefs, v \in Nat : [h EXCEPT !.ver = v] \in AnyRefs
    BY DEF AnyRefs
  <2>5. holding'[t] \in AnyRefs
    BY <2>1, <2>2, <2>3, <2>4
  <2>6. QED
    BY <2>1, <2>2, <2>5 DEF StageKnown, Signed
<1>10. ASSUME NEW t \in Tasks, Release(t) PROVE StageKnown(t)'
  <2>1. stage[t] = "release" /\ stage'[t] = "notify" /\ UNCHANGED <<tx, pays, verdict, outcome>>
    BY <1>10, <1>t DEF Release, Goto
  <2>2. QED
    BY <1>k, <2>1 DEF StageKnown, WithCoin, Signed
<1>11. ASSUME NEW t \in Tasks, Finish(t) PROVE StageKnown(t)'
  <2>1. CASE outcome[t] = "ok" /\ pays[t] # NoRef
    <3>1. stage'[t] = "deposit" /\ UNCHANGED <<tx, pays, verdict, outcome>>
      BY <1>11, <1>t, <2>1 DEF Finish, Goto
    <3>2. QED
      BY <1>k, <1>t, <2>1, <3>1 DEF StageKnown, WithCoin, Signed
  <2>2. CASE ~(outcome[t] = "ok" /\ pays[t] # NoRef)
    <3>1. stage'[t] = "none" /\ verdict'[t] = "none" /\ outcome'[t] = "none"
      BY <1>11, <1>t, <2>2 DEF Finish, Leave, Goto
    <3>2. QED
      BY <3>1 DEF StageKnown, WithCoin, Signed
  <2>3. QED
    BY <2>1, <2>2
<1>12. ASSUME NEW t \in Tasks, Deposit(t) PROVE StageKnown(t)'
  <2>1. stage[t] = "deposit" /\ stage'[t] = "deposited" /\ UNCHANGED <<tx, verdict, outcome>>
    BY <1>12, <1>t DEF Deposit, Goto
  <2>2. QED
    BY <1>k, <2>1 DEF StageKnown, WithCoin, Signed
<1>13. ASSUME NEW x \in wire, Execute(x) \/ Refuse(x) PROVE StagesKnown'
  <2>1. UNCHANGED <<stage, holding, tx, pays, outcome>>
    BY <1>0, <1>13, NodeMoves DEF poolVars
  <2>2. \A t \in Tasks : verdict'[t] = verdict[t] \/ stage[t] = "execute"
    BY <1>0, <1>13, NodeMoves
  <2>3. ASSUME NEW t \in Tasks PROVE StageKnown(t)'
    <3>1. CASE verdict'[t] = verdict[t]
      BY <1>k, <2>1, <3>1 DEF StageKnown
    <3>2. CASE stage[t] = "execute"
      <4>1. outcome[t] = "none"
        BY <1>k, <3>2 DEF StageKnown, Signed
      <4>2. QED
        BY <1>k, <2>1, <3>2, <4>1 DEF StageKnown, WithCoin
    <3>3. QED
      BY <2>2, <3>1, <3>2
  <2>4. QED
    BY <2>3 DEF StagesKnown
<1>14. CASE UNCHANGED vars
  BY <1>k, <1>14 DEF StagesKnown, StageKnown, vars, poolVars, txVars
<1>15. QED
  BY <1>s, <1>1, <1>2, <1>3, <1>4, <1>5, <1>6, <1>7, <1>8, <1>9, <1>10, <1>11, <1>12, <1>13, <1>14
     DEF Next, Node, Progress

-------------------------------------------------------------------------------
(* Whoever moves nothing into a place leaves the places apart.                *)
LEMMA PlacesShrink ==
    ASSUME Apart, UNCHANGED pool, reused \subseteq reused',
           \A u \in Tasks :
              /\ holding'[u] # NoRef => holding[u] # NoRef /\ holding'[u].coin = holding[u].coin
              /\ pays'[u] # NoRef => pays[u] # NoRef /\ pays'[u].coin = pays[u].coin
    PROVE  Apart'
<1>1. /\ \A i, j \in 1..Len(pool) : pool[i].coin = pool[j].coin => i = j \/ Reused(pool[i].coin)'
      /\ \A t \in Tasks, i \in 1..Len(pool) :
            /\ holding'[t] # NoRef /\ holding'[t].coin = pool[i].coin => Reused(pool[i].coin)'
            /\ pays'[t] # NoRef /\ pays'[t].coin = pool[i].coin => Reused(pool[i].coin)'
  BY DEF Apart, Reused
<1>2. \A t, u \in Tasks :
          /\ holding'[t] # NoRef /\ holding'[u] # NoRef /\ t # u /\ holding'[t].coin = holding'[u].coin
                => holding'[t].coin \in reused'
          /\ holding'[t] # NoRef /\ pays'[u] # NoRef /\ holding'[t].coin = pays'[u].coin
                => holding'[t].coin \in reused'
          /\ pays'[t] # NoRef /\ pays'[u] # NoRef /\ t # u /\ pays'[t].coin = pays'[u].coin
                => pays'[t].coin \in reused'
  BY DEF Apart, Reused
<1>3. QED
  BY <1>1, <1>2 DEF Apart, Reused

LEMMA PlacesNext == ASSUME Base, Apart, [Next]_vars PROVE Apart'
<1>0. Types /\ StagesKnown /\ Len(pool) \in Nat /\ NoRef \notin AnyRefs
  BY LenProperties, NoRefIsNoRef DEF Base, Types, AnyRefs
<1>t. /\ holding \in [Tasks -> AnyRefs \cup {NoRef}] /\ pays \in [Tasks -> AnyRefs \cup {NoRef}]
      /\ pool \in Seq(AnyRefs)
  BY <1>0 DEF Types
(* A reference that nobody else has goes into the pool.                       *)
<1>a. ASSUME NEW r \in AnyRefs, pool' = Append(pool, r), reused' = reused,
             \A i \in 1..Len(pool) : pool[i].coin = r.coin => Reused(r.coin),
             \A u \in Tasks :
                /\ holding'[u] # NoRef =>
                      holding[u] = holding'[u] /\ (holding[u].coin = r.coin => Reused(r.coin))
                /\ pays'[u] # NoRef =>
                      pays[u] = pays'[u] /\ (pays[u].coin = r.coin => Reused(r.coin))
      PROVE  Apart'
  <2>1. /\ Len(pool') = Len(pool) + 1
        /\ \A i \in 1..Len(pool) : pool'[i] = pool[i]
        /\ pool'[Len(pool) + 1] = r
    BY <1>t, <1>a, AppendProperties
  <2>2. \A i \in 1..Len(pool') : i \in 1..Len(pool) \/ i = Len(pool) + 1
    BY <1>0, <2>1
  <2>3. \A i, j \in 1..Len(pool') : pool'[i].coin = pool'[j].coin => i = j \/ Reused(pool'[i].coin)
    BY <1>a, <2>1, <2>2 DEF Apart
  <2>4. \A u \in Tasks, i \in 1..Len(pool') :
            /\ holding'[u] # NoRef /\ holding'[u].coin = pool'[i].coin => Reused(pool'[i].coin)
            /\ pays'[u] # NoRef /\ pays'[u].coin = pool'[i].coin => Reused(pool'[i].coin)
    BY <1>a, <2>1, <2>2 DEF Apart
  <2>5. \A t, u \in Tasks :
          /\ holding'[t] # NoRef /\ holding'[u] # NoRef /\ t # u /\ holding'[t].coin = holding'[u].coin
                => Reused(holding'[t].coin)
          /\ holding'[t] # NoRef /\ pays'[u] # NoRef /\ holding'[t].coin = pays'[u].coin
                => Reused(holding'[t].coin)
          /\ pays'[t] # NoRef /\ pays'[u] # NoRef /\ t # u /\ pays'[t].coin = pays'[u].coin
                => Reused(pays'[t].coin)
    BY <1>a DEF Apart
  <2>6. QED
    BY <1>a, <2>3, <2>4, <2>5 DEF Apart, Reused
<1>1. ASSUME NEW t \in Tasks, Submit(t) PROVE Apart'
  <2>1. UNCHANGED <<pool, holding>>
    BY <1>1 DEF Submit, Pool!Start
  <2>2. CASE pays' = [pays EXCEPT ![t] = NoRef] /\ reused' = reused
    BY <1>t, <2>1, <2>2, PlacesShrink
  <2>3. ASSUME NEW c \in PayCoins, reused' = reused \cup ({c} \cap CoinsInUse),
               pays' = [pays EXCEPT ![t] = [coin |-> c, ver |-> chain[c]]]
        PROVE  Apart'
    <3>1. /\ pays'[t].coin = c /\ \A u \in Tasks \ {t} : pays'[u] = pays[u]
          /\ reused \subseteq reused'
          /\ \A i \in 1..Len(pool) : pool[i].coin = c => c \in reused'
          /\ \A u \in Tasks : holding[u] # NoRef /\ holding[u].coin = c => c \in reused'
          /\ \A u \in Tasks : pays[u] # NoRef /\ pays[u].coin = c => c \in reused'
      BY <1>t, <2>3 DEF CoinsInUse, Reused
    <3>2. /\ \A i, j \in 1..Len(pool) : pool[i].coin = pool[j].coin => i = j \/ pool[i].coin \in reused'
          /\ \A u \in Tasks, i \in 1..Len(pool) :
               /\ holding[u] # NoRef /\ holding[u].coin = pool[i].coin => pool[i].coin \in reused'
               /\ pays'[u] # NoRef /\ pays'[u].coin = pool[i].coin => pool[i].coin \in reused'
      BY <3>1 DEF Apart, Reused
    <3>3. \A v, u \in Tasks :
          /\ holding[v] # NoRef /\ holding[u] # NoRef /\ v # u /\ holding[v].coin = holding[u].coin
                => holding[v].coin \in reused'
          /\ holding[v] # NoRef /\ pays'[u] # NoRef /\ holding[v].coin = pays'[u].coin
                => holding[v].coin \in reused'
          /\ pays'[v] # NoRef /\ pays'[u] # NoRef /\ v # u /\ pays'[v].coin = pays'[u].coin
                => pays'[v].coin \in reused'
      BY <3>1 DEF Apart, Reused
    <3>4. QED
      BY <2>1, <3>2, <3>3 DEF Apart, Reused
  <2>4. QED
    BY <1>1, <2>2, <2>3 DEF Submit
<1>2. ASSUME NEW t \in Tasks, Acquire(t) PROVE Apart'
  <2>1. /\ pool # <<>> /\ holding' = [holding EXCEPT ![t] = pool[Len(pool)]]
        /\ pool' = SubSeq(pool, 1, Len(pool) - 1) /\ pays' = pays /\ reused' = reused
    BY <1>2 DEF Acquire, Pool!PopCoin, historyVars
  <2>2. /\ Len(pool) \in Nat \ {0} /\ Len(pool') = Len(pool) - 1
        /\ \A i \in 1..(Len(pool) - 1) : pool'[i] = pool[i]
    BY <1>t, <2>1, FrontFacts
  <2>3. /\ Len(pool) \in 1..Len(pool)
        /\ \A i \in 1..Len(pool') : i \in 1..Len(pool) /\ i # Len(pool) /\ pool'[i] = pool[i]
    BY <2>2
  <2>4. holding'[t] = pool[Len(pool)] /\ \A u \in Tasks \ {t} : holding'[u] = holding[u]
    BY <1>t, <2>1
  <2>5. \A u \in Tasks, i \in 1..Len(pool') :
          /\ holding'[u] # NoRef /\ holding'[u].coin = pool'[i].coin => Reused(pool'[i].coin)
          /\ pays'[u] # NoRef /\ pays'[u].coin = pool'[i].coin => Reused(pool'[i].coin)
    BY <2>1, <2>3, <2>4 DEF Apart
  <2>6. \A u, v \in Tasks :
          /\ holding'[u] # NoRef /\ holding'[v] # NoRef /\ u # v /\ holding'[u].coin = holding'[v].coin
                => Reused(holding'[u].coin)
          /\ holding'[u] # NoRef /\ pays'[v] # NoRef /\ holding'[u].coin = pays'[v].coin
                => Reused(holding'[u].coin)
          /\ pays[u] # NoRef /\ pays[v] # NoRef /\ u # v /\ pays[u].coin = pays[v].coin
                => Reused(pays[u].coin)
    BY <2>1, <2>3, <2>4 DEF Apart
  <2>7. \A i, j \in 1..Len(pool') : pool'[i].coin = pool'[j].coin => i = j \/ Reused(pool'[i].coin)
    BY <2>3 DEF Apart
  <2>8. QED
    BY <2>1, <2>5, <2>6, <2>7 DEF Apart, Reused
<1>3. ASSUME NEW t \in Tasks, Release(t) PROVE Apart'
  <2>1. /\ pool' = Append(pool, holding[t]) /\ holding' = [holding EXCEPT ![t] = NoRef] /\ pays' = pays
        /\ holding[t] \in AnyRefs /\ reused' = reused
    BY <1>0, <1>3 DEF Release, Pool!PushCoin, StagesKnown, StageKnown, WithCoin, historyVars
  <2>2. \A u \in Tasks : holding'[u] # NoRef => u # t /\ holding'[u] = holding[u]
    BY <1>t, <2>1
  <2>3. /\ \A i \in 1..Len(pool) : pool[i].coin = holding[t].coin => Reused(holding[t].coin)
        /\ \A u \in Tasks : u # t /\ holding[u] # NoRef /\ holding[u].coin = holding[t].coin
              => Reused(holding[t].coin)
        /\ \A u \in Tasks : pays[u] # NoRef /\ pays[u].coin = holding[t].coin => Reused(holding[t].coin)
    BY <1>0, <2>1 DEF Apart
  <2>4. QED
    BY <1>a, <2>1, <2>2, <2>3
<1>4. ASSUME NEW t \in Tasks, Deposit(t) PROVE Apart'
  <2> DEFINE r == [pays[t] EXCEPT !.ver = pays[t].ver + 1]
  <2>1. /\ pool' = Append(pool, r) /\ pays' = [pays EXCEPT ![t] = NoRef] /\ holding' = holding
        /\ pays[t] \in AnyRefs /\ reused' = reused
    BY <1>0, <1>4 DEF Deposit, Pool!DepositPayment, StagesKnown, StageKnown, historyVars
  <2>2. r \in AnyRefs /\ r.coin = pays[t].coin
    BY <2>1 DEF AnyRefs
  <2>3. \A u \in Tasks : pays'[u] # NoRef => u # t /\ pays'[u] = pays[u]
    BY <1>t, <2>1
  <2> HIDE DEF r
  <2>4. /\ \A i \in 1..Len(pool) : pool[i].coin = r.coin => Reused(r.coin)
        /\ \A u \in Tasks : holding[u] # NoRef /\ holding[u].coin = r.coin => Reused(r.coin)
        /\ \A u \in Tasks : u # t /\ pays[u] # NoRef /\ pays[u].coin = r.coin => Reused(r.coin)
    BY <1>0, <2>1, <2>2 DEF Apart
  <2>5. QED
    BY <1>a, <2>1, <2>2, <2>3, <2>4
<1>5. ASSUME NEW t \in Tasks, Refresh(t) PROVE Apart'
  <2>1. UNCHANGED <<pool, pays, reused>>
        /\ holding' = [holding EXCEPT ![t] = [holding[t] EXCEPT !.ver = chain[holding[t].coin]]]
        /\ holding[t] \in AnyRefs
    BY <1>0, <1>5 DEF Refresh, StagesKnown, StageKnown, WithCoin
  <2>2. holding'[t].coin = holding[t].coin /\ \A u \in Tasks \ {t} : holding'[u] = holding[u]
    BY <1>t, <2>1 DEF AnyRefs
  <2>3. QED
    BY <1>0, <2>1, <2>2, PlacesShrink
<1>6. ASSUME NEW t \in Tasks, Abandon(t) \/ Finish(t) \/ NotifyDeposit(t) \/ NothingToDeposit(t)
      PROVE  Apart'
  <2>1. /\ pool' = pool /\ reused' = reused
        /\ holding' = holding \/ holding' = [holding EXCEPT ![t] = NoRef]
        /\ pays' = pays \/ pays' = [pays EXCEPT ![t] = NoRef]
    BY <1>6 DEF Abandon, Finish, NotifyDeposit, NothingToDeposit, Leave, Pool!LoseCoin, Pool!NotifyOne, poolVars, historyVars
  <2>2. QED
    BY <1>t, <2>1, PlacesShrink
<1>7. ASSUME NEW t \in Tasks,
             Wait(t) \/ Sign(t) \/ Send(t) \/ SubscribeFails(t) \/ Fail(t) \/ Executed(t) \/ Confirm(t)
               \/ LockClient(t) \/ RefreshFails(t)
      PROVE  Apart'
  <2>1. UNCHANGED <<pool, holding, pays, reused>>
    BY <1>7 DEF Wait, Sign, Send, SubscribeFails, Fail, Executed, Confirm, LockClient, RefreshFails,
                Pool!FoundEmpty, Pool!ConsumePermit, Pool!Park, Pool!Resume, poolVars, txVars, historyVars
  <2>2. QED
    BY <2>1, PlacesShrink
<1>8. CASE (\E x \in wire : Execute(x) \/ Refuse(x)) \/ UNCHANGED vars
  <2>1. UNCHANGED <<pool, holding, pays, reused>>
    BY <1>8 DEF Execute, Refuse, vars, poolVars, txVars, historyVars
  <2>2. QED
    BY <2>1, PlacesShrink
<1>9. QED
  BY <1>1, <1>2, <1>3, <1>4, <1>5, <1>6, <1>7, <1>8 DEF Next, Node, Progress

-------------------------------------------------------------------------------
(* No transaction on the wire can change the coin any more.                   *)
Clean(c) == \A x \in wire :
    /\ x.gas.coin = c => x.gas.ver < chain[c]
    /\ x.pay # NoRef /\ x.pay.coin = c => x.pay.ver < chain[c]

(* A reference that may be signed: current and to stay so, unless the coin is *)
(* one of those whose last submission failed, or was named while in use.      *)
Usable(r) == (Current(r) /\ Clean(r.coin)) \/ r.coin \in suspect \/ Reused(r.coin)

Reached(r) == r.ver <= chain[r.coin]

PoolUsable == \A i \in 1..Len(pool) : Reached(pool[i]) /\ Usable(pool[i])
WireReached == \A x \in wire : Reached(x.gas) /\ (x.pay # NoRef => Reached(x.pay))

(* The transaction of a task was executed.                                    *)
Confirmed(t) ==
    \/ stage[t] = "execute" /\ verdict[t] \in {"success", "failure"}
    \/ stage[t] \in {"confirm", "fetch", "fetching"}
PaySettled(t) == pays[t] # NoRef =>
    /\ pays[t].ver + 1 <= chain[pays[t].coin]
    /\ Reused(pays[t].coin) \/ (Clean(pays[t].coin) /\ pays[t].ver + 1 = chain[pays[t].coin])
TaskSettled(t) ==
    /\ holding[t] # NoRef => Reached(holding[t])
    /\ pays[t] # NoRef => Reached(pays[t])
    /\ stage[t] \in {"sign", "subscribe", "release"} => Usable(holding[t])
    /\ Confirmed(t) => Clean(holding[t].coin) \/ Reused(holding[t].coin)
    /\ Confirmed(t) \/ outcome[t] = "ok" =>
          tx[t] \notin wire /\ tx[t].gas.ver < chain[tx[t].gas.coin] /\ PaySettled(t)
TasksSettled == \A t \in Tasks : TaskSettled(t)

VersionInv == PoolUsable /\ WireReached /\ TasksSettled
SubmissionInv == Base /\ Apart /\ VersionInv

(* A step that sends nothing and trusts no coin again leaves what is known of *)
(* the other tasks and of the references it does not touch.                   *)
LEMMA OthersSettled ==
    ASSUME TasksSettled, NEW t \in Tasks, OthersKeep(t), UNCHANGED netVars,
           suspect \subseteq suspect', reused \subseteq reused', TaskSettled(t)'
    PROVE  TasksSettled'
<1>1. ASSUME NEW u \in Tasks \ {t} PROVE TaskSettled(u)'
  <2>1. TaskSettled(u) /\ UNCHANGED <<wire, chain>>
    BY DEF TasksSettled, netVars
  <2>2. Confirmed(u)' <=> Confirmed(u)
    BY DEF OthersKeep, Confirmed
  <2>3. \A c : Clean(c)' <=> Clean(c)
    BY <2>1 DEF Clean
  <2>4. /\ \A r : Reached(r) => Reached(r)'
        /\ \A r : Usable(r) => Usable(r)'
    BY <2>1, <2>3 DEF Usable, Current, Reached, Reused
  <2>5. \A c : Reused(c) => Reused(c)'
    BY DEF Reused
  <2>6. QED
    BY <2>1, <2>2, <2>3, <2>4, <2>5 DEF TaskSettled, PaySettled, OthersKeep
<1>2. QED
  BY <1>1 DEF TasksSettled

LEMMA SameNet ==
    ASSUME UNCHANGED netVars, suspect \subseteq suspect', reused \subseteq reused'
    PROVE  /\ \A c : Clean(c)' <=> Clean(c)
           /\ \A r : Reached(r)' <=> Reached(r)
           /\ \A r : Usable(r) => Usable(r)'
           /\ \A r : Current(r)' <=> Current(r)
           /\ \A c : Reused(c) => Reused(c)'
           /\ WireReached => WireReached'
<1>1. UNCHANGED <<wire, chain>>
  BY DEF netVars
<1>2. \A c : Clean(c)' <=> Clean(c)
  BY <1>1 DEF Clean
<1>3. QED
  BY <1>1, <1>2 DEF Usable, Current, Reached, Reused, WireReached

LEMMA PoolSame ==
    ASSUME PoolUsable, UNCHANGED <<pool, netVars>>, suspect \subseteq suspect', reused \subseteq reused'
    PROVE  PoolUsable'
  BY SameNet DEF PoolUsable

(* The pool with a reference more.                                            *)
LEMMA PoolGrows ==
    ASSUME Types, PoolUsable, UNCHANGED netVars, suspect \subseteq suspect', reused \subseteq reused',
           NEW r \in AnyRefs, pool' = Append(pool, r), Reached(r)', Usable(r)'
    PROVE  PoolUsable'
<1>1. /\ Len(pool) \in Nat /\ Len(pool') = Len(pool) + 1
      /\ \A i \in 1..Len(pool) : pool'[i] = pool[i]
      /\ pool'[Len(pool) + 1] = r
  BY AppendProperties, LenProperties DEF Types
<1>2. \A i \in 1..Len(pool') : i \in 1..Len(pool) \/ i = Len(pool) + 1
  BY <1>1
<1>3. QED
  BY <1>1, <1>2, SameNet DEF PoolUsable

LEMMA VersionsNextLocal ==
    ASSUME SubmissionInv, NEW t \in Tasks, ~Send(t), ~Refresh(t),
           Submit(t) \/ Progress(t) \/ Abandon(t)
    PROVE  VersionInv'
<1>0. /\ Types /\ WaitersKnown /\ StageKnown(t) /\ TaskSettled(t) /\ OthersKeep(t)
      /\ TasksSettled /\ PoolUsable /\ WireReached
  BY StepsAreOwn DEF SubmissionInv, Base, StagesKnown, VersionInv, TasksSettled
<1>t. /\ stage \in [Tasks -> Steps] /\ holding \in [Tasks -> AnyRefs \cup {NoRef}]
      /\ tx \in [Tasks -> AnyTxs \cup {NoTx}] /\ pays \in [Tasks -> AnyRefs \cup {NoRef}]
      /\ outcome \in [Tasks -> {"none", "ok", "err"}] /\ pool \in Seq(AnyRefs)
      /\ verdict \in [Tasks -> {"none", "success", "failure", "refused"}]
      /\ chain \in [Coins -> Nat] /\ NoRef \notin AnyRefs
  BY <1>0, NoRefIsNoRef DEF Types, AnyRefs
<1>n. UNCHANGED netVars /\ suspect \subseteq suspect' /\ reused \subseteq reused'
  BY DEF Submit, Progress, Abandon, Wait, Acquire, Sign, SubscribeFails, Fail, Executed, Confirm,
         LockClient, RefreshFails, Release, Finish, Deposit, NotifyDeposit, NothingToDeposit, historyVars
<1>m. /\ \A c : Clean(c)' <=> Clean(c)
      /\ \A r : Reached(r)' <=> Reached(r)
      /\ \A r : Usable(r) => Usable(r)'
      /\ \A c : Reused(c) => Reused(c)'
      /\ WireReached' /\ UNCHANGED <<wire, chain>>
  BY <1>0, <1>n, SameNet DEF netVars
<1>q. ASSUME PoolUsable', TaskSettled(t)' PROVE VersionInv'
  BY <1>0, <1>n, <1>m, <1>q, OthersSettled DEF VersionInv
<1>p. ASSUME UNCHANGED pool PROVE PoolUsable'
  BY <1>0, <1>n, <1>p, PoolSame
(* A task that leaves has nothing to keep.                                    *)
<1>l. ASSUME stage'[t] = "none", outcome'[t] = "none", pays'[t] = NoRef,
             holding'[t] # NoRef => holding'[t] = holding[t]
      PROVE  TaskSettled(t)'
  BY <1>0, <1>m, <1>l DEF TaskSettled, Confirmed, PaySettled
<1>1. CASE Submit(t)
  <2>1. /\ UNCHANGED <<pool, holding, stage, outcome>> /\ stage[t] = "none" /\ outcome[t] = "none"
    BY <1>0, <1>1 DEF Submit, Pool!Start, StageKnown
  <2>2. pays'[t] # NoRef => Reached(pays'[t])
    <3>1. \A c \in PayCoins : Reached([coin |-> c, ver |-> chain[c]])
      BY <1>t, CoinsAssumption DEF Reached
    <3>2. pays'[t] = NoRef \/ \E c \in PayCoins : pays'[t] = [coin |-> c, ver |-> chain[c]]
      BY <1>t, <1>1 DEF Submit
    <3>3. QED
      BY <3>1, <3>2
  <2>3. TaskSettled(t)'
    BY <1>0, <1>m, <2>1, <2>2 DEF TaskSettled, Confirmed, PaySettled
  <2>4. QED
    BY <1>p, <1>q, <2>1, <2>3
<1>2. CASE Wait(t)
  <2>1. UNCHANGED <<pool, holding, stage, tx, pays, verdict, outcome>>
    BY <1>0, <1>2, WaitMoves DEF txVars
  <2>2. TaskSettled(t)'
    BY <1>0, <1>m, <2>1 DEF TaskSettled, Confirmed, PaySettled
  <2>3. QED
    BY <1>p, <1>q, <2>1, <2>2
<1>3. CASE Acquire(t)
  <2> DEFINE r == pool[Len(pool)]
  <2>1. /\ pc[t] = "acquire" /\ pool # <<>> /\ holding' = [holding EXCEPT ![t] = r]
        /\ pool' = SubSeq(pool, 1, Len(pool) - 1)
        /\ stage' = [stage EXCEPT ![t] = "sign"] /\ UNCHANGED <<pays, outcome>>
    BY <1>3 DEF Acquire, Goto, Pool!PopCoin
  <2>2. /\ Len(pool) \in Nat \ {0} /\ Len(pool') = Len(pool) - 1 /\ r \in AnyRefs
        /\ \A i \in 1..(Len(pool) - 1) : pool'[i] = pool[i]
    BY <1>t, <2>1, FrontFacts
  <2>3. /\ Len(pool) \in 1..Len(pool)
        /\ \A i \in 1..Len(pool') : i \in 1..Len(pool) /\ pool'[i] = pool[i]
    BY <2>2
  <2>4. PoolUsable'
    BY <1>0, <1>m, <2>3 DEF PoolUsable
  <2>5. Reached(r) /\ Usable(r)
    BY <1>0, <2>3 DEF PoolUsable
  <2>6. stage[t] = "none" /\ outcome[t] = "none"
    BY <1>0, <2>1 DEF WaitersKnown, StageKnown
  <2>7. holding'[t] = r /\ stage'[t] = "sign" /\ pays'[t] = pays[t] /\ outcome'[t] = "none"
    BY <1>t, <2>1, <2>6
  <2> HIDE DEF r
  <2>8. TaskSettled(t)'
    BY <1>0, <1>m, <2>5, <2>7 DEF TaskSettled, Confirmed, PaySettled
  <2>9. QED
    BY <1>q, <2>4, <2>8
<1>4. CASE Sign(t) \/ SubscribeFails(t)
  <2>1. /\ UNCHANGED <<pool, holding, pays>> /\ stage[t] \in {"sign", "subscribe"}
        /\ stage'[t] \in {"subscribe", "release"} /\ outcome'[t] # "ok"
    BY <1>0, <1>t, <1>4 DEF Sign, SubscribeFails, Goto, Return, poolVars, StageKnown, Signed
  <2>2. TaskSettled(t)'
    BY <1>0, <1>m, <2>1 DEF TaskSettled, Confirmed, PaySettled
  <2>3. QED
    BY <1>p, <1>q, <2>1, <2>2
<1>5. CASE Fail(t) \/ RefreshFails(t)
  <2>1. /\ UNCHANGED <<pool, holding, pays>> /\ stage'[t] = "release" /\ outcome'[t] = "err"
        /\ suspect' = suspect \cup {holding[t].coin}
    BY <1>t, <1>5 DEF Fail, RefreshFails, Goto, Return, poolVars
  <2>2. TaskSettled(t)'
    BY <1>0, <1>m, <2>1 DEF TaskSettled, Confirmed, PaySettled, Usable
  <2>3. QED
    BY <1>p, <1>q, <2>1, <2>2
<1>6. CASE Executed(t) \/ Confirm(t) \/ LockClient(t)
  <2>1. /\ UNCHANGED <<pool, holding, tx, pays, outcome>> /\ Confirmed(t)
        /\ stage'[t] \in {"confirm", "fetch", "fetching"}
    BY <1>t, <1>6 DEF Executed, Confirm, LockClient, Goto, poolVars, Confirmed
  <2>2. TaskSettled(t)'
    BY <1>0, <1>m, <2>1 DEF TaskSettled, Confirmed, PaySettled
  <2>3. QED
    BY <1>p, <1>q, <2>1, <2>2
<1>7. CASE Release(t)
  <2> DEFINE r == holding[t]
  <2>1. /\ stage[t] = "release" /\ pool' = Append(pool, r) /\ holding' = [holding EXCEPT ![t] = NoRef]
        /\ stage' = [stage EXCEPT ![t] = "notify"] /\ UNCHANGED <<tx, pays, outcome>>
    BY <1>7 DEF Release, Pool!PushCoin, Goto
  <2>2. r \in AnyRefs /\ Reached(r) /\ Usable(r)
    BY <1>0, <1>t, <2>1 DEF StageKnown, WithCoin, TaskSettled
  <2>3. holding'[t] = NoRef /\ stage'[t] = "notify"
    BY <1>t, <2>1
  <2> HIDE DEF r
  <2>4. PoolUsable'
    BY <1>0, <1>n, <1>m, <2>1, <2>2, PoolGrows
  <2>5. TaskSettled(t)'
    BY <1>0, <1>m, <2>1, <2>3 DEF TaskSettled, Confirmed, PaySettled
  <2>6. QED
    BY <1>q, <2>4, <2>5
<1>8. CASE Finish(t)
  <2>1. UNCHANGED <<pool, holding>> /\ stage[t] = "notify"
    BY <1>8 DEF Finish, Pool!NotifyOne
  <2>2. CASE outcome[t] = "ok" /\ pays[t] # NoRef
    <3>1. stage'[t] = "deposit" /\ UNCHANGED <<tx, pays, outcome>>
      BY <1>t, <1>8, <2>2 DEF Finish, Goto
    <3>2. TaskSettled(t)'
      BY <1>0, <1>m, <2>1, <3>1 DEF TaskSettled, Confirmed, PaySettled
    <3>3. QED
      BY <1>p, <1>q, <2>1, <3>2
  <2>3. CASE ~(outcome[t] = "ok" /\ pays[t] # NoRef)
    <3>1. stage'[t] = "none" /\ outcome'[t] = "none" /\ pays'[t] = NoRef
      BY <1>t, <1>8, <2>3 DEF Finish, Leave, Goto
    <3>2. QED
      BY <1>l, <1>p, <1>q, <2>1, <3>1
  <2>4. QED
    BY <2>2, <2>3
<1>9. CASE Deposit(t)
  <2> DEFINE r == [pays[t] EXCEPT !.ver = pays[t].ver + 1]
  <2>1. /\ stage[t] = "deposit" /\ pool' = Append(pool, r) /\ pays' = [pays EXCEPT ![t] = NoRef]
        /\ stage' = [stage EXCEPT ![t] = "deposited"] /\ UNCHANGED <<holding, tx, outcome>>
    BY <1>9 DEF Deposit, Pool!DepositPayment, Goto
  <2>2. pays[t] \in AnyRefs /\ outcome[t] = "ok"
    BY <1>0, <2>1 DEF StageKnown
  <2>3. /\ pays[t].ver + 1 <= chain[pays[t].coin]
        /\ Reused(pays[t].coin) \/ (Clean(pays[t].coin) /\ pays[t].ver + 1 = chain[pays[t].coin])
    BY <1>0, <1>t, <2>2 DEF TaskSettled, PaySettled
  <2>4. r \in AnyRefs /\ r.coin = pays[t].coin /\ r.ver = pays[t].ver + 1
    BY <2>2 DEF AnyRefs
  <2>5. pays'[t] = NoRef /\ stage'[t] = "deposited"
    BY <1>t, <2>1
  <2> HIDE DEF r
  <2>6. Reached(r) /\ Usable(r)
    BY <2>3, <2>4 DEF Reached, Usable, Current
  <2>7. PoolUsable'
    BY <1>0, <1>n, <1>m, <2>1, <2>4, <2>6, PoolGrows
  <2>8. TaskSettled(t)'
    BY <1>0, <1>m, <2>1, <2>5 DEF TaskSettled, Confirmed, PaySettled
  <2>9. QED
    BY <1>q, <2>7, <2>8
<1>10. CASE NotifyDeposit(t) \/ NothingToDeposit(t) \/ Abandon(t)
  <2>1. /\ UNCHANGED pool /\ stage'[t] = "none" /\ outcome'[t] = "none" /\ pays'[t] = NoRef
        /\ holding'[t] # NoRef => holding'[t] = holding[t]
    BY <1>t, <1>10 DEF NotifyDeposit, NothingToDeposit, Abandon, Leave, Goto, Pool!NotifyOne,
                       Pool!LoseCoin, poolVars
  <2>2. QED
    BY <1>l, <1>p, <1>q, <2>1
<1>11. QED
  BY <1>1, <1>2, <1>3, <1>4, <1>5, <1>6, <1>7, <1>8, <1>9, <1>10 DEF Progress

(* The transaction that is sent touches the coins of its task only, and those *)
(* are in no other place.                                                     *)
LEMMA VersionsNextSend ==
    ASSUME SubmissionInv, NEW t \in Tasks, Send(t)
    PROVE  VersionInv'
<1>0. /\ Types /\ StagesKnown /\ TasksSettled /\ PoolUsable /\ WireReached /\ OthersKeep(t)
      /\ Apart
  BY StepsAreOwn DEF SubmissionInv, Base, VersionInv, Progress
<1>t. /\ stage \in [Tasks -> Steps] /\ holding \in [Tasks -> AnyRefs \cup {NoRef}]
      /\ pays \in [Tasks -> AnyRefs \cup {NoRef}] /\ NoRef \notin AnyRefs
  BY <1>0, NoRefIsNoRef DEF Types, AnyRefs
<1>1. /\ stage[t] = "subscribe" /\ stage'[t] = "execute" /\ wire' = wire \cup {tx[t]}
      /\ UNCHANGED <<pool, holding, tx, pays, verdict, outcome, chain, suspect, reused>>
  BY <1>t DEF Send, Goto, poolVars, historyVars
<1>2. /\ tx[t].gas = holding[t] /\ tx[t].pay = pays[t] /\ holding[t] \in AnyRefs /\ tx[t].task = t
      /\ verdict[t] = "none" /\ outcome[t] = "none"
  BY <1>0, <1>1 DEF StagesKnown, StageKnown, WithCoin, Signed
<1>3. Reached(holding[t]) /\ (pays[t] # NoRef => Reached(pays[t]))
  BY <1>0, <1>t, <1>2 DEF TasksSettled, TaskSettled
<1>4. WireReached'
  BY <1>0, <1>1, <1>2, <1>3 DEF WireReached, Reached
<1>c. ASSUME NEW c, c # holding[t].coin, pays[t] # NoRef => c # pays[t].coin, Clean(c)
      PROVE  Clean(c)'
  BY <1>1, <1>2, <1>c DEF Clean
<1>5. PoolUsable'
  <2> SUFFICES ASSUME NEW i \in 1..Len(pool) PROVE Reached(pool[i])' /\ Usable(pool[i])'
    BY <1>1 DEF PoolUsable
  <2>1. Reached(pool[i]) /\ Usable(pool[i])
    BY <1>0 DEF PoolUsable
  <2>2. \/ Reused(pool[i].coin)
        \/ pool[i].coin # holding[t].coin /\ (pays[t] # NoRef => pool[i].coin # pays[t].coin)
    BY <1>0, <1>t, <1>2 DEF Apart
  <2>3. Clean(pool[i].coin) => Clean(pool[i].coin)' \/ Reused(pool[i].coin)
    <3>1. \A c : c # holding[t].coin /\ (pays[t] # NoRef => c # pays[t].coin) /\ Clean(c) => Clean(c)'
      BY <1>c
    <3>2. QED
      BY <1>1, <2>2, <3>1 DEF Clean
  <2>4. QED
    BY <1>1, <2>1, <2>3 DEF Reached, Usable, Current, Reused
<1>6. ASSUME NEW u \in Tasks \ {t} PROVE TaskSettled(u)'
  <2>1. TaskSettled(u) /\ StageKnown(u)
    BY <1>0 DEF TasksSettled, StagesKnown
  <2>2. /\ stage'[u] = stage[u] /\ UNCHANGED <<holding, tx, pays, verdict, outcome, chain, suspect, reused>>
    BY <1>0, <1>1 DEF OthersKeep
  <2>3. /\ holding[u] # NoRef => Reused(holding[u].coin) \/
              (holding[u].coin # holding[t].coin /\ (pays[t] # NoRef => holding[u].coin # pays[t].coin))
        /\ pays[u] # NoRef => Reused(pays[u].coin) \/
              (pays[u].coin # holding[t].coin /\ (pays[t] # NoRef => pays[u].coin # pays[t].coin))
    BY <1>0, <1>t, <1>2 DEF Apart
  <2>4. /\ holding[u] # NoRef /\ Clean(holding[u].coin) => Clean(holding[u].coin)' \/ Reused(holding[u].coin)
        /\ pays[u] # NoRef /\ Clean(pays[u].coin) => Clean(pays[u].coin)' \/ Reused(pays[u].coin)
    <3>1. \A c : c # holding[t].coin /\ (pays[t] # NoRef => c # pays[t].coin) /\ Clean(c) => Clean(c)'
      BY <1>c
    <3>2. UNCHANGED <<holding, pays>>
      BY <1>1
    <3>3. QED
      BY <1>1, <2>3, <3>1, <3>2 DEF Clean
  <2>5. Confirmed(u) \/ stage[u] \in {"sign", "subscribe", "release"} => holding[u] # NoRef
    BY <1>t, <2>1 DEF Confirmed, StageKnown, WithCoin
  <2>6. Confirmed(u) \/ outcome[u] = "ok" => tx[u] # tx[t]
    BY <1>2, <2>1 DEF Confirmed, StageKnown, Signed
  <2>7. Confirmed(u)' <=> Confirmed(u)
    BY <2>2 DEF Confirmed
  <2>8. QED
    BY <1>1, <2>1, <2>2, <2>4, <2>5, <2>6, <2>7 DEF TaskSettled, PaySettled, Reached, Usable, Current, Reused
<1>7. TaskSettled(t)'
  BY <1>1, <1>2, <1>3 DEF TaskSettled, Confirmed, Reached
<1>8. QED
  BY <1>4, <1>5, <1>6, <1>7 DEF VersionInv, TasksSettled

(* A coin that is refreshed after its transaction was executed is as the      *)
(* chain has it, and stays so.                                                *)
LEMMA VersionsNextRefresh ==
    ASSUME SubmissionInv, NEW t \in Tasks, Refresh(t)
    PROVE  VersionInv'
<1>0. /\ Types /\ StagesKnown /\ TasksSettled /\ PoolUsable /\ WireReached /\ OthersKeep(t)
      /\ Apart
  BY StepsAreOwn DEF SubmissionInv, Base, VersionInv, Progress
<1>t. /\ stage \in [Tasks -> Steps] /\ holding \in [Tasks -> AnyRefs \cup {NoRef}]
      /\ outcome \in [Tasks -> {"none", "ok", "err"}] /\ chain \in [Coins -> Nat]
      /\ pays \in [Tasks -> AnyRefs \cup {NoRef}] /\ NoRef \notin AnyRefs
  BY <1>0, NoRefIsNoRef DEF Types, AnyRefs
<1> DEFINE c == holding[t].coin
           r == [holding[t] EXCEPT !.ver = chain[c]]
<1>1. /\ stage[t] = "fetching" /\ stage'[t] = "release" /\ outcome'[t] = "ok"
      /\ holding'[t] = r /\ suspect' = suspect \ {c}
      /\ UNCHANGED <<pool, tx, pays, verdict, wire, chain, reused>>
  BY <1>t DEF Refresh, Goto, Return, netVars
<1>2. holding[t] \in AnyRefs /\ Confirmed(t)
  BY <1>0, <1>1 DEF StagesKnown, StageKnown, WithCoin, Confirmed
<1>3. r.coin = c /\ r.ver = chain[c] /\ chain[c] \in Nat
  BY <1>t, <1>2 DEF AnyRefs
<1>4. /\ Clean(c) \/ Reused(c)
      /\ tx[t] \notin wire /\ tx[t].gas.ver < chain[tx[t].gas.coin] /\ PaySettled(t)
      /\ pays[t] # NoRef => Reached(pays[t])
  BY <1>0, <1>2 DEF TasksSettled, TaskSettled
<1>c. \A d : Clean(d)' <=> Clean(d)
  BY <1>1 DEF Clean
<1>u. ASSUME NEW d, d.coin # c \/ Reused(d.coin), Usable(d) PROVE Usable(d)'
  BY <1>1, <1>c, <1>u DEF Usable, Current, Reused
<1>5. WireReached'
  BY <1>0, <1>1 DEF WireReached, Reached
<1> HIDE DEF r
<1>6. TaskSettled(t)'
  <2>1. Reached(holding'[t]) /\ Current(holding'[t]) /\ holding'[t].coin = c
    BY <1>1, <1>3 DEF Reached, Current
  <2>2. Usable(holding[t])' /\ Reached(holding[t])'
    BY <1>1, <1>4, <1>c, <2>1 DEF Usable, Current, Reached, Reused
  <2>3. ~Confirmed(t)'
    BY <1>1 DEF Confirmed
  <2>4. PaySettled(t)'
    BY <1>1, <1>4, <1>c DEF PaySettled, Reused
  <2>5. QED
    BY <1>1, <1>4, <2>2, <2>3, <2>4 DEF TaskSettled, Reached
<1>7. PoolUsable'
  <2> SUFFICES ASSUME NEW i \in 1..Len(pool) PROVE Reached(pool[i])' /\ Usable(pool[i])'
    BY <1>1 DEF PoolUsable
  <2>1. Reached(pool[i]) /\ Usable(pool[i]) /\ (pool[i].coin # c \/ Reused(pool[i].coin))
    BY <1>0, <1>t, <1>2 DEF PoolUsable, Apart
  <2>2. QED
    BY <1>1, <1>c, <2>1 DEF Reached, Usable, Current, Reused
<1>8. ASSUME NEW u \in Tasks \ {t} PROVE TaskSettled(u)'
  <2>1. TaskSettled(u) /\ StageKnown(u)
    BY <1>0 DEF TasksSettled, StagesKnown
  <2>2. /\ stage'[u] = stage[u] /\ holding'[u] = holding[u] /\ outcome'[u] = outcome[u]
        /\ UNCHANGED <<tx, pays, verdict, chain, wire, reused>>
    BY <1>0, <1>1 DEF OthersKeep
  <2>3. Confirmed(u)' <=> Confirmed(u)
    BY <2>2 DEF Confirmed
  <2>4. stage[u] \in {"sign", "subscribe", "release"} => holding[u] # NoRef
    BY <1>t, <2>1 DEF StageKnown, WithCoin
  <2>5. holding[u] # NoRef => holding[u].coin # c \/ Reused(holding[u].coin)
    BY <1>0, <1>t, <1>2 DEF Apart
  <2>6. stage'[u] \in {"sign", "subscribe", "release"} => Usable(holding[u])'
    BY <1>1, <1>c, <2>1, <2>2, <2>4, <2>5 DEF TaskSettled, Usable, Current, Reused
  <2>7. QED
    BY <1>c, <2>1, <2>2, <2>3, <2>6 DEF TaskSettled, PaySettled, Reached, Reused
<1>9. QED
  BY <1>5, <1>6, <1>7, <1>8 DEF VersionInv, TasksSettled

(* What is executed spends no coin that anybody counts on: its references     *)
(* were current, and those of a clean coin are not.                           *)
LEMMA VersionsNextExecute ==
    ASSUME SubmissionInv, NEW x \in wire, Execute(x)
    PROVE  VersionInv'
<1>0. /\ Types /\ StagesKnown /\ TasksSettled /\ PoolUsable /\ WireReached
  BY DEF SubmissionInv, Base, VersionInv
<1>t. /\ wire \subseteq AnyTxs /\ chain \in [Coins -> Nat] /\ holding \in [Tasks -> AnyRefs \cup {NoRef}]
      /\ pays \in [Tasks -> AnyRefs \cup {NoRef}] /\ pool \in Seq(AnyRefs) /\ NoRef \notin AnyRefs
  BY <1>0, NoRefIsNoRef DEF Types, AnyRefs
<1>1. /\ wire' = wire \ {x} /\ UNCHANGED <<pool, holding, stage, tx, pays, outcome, suspect, reused>>
      /\ \A t \in Tasks : verdict'[t] # verdict[t] => stage[t] = "execute" /\ tx[t] = x
  BY <1>0, NodeMoves DEF poolVars
<1>2. /\ Valid(x)
      /\ \A c \in Coins : chain'[c] = IF c \in Spent(x) THEN chain[c] + 1 ELSE chain[c]
  BY <1>t DEF Execute
<1>3. /\ x \in AnyTxs /\ x.gas.ver = chain[x.gas.coin]
      /\ x.pay # NoRef => x.pay \in AnyRefs /\ x.pay.ver = chain[x.pay.coin]
  BY <1>t, <1>2 DEF Valid, Current, AnyTxs
(* A clean coin is not spent, and stays clean.                                *)
<1>4. ASSUME NEW c \in Coins, Clean(c) PROVE c \notin Spent(x) /\ chain'[c] = chain[c] /\ Clean(c)'
  <2>1. c \notin Spent(x)
    <3>1. chain[c] \in Nat
      BY <1>t
    <3>2. QED
      BY <1>3, <1>4, <3>1 DEF Clean, Spent
  <2>2. chain'[c] = chain[c]
    BY <1>2, <2>1
  <2>3. QED
    BY <1>1, <1>4, <2>1, <2>2 DEF Clean
(* A spent coin has become clean.                                             *)
<1>5. ASSUME NEW c \in Coins, c \in Spent(x) PROVE Clean(c)' /\ chain'[c] = chain[c] + 1
  <2>1. chain'[c] = chain[c] + 1 /\ chain[c] \in Nat
    BY <1>t, <1>2, <1>5
  <2>2. ASSUME NEW y \in wire
        PROVE  /\ y.gas.coin = c => y.gas.ver < chain'[c]
               /\ y.pay # NoRef /\ y.pay.coin = c => y.pay.ver < chain'[c]
    <3>1. y.gas \in AnyRefs /\ (y.pay # NoRef => y.pay \in AnyRefs)
      BY <1>t DEF AnyTxs
    <3>2. Reached(y.gas) /\ (y.pay # NoRef => Reached(y.pay))
      BY <1>0 DEF WireReached
    <3>3. QED
      BY <2>1, <3>1, <3>2 DEF Reached, AnyRefs
  <2>3. QED
    BY <1>1, <2>1, <2>2 DEF Clean
<1>6. \A c \in Coins : chain[c] <= chain'[c] /\ chain[c] \in Nat /\ chain'[c] \in Nat
  BY <1>t, <1>2
<1>7. \A r \in AnyRefs : Reached(r) => Reached(r)'
  <2> SUFFICES ASSUME NEW r \in AnyRefs, Reached(r) PROVE r.ver <= chain'[r.coin]
    BY DEF Reached
  <2>1. r.coin \in Coins /\ r.ver \in Nat
    BY DEF AnyRefs
  <2>2. QED
    BY <1>6, <2>1 DEF Reached
<1>8. \A r \in AnyRefs : Usable(r) => Usable(r)'
  <2> SUFFICES ASSUME NEW r \in AnyRefs, Current(r), Clean(r.coin) PROVE Current(r)' /\ Clean(r.coin)'
    BY <1>1 DEF Usable, Reused
  <2>1. r.coin \in Coins
    BY DEF AnyRefs
  <2>2. QED
    BY <1>4, <2>1 DEF Current
<1>9. WireReached'
  <2>1. \A y \in wire : y.gas \in AnyRefs /\ (y.pay # NoRef => y.pay \in AnyRefs)
    BY <1>t DEF AnyTxs
  <2>2. QED
    BY <1>0, <1>1, <1>7, <2>1 DEF WireReached
<1>10. PoolUsable'
  <2>1. \A i \in 1..Len(pool) : pool[i] \in AnyRefs
    BY <1>t, ElementOfSeq
  <2>2. QED
    BY <1>0, <1>1, <1>7, <1>8, <2>1 DEF PoolUsable
<1>11. ASSUME NEW u \in Tasks PROVE TaskSettled(u)'
  <2>1. TaskSettled(u) /\ StageKnown(u)
    BY <1>0 DEF TasksSettled, StagesKnown
  <2>2. /\ holding[u] # NoRef => holding[u] \in AnyRefs
        /\ pays[u] # NoRef => pays[u] \in AnyRefs
        /\ stage[u] \in WithCoin => holding[u] \in AnyRefs
    BY <1>t, <2>1 DEF StageKnown
  <2>3. /\ holding[u] # NoRef => Reached(holding[u])'
        /\ pays[u] # NoRef => Reached(pays[u])'
        /\ stage[u] \in {"sign", "subscribe", "release"} => Usable(holding[u])'
    <3>1. \A r \in AnyRefs : (Reached(r) => r.ver <= chain'[r.coin])
      BY <1>7 DEF Reached
    <3>2. \A r \in AnyRefs :
            Usable(r) => (r.ver = chain'[r.coin] /\ Clean(r.coin)') \/ r.coin \in suspect \/ Reused(r.coin)
      BY <1>1, <1>8 DEF Usable, Current, Reused
    <3>3. stage[u] \in {"sign", "subscribe", "release"} => Usable(holding[u]) /\ holding[u] \in AnyRefs
      BY <2>1, <2>2 DEF TaskSettled, WithCoin
    <3>4. QED
      BY <1>1, <2>1, <2>2, <3>1, <3>2, <3>3 DEF TaskSettled, Reached, Usable, Current, Reused
  <2>4. CASE Confirmed(u) \/ outcome[u] = "ok"
    <3>1. tx[u] \in AnyTxs
      BY <2>1, <2>4 DEF StageKnown, Confirmed, Signed
    <3>2. tx[u].gas.coin \in Coins /\ tx[u].gas.ver \in Nat
      BY <3>1 DEF AnyTxs, AnyRefs
    <3>3. tx[u] \notin wire' /\ tx[u].gas.ver < chain'[tx[u].gas.coin]
      BY <1>1, <1>6, <2>1, <2>4, <3>2 DEF TaskSettled
    <3>4. PaySettled(u)'
      <4>1. CASE pays[u] # NoRef
        <5>1. /\ pays[u].coin \in Coins /\ pays[u].ver \in Nat
              /\ pays[u].ver + 1 <= chain[pays[u].coin]
              /\ Reused(pays[u].coin) \/ (Clean(pays[u].coin) /\ pays[u].ver + 1 = chain[pays[u].coin])
          BY <2>1, <2>2, <2>4, <4>1 DEF TaskSettled, PaySettled, AnyRefs
        <5>2. pays[u].ver + 1 <= chain'[pays[u].coin]
          BY <1>6, <5>1
        <5>3. Clean(pays[u].coin) => Clean(pays[u].coin)' /\ chain'[pays[u].coin] = chain[pays[u].coin]
          BY <1>1, <1>4, <5>1
        <5>4. QED
          BY <1>1, <5>1, <5>2, <5>3 DEF PaySettled, Reused
      <4>2. CASE pays[u] = NoRef
        BY <1>1, <4>2 DEF PaySettled
      <4>3. QED
        BY <4>1, <4>2
    <3>5. Confirmed(u) => (Clean(holding[u].coin) \/ Reused(holding[u].coin))'
      <4>1. SUFFICES ASSUME Confirmed(u) PROVE (Clean(holding[u].coin) \/ Reused(holding[u].coin))'
        OBVIOUS
      <4>2. holding[u].coin \in Coins /\ (Clean(holding[u].coin) \/ Reused(holding[u].coin))
        BY <2>1, <2>2, <4>1 DEF Confirmed, WithCoin, TaskSettled, AnyRefs
      <4>3. QED
        BY <1>1, <1>4, <4>2 DEF Reused
    <3>6. Confirmed(u)' => Confirmed(u)
      <4>1. verdict'[u] # verdict[u] => ~Confirmed(u) /\ outcome[u] # "ok"
        BY <1>1, <2>1, <2>4 DEF TaskSettled
      <4>2. QED
        BY <1>1, <2>4, <4>1 DEF Confirmed
    <3>7. QED
      BY <1>1, <2>3, <3>3, <3>4, <3>5, <3>6 DEF TaskSettled
  <2>5. CASE ~Confirmed(u) /\ outcome[u] # "ok" /\ Confirmed(u)'
    <3>1. stage[u] = "execute" /\ tx[u] = x
      BY <1>1, <2>5 DEF Confirmed
    <3>2. x.gas = holding[u] /\ x.pay = pays[u] /\ holding[u] \in AnyRefs
      BY <2>1, <3>1 DEF StageKnown, Signed, WithCoin
    <3>3. holding[u].coin \in Coins /\ holding[u].coin \in Spent(x)
      BY <3>2 DEF Spent, AnyRefs
    <3>4. Clean(holding[u].coin)' /\ x.gas.ver < chain'[x.gas.coin]
      <4>1. chain'[holding[u].coin] = chain[holding[u].coin] + 1 /\ chain[holding[u].coin] \in Nat
        BY <1>5, <1>6, <3>3
      <4>2. Clean(holding[u].coin)'
        BY <1>1, <1>5, <3>3
      <4>3. QED
        BY <1>3, <3>2, <4>1, <4>2
    <3>5. PaySettled(u)'
      <4>1. CASE pays[u] # NoRef
        <5>1. /\ pays[u].coin \in Coins /\ pays[u].coin \in Spent(x)
              /\ pays[u].ver = chain[pays[u].coin]
          BY <1>3, <2>2, <3>2, <4>1 DEF Spent, AnyRefs
        <5>2. /\ Clean(pays[u].coin)' /\ chain'[pays[u].coin] = pays[u].ver + 1
              /\ chain'[pays[u].coin] \in Nat
          BY <1>1, <1>5, <1>6, <5>1
        <5>3. QED
          BY <1>1, <5>2 DEF PaySettled
      <4>2. CASE pays[u] = NoRef
        BY <1>1, <4>2 DEF PaySettled
      <4>3. QED
        BY <4>1, <4>2
    <3>6. QED
      BY <1>1, <2>3, <3>1, <3>4, <3>5 DEF TaskSettled
  <2>6. CASE ~Confirmed(u)' /\ outcome[u] # "ok"
    BY <1>1, <2>3, <2>6 DEF TaskSettled
  <2>7. QED
    BY <2>4, <2>5, <2>6
<1>12. QED
  BY <1>9, <1>10, <1>11 DEF VersionInv, TasksSettled

LEMMA VersionsNextRefuse ==
    ASSUME SubmissionInv, NEW x \in wire, Refuse(x)
    PROVE  VersionInv'
<1>0. /\ Types /\ TasksSettled /\ PoolUsable /\ WireReached /\ verdict \in [Tasks -> {"none", "success", "failure", "refused"}]
  BY DEF SubmissionInv, Base, VersionInv, Types
<1>1. /\ wire' = wire \ {x} /\ UNCHANGED <<pool, holding, stage, tx, pays, outcome, suspect, chain, reused>>
      /\ \A t \in Tasks : verdict'[t] = verdict[t] \/ verdict'[t] = "refused"
  <2>1. verdict' = verdict \/ verdict' = [verdict EXCEPT ![x.task] = "refused"]
    BY DEF Refuse, Tell
  <2>2. \A t \in Tasks : verdict'[t] = verdict[t] \/ verdict'[t] = "refused"
    BY <1>0, <2>1
  <2>3. QED
    BY <2>2 DEF Refuse, poolVars, historyVars
<1>2. \A c : Clean(c) => Clean(c)'
  BY <1>1 DEF Clean
<1>3. WireReached' /\ PoolUsable'
  BY <1>0, <1>1, <1>2 DEF WireReached, PoolUsable, Reached, Usable, Current, Reused
<1>4. ASSUME NEW u \in Tasks PROVE TaskSettled(u)'
  <2>1. TaskSettled(u) /\ (Confirmed(u)' => Confirmed(u))
    BY <1>0, <1>1 DEF TasksSettled, Confirmed
  <2>2. QED
    BY <1>1, <1>2, <2>1 DEF TaskSettled, PaySettled, Reached, Usable, Current, Reused
<1>5. QED
  BY <1>3, <1>4 DEF VersionInv, TasksSettled

LEMMA SubmissionInit == Init => SubmissionInv
<1> SUFFICES ASSUME Init PROVE SubmissionInv
  OBVIOUS
<1>1. /\ pool = InitialRefs /\ parked = <<>> /\ pc = [t \in Tasks |-> "idle"]
      /\ holding = [t \in Tasks |-> NoRef] /\ left = [t \in Tasks |-> MaxSubmissions]
      /\ stage = [t \in Tasks |-> "none"] /\ tx = [t \in Tasks |-> NoTx] /\ pays = [t \in Tasks |-> NoRef]
      /\ verdict = [t \in Tasks |-> "none"] /\ outcome = [t \in Tasks |-> "none"]
      /\ wire = {} /\ chain = [c \in Coins |-> 0] /\ suspect = {}
  BY DEF Init, Pool!Init
<1>2. /\ InitialRefs \in Seq(AnyRefs) /\ Len(InitialRefs) = Len(InitialCoins)
      /\ \A i \in 1..Len(InitialRefs) : InitialRefs[i].coin = InitialCoins[i] /\ InitialRefs[i].ver = 0
                                       /\ InitialCoins[i] \in Coins
  <2>1. Len(InitialCoins) \in Nat /\ \A i \in 1..Len(InitialCoins) : InitialCoins[i] \in Coins
    BY CoinsAssumption, LenProperties, ElementOfSeq
  <2>2. InitialRefs = [i \in 1..Len(InitialCoins) |-> [coin |-> InitialCoins[i], ver |-> 0]]
    BY DEF InitialRefs
  <2>3. InitialRefs \in [1..Len(InitialCoins) -> AnyRefs]
    BY <2>1, <2>2 DEF AnyRefs
  <2>4. InitialRefs \in Seq(AnyRefs) /\ Len(InitialRefs) = Len(InitialCoins)
    BY <2>1, <2>2, <2>3, SeqDef, LenProperties
  <2>5. QED
    BY <2>1, <2>2, <2>4
<1>3. Types
  <2>1. parked \in Seq(Tasks)
    BY <1>1, EmptySeq
  <2>2. left \in [Tasks -> Nat]
    BY <1>1, SubmissionsAreMany
  <2>3. QED
    BY <1>1, <1>2, <2>1, <2>2 DEF Types, Pool!Stages, Steps
<1>4. WaitersKnown /\ StagesKnown
  BY <1>1 DEF WaitersKnown, StagesKnown, StageKnown, WithCoin, Signed
<1>5. Apart
  BY <1>1, <1>2, CoinsAssumption DEF Apart
<1>6. PoolUsable
  <2>1. \A c \in Coins : Clean(c) /\ chain[c] = 0
    BY <1>1 DEF Clean
  <2>2. QED
    BY <1>1, <1>2, <2>1 DEF PoolUsable, Reached, Usable, Current
<1>7. WireReached /\ TasksSettled
  BY <1>1 DEF WireReached, TasksSettled, TaskSettled, Confirmed, PaySettled
<1>8. QED
  BY <1>3, <1>4, <1>5, <1>6, <1>7 DEF SubmissionInv, Base, VersionInv

LEMMA SubmissionNext == SubmissionInv /\ [Next]_vars => SubmissionInv'
<1> SUFFICES ASSUME SubmissionInv, [Next]_vars PROVE SubmissionInv'
  OBVIOUS
<1>1. Base /\ Apart /\ VersionInv
  BY DEF SubmissionInv
<1>2. Base' /\ Apart'
  BY <1>1, TypesNext, WaitersNext, StagesNext, PlacesNext DEF Base
<1>3. VersionInv'
  <2>1. ASSUME NEW t \in Tasks, Submit(t) \/ Progress(t) \/ Abandon(t) PROVE VersionInv'
    BY <2>1, VersionsNextLocal, VersionsNextSend, VersionsNextRefresh
  <2>2. ASSUME NEW x \in wire, Execute(x) \/ Refuse(x) PROVE VersionInv'
    BY <2>2, VersionsNextExecute, VersionsNextRefuse
  <2>3. CASE UNCHANGED vars
    BY <1>1, <2>3 DEF vars, poolVars, txVars, netVars, historyVars, VersionInv, PoolUsable, WireReached,
       TasksSettled, TaskSettled, Confirmed, PaySettled, Reached, Usable, Current, Clean, Reused
  <2>4. QED
    BY <2>1, <2>2, <2>3 DEF Next, Node
<1>4. QED
  BY <1>2, <1>3 DEF SubmissionInv

LEMMA SubmissionAlways == Spec => []SubmissionInv
  BY SubmissionInit, SubmissionNext, PTL DEF Spec

-------------------------------------------------------------------------------
(* Whatever fails, is dropped or executes late, and whatever coins callers    *)
(* pay with, a coin that was not named for a payment while this client had it *)
(* is never in two places at once (client.rs:384-399, workflow.rs:1526-1541). *)
THEOREM CoinsHaveOnePlace == Spec => []CoinsInOnePlace
<1>1. SubmissionInv => CoinsInOnePlace
  BY DEF SubmissionInv, Apart, Reused, CoinsInOnePlace
<1>2. QED
  BY <1>1, SubmissionAlways, PTL

(* Only a submission that failed after sending, or a caller who paid with a   *)
(* coin the client had, leaves a stale reference in the pool; a late          *)
(* execution of an older transaction cannot (signer.rs:75).                   *)
THEOREM StaleCoinsAreSuspect == Spec => []StaleOnlyAfterFailure
<1>1. SubmissionInv => StaleOnlyAfterFailure
  BY DEF SubmissionInv, VersionInv, PoolUsable, Usable, Reused, StaleOnlyAfterFailure
<1>2. QED
  BY <1>1, SubmissionAlways, PTL

(* Nobody waits for two transactions that compete for a coin, as gas or as    *)
(* payment, unless a caller paid with a coin the client had.                  *)
THEOREM AwaitedDoNotCompete == Spec => []OneAwaitedPerCoin
<1>1. SubmissionInv => OneAwaitedPerCoin
  <2> SUFFICES ASSUME SubmissionInv, NEW x \in wire, NEW y \in wire, x # y, Awaited(x), Awaited(y),
                      NEW c \in Spent(x) \cap Spent(y)
               PROVE  c \in reused
    BY DEF OneAwaitedPerCoin
  <2>1. x.task \in Tasks /\ y.task \in Tasks /\ x.task # y.task /\ NoRef \notin AnyRefs
    BY NoRefIsNoRef DEF SubmissionInv, Base, Types, AnyTxs, AnyRefs, Awaited
  <2>2. /\ holding[x.task] = x.gas /\ holding[y.task] = y.gas
        /\ pays[x.task] = x.pay /\ pays[y.task] = y.pay
        /\ holding[x.task] \in AnyRefs /\ holding[y.task] \in AnyRefs
    BY <2>1 DEF SubmissionInv, Base, StagesKnown, StageKnown, Signed, WithCoin, Awaited
  <2>3. /\ c = x.gas.coin \/ (x.pay # NoRef /\ c = x.pay.coin)
        /\ c = y.gas.coin \/ (y.pay # NoRef /\ c = y.pay.coin)
    BY DEF Spent
  <2>4. QED
    BY <2>1, <2>2, <2>3 DEF SubmissionInv, Apart, Reused
<1>2. QED
  BY <1>1, SubmissionAlways, PTL

(* The Ok of a submission is about its own transaction (signer.rs:99-162).    *)
THEOREM OkIsTrue == Spec => []OkMeansExecuted
<1>1. SubmissionInv => OkMeansExecuted
  BY DEF SubmissionInv, Base, StagesKnown, StageKnown, VersionInv, TasksSettled, TaskSettled, OkMeansExecuted
<1>2. QED
  BY <1>1, SubmissionAlways, PTL
================================================================================
