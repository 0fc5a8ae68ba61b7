-------------------------- MODULE CoinGasPoolProofs --------------------------
(***************************************************************************)
(* Proofs about CoinGasPool for every set of tasks and coins.              *)
(***************************************************************************)
EXTENDS CoinGasPool, SequenceTheorems, TLAPS

(* TypeOK is not inductive: what a task pushes is a coin only because a task *)
(* at "holding", and no other, holds one; and the first of the waiters may   *)
(* be moved to "woken" only because the queue has each parked task once.     *)
HoldersHold == \A t \in Tasks : pc[t] = "holding" <=> holding[t] # NoRef

WaitersParked ==
    /\ \A i \in 1..Len(parked) : pc[parked[i]] = "parked"
    /\ \A i, j \in 1..Len(parked) : parked[i] = parked[j] => i = j

TypeInv == TypeOK /\ HoldersHold /\ WaitersParked

(* A sequence without its last element.                                      *)
LEMMA FrontFacts ==
    ASSUME NEW S, NEW s \in Seq(S), s # <<>>
    PROVE  /\ SubSeq(s, 1, Len(s) - 1) \in Seq(S)
           /\ Len(s) \in Nat \ {0}
           /\ Len(SubSeq(s, 1, Len(s) - 1)) = Len(s) - 1
           /\ s[Len(s)] \in S
           /\ \A i \in 1..(Len(s) - 1) : SubSeq(s, 1, Len(s) - 1)[i] = s[i]
<1>1. Len(s) \in Nat \ {0}
  BY EmptySeq
<1>2. s[Len(s)] \in S
  BY <1>1, ElementOfSeq
<1>3. \A i \in 1..(Len(s) - 1) : s[i] \in S
  BY <1>1, ElementOfSeq
<1>4. /\ SubSeq(s, 1, Len(s) - 1) \in Seq(S)
      /\ Len(SubSeq(s, 1, Len(s) - 1)) = Len(s) - 1
      /\ \A i \in 1..(Len(s) - 1) : SubSeq(s, 1, Len(s) - 1)[i] = s[i]
  <2> DEFINE n == Len(s) - 1
  <2>1. n \in Int /\ 1 \in Int /\ (\A i \in 1..n : s[i] \in S) /\ n - 1 + 1 = n
    BY <1>1, <1>3
  <2>2. /\ SubSeq(s, 1, n) \in Seq(S)
        /\ Len(SubSeq(s, 1, n)) = IF 1 <= n THEN n - 1 + 1 ELSE 0
        /\ \A i \in 1..(n - 1 + 1) : SubSeq(s, 1, n)[i] = s[1 + i - 1]
    BY <2>1, SubSeqProperties
  <2>3. n \in Nat /\ n - 1 + 1 = n /\ \A i \in 1..n : 1 + i - 1 = i
    BY <1>1
  <2>4. Len(SubSeq(s, 1, n)) = n
    BY <2>2, <2>3
  <2>5. \A i \in 1..n : SubSeq(s, 1, n)[i] = s[i]
    BY <2>2, <2>3
  <2>6. QED
    BY <2>2, <2>4, <2>5
<1>5. QED
  BY <1>1, <1>2, <1>4

(* r is the sequence s without its i-th element.                             *)
LacksElement(r, s, i) ==
    /\ Len(r) = Len(s) - 1
    /\ \A j \in 1..Len(r) : r[j] = IF j < i THEN s[j] ELSE s[j + 1]

(* What the concatenation of the parts before and after an element is.       *)
LEMMA RemoveFacts ==
    ASSUME NEW S, NEW s \in Seq(S), NEW i \in 1..Len(s),
           NEW r, r = SubSeq(s, 1, i - 1) \o SubSeq(s, i + 1, Len(s))
    PROVE  r \in Seq(S) /\ LacksElement(r, s, i)
<1>1. Len(s) \in Nat
  BY LenProperties
<1>a. \A j \in 1..Len(s) : s[j] \in S
  BY ElementOfSeq
<1>2. /\ SubSeq(s, 1, i - 1) \in Seq(S)
      /\ Len(SubSeq(s, 1, i - 1)) = i - 1
      /\ \A j \in 1..(i - 1) : SubSeq(s, 1, i - 1)[j] = s[j]
  BY <1>1, <1>a, SubSeqProperties
<1>3. /\ SubSeq(s, i + 1, Len(s)) \in Seq(S)
      /\ Len(SubSeq(s, i + 1, Len(s))) = Len(s) - i
      /\ \A j \in 1..(Len(s) - i) : SubSeq(s, i + 1, Len(s))[j] = s[i + j]
  BY <1>1, <1>a, SubSeqProperties
<1> DEFINE a == SubSeq(s, 1, i - 1)
           b == SubSeq(s, i + 1, Len(s))
<1> HIDE DEF a, b
<1>4. /\ r \in Seq(S)
      /\ Len(r) = Len(a) + Len(b)
      /\ \A j \in 1..(Len(a) + Len(b)) : r[j] = IF j <= Len(a) THEN a[j] ELSE b[j - Len(a)]
  BY <1>2, <1>3, ConcatProperties DEF a, b
<1>5. Len(a) = i - 1 /\ Len(b) = Len(s) - i
  BY <1>2, <1>3 DEF a, b
<1>l. Len(r) = Len(a) + Len(b)
  BY <1>4, Zenon
<1>6. Len(r) = Len(s) - 1
  BY ONLY <1>1, <1>5, <1>l, i \in 1..Len(s)
<1>i. i \in Int /\ 1 <= i /\ i <= Len(s)
  BY <1>1
<1>7. ASSUME NEW j \in 1..Len(r) PROVE r[j] = IF j < i THEN s[j] ELSE s[j + 1]
  <2>j. j \in Int /\ 1 <= j /\ j <= Len(s) - 1
    <3>1. j \in 1..(Len(s) - 1)
      BY <1>6, Zenon
    <3>2. QED
      BY ONLY <1>1, <3>1
  <2>1. CASE j < i
    BY <1>1, <1>2, <1>4, <1>5, <1>6, <2>1 DEF a
  <2>2. CASE ~(j < i)
    <3>1. j - (i - 1) \in 1..(Len(s) - i) /\ i + (j - (i - 1)) = j + 1
      BY <1>1, <1>i, <2>j, <2>2
    <3>2. r[j] = b[j - (i - 1)]
      <4>1. ~(j <= Len(a)) /\ j \in 1..(Len(a) + Len(b))
        BY <1>1, <1>i, <1>5, <2>j, <2>2
      <4>2. QED
        BY <1>4, <1>5, <4>1
    <3>3. QED
      BY <1>3, <2>2, <3>1, <3>2 DEF b
  <2>3. QED
    BY <2>1, <2>2
<1>8. QED
  BY <1>4, <1>6, <1>7 DEF LacksElement
LEMMA TypeInvInit == Init => TypeInv
<1> SUFFICES ASSUME Init PROVE TypeInv
  OBVIOUS
<1>1. <<>> \in Seq(Tasks) /\ Len(<<>>) = 0
  OBVIOUS
<1>2. left \in [Tasks -> 0..MaxSubmissions]
  BY BoundsAssumption DEF Init
<1>3. TypeOK
  BY <1>1, <1>2, InitialRefsAssumption DEF Init, TypeOK, Stages
<1>4. HoldersHold /\ WaitersParked
  BY <1>1 DEF Init, HoldersHold, WaitersParked
<1>5. QED
  BY <1>3, <1>4 DEF TypeInv

(* notify_one() by a task that is not parked.                                *)
LEMMA WakeOneKeeps ==
    ASSUME TypeInv, NEW t \in Tasks, pc[t] \in {"pushed", "woken"},
           WakeOneAndLeave(t), UNCHANGED <<pool, holding, left>>
    PROVE  TypeInv'
<1>1. CASE parked = <<>>
  <2>1. TypeOK'
    BY <1>1 DEF WakeOneAndLeave, TypeInv, TypeOK, Stages
  <2>2. HoldersHold' /\ WaitersParked'
    BY <1>1 DEF WakeOneAndLeave, TypeInv, TypeOK, HoldersHold, WaitersParked
  <2>3. QED
    BY <2>1, <2>2 DEF TypeInv
<1>2. CASE parked # <<>>
  <2> DEFINE h == Head(parked)
  <2>1. /\ Len(parked) \in Nat \ {0}
        /\ h = parked[1]
        /\ h \in Tasks
        /\ Tail(parked) \in Seq(Tasks)
        /\ Len(Tail(parked)) = Len(parked) - 1
        /\ \A i \in 1..Len(Tail(parked)) : Tail(parked)[i] = parked[i + 1]
    BY <1>2, HeadTailProperties, EmptySeq DEF TypeInv, TypeOK
  <2>2. pc[h] = "parked"
    BY <2>1 DEF TypeInv, WaitersParked
  <2>3. /\ parked' = Tail(parked)
        /\ pc' = [pc EXCEPT ![t] = "idle", ![h] = "woken"]
        /\ permit' = permit
    BY <1>2 DEF WakeOneAndLeave
  <2>4. TypeOK'
    BY <2>1, <2>3 DEF TypeInv, TypeOK, Stages
  <2>5. HoldersHold'
    BY <2>1, <2>2, <2>3 DEF TypeInv, TypeOK, HoldersHold
  <2>6. ASSUME NEW i \in 1..Len(parked') PROVE pc'[parked'[i]] = "parked"
    <3>1. i + 1 \in 1..Len(parked) /\ parked'[i] = parked[i + 1] /\ i + 1 # 1
      BY <2>1, <2>3
    <3>2. parked[i + 1] # h /\ pc[parked[i + 1]] = "parked"
      BY <2>1, <3>1 DEF TypeInv, WaitersParked
    <3>3. parked[i + 1] \in Tasks
      BY <3>1, ElementOfSeq DEF TypeInv, TypeOK
    <3>4. QED
      BY <2>3, <3>1, <3>2, <3>3 DEF TypeInv, TypeOK
  <2>7. ASSUME NEW i \in 1..Len(parked'), NEW j \in 1..Len(parked'),
               parked'[i] = parked'[j]
        PROVE  i = j
    BY <2>1, <2>3, <2>7 DEF TypeInv, WaitersParked
  <2>8. QED
    BY <2>4, <2>5, <2>6, <2>7 DEF TypeInv, WaitersParked
<1>3. QED
  BY <1>1, <1>2

LEMMA TypeInvNext == TypeInv /\ [Next]_vars => TypeInv'
<1> SUFFICES ASSUME TypeInv, [Next]_vars PROVE TypeInv'
  OBVIOUS
<1>0. TypeOK /\ HoldersHold /\ WaitersParked /\ parked \in Seq(Tasks)
  BY DEF TypeInv, TypeOK
<1> DEFINE Moves(t, from, to) ==
      pc[t] = from /\ pc' = [pc EXCEPT ![t] = to] /\ parked' = parked
(* A task that is and stays off the queue disturbs no waiter.                *)
<1>w. ASSUME NEW t \in Tasks, NEW from \in Stages \ {"parked"}, NEW to \in Stages,
             Moves(t, from, to)
      PROVE  WaitersParked'
  <2>1. ASSUME NEW i \in 1..Len(parked) PROVE pc'[parked[i]] = "parked"
    <3>1. parked[i] \in Tasks /\ pc[parked[i]] = "parked"
      BY <1>0, ElementOfSeq DEF WaitersParked
    <3>2. QED
      BY <1>0, <1>w, <3>1 DEF TypeOK
  <2>2. QED
    BY <1>0, <1>w, <2>1 DEF WaitersParked
<1>1. ASSUME NEW t \in Tasks, Start(t) PROVE TypeInv'
  <2>1. left' \in [Tasks -> 0..MaxSubmissions]
    BY <1>0, <1>1, BoundsAssumption DEF Start, TypeOK
  <2>2. TypeOK' /\ HoldersHold'
    BY <1>0, <1>1, <2>1 DEF Start, TypeOK, HoldersHold, Stages
  <2>3. WaitersParked'
    BY <1>1, <1>w DEF Start, Stages
  <2>4. QED
    BY <2>2, <2>3 DEF TypeInv
<1>2. ASSUME NEW t \in Tasks, PopCoin(t) PROVE TypeInv'
  <2>1. pool[Len(pool)] \in Refs /\ SubSeq(pool, 1, Len(pool) - 1) \in Seq(Refs)
    BY <1>0, <1>2, FrontFacts DEF PopCoin, TypeOK
  <2>2. TypeOK' /\ HoldersHold'
    BY <1>0, <1>2, <2>1, NoRefAssumption DEF PopCoin, TypeOK, HoldersHold, Stages
  <2>3. WaitersParked'
    BY <1>2, <1>w DEF PopCoin, Stages
  <2>4. QED
    BY <2>2, <2>3 DEF TypeInv
<1>3. ASSUME NEW t \in Tasks,
             FoundEmpty(t) \/ ConsumePermit(t) \/ Resume(t) \/ CancelAcquire(t)
      PROVE TypeInv'
  <2>1. TypeOK' /\ HoldersHold'
    BY <1>0, <1>3
    DEF FoundEmpty, ConsumePermit, Resume, CancelAcquire, TypeOK, HoldersHold, Stages
  <2>2. WaitersParked'
    BY <1>3, <1>w DEF FoundEmpty, ConsumePermit, Resume, CancelAcquire, Stages
  <2>3. QED
    BY <2>1, <2>2 DEF TypeInv
<1>4. ASSUME NEW t \in Tasks, Park(t) PROVE TypeInv'
  <2>1. /\ parked' = Append(parked, t)
        /\ parked' \in Seq(Tasks)
        /\ Len(parked') = Len(parked) + 1
        /\ Len(parked) \in Nat
        /\ \A i \in 1..Len(parked) : parked'[i] = parked[i]
        /\ parked'[Len(parked) + 1] = t
    BY <1>0, <1>4, AppendProperties DEF Park
  <2>2. TypeOK' /\ HoldersHold'
    BY <1>0, <1>4, <2>1 DEF Park, TypeOK, HoldersHold, Stages
  <2>3. \A i \in 1..Len(parked) :
            parked[i] \in Tasks /\ parked[i] # t /\ pc'[parked[i]] = "parked"
    BY <1>0, <1>4, ElementOfSeq DEF Park, TypeOK, WaitersParked
  <2>4. pc'[t] = "parked"
    BY <1>0, <1>4 DEF Park, TypeOK
  <2>5. WaitersParked'
    BY <1>0, <2>1, <2>3, <2>4 DEF WaitersParked
  <2>6. QED
    BY <2>2, <2>5 DEF TypeInv
<1>5. ASSUME NEW t \in Tasks, PushCoin(t, holding[t]) PROVE TypeInv'
  <2>1. holding[t] \in Refs
    BY <1>0, <1>5 DEF PushCoin, TypeOK, HoldersHold
  <2>2. Append(pool, holding[t]) \in Seq(Refs)
    BY <1>0, <2>1, AppendProperties DEF TypeOK
  <2>3. TypeOK' /\ HoldersHold'
    BY <1>0, <1>5, <2>2 DEF PushCoin, TypeOK, HoldersHold, Stages
  <2>4. WaitersParked'
    BY <1>5, <1>w DEF PushCoin, Stages
  <2>5. QED
    BY <2>3, <2>4 DEF TypeInv
<1>6. ASSUME NEW t \in Tasks, NotifyOne(t) \/ CancelWoken(t) PROVE TypeInv'
  BY <1>6, WakeOneKeeps DEF NotifyOne, CancelWoken
<1>7. ASSUME NEW t \in Tasks, Deposit(t) PROVE TypeInv'
  <2>1. PICK r \in Refs : DepositPayment(t, r)
    BY <1>7 DEF Deposit
  <2>2. Append(pool, r) \in Seq(Refs)
    BY <1>0, <2>1, AppendProperties DEF TypeOK
  <2>4. TypeOK' /\ HoldersHold'
    BY <1>0, <2>1, <2>2 DEF DepositPayment, TypeOK, HoldersHold, Stages
  <2>5. WaitersParked'
    BY <2>1, <1>w DEF DepositPayment, Stages
  <2>6. QED
    BY <2>4, <2>5 DEF TypeInv
<1>8. ASSUME NEW t \in Tasks, LoseCoin(t) PROVE TypeInv'
  <2>1. TypeOK' /\ HoldersHold'
    BY <1>0, <1>8 DEF LoseCoin, TypeOK, HoldersHold, Stages
  <2>2. WaitersParked'
    BY <1>8, <1>w DEF LoseCoin, Stages
  <2>3. QED
    BY <2>1, <2>2 DEF TypeInv
<1>9. ASSUME NEW t \in Tasks, CancelParked(t) PROVE TypeInv'
  <2>1. PICK i \in 1..Len(parked) :
            /\ parked[i] = t
            /\ parked' = SubSeq(parked, 1, i - 1) \o SubSeq(parked, i + 1, Len(parked))
    BY <1>9 DEF CancelParked
  <2>2. /\ parked' \in Seq(Tasks)
        /\ Len(parked') = Len(parked) - 1
        /\ \A j \in 1..Len(parked') :
              parked'[j] = IF j < i THEN parked[j] ELSE parked[j + 1]
    <3>1. parked \in Seq(Tasks)
      BY <1>0
    <3>2. parked' \in Seq(Tasks) /\ LacksElement(parked', parked, i)
      BY <3>1, <2>1, RemoveFacts, Zenon
    <3>3. QED
      BY <3>2 DEF LacksElement
  <2>3. TypeOK' /\ HoldersHold'
    BY <1>0, <1>9, <2>2 DEF CancelParked, TypeOK, HoldersHold, Stages
  <2> DEFINE at(j) == IF j < i THEN j ELSE j + 1
  <2>4. \A j \in 1..Len(parked') :
            at(j) \in 1..Len(parked) /\ at(j) # i /\ parked'[j] = parked[at(j)]
    BY <2>2, LenProperties, <1>0
  <2>5. \A j \in 1..Len(parked') :
            parked[at(j)] \in Tasks /\ parked[at(j)] # t /\ pc[parked[at(j)]] = "parked"
    BY <1>0, <2>1, <2>4, ElementOfSeq DEF WaitersParked
  <2>6. \A j \in 1..Len(parked') : pc'[parked'[j]] = "parked"
    BY <1>0, <1>9, <2>4, <2>5 DEF CancelParked, TypeOK
  <2>7. ASSUME NEW j \in 1..Len(parked'), NEW k \in 1..Len(parked'),
               parked'[j] = parked'[k]
        PROVE  j = k
    <3>1. at(j) = at(k)
      BY <1>0, <2>4, <2>7 DEF WaitersParked
    <3>2. QED
      BY <3>1
  <2>8. QED
    BY <2>3, <2>6, <2>7 DEF TypeInv, WaitersParked
<1>10. CASE UNCHANGED vars
  BY <1>0, <1>10 DEF vars, TypeInv, TypeOK, HoldersHold, WaitersParked
<1>11. QED
  BY <1>1, <1>2, <1>3, <1>4, <1>5, <1>6, <1>7, <1>8, <1>9, <1>10
  DEF Next, Progress, Drop

(* The state of the pool and of its callers has its types in every reachable *)
(* state, for any tasks and coins (client.rs:71-97).                         *)
THEOREM TypeCorrect == Spec => []TypeOK
<1>1. TypeInv => TypeOK
  BY DEF TypeInv
<1>2. Spec => []TypeInv
  BY TypeInvInit, TypeInvNext, PTL DEF Spec
<1>3. QED
  BY <1>1, <1>2, PTL

------------------------------------------------------------------------------
(* What the actions do to the coins: all but five leave them alone.          *)
LEMMA CoinSteps ==
    ASSUME TypeInv, [Next]_vars
    PROVE  \/ pool' = pool /\ holding' = holding
           \/ \E t \in Tasks : PopCoin(t)
           \/ \E t \in Tasks : PushCoin(t, holding[t])
           \/ \E t \in Tasks : Deposit(t)
           \/ \E t \in Tasks : LoseCoin(t)
<1>1. ASSUME NEW t \in Tasks,
             \/ Start(t) \/ FoundEmpty(t) \/ ConsumePermit(t) \/ Park(t) \/ Resume(t)
             \/ NotifyOne(t) \/ CancelAcquire(t) \/ CancelParked(t) \/ CancelWoken(t)
      PROVE  pool' = pool /\ holding' = holding
  BY <1>1 DEF Start, FoundEmpty, ConsumePermit, Park, Resume, NotifyOne,
              CancelAcquire, CancelParked, CancelWoken
<1>2. CASE UNCHANGED vars
  BY <1>2 DEF vars
<1>3. QED
  BY <1>1, <1>2 DEF Next, Progress, Drop

LEMMA ExclusiveCoinsInit == Init => ExclusiveCoins
BY InitialRefsAssumption DEF Init, ExclusiveCoins, Held, Pooled

LEMMA ExclusiveCoinsNext == TypeInv /\ ExclusiveCoins /\ [Next]_vars => ExclusiveCoins'
<1> SUFFICES ASSUME TypeInv, ExclusiveCoins, [Next]_vars PROVE ExclusiveCoins'
  OBVIOUS
<1>0. /\ TypeOK /\ HoldersHold /\ pool \in Seq(Refs) /\ Len(pool) \in Nat
      /\ holding \in [Tasks -> Refs \cup {NoRef}]
  BY LenProperties DEF TypeInv, TypeOK
<1>d. /\ \A i, j \in 1..Len(pool) : pool[i] = pool[j] => i = j
      /\ \A t, u \in Tasks : holding[t] = holding[u] => t = u \/ holding[t] = NoRef
      /\ \A t \in Tasks, i \in 1..Len(pool) : holding[t] # pool[i] \/ holding[t] = NoRef
  BY DEF ExclusiveCoins, Held, Pooled
<1>1. CASE pool' = pool /\ holding' = holding
  BY <1>1 DEF ExclusiveCoins, Held, Pooled
<1>2. ASSUME NEW t \in Tasks, PopCoin(t) PROVE ExclusiveCoins'
  <2>1. /\ Len(pool) \in Nat \ {0}
        /\ Len(pool') = Len(pool) - 1
        /\ \A i \in 1..Len(pool') : i \in 1..Len(pool) /\ i # Len(pool) /\ pool'[i] = pool[i]
        /\ holding' = [holding EXCEPT ![t] = pool[Len(pool)]]
    BY <1>0, <1>2, FrontFacts DEF PopCoin
  <2>2. \A i, j \in 1..Len(pool') : pool'[i] = pool'[j] => i = j
    BY <1>d, <2>1
  <2>3. \A u, w \in Tasks : holding'[u] = holding'[w] => u = w \/ holding'[u] = NoRef
    BY <1>0, <1>d, <2>1
  <2>4. \A u \in Tasks, i \in 1..Len(pool') : holding'[u] # pool'[i] \/ holding'[u] = NoRef
    BY <1>0, <1>d, <2>1
  <2>5. QED
    BY <2>2, <2>3, <2>4 DEF ExclusiveCoins, Held, Pooled
<1>3. ASSUME NEW t \in Tasks, NEW r \in Refs,
             \A i \in 1..Len(pool) : pool[i] # r,
             \A u \in Tasks : holding'[u] # r,
             \A u \in Tasks : holding'[u] = holding[u] \/ holding'[u] = NoRef,
             pool' = Append(pool, r)
      PROVE  ExclusiveCoins'
  <2>1. /\ Len(pool') = Len(pool) + 1
        /\ \A i \in 1..Len(pool) : pool'[i] = pool[i]
        /\ pool'[Len(pool) + 1] = r
    BY <1>0, <1>3, AppendProperties
  <2>2. \A i, j \in 1..Len(pool') : pool'[i] = pool'[j] => i = j
    BY <1>0, <1>3, <1>d, <2>1
  <2>3. \A u, w \in Tasks : holding'[u] = holding'[w] => u = w \/ holding'[u] = NoRef
    BY <1>3, <1>d
  <2>4. \A u \in Tasks, i \in 1..Len(pool') : holding'[u] # pool'[i] \/ holding'[u] = NoRef
    BY <1>0, <1>3, <1>d, <2>1
  <2>5. QED
    BY <2>2, <2>3, <2>4 DEF ExclusiveCoins, Held, Pooled
<1>4. ASSUME NEW t \in Tasks, PushCoin(t, holding[t]) PROVE ExclusiveCoins'
  <2>1. holding[t] \in Refs /\ holding[t] # NoRef
    BY <1>0, <1>4, NoRefAssumption DEF PushCoin, HoldersHold
  <2>2. \A i \in 1..Len(pool) : pool[i] # holding[t]
    BY <1>d, <2>1
  <2>3. \A u \in Tasks : holding'[u] = IF u = t THEN NoRef ELSE holding[u]
    BY <1>0, <1>4 DEF PushCoin
  <2>4. \A u \in Tasks : holding'[u] # holding[t]
    BY <1>d, <2>1, <2>3
  <2>5. pool' = Append(pool, holding[t])
    BY <1>4 DEF PushCoin
  <2>6. QED
    BY <1>3, <2>1, <2>2, <2>3, <2>4, <2>5
<1>5. ASSUME NEW t \in Tasks, Deposit(t) PROVE ExclusiveCoins'
  <2>1. PICK r \in Refs : r \notin Pooled \cup Held /\ DepositPayment(t, r)
    BY <1>5 DEF Deposit
  <2>2. /\ \A i \in 1..Len(pool) : pool[i] # r
        /\ \A u \in Tasks : holding[u] # r
        /\ pool' = Append(pool, r) /\ holding' = holding
    BY <2>1, NoRefAssumption DEF Pooled, Held, DepositPayment
  <2>3. QED
    BY <1>3, <2>1, <2>2
<1>6. ASSUME NEW t \in Tasks, LoseCoin(t) PROVE ExclusiveCoins'
  <2>1. pool' = pool /\ \A u \in Tasks : holding'[u] = IF u = t THEN NoRef ELSE holding[u]
    BY <1>0, <1>6 DEF LoseCoin
  <2>2. QED
    BY <1>d, <2>1 DEF ExclusiveCoins, Held, Pooled
<1>7. QED
  BY <1>1, <1>2, <1>4, <1>5, <1>6, CoinSteps

(* No two submissions ever use one gas coin at the same time, and none in    *)
(* use is in the Vec, however many tasks share the client and whatever they  *)
(* abandon (client.rs:71-97, 384-399).                                       *)
THEOREM CoinsAreExclusive == Spec => []ExclusiveCoins
<1>1. Spec => []TypeInv
  BY TypeInvInit, TypeInvNext, PTL DEF Spec
<1>2. QED
  BY <1>1, ExclusiveCoinsInit, ExclusiveCoinsNext, PTL DEF Spec

------------------------------------------------------------------------------
(* A pool of one coin.  NoSleepOnCoin is not inductive: a task that saw the  *)
(* Vec empty and is about to register counts as a sleeper already, unless    *)
(* the permit it will find is stored.                                        *)
WakeUpOnItsWay ==
    pool # <<>> /\ (parked # <<>> \/ \E t \in Tasks : pc[t] = "unregistered") =>
        permit \/ \E t \in Tasks : pc[t] \in {"acquire", "woken", "pushed"}

PermitUnawaited == permit => parked = <<>>

WakeInv == WakeUpOnItsWay /\ PermitUnawaited

SingleCoin == \A r, s \in Refs : r = s

LEMMA WakeInvNext ==
    ASSUME SingleCoin, CanDrop = FALSE, TypeInv, ExclusiveCoins, WakeInv, [Next]_vars
    PROVE  WakeInv'
<1>0. /\ pool \in Seq(Refs) /\ parked \in Seq(Tasks) /\ pc \in [Tasks -> Stages]
      /\ permit \in BOOLEAN
  BY DEF TypeInv, TypeOK
<1> USE DEF WakeInv
<1>1. ASSUME NEW t \in Tasks, Start(t) \/ Resume(t) \/ ConsumePermit(t) PROVE WakeInv'
  <2>1. pc'[t] = "acquire" /\ parked' = parked /\ (permit' => permit)
    BY <1>0, <1>1 DEF Start, Resume, ConsumePermit
  <2>2. QED
    BY <2>1 DEF WakeUpOnItsWay, PermitUnawaited
<1>2. ASSUME NEW t \in Tasks, PopCoin(t) PROVE WakeInv'
  <2>1. /\ Len(pool) \in Nat \ {0}
        /\ pool' \in Seq(Refs)
        /\ Len(pool') = Len(pool) - 1
        /\ permit' = permit /\ parked' = parked
    BY <1>0, <1>2, FrontFacts DEF PopCoin
  <2>2. Len(pool) = 1
    <3>1. \A i, j \in 1..Len(pool) : pool[i] \in Refs /\ pool[j] \in Refs
      BY <1>0, ElementOfSeq
    <3>2. \A i, j \in 1..Len(pool) : i = j
      BY <3>1 DEF SingleCoin, ExclusiveCoins
    <3>3. 1 \in 1..Len(pool) /\ Len(pool) \in 1..Len(pool)
      BY <2>1
    <3>4. QED
      BY <3>2, <3>3
  <2>3. pool' = <<>>
    BY <2>1, <2>2, EmptySeq
  <2>4. QED
    BY <2>1, <2>3 DEF WakeUpOnItsWay, PermitUnawaited
<1>3. ASSUME NEW t \in Tasks, FoundEmpty(t) PROVE WakeInv'
  BY <1>3 DEF FoundEmpty, WakeUpOnItsWay, PermitUnawaited
<1>4. ASSUME NEW t \in Tasks, Park(t) PROVE WakeInv'
  <2>1. /\ pc[t] = "unregistered" /\ pc' = [pc EXCEPT ![t] = "parked"]
        /\ ~permit /\ permit' = permit /\ pool' = pool
    BY <1>4 DEF Park
  <2>2. ASSUME NEW u \in Tasks, pc[u] \in {"acquire", "woken", "pushed"}
        PROVE  pc'[u] \in {"acquire", "woken", "pushed"}
    BY <1>0, <2>1, <2>2
  <2>3. QED
    BY <2>1, <2>2 DEF WakeUpOnItsWay, PermitUnawaited
<1>5. ASSUME NEW t \in Tasks, PushCoin(t, holding[t]) \/ Deposit(t) PROVE WakeInv'
  <2>1. pc'[t] = "pushed" /\ permit' = permit /\ parked' = parked
    BY <1>0, <1>5 DEF PushCoin, Deposit, DepositPayment
  <2>2. QED
    BY <2>1 DEF WakeUpOnItsWay, PermitUnawaited
<1>6. ASSUME NEW t \in Tasks, NotifyOne(t) PROVE WakeInv'
  <2>1. WakeOneAndLeave(t)
    BY <1>6 DEF NotifyOne
  <2>2. CASE parked = <<>>
    BY <2>1, <2>2 DEF WakeOneAndLeave, WakeUpOnItsWay, PermitUnawaited
  <2>3. CASE parked # <<>>
    <3>1. Head(parked) \in Tasks
      BY <1>0, <2>3, HeadTailProperties
    <3>2. pc'[Head(parked)] = "woken" /\ permit' = permit
      BY <1>0, <2>1, <2>3, <3>1 DEF WakeOneAndLeave
    <3>3. QED
      BY <2>3, <3>1, <3>2 DEF WakeUpOnItsWay, PermitUnawaited
  <2>4. QED
    BY <2>2, <2>3
<1>7. ASSUME NEW t \in Tasks, Drop(t) PROVE FALSE
  BY <1>7 DEF Drop, LoseCoin, CancelAcquire, CancelParked, CancelWoken
<1>8. CASE UNCHANGED vars
  BY <1>8 DEF vars, WakeUpOnItsWay, PermitUnawaited
<1>9. QED
  BY <1>1, <1>2, <1>3, <1>4, <1>5, <1>6, <1>7, <1>8 DEF Next, Progress

(* A client with one gas coin never lets a submission sleep while the coin   *)
(* lies in the Vec, for any number of submissions, as long as none is        *)
(* abandoned (client.rs:81-97).  With two coins and four tasks it may: two   *)
(* releases store one permit.                                                *)
THEOREM OneCoinWakesWaiters ==
    ASSUME SingleCoin, CanDrop = FALSE
    PROVE  Spec => []NoSleepOnCoin
<1>1. Spec => [](TypeInv /\ ExclusiveCoins)
  BY TypeInvInit, TypeInvNext, ExclusiveCoinsInit, ExclusiveCoinsNext, PTL DEF Spec
<1>2. Init => WakeInv
  BY DEF Init, WakeInv, WakeUpOnItsWay, PermitUnawaited
<1>3. TypeInv /\ ExclusiveCoins /\ WakeInv /\ [Next]_vars => WakeInv'
  BY WakeInvNext
<1>4. WakeInv => NoSleepOnCoin
  BY DEF WakeInv, WakeUpOnItsWay, PermitUnawaited, NoSleepOnCoin
<1>5. QED
  BY <1>1, <1>2, <1>3, <1>4, PTL DEF Spec

------------------------------------------------------------------------------
(* The pool implements CoinLease.                                            *)
OwnerMap == [r \in Refs |-> OwnerOf(r)]

(* OwnerOf tells the three cases apart.                                      *)
OwnersKnown ==
    \A r \in Refs :
        /\ OwnerOf(r) \in Tasks \cup {"pooled", "away"}
        /\ \A t \in Tasks : OwnerOf(r) = t <=> holding[t] = r
        /\ OwnerOf(r) = "pooled" <=> r \in Pooled

LEMMA OwnersAreKnown == TypeInv /\ ExclusiveCoins => OwnersKnown
<1> SUFFICES ASSUME TypeInv, ExclusiveCoins, NEW r \in Refs
             PROVE  /\ OwnerOf(r) \in Tasks \cup {"pooled", "away"}
                    /\ \A t \in Tasks : OwnerOf(r) = t <=> holding[t] = r
                    /\ OwnerOf(r) = "pooled" <=> r \in Pooled
  BY DEF OwnersKnown
<1>1. \A t, u \in Tasks : holding[t] = r /\ holding[u] = r => t = u
  BY NoRefAssumption DEF ExclusiveCoins
<1>2. r \in Held <=> \E t \in Tasks : holding[t] = r
  BY NoRefAssumption DEF Held
<1>3. r \in Held => r \notin Pooled
  BY DEF ExclusiveCoins
<1>4. QED
  BY <1>1, <1>2, <1>3, TasksAssumption DEF OwnerOf

LEMMA LeaseInit == TypeInv /\ ExclusiveCoins /\ Init => Lease!Init
<1> SUFFICES ASSUME OwnersKnown, Init PROVE Lease!Init
  BY OwnersAreKnown
<1>1. ASSUME NEW r \in Refs PROVE OwnerOf(r) \in {"pooled", "away"}
  <2>1. \A t \in Tasks : holding[t] # r
    BY NoRefAssumption DEF Init
  <2>2. QED
    BY <2>1 DEF OwnersKnown
<1>2. QED
  BY <1>1 DEF Lease!Init

LEMMA LeaseNext ==
    ASSUME TypeInv, ExclusiveCoins, OwnersKnown, OwnersKnown', [Next]_vars
    PROVE  [Lease!Next]_OwnerMap
<1>0. /\ holding \in [Tasks -> Refs \cup {NoRef}] /\ pool \in Seq(Refs)
      /\ Len(pool) \in Nat
      /\ \A t \in Tasks : pc[t] = "holding" <=> holding[t] # NoRef
  BY LenProperties DEF TypeInv, TypeOK, HoldersHold
<1>k. /\ \A r \in Refs : OwnerMap[r] = OwnerOf(r)
      /\ \A r \in Refs : OwnerMap'[r] = OwnerOf(r)'
      /\ OwnerMap = [r \in Refs |-> OwnerMap[r]]
      /\ OwnerMap' = [r \in Refs |-> OwnerMap'[r]]
  BY DEF OwnerMap
<1>o. \A r \in Refs :
        /\ OwnerMap[r] \in Tasks \cup {"pooled", "away"}
        /\ \A t \in Tasks : OwnerMap[r] = t <=> holding[t] = r
        /\ OwnerMap[r] = "pooled" <=> r \in Pooled
  BY <1>k DEF OwnersKnown
<1>p. \A r \in Refs :
        /\ OwnerMap'[r] \in Tasks \cup {"pooled", "away"}
        /\ \A t \in Tasks : OwnerMap'[r] = t <=> holding'[t] = r
        /\ OwnerMap'[r] = "pooled" <=> r \in Pooled'
  BY <1>k DEF OwnersKnown
<1> HIDE DEF OwnerMap
(* One coin moves to one owner.                                              *)
<1>m. ASSUME NEW c \in Refs, NEW o, OwnerMap'[c] = o,
             \A r \in Refs \ {c} : OwnerMap'[r] = OwnerMap[r]
      PROVE  OwnerMap' = [OwnerMap EXCEPT ![c] = o]
  BY <1>k, <1>m
(* A coin that nobody held, gained or lost keeps its owner.                  *)
<1>s. ASSUME NEW r \in Refs,
             \A t \in Tasks : holding'[t] = r <=> holding[t] = r,
             r \in Pooled' <=> r \in Pooled
      PROVE  OwnerMap'[r] = OwnerMap[r]
  BY <1>o, <1>p, <1>s, TasksAssumption
<1>1. CASE pool' = pool /\ holding' = holding
  <2>1. \A r \in Refs : OwnerMap'[r] = OwnerMap[r]
    BY <1>s, <1>1 DEF Pooled
  <2>2. QED
    BY <1>k, <2>1
<1>2. ASSUME NEW t \in Tasks, PopCoin(t) PROVE Lease!Next
  <2> DEFINE c == pool[Len(pool)]
  <2>1. /\ Len(pool) \in Nat \ {0} /\ c \in Refs
        /\ Len(pool') = Len(pool) - 1
        /\ \A i \in 1..(Len(pool) - 1) : pool'[i] = pool[i]
        /\ holding' = [holding EXCEPT ![t] = c]
        /\ pc[t] = "acquire"
    BY <1>0, <1>2, FrontFacts DEF PopCoin
  <2>2. holding[t] = NoRef /\ c \in Pooled
    BY <1>0, <2>1 DEF Pooled
  <2>3. ASSUME NEW r \in Refs \ {c} PROVE OwnerMap'[r] = OwnerMap[r]
    <3>1. r \in Pooled' <=> r \in Pooled
      <4>1. \A i \in 1..Len(pool) : pool[i] = r => i \in 1..Len(pool')
        BY <2>1
      <4>2. QED
        BY <2>1, <4>1 DEF Pooled
    <3>2. \A u \in Tasks : holding'[u] = r <=> holding[u] = r
      BY <1>0, <2>1, <2>2, NoRefAssumption
    <3>3. QED
      BY <1>s, <3>1, <3>2
  <2>4. OwnerMap'[c] = t
    BY <1>0, <1>p, <2>1
  <2>5. Lease!Lease(t, c)
    BY <1>m, <1>o, <2>1, <2>2, <2>3, <2>4, NoRefAssumption DEF Lease!Lease, OwnerMap
  <2>6. QED
    BY <2>1, <2>5 DEF Lease!Next
(* The Vec with a coin appended.                                             *)
<1>a. ASSUME NEW c \in Refs, pool' = Append(pool, c)
      PROVE  Pooled' = Pooled \cup {c}
  <2>1. /\ Len(pool') = Len(pool) + 1
        /\ \A i \in 1..Len(pool) : pool'[i] = pool[i]
        /\ pool'[Len(pool) + 1] = c
    BY <1>0, <1>a, AppendProperties
  <2>2. 1..Len(pool') = (1..Len(pool)) \cup {Len(pool) + 1}
    BY <1>0, <2>1
  <2>3. QED
    BY <2>1, <2>2 DEF Pooled
<1>3. ASSUME NEW t \in Tasks, PushCoin(t, holding[t]) PROVE Lease!Next
  <2> DEFINE c == holding[t]
  <2>1. c \in Refs /\ pool' = Append(pool, c) /\ holding' = [holding EXCEPT ![t] = NoRef]
    BY <1>0, <1>3 DEF PushCoin
  <2>2. Pooled' = Pooled \cup {c}
    BY <1>a, <2>1
  <2>3. ASSUME NEW r \in Refs \ {c} PROVE OwnerMap'[r] = OwnerMap[r]
    <3>1. \A u \in Tasks : holding'[u] = r <=> holding[u] = r
      BY <1>0, <2>1, NoRefAssumption
    <3>2. QED
      BY <1>s, <2>2, <3>1
  <2>4. OwnerMap[c] = t /\ OwnerMap'[c] = "pooled"
    BY <1>o, <1>p, <2>1, <2>2
  <2>5. Lease!GiveBack(t, c)
    BY <1>m, <2>1, <2>3, <2>4 DEF Lease!GiveBack, OwnerMap
  <2>6. QED
    BY <2>1, <2>5 DEF Lease!Next
<1>4. ASSUME NEW t \in Tasks, Deposit(t) PROVE Lease!Next
  <2>1. PICK c \in Refs : c \notin Pooled \cup Held /\ DepositPayment(t, c)
    BY <1>4 DEF Deposit
  <2>2. pool' = Append(pool, c) /\ holding' = holding
    BY <2>1 DEF DepositPayment
  <2>3. Pooled' = Pooled \cup {c}
    BY <1>a, <2>2
  <2>4. ASSUME NEW r \in Refs \ {c} PROVE OwnerMap'[r] = OwnerMap[r]
    BY <1>s, <2>2, <2>3
  <2>5. \A u \in Tasks : holding[u] # c
    BY <2>1, NoRefAssumption DEF Held
  <2>6. OwnerMap[c] = "away" /\ OwnerMap'[c] = "pooled"
    BY <1>o, <1>p, <2>1, <2>3, <2>5
  <2>7. Lease!Deposit(c)
    BY <1>m, <2>4, <2>6 DEF Lease!Deposit, OwnerMap
  <2>8. QED
    BY <2>7 DEF Lease!Next
<1>5. ASSUME NEW t \in Tasks, LoseCoin(t) PROVE Lease!Next
  <2> DEFINE c == holding[t]
  <2>1. c \in Refs /\ pool' = pool /\ holding' = [holding EXCEPT ![t] = NoRef]
    BY <1>0, <1>5 DEF LoseCoin
  <2>2. Pooled' = Pooled
    BY <2>1 DEF Pooled
  <2>3. \A r \in Refs \ {c} : OwnerMap'[r] = OwnerMap[r]
    <3>1. \A r \in Refs \ {c}, u \in Tasks : holding'[u] = r <=> holding[u] = r
      BY <1>0, <2>1, NoRefAssumption
    <3>2. QED
      BY <1>s, <2>2, <3>1
  <2>4. OwnerMap[c] = t /\ c \notin Pooled
    BY <1>o, <2>1, TasksAssumption
  <2>5. \A u \in Tasks : holding'[u] # c
    BY <1>0, <1>o, <2>1, <2>4, NoRefAssumption
  <2>6. OwnerMap'[c] = "away"
    BY <1>p, <2>1, <2>2, <2>4, <2>5
  <2>7. Lease!TakeAway(t, c)
    BY <1>m, <2>1, <2>3, <2>4, <2>6 DEF Lease!TakeAway, OwnerMap
  <2>8. QED
    BY <2>1, <2>7 DEF Lease!Next
<1>6. QED
  BY <1>1, <1>2, <1>3, <1>4, <1>5, CoinSteps

(* In every interleaving of acquisition, release, wake-up and abandonment,   *)
(* each coin moves between the pool, one submission and the caller in atomic *)
(* steps: the pool implements the lease of CoinLease (client.rs:80-97).      *)
THEOREM PoolImplementsLease == Spec => ImplementsLease
<1>1. Spec => [](TypeInv /\ ExclusiveCoins)
  BY TypeInvInit, TypeInvNext, ExclusiveCoinsInit, ExclusiveCoinsNext, PTL DEF Spec
<1>2. TypeInv /\ ExclusiveCoins => OwnersKnown
  BY OwnersAreKnown
<1>3. TypeInv /\ ExclusiveCoins /\ Init => Lease!Init
  BY LeaseInit
<1>4. TypeInv /\ ExclusiveCoins /\ OwnersKnown /\ OwnersKnown' /\ [Next]_vars
      => [Lease!Next]_OwnerMap
  BY LeaseNext
<1>5. QED
  BY <1>1, <1>2, <1>3, <1>4, PTL DEF Spec, ImplementsLease, Lease!Spec, OwnerMap

------------------------------------------------------------------------------
(* No step invents or loses a coin.                                          *)
Circulating == Pooled \cup Held

LEMMA CirculationNext ==
    ASSUME TypeInv, [Next]_vars
    PROVE  \/ Circulating' = Circulating
           \/ \E t \in Tasks : pc[t] = "idle" /\ pc'[t] = "pushed"
           \/ \E t \in Tasks : pc[t] = "holding" /\ pc'[t] = "idle"
<1>0. /\ holding \in [Tasks -> Refs \cup {NoRef}] /\ pool \in Seq(Refs)
      /\ pc \in [Tasks -> Stages] /\ Len(pool) \in Nat
      /\ \A t \in Tasks : pc[t] = "holding" <=> holding[t] # NoRef
  BY LenProperties DEF TypeInv, TypeOK, HoldersHold
<1>1. CASE pool' = pool /\ holding' = holding
  BY <1>1 DEF Circulating, Pooled, Held
<1>2. ASSUME NEW t \in Tasks, PopCoin(t) PROVE Circulating' = Circulating
  <2> DEFINE c == pool[Len(pool)]
  <2>1. /\ Len(pool) \in Nat \ {0} /\ c \in Refs
        /\ Len(pool') = Len(pool) - 1
        /\ \A i \in 1..(Len(pool) - 1) : pool'[i] = pool[i]
        /\ \A u \in Tasks : holding'[u] = IF u = t THEN c ELSE holding[u]
        /\ holding[t] = NoRef
    BY <1>0, <1>2, FrontFacts DEF PopCoin
  <2>2. 1..Len(pool) = (1..Len(pool')) \cup {Len(pool)}
    BY <2>1
  <2>3. Pooled = Pooled' \cup {c}
    BY <2>1, <2>2 DEF Pooled
  <2>4. Held' = Held \cup {c}
    BY <2>1, NoRefAssumption DEF Held
  <2>5. QED
    BY <2>3, <2>4 DEF Circulating
<1>3. ASSUME NEW t \in Tasks, PushCoin(t, holding[t]) PROVE Circulating' = Circulating
  <2> DEFINE c == holding[t]
  <2>1. /\ c \in Refs /\ pool' = Append(pool, c)
        /\ \A u \in Tasks : holding'[u] = IF u = t THEN NoRef ELSE holding[u]
    BY <1>0, <1>3 DEF PushCoin
  <2>2. /\ Len(pool') = Len(pool) + 1
        /\ \A i \in 1..Len(pool) : pool'[i] = pool[i]
        /\ pool'[Len(pool) + 1] = c
    BY <1>0, <2>1, AppendProperties
  <2>3. 1..Len(pool') = (1..Len(pool)) \cup {Len(pool) + 1}
    BY <1>0, <2>2
  <2>4. Pooled' = Pooled \cup {c}
    BY <2>2, <2>3 DEF Pooled
  <2>5. Held' \cup {c} = Held
    BY <2>1, NoRefAssumption DEF Held
  <2>6. Held \subseteq Held' \cup {c} /\ Held' \subseteq Held /\ c \in Held
    BY <2>1, <2>5, NoRefAssumption DEF Held
  <2>7. QED
    BY <2>4, <2>6 DEF Circulating
<1>4. ASSUME NEW t \in Tasks, Deposit(t) PROVE pc[t] = "idle" /\ pc'[t] = "pushed"
  BY <1>0, <1>4 DEF Deposit, DepositPayment
<1>5. ASSUME NEW t \in Tasks, LoseCoin(t) PROVE pc[t] = "holding" /\ pc'[t] = "idle"
  BY <1>0, <1>5 DEF LoseCoin
<1>6. QED
  BY <1>1, <1>2, <1>3, <1>4, <1>5, CoinSteps

(* Whatever interleaves, the coins in circulation change only when a caller  *)
(* deposits one, or abandons a submission that holds one (client.rs:80-97).  *)
THEOREM CoinsStay == Spec => CoinsConserved
<1>1. Spec => []TypeInv
  BY TypeInvInit, TypeInvNext, PTL DEF Spec
<1>2. TypeInv /\ [Next]_vars =>
        [\/ (Pooled \cup Held)' = Pooled \cup Held
         \/ \E t \in Tasks : pc[t] = "idle" /\ pc'[t] = "pushed"
         \/ \E t \in Tasks : pc[t] = "holding" /\ pc'[t] = "idle"]_vars
  BY CirculationNext DEF Circulating
<1>3. QED
  BY <1>1, <1>2, PTL DEF Spec, CoinsConserved
=============================================================================
