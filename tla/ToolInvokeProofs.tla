---------------------------- MODULE ToolInvokeProofs ----------------------------
(***************************************************************************)
(* Proofs about ToolInvoke, for any requests, leaders, nonces and inputs.  *)
(***************************************************************************)
EXTENDS ToolInvoke, SequenceTheorems, TLAPS

(* A request about to store a version of the list has read one that exists   *)
(* and is readable.                                                          *)
ListRead ==
    \A r \in Requests :
        pc[r] = "store" => got[r] \in 1..Len(lists) /\ lists[got[r]] # None

TypeInv == TypeOK /\ ListRead

Stages == {"new", "refresh", "store", "auth", "begin", "running",
           "unauthorized", "conflict", "answered", "dropped"}

(* Pruning keeps entries entries.                                            *)
LEMMA RetainedType ==
    ASSUME TypeOK
    PROVE  Retained \in [Nonces -> Entries \cup {Absent}]
BY DEF Retained, TypeOK

LEMMA TypeInvInit == Init => TypeInv
<1> SUFFICES ASSUME Init PROVE TypeInv
  OBVIOUS
<1>1. PICK L \in SUBSET Leaders : lists = <<L>>
  BY DEF Init
<1>2. lists \in Seq(SUBSET Leaders \cup {None}) /\ Len(lists) = 1 /\ lists[1] = L
  BY <1>1
<1>3. QED
  BY <1>2, InvokeAssumption DEF Init, TypeInv, TypeOK, ListRead

(* Steps that leave the clock and the list alone.                            *)
LEMMA TypeInvNext == TypeInv /\ [Next]_vars => TypeInv'
<1> SUFFICES ASSUME TypeInv, [Next]_vars PROVE TypeInv'
  OBVIOUS
<1>0. TypeOK /\ ListRead /\ Len(lists) \in Nat
  BY LenProperties DEF TypeInv, TypeOK
<1>e. Retained \in [Nonces -> Entries \cup {Absent}]
  BY <1>0, RetainedType
<1>t. /\ now + Lease \in Nat /\ now + TTL \in Nat /\ 0 \in Nat
  BY <1>0, InvokeAssumption DEF TypeOK
<1>1. CASE Tick
  BY <1>0, <1>1 DEF Tick, TypeInv, TypeOK, ListRead, listVars, historyVars
<1>2. CASE WriteList
  <2>1. PICK L \in SUBSET Leaders \cup {None} : lists' = Append(lists, L)
    BY <1>2 DEF WriteList
  <2>2. /\ lists' \in Seq(SUBSET Leaders \cup {None})
        /\ Len(lists') = Len(lists) + 1
        /\ \A i \in 1..Len(lists) : lists'[i] = lists[i]
    BY <1>0, <2>1, AppendProperties DEF TypeOK
  <2>3. \A i \in 1..Len(lists) : i \in 1..Len(lists')
    BY <1>0, <2>2
  <2>4. QED
    BY <1>0, <1>2, <2>2, <2>3 DEF WriteList, TypeInv, TypeOK, ListRead, historyVars
<1>3. ASSUME NEW r \in Requests, Arrive(r) PROVE TypeInv'
  BY <1>0, <1>3 DEF Arrive, Goto, TypeInv, TypeOK, ListRead, listVars, historyVars
<1>4. ASSUME NEW r \in Requests, ReadList(r) PROVE TypeInv'
  <2>1. Len(lists) \in 1..Len(lists)
    BY <1>0 DEF TypeOK
  <2>2. QED
    BY <1>0, <1>4, <2>1 DEF ReadList, Goto, TypeInv, TypeOK, ListRead, listVars, historyVars
<1>5. ASSUME NEW r \in Requests, StoreList(r) PROVE TypeInv'
  BY <1>0, <1>5 DEF StoreList, Goto, TypeInv, TypeOK, ListRead, listVars, historyVars
<1>6. ASSUME NEW r \in Requests, Authenticate(r) PROVE TypeInv'
  BY <1>0, <1>6 DEF Authenticate, TypeInv, TypeOK, ListRead, listVars, historyVars
<1>7. ASSUME NEW r \in Requests, ReturnCached(r) PROVE TypeInv'
  <2>1. ask[r].nonce \in Nonces /\ Retained[ask[r].nonce].by \in Requests \cup {None}
    BY <1>0, <1>7, <1>e DEF ReturnCached, TypeOK, Asks, Entries, Absent
  <2>2. QED
    BY <1>0, <1>7, <1>e, <2>1 DEF ReturnCached, TypeInv, TypeOK, ListRead, listVars, historyVars
<1>8. ASSUME NEW r \in Requests, Refuse(r) PROVE TypeInv'
  BY <1>0, <1>8, <1>e DEF Refuse, TypeInv, TypeOK, ListRead, listVars, historyVars
<1>9. ASSUME NEW r \in Requests, Reserve(r) PROVE TypeInv'
  <2>1. ask[r].nonce \in Nonces /\ InFlight(ask[r].hash, now + Lease) \in Entries
    BY <1>0, <1>9, <1>t DEF Reserve, TypeOK, Asks, Entries, InFlight
  <2>2. cache' \in [Nonces -> Entries \cup {Absent}]
    BY <1>9, <1>e, <2>1 DEF Reserve
  <2>3. kept' \in [Requests -> Nat]
    BY <1>0, <1>9, <1>t DEF Reserve, TypeOK
  <2>4. QED
    BY <1>0, <1>9, <1>t, <2>2, <2>3 DEF Reserve, TypeInv, TypeOK, ListRead, listVars
<1>10. ASSUME NEW r \in Requests, Finish(r) PROVE TypeInv'
  <2>1. ask[r].nonce \in Nonces /\ Complete(ask[r].hash, now + TTL, r) \in Entries
    BY <1>0, <1>10, <1>t DEF Finish, Goto, TypeOK, Asks, Entries, Complete
  <2>2. cache' \in [Nonces -> Entries \cup {Absent}] /\ kept' \in [Requests -> Nat]
    BY <1>0, <1>10, <1>t, <2>1 DEF Finish, TypeOK
  <2>3. QED
    BY <1>0, <1>10, <2>2 DEF Finish, Goto, TypeInv, TypeOK, ListRead, listVars
<1>11. ASSUME NEW r \in Requests, Drop(r) PROVE TypeInv'
  <2>1. cache' \in [Nonces -> Entries \cup {Absent}]
    BY <1>0, <1>11 DEF Drop, TypeOK
  <2>2. QED
    BY <1>0, <1>11, <2>1 DEF Drop, Goto, TypeInv, TypeOK, ListRead, listVars, historyVars
<1>12. CASE UNCHANGED vars
  BY <1>0, <1>12 DEF vars, TypeInv, TypeOK, ListRead, listVars, historyVars
<1>13. QED
  BY <1>1, <1>2, <1>3, <1>4, <1>5, <1>6, <1>7, <1>8, <1>9, <1>10, <1>11, <1>12
     DEF Next, Handle, Begin

(* The types of the cache, the list and the requests; a stored list is one   *)
(* that could be read (signed_http_warp.rs:41-55).                           *)
THEOREM TypeCorrect == Spec => []TypeOK
<1>1. TypeInv => TypeOK
  BY DEF TypeInv
<1>2. Spec => []TypeInv
  BY TypeInvInit, TypeInvNext, PTL DEF Spec
<1>3. QED
  BY <1>1, <1>2, PTL

------------------------------------------------------------------------------
(* OneLiveRun is not inductive: it needs that a run within its lease still   *)
(* finds its reservation in the cache, so that a second request is refused.  *)
LiveOwns == \A r \in Requests : Live(r) => Owns(r)
RunInv == OneLiveRun /\ LiveOwns /\ NoOrphan

(* What a step may do to the runs and the cache.                             *)
LEMMA RunSteps ==
    ASSUME TypeInv, [Next]_vars
    PROVE  \/ /\ now' >= now /\ lease' = lease /\ cache' \in {cache, Retained}
              /\ \A r \in Requests : Running(r)' <=> Running(r)
              /\ \A r \in Requests : pc[r] # "new" => ask'[r] = ask[r]
           \/ \E r \in Requests : Reserve(r)
           \/ \E r \in Requests : Finish(r)
           \/ \E r \in Requests : Drop(r)
<1>0. TypeOK
  BY DEF TypeInv
<1> DEFINE Quiet ==
      /\ now' >= now /\ lease' = lease /\ cache' \in {cache, Retained}
      /\ \A r \in Requests : Running(r)' <=> Running(r)
      /\ \A r \in Requests : pc[r] # "new" => ask'[r] = ask[r]
<1>1. CASE Tick \/ WriteList
  BY <1>0, <1>1 DEF Tick, WriteList, TypeOK, Running
<1>2. ASSUME NEW r \in Requests,
             \/ Arrive(r) \/ ReadList(r) \/ StoreList(r) \/ Authenticate(r)
             \/ ReturnCached(r) \/ Refuse(r)
      PROVE  Quiet
  <2>1. now' >= now /\ lease' = lease /\ cache' \in {cache, Retained}
    BY <1>0, <1>2 DEF Arrive, ReadList, StoreList, Authenticate, ReturnCached, Refuse, TypeOK
  <2>2. \A q \in Requests : Running(q)' <=> Running(q)
    BY <1>0, <1>2 DEF Arrive, ReadList, StoreList, Authenticate, ReturnCached, Refuse,
                      Goto, TypeOK, Running
  <2>3. \A q \in Requests : pc[q] # "new" => ask'[q] = ask[q]
    BY <1>0, <1>2 DEF Arrive, ReadList, StoreList, Authenticate, ReturnCached, Refuse,
                      Goto, TypeOK
  <2>4. QED
    BY <2>1, <2>2, <2>3
<1>3. CASE UNCHANGED vars
  BY <1>0, <1>3 DEF vars, TypeOK, Running
<1>4. QED
  BY <1>1, <1>2, <1>3 DEF Next, Handle, Begin

LEMMA RunInvInit == Init => RunInv
BY InvokeAssumption
   DEF Init, RunInv, OneLiveRun, LiveOwns, NoOrphan, Live, Running, IsInFlight, Absent

(* Pruning drops only what has expired.                                      *)
LEMMA RetainedFacts ==
    ASSUME TypeOK, NEW n \in Nonces
    PROVE  /\ cache[n].expires > now => Retained[n] = cache[n]
           /\ Retained[n] \in {cache[n], Absent}
           /\ cache[n].expires <= now => Retained[n] = Absent
           /\ cache[n].expires \in Nat
BY DEF TypeOK, Retained, Entries, Absent

LEMMA RunInvNext == TypeInv /\ RunInv /\ [Next]_vars => RunInv'
<1> SUFFICES ASSUME TypeInv, RunInv, [Next]_vars PROVE RunInv'
  OBVIOUS
<1>0. /\ TypeOK /\ OneLiveRun /\ LiveOwns /\ NoOrphan
      /\ now \in Nat /\ lease \in [Requests -> Nat] /\ Lease \in Nat
  BY InvokeAssumption DEF TypeInv, RunInv, TypeOK
<1>n. \A r \in Requests : Running(r) => ask[r].nonce \in Nonces /\ ask[r].hash \in Hashes
  BY <1>0 DEF TypeOK, Running, Asks
<1>1. ASSUME now' >= now, lease' = lease, cache' \in {cache, Retained},
             \A r \in Requests : Running(r)' <=> Running(r),
             \A r \in Requests : pc[r] # "new" => ask'[r] = ask[r]
      PROVE  RunInv'
  <2>1. \A r \in Requests : Running(r)' => Running(r) /\ ask'[r] = ask[r]
    BY <1>1 DEF Running
  <2>n. now' \in Nat
    BY TypeInvNext DEF TypeInv, TypeOK
  <2>2. \A r \in Requests : Live(r)' => Live(r) /\ ask'[r] = ask[r]
    BY <1>0, <1>1, <2>1, <2>n DEF Live
  <2>3. OneLiveRun'
    BY <1>0, <2>2 DEF OneLiveRun
  <2>4. LiveOwns'
    <3> SUFFICES ASSUME NEW r \in Requests, Live(r)' PROVE Owns(r)'
      BY DEF LiveOwns
    <3>1. Live(r) /\ ask'[r] = ask[r] /\ Owns(r) /\ ask[r].nonce \in Nonces
      BY <1>0, <1>n, <2>2 DEF LiveOwns, Live
    <3>2. cache[ask[r].nonce].expires > now
      BY <3>1 DEF Owns, InFlight, Live
    <3>3. Retained[ask[r].nonce] = cache[ask[r].nonce]
      BY <1>0, <3>1, <3>2, RetainedFacts
    <3>4. QED
      BY <1>1, <3>1, <3>3 DEF Owns
  <2>5. NoOrphan'
    <3> SUFFICES ASSUME NEW n \in Nonces, IsInFlight(cache'[n])
                 PROVE  \E r \in Requests : Running(r)' /\ ask'[r].nonce = n /\ Owns(r)'
      BY DEF NoOrphan
    <3>1. cache'[n] = cache[n]
      BY <1>0, <1>1, RetainedFacts DEF IsInFlight, Absent
    <3>2. PICK r \in Requests : Running(r) /\ ask[r].nonce = n /\ Owns(r)
      BY <1>0, <3>1 DEF NoOrphan
    <3>3. ask'[r] = ask[r] /\ Running(r)'
      BY <1>1, <3>2 DEF Running
    <3>4. QED
      BY <1>1, <3>1, <3>2, <3>3 DEF Owns
  <2>6. QED
    BY <2>3, <2>4, <2>5 DEF RunInv
<1>2. ASSUME NEW r \in Requests, Reserve(r) PROVE RunInv'
  <2> DEFINE n == ask[r].nonce
  <2>1. /\ now' = now /\ ask' = ask /\ n \in Nonces /\ pc[r] = "begin"
        /\ ~IsInFlight(Retained[n])
        /\ \A q \in Requests : Running(q)' <=> q = r \/ Running(q)
        /\ lease'[r] = now + Lease
        /\ \A q \in Requests \ {r} : lease'[q] = lease[q]
        /\ cache'[n] = InFlight(ask[r].hash, now + Lease)
        /\ \A m \in Nonces \ {n} : cache'[m] = Retained[m]
    BY <1>0, <1>2, RetainedType DEF Reserve, TypeOK, Running, Asks
  (* A live run of the same nonce would have the request refused.            *)
  <2>2. ASSUME NEW q \in Requests \ {r}, Live(q)' PROVE Live(q) /\ ask[q].nonce # n
    <3>1. Live(q) /\ Owns(q)
      BY <1>0, <2>1, <2>2 DEF Live, LiveOwns
    <3>2. ASSUME ask[q].nonce = n PROVE FALSE
      <4>1. cache[n] = InFlight(ask[q].hash, lease[q]) /\ lease[q] > now
        BY <3>1, <3>2 DEF Owns, Live
      <4>2. Retained[n] = cache[n]
        BY <1>0, <2>1, <4>1, RetainedFacts DEF InFlight
      <4>3. ask[q].hash # None
        BY <1>n, <3>1, InvokeAssumption DEF Live
      <4>4. QED
        BY <2>1, <4>1, <4>2, <4>3 DEF IsInFlight, InFlight
    <3>3. QED
      BY <3>1, <3>2
  <2>3. OneLiveRun'
    BY <1>0, <2>1, <2>2 DEF OneLiveRun
  <2>4. LiveOwns'
    <3> SUFFICES ASSUME NEW q \in Requests, Live(q)' PROVE Owns(q)'
      BY DEF LiveOwns
    <3>1. CASE q = r
      BY <2>1, <3>1 DEF Owns
    <3>2. CASE q # r
      <4>1. Live(q) /\ Owns(q) /\ ask[q].nonce \in Nonces \ {n}
        BY <1>0, <1>n, <2>2, <3>2 DEF LiveOwns, Live
      <4>2. Retained[ask[q].nonce] = cache[ask[q].nonce]
        BY <1>0, <4>1, RetainedFacts DEF Owns, Live, InFlight
      <4>3. QED
        BY <2>1, <3>2, <4>1, <4>2 DEF Owns
    <3>3. QED
      BY <3>1, <3>2
  <2>5. NoOrphan'
    <3> SUFFICES ASSUME NEW m \in Nonces, IsInFlight(cache'[m])
                 PROVE  \E q \in Requests : Running(q)' /\ ask'[q].nonce = m /\ Owns(q)'
      BY DEF NoOrphan
    <3>1. CASE m = n
      BY <2>1, <3>1 DEF Owns
    <3>2. CASE m # n
      <4>1. cache'[m] = cache[m]
        BY <1>0, <2>1, <3>2, RetainedFacts DEF IsInFlight, Absent
      <4>2. PICK q \in Requests : Running(q) /\ ask[q].nonce = m /\ Owns(q)
        BY <1>0, <4>1 DEF NoOrphan
      <4>3. q # r
        BY <2>1, <4>2 DEF Running
      <4>4. QED
        BY <2>1, <4>1, <4>2, <4>3 DEF Owns
    <3>3. QED
      BY <3>1, <3>2
  <2>6. QED
    BY <2>3, <2>4, <2>5 DEF RunInv
(* The end of a run, with an answer or without.                              *)
<1>3. ASSUME NEW r \in Requests, Finish(r) \/ Drop(r) PROVE RunInv'
  <2> DEFINE n == ask[r].nonce
  <2>1. /\ now' = now /\ ask' = ask /\ lease' = lease /\ n \in Nonces /\ Running(r)
        /\ \A q \in Requests : Running(q)' <=> q # r /\ Running(q)
    BY <1>0, <1>n, <1>3 DEF Finish, Drop, Goto, TypeOK, Running
  <2>2. /\ ~Owns(r) => cache' = cache
        /\ \A m \in Nonces \ {n} : cache'[m] = cache[m]
        /\ Owns(r) => ~IsInFlight(cache'[n])
    <3>1. CASE Finish(r)
      BY <1>0, <2>1, <3>1, InvokeAssumption
         DEF Finish, TypeOK, IsInFlight, Complete
    <3>2. CASE Drop(r)
      BY <1>0, <2>1, <3>2 DEF Drop, TypeOK, IsInFlight, Absent
    <3>3. QED
      BY <1>3, <3>1, <3>2
  <2>3. OneLiveRun'
    BY <1>0, <2>1 DEF OneLiveRun, Live
  <2>4. LiveOwns'
    <3> SUFFICES ASSUME NEW q \in Requests, Live(q)' PROVE Owns(q)'
      BY DEF LiveOwns
    <3>1. q # r /\ Live(q) /\ Owns(q) /\ ask[q].nonce \in Nonces
      BY <1>0, <1>n, <2>1 DEF LiveOwns, Live
    <3>2. ask[q].nonce # n \/ ~Owns(r)
      (* Two runs that own one entry have the same, live, lease.             *)
      BY <1>0, <2>1, <3>1 DEF OneLiveRun, Live, Owns, InFlight
    <3>3. QED
      BY <2>1, <2>2, <3>1, <3>2 DEF Owns
  <2>5. NoOrphan'
    <3> SUFFICES ASSUME NEW m \in Nonces, IsInFlight(cache'[m])
                 PROVE  \E q \in Requests : Running(q)' /\ ask'[q].nonce = m /\ Owns(q)'
      BY DEF NoOrphan
    <3>1. m # n \/ ~Owns(r)
      BY <2>2
    <3>2. cache'[m] = cache[m]
      BY <2>2, <3>1
    <3>3. PICK q \in Requests : Running(q) /\ ask[q].nonce = m /\ Owns(q)
      BY <1>0, <3>2 DEF NoOrphan
    <3>4. q # r
      BY <3>1, <3>3
    <3>5. QED
      BY <2>1, <3>2, <3>3, <3>4 DEF Owns
  <2>6. QED
    BY <2>3, <2>4, <2>5 DEF RunInv
<1>4. QED
  BY <1>1, <1>2, <1>3, RunSteps

(* Leases exclude each other (signed_http_warp.rs:295-364).                  *)
THEOREM RunsExclude == Spec => []OneLiveRun
<1>1. RunInv => OneLiveRun
  BY DEF RunInv
<1>2. Spec => [](TypeInv /\ RunInv)
  BY TypeInvInit, TypeInvNext, RunInvInit, RunInvNext, PTL DEF Spec
<1>3. QED
  BY <1>1, <1>2, PTL

(* No reservation outlives its request (signed_http_warp.rs:350-364).        *)
THEOREM ReservationsHaveOwners == Spec => []NoOrphan
<1>1. RunInv => NoOrphan
  BY DEF RunInv
<1>2. Spec => [](TypeInv /\ RunInv)
  BY TypeInvInit, TypeInvNext, RunInvInit, RunInvNext, PTL DEF Spec
<1>3. QED
  BY <1>1, <1>2, PTL

------------------------------------------------------------------------------
(* Where answers come from: a remembered one is the answer of a request with *)
(* its nonce and its input, and so is a returned one.                        *)
ComputedFor(q, n, h) ==
    q \in Requests /\ pc[q] # "new" /\ ask[q].nonce = n /\ ask[q].hash = h

CachedAnswers ==
    \A n \in Nonces : cache[n].by # None => ComputedFor(cache[n].by, n, cache[n].hash)
GivenAnswers ==
    \A r \in Requests :
        pc[r] = "answered" => ComputedFor(answer[r], ask[r].nonce, ask[r].hash)
AnswerInv == CachedAnswers /\ GivenAnswers

LEMMA AnswerInvInit == Init => AnswerInv
BY DEF Init, AnswerInv, CachedAnswers, GivenAnswers, Absent

(* Nobody becomes new, and what was asked stays.                             *)
LEMMA AsksStay ==
    ASSUME TypeInv, [Next]_vars, NEW r \in Requests, pc[r] # "new"
    PROVE  pc'[r] # "new" /\ ask'[r] = ask[r]
<1>0. TypeOK
  BY DEF TypeInv
<1>1. CASE Tick \/ WriteList \/ UNCHANGED vars
  BY <1>0, <1>1 DEF Tick, WriteList, vars, TypeOK
<1>2. ASSUME NEW q \in Requests, Arrive(q) \/ ReadList(q) \/ StoreList(q) \/ Authenticate(q)
      PROVE  pc'[r] # "new" /\ ask'[r] = ask[r]
  BY <1>0, <1>2 DEF Arrive, ReadList, StoreList, Authenticate, Goto, TypeOK
<1>3. ASSUME NEW q \in Requests, Begin(q) \/ Finish(q) \/ Drop(q)
      PROVE  pc'[r] # "new" /\ ask'[r] = ask[r]
  BY <1>0, <1>3 DEF Begin, ReturnCached, Refuse, Reserve, Finish, Drop, Goto, TypeOK
<1>4. QED
  BY <1>1, <1>2, <1>3 DEF Next, Handle

LEMMA AnswerInvNext == TypeInv /\ AnswerInv /\ [Next]_vars => AnswerInv'
<1> SUFFICES ASSUME TypeInv, AnswerInv, [Next]_vars PROVE AnswerInv'
  OBVIOUS
<1>0. TypeOK /\ CachedAnswers /\ GivenAnswers
  BY DEF TypeInv, AnswerInv
<1> DEFINE StillFor(q, n, h) ==
      q \in Requests /\ pc'[q] # "new" /\ ask'[q].nonce = n /\ ask'[q].hash = h
<1>s. ASSUME NEW q, NEW n, NEW h, ComputedFor(q, n, h) PROVE StillFor(q, n, h)
  BY <1>s, AsksStay DEF ComputedFor
<1> HIDE DEF StillFor
<1>c. ASSUME NEW n \in Nonces, cache'[n] \in {cache[n], Absent} \/ cache'[n].by = None,
             cache'[n].by # None
      PROVE  StillFor(cache'[n].by, n, cache'[n].hash)
  <2>1. cache'[n] = cache[n]
    BY <1>c DEF Absent
  <2>2. ComputedFor(cache[n].by, n, cache[n].hash)
    BY <1>0, <1>c, <2>1 DEF CachedAnswers
  <2>3. QED
    BY <1>s, <2>1, <2>2
<1>g. ASSUME NEW r \in Requests, pc[r] = "answered", answer'[r] = answer[r]
      PROVE  StillFor(answer'[r], ask'[r].nonce, ask'[r].hash)
  <2>1. ComputedFor(answer[r], ask[r].nonce, ask[r].hash)
    BY <1>0, <1>g DEF GivenAnswers
  <2>2. ask'[r] = ask[r]
    BY <1>g, AsksStay
  <2>3. QED
    BY <1>g, <1>s, <2>1, <2>2
<1>r. \A n \in Nonces : Retained[n] \in {cache[n], Absent}
  BY <1>0, RetainedFacts
<1>i. ASSUME \A n \in Nonces : cache'[n].by # None => StillFor(cache'[n].by, n, cache'[n].hash),
             \A r \in Requests :
                pc'[r] = "answered" => StillFor(answer'[r], ask'[r].nonce, ask'[r].hash)
      PROVE  AnswerInv'
  BY <1>i DEF AnswerInv, CachedAnswers, GivenAnswers, ComputedFor, StillFor
<1>1. ASSUME cache' \in {cache, Retained},
             \A r \in Requests :
                pc'[r] = "answered" => pc[r] = "answered" /\ answer'[r] = answer[r]
      PROVE  AnswerInv'
  <2>1. \A n \in Nonces : cache'[n].by # None => StillFor(cache'[n].by, n, cache'[n].hash)
    BY <1>1, <1>c, <1>r
  <2>2. \A r \in Requests :
           pc'[r] = "answered" => StillFor(answer'[r], ask'[r].nonce, ask'[r].hash)
    BY <1>1, <1>g
  <2>3. QED
    BY <1>i, <2>1, <2>2
<1>2. CASE Tick \/ WriteList \/ UNCHANGED vars
  BY <1>1, <1>2 DEF Tick, WriteList, vars
<1>3. ASSUME NEW q \in Requests,
             \/ Arrive(q) \/ ReadList(q) \/ StoreList(q) \/ Authenticate(q) \/ Refuse(q)
      PROVE  AnswerInv'
  BY <1>0, <1>1, <1>3 DEF Arrive, ReadList, StoreList, Authenticate, Refuse, Goto, TypeOK
(* A cached answer is handed out: it is the answer to the same input.        *)
<1>4. ASSUME NEW q \in Requests, ReturnCached(q) PROVE AnswerInv'
  <2>1. /\ cache' = Retained /\ pc[q] = "begin" /\ ask[q].nonce \in Nonces
        /\ Retained[ask[q].nonce].by # None /\ Retained[ask[q].nonce].hash = ask[q].hash
        /\ answer'[q] = Retained[ask[q].nonce].by /\ ask'[q] = ask[q]
        /\ \A r \in Requests \ {q} : pc'[r] = pc[r] /\ answer'[r] = answer[r]
    BY <1>0, <1>4 DEF ReturnCached, IsAnswer, TypeOK, Asks
  <2>2. \A n \in Nonces : cache'[n].by # None => StillFor(cache'[n].by, n, cache'[n].hash)
    BY <1>c, <1>r, <2>1
  <2>3. StillFor(answer'[q], ask'[q].nonce, ask'[q].hash)
    BY <2>1, <2>2
  <2>4. QED
    BY <1>g, <1>i, <2>1, <2>2, <2>3
<1>5. ASSUME NEW q \in Requests, Reserve(q) PROVE AnswerInv'
  <2>1. /\ ask[q].nonce \in Nonces /\ answer' = answer
        /\ cache'[ask[q].nonce].by = None
        /\ \A n \in Nonces \ {ask[q].nonce} : cache'[n] = Retained[n]
        /\ \A r \in Requests : pc'[r] = "answered" => pc[r] = "answered"
    BY <1>0, <1>5, RetainedType DEF Reserve, InFlight, TypeOK, Asks
  <2>2. QED
    BY <1>c, <1>g, <1>i, <1>r, <2>1
(* A run publishes: the answer is its own.                                   *)
<1>6. ASSUME NEW q \in Requests, Finish(q) PROVE AnswerInv'
  <2>1. /\ ask' = ask /\ pc'[q] = "answered" /\ answer'[q] = q /\ ask[q].nonce \in Nonces
        /\ \A r \in Requests \ {q} : pc'[r] = pc[r] /\ answer'[r] = answer[r]
        /\ \A n \in Nonces :
              \/ cache'[n] = cache[n]
              \/ (n = ask[q].nonce /\ cache'[n] = Complete(ask[q].hash, now + TTL, q))
    BY <1>0, <1>6 DEF Finish, Goto, TypeOK, Asks
  <2>2. StillFor(q, ask[q].nonce, ask[q].hash)
    BY <2>1 DEF StillFor
  <2>3. \A n \in Nonces : cache'[n].by # None => StillFor(cache'[n].by, n, cache'[n].hash)
    BY <1>c, <2>1, <2>2 DEF Complete
  <2>4. QED
    BY <1>g, <1>i, <2>1, <2>2, <2>3
<1>7. ASSUME NEW q \in Requests, Drop(q) PROVE AnswerInv'
  <2>1. /\ answer' = answer
        /\ \A n \in Nonces : cache'[n] \in {cache[n], Absent}
        /\ \A r \in Requests : pc'[r] = "answered" => pc[r] = "answered"
    BY <1>0, <1>7 DEF Drop, Goto, TypeOK
  <2>2. QED
    BY <1>c, <1>g, <1>i, <2>1
<1>8. QED
  BY <1>2, <1>3, <1>4, <1>5, <1>6, <1>7 DEF Next, Handle, Begin

(* Nobody gets the answer to other input (signed_http_warp.rs:298-303).      *)
THEOREM AnswersFit == Spec => []AnswerOfInput
<1>1. AnswerInv => AnswerOfInput
  BY DEF AnswerInv, GivenAnswers, AnswerOfInput, ComputedFor
<1>2. Spec => [](TypeInv /\ AnswerInv)
  BY TypeInvInit, TypeInvNext, AnswerInvInit, AnswerInvNext, PTL DEF Spec
<1>3. QED
  BY <1>1, <1>2, PTL

------------------------------------------------------------------------------
(* What RunOnce rests on: an answer that is to be remembered is in the       *)
(* cache, under the nonce and the input of its request.                      *)
Remembered(q) == cache[ask[q].nonce] = Complete(ask[q].hash, kept[q], q)
KeptInv == \A q \in Requests : kept[q] > now => pc[q] = "answered" /\ Remembered(q)

LEMMA KeptInvInit == Init => KeptInv
BY DEF Init, KeptInv

LEMMA KeptInvNext == TypeInv /\ KeptInv /\ [Next]_vars => KeptInv'
<1> SUFFICES ASSUME TypeInv, KeptInv, [Next]_vars,
                    NEW q \in Requests, kept'[q] > now'
             PROVE  pc'[q] = "answered" /\ Remembered(q)'
  BY DEF KeptInv
<1>0. /\ TypeOK /\ TypeInv' /\ now \in Nat /\ now' \in Nat
      /\ kept \in [Requests -> Nat] /\ kept' \in [Requests -> Nat]
  BY TypeInvNext DEF TypeInv, TypeOK
<1>q. ASSUME pc[q] = "answered" PROVE ask[q].nonce \in Nonces /\ ask'[q] = ask[q]
  BY <1>0, <1>q, AsksStay DEF TypeOK, Asks
(* A step that leaves q, or the entry of its nonce, alone.                   *)
<1>1. ASSUME now' >= now, kept'[q] = kept[q], pc'[q] = pc[q],
             cache' \in {cache, Retained}
      PROVE  pc'[q] = "answered" /\ Remembered(q)'
  <2>1. pc[q] = "answered" /\ Remembered(q) /\ kept[q] > now
    BY <1>0, <1>1 DEF KeptInv
  <2>2. ask[q].nonce \in Nonces /\ ask'[q] = ask[q]
    BY <1>q, <2>1
  <2>3. cache[ask[q].nonce].expires > now
    BY <2>1 DEF Remembered, Complete
  <2>4. cache'[ask[q].nonce] = cache[ask[q].nonce]
    BY <1>0, <1>1, <2>2, <2>3, RetainedFacts
  <2>5. QED
    BY <1>1, <2>1, <2>2, <2>4 DEF Remembered
<1>2. CASE Tick \/ WriteList \/ UNCHANGED vars
  BY <1>0, <1>1, <1>2 DEF Tick, WriteList, vars, historyVars
<1>3. ASSUME NEW r \in Requests,
             \/ Arrive(r) \/ ReadList(r) \/ StoreList(r) \/ Authenticate(r)
             \/ ReturnCached(r) \/ Refuse(r)
      PROVE  pc'[q] = "answered" /\ Remembered(q)'
  <2>1. /\ now' = now /\ kept' = kept /\ cache' \in {cache, Retained}
        /\ pc[r] # "answered"
        /\ \A p \in Requests \ {r} : pc'[p] = pc[p]
    BY <1>0, <1>3 DEF Arrive, ReadList, StoreList, Authenticate, ReturnCached, Refuse,
                      Goto, TypeOK, historyVars
  <2>2. pc[q] = "answered"
    BY <1>0, <2>1 DEF KeptInv
  <2>3. QED
    BY <1>0, <1>1, <2>1, <2>2
(* Only a reservation for other input takes the entry, and then nobody is to *)
(* remember it.                                                              *)
<1>4. ASSUME NEW r \in Requests, Reserve(r) PROVE pc'[q] = "answered" /\ Remembered(q)'
  <2>1. /\ now' = now /\ pc[r] = "begin" /\ ask[r].nonce \in Nonces
        /\ \A p \in Requests \ {r} : pc'[p] = pc[p]
        /\ kept'[q] = IF Displaces(r, q) THEN 0 ELSE kept[q]
        /\ ~IsAnswer(Retained[ask[r].nonce], ask[r].hash)
        /\ \A n \in Nonces \ {ask[r].nonce} : cache'[n] = Retained[n]
    BY <1>0, <1>4, RetainedType DEF Reserve, TypeOK, Asks
  <2>2. kept'[q] = kept[q] /\ kept[q] > now /\ ~Displaces(r, q)
    BY <1>0, <2>1
  <2>3. /\ pc[q] = "answered" /\ Remembered(q)
        /\ ask[q].nonce \in Nonces /\ ask'[q] = ask[q]
    BY <1>q, <2>2 DEF KeptInv
  <2>4. /\ cache[ask[q].nonce].expires > now /\ cache[ask[q].nonce].by = q
        /\ cache[ask[q].nonce].hash = ask[q].hash
    BY <2>2, <2>3 DEF Remembered, Complete
  <2>5. Retained[ask[q].nonce] = cache[ask[q].nonce]
    BY <1>0, <2>3, <2>4, RetainedFacts
  <2>6. ask[q].nonce # ask[r].nonce
    BY <2>1, <2>2, <2>3, <2>4, <2>5, InvokeAssumption DEF Displaces, IsAnswer
  <2>7. QED
    BY <2>1, <2>2, <2>3, <2>5, <2>6 DEF Remembered
<1>5. ASSUME NEW r \in Requests, Finish(r) PROVE pc'[q] = "answered" /\ Remembered(q)'
  <2>1. /\ now' = now /\ ask' = ask /\ pc[r] = "running" /\ ask[r].nonce \in Nonces
        /\ pc'[r] = "answered"
        /\ \A p \in Requests \ {r} : pc'[p] = pc[p] /\ kept'[p] = kept[p]
        /\ Owns(r) => /\ kept'[r] = now + TTL
                      /\ cache'[ask[r].nonce] = Complete(ask[r].hash, now + TTL, r)
                      /\ \A n \in Nonces \ {ask[r].nonce} : cache'[n] = cache[n]
        /\ ~Owns(r) => kept' = kept /\ cache' = cache
    BY <1>0, <1>5 DEF Finish, Goto, TypeOK, Asks
  <2>2. CASE q = r
    <3>1. Owns(r)
      BY <1>0, <2>1, <2>2 DEF KeptInv
    <3>2. QED
      BY <2>1, <2>2, <3>1 DEF Remembered
  <2>3. CASE q # r
    <3>1. /\ pc[q] = "answered" /\ Remembered(q) /\ pc'[q] = "answered"
          /\ kept'[q] = kept[q] /\ ask[q].nonce \in Nonces
      BY <1>0, <1>q, <2>1, <2>3 DEF KeptInv
    (* The entry is an answer: r does not own it.                            *)
    <3>2. ask[q].nonce # ask[r].nonce \/ ~Owns(r)
      BY <3>1, InvokeAssumption DEF Remembered, Owns, Complete, InFlight
    <3>3. QED
      BY <2>1, <3>1, <3>2 DEF Remembered
  <2>4. QED
    BY <2>2, <2>3
<1>6. ASSUME NEW r \in Requests, Drop(r) PROVE pc'[q] = "answered" /\ Remembered(q)'
  <2>1. /\ now' = now /\ ask' = ask /\ kept' = kept /\ pc[r] = "running"
        /\ ask[r].nonce \in Nonces
        /\ \A p \in Requests \ {r} : pc'[p] = pc[p]
        /\ \A n \in Nonces \ {ask[r].nonce} : cache'[n] = cache[n]
        /\ ~Owns(r) => cache' = cache
    BY <1>0, <1>6 DEF Drop, Goto, TypeOK, Asks, historyVars
  <2>2. pc[q] = "answered" /\ Remembered(q) /\ ask[q].nonce \in Nonces
    BY <1>0, <1>q, <2>1 DEF KeptInv
  <2>3. ask[q].nonce # ask[r].nonce \/ ~Owns(r)
    BY <2>2, InvokeAssumption DEF Remembered, Owns, Complete, InFlight
  <2>4. QED
    BY <2>1, <2>2, <2>3 DEF Remembered
<1>7. QED
  BY <1>2, <1>3, <1>4, <1>5, <1>6 DEF Next, Handle, Begin

(* Only Reserve starts a run, and it does not when the answer is remembered. *)
LEMMA NoSecondRun ==
    ASSUME TypeInv, KeptInv, [Next]_vars,
           NEW r \in Requests, NEW q \in Requests,
           ~Running(r), Running(r)', kept[q] > now
    PROVE  ask[q].nonce # ask[r].nonce \/ ask[q].hash # ask[r].hash
<1>0. TypeOK
  BY DEF TypeInv
<1>1. Reserve(r)
  <2>1. \A p \in Requests : ~Finish(p) /\ ~Drop(p) /\ (Reserve(p) => p = r)
    BY <1>0 DEF Finish, Drop, Reserve, Goto, TypeOK, Running
  <2>2. QED
    BY <2>1, RunSteps
<1>2. pc[q] = "answered" /\ Remembered(q) /\ ask[q].nonce \in Nonces
  BY <1>0 DEF KeptInv, TypeOK, Asks
<1>3. /\ cache[ask[q].nonce].expires > now /\ cache[ask[q].nonce].by = q
      /\ cache[ask[q].nonce].hash = ask[q].hash
  BY <1>2 DEF Remembered, Complete
<1>4. Retained[ask[q].nonce] = cache[ask[q].nonce]
  BY <1>0, <1>2, <1>3, RetainedFacts
<1>5. ~IsAnswer(Retained[ask[r].nonce], ask[r].hash)
  BY <1>1 DEF Reserve
<1>6. QED
  BY <1>3, <1>4, <1>5, InvokeAssumption DEF IsAnswer

(* A remembered answer is not computed twice (signed_http_warp.rs:295-348).  *)
THEOREM AnswersAreRemembered == Spec => RunOnce
<1>1. Spec => [](TypeInv /\ KeptInv)
  BY TypeInvInit, TypeInvNext, KeptInvInit, KeptInvNext, PTL DEF Spec
<1>2. TypeInv /\ KeptInv /\ [Next]_vars =>
        [\A r, q \in Requests :
           /\ ~Running(r) /\ Running(r)'
           /\ kept[q] > now
           => ask[q].nonce # ask[r].nonce \/ ask[q].hash # ask[r].hash]_vars
  BY NoSecondRun
<1>3. QED
  BY <1>1, <1>2, PTL DEF Spec, RunOnce
================================================================================
