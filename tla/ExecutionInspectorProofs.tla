----------------------- MODULE ExecutionInspectorProofs -----------------------
(* The inspection delivers every update's events once, in the ledger's order, *)
(* for every number of updates, retries and transient errors.                 *)
EXTENDS ExecutionInspector, SequenceTheorems, TLAPS

Known == IF last = None THEN 0 ELSE last
Sent == {sent[i] : i \in 1..Len(sent)}
Walking == phase \in {"transaction", "object"}

(* The types, as far as the steps depend on them.                             *)
Typed ==
    /\ ledger \in Seq(Feed!Kinds) /\ Len(ledger) \in Nat \ {0}
    /\ indexed \in Nat /\ pruned \in Nat
    /\ phase \in {"poll", "transaction", "object", "send", "stopped"}
    /\ last \in Nat \cup {None} /\ Known \in 0..Len(ledger)
    /\ reverse \in Seq(Nat) /\ queue \in Seq(Nat) /\ sent \in Seq(Nat)
    /\ out \in {"running", "ok"} \cup Feed!Errors
    /\ phase # "stopped" <=> out = "running"

(* The walk has gone from the latest version down to the one above v, without *)
(* a gap.                                                                     *)
WalkedDownTo(v) ==
    /\ latest \in Nat /\ Known < latest /\ latest <= Len(ledger)
    /\ Len(reverse) = latest - v
    /\ \A i \in 1..Len(reverse) : reverse[i] = latest + 1 - i

(* What is queued follows version v, without a gap, up to the latest.         *)
QueuedFrom(v) ==
    /\ v \in Nat /\ Known <= v
    /\ Len(queue) = latest - v
    /\ \A i \in 1..Len(queue) : queue[i] = v + i

(* Exactly the updates with an event up to version v were sent.               *)
SentUpTo(v) ==
    /\ \A u \in Sent : u \in 1..v /\ Carries(u)
    /\ \A u \in 1..v : Carries(u) => u \in Sent

InOrder == \A i, j \in 1..Len(sent) : i < j => sent[i] < sent[j]

Walks == Walking => cursor \in Nat /\ Known < cursor /\ cursor <= latest /\ WalkedDownTo(cursor)
Sends ==
    phase = "send" =>
        /\ WalkedDownTo(Known)
        /\ QueuedFrom(latest - Len(queue)) /\ SentUpTo(latest - Len(queue))
Waits == Awaiting => SentUpTo(Known)

InspectorInv ==
    /\ Typed /\ Walks /\ Sends /\ Waits
    /\ Sent \subseteq 1..Len(ledger) /\ InOrder
    /\ WholeWalks

------------------------------------------------------------------------------
LEMMA InspectorInit == Init => InspectorInv
<1> SUFFICES ASSUME Init PROVE InspectorInv
  OBVIOUS
<1>1. /\ ledger \in Seq(Feed!Kinds) /\ Len(ledger) = 1
      /\ sent = <<>> /\ out = "running"
  <2>1. PICK k \in {"nothing", "walk"} : ledger = <<k>>
    BY DEF Init, Feed!Init
  <2>2. k \in Feed!Kinds
    BY DEF Feed!Kinds
  <2>3. <<k>> \in Seq(Feed!Kinds) /\ Len(<<k>>) = 1
    BY <2>2
  <2>4. QED
    BY <2>1, <2>3 DEF Init, Feed!Init
<1>2. Known = 0 /\ Sent = {} /\ Len(sent) = 0
  BY <1>1 DEF Init, Known, Sent
<1>3. Typed
  BY <1>1, <1>2 DEF Init, Typed
<1>4. Waits
  BY <1>2 DEF Waits, SentUpTo
<1>5. QED
  BY <1>1, <1>2, <1>3, <1>4
     DEF Init, InspectorInv, Walks, Sends, Walking, InOrder, WholeWalks, Known, Sent

(* None is no version.                                                        *)
LEMMA NoneIsNoVersion == None \notin Nat
  BY InspectorAssumption

(* An update leaves what the earlier ones report as it was.                   *)
LEMMA UpdateKeeps ==
    ASSUME InspectorInv, Update
    PROVE  /\ ledger' \in Seq(Feed!Kinds) /\ Len(ledger') = Len(ledger) + 1
           /\ \A v \in 1..Len(ledger) : Carries(v)' = Carries(v)
<1>1. PICK k \in Feed!Kinds : ledger' = Append(ledger, k)
  BY DEF Update
<1>2. ledger \in Seq(Feed!Kinds)
  BY DEF InspectorInv, Typed
<1>3. /\ ledger' \in Seq(Feed!Kinds) /\ Len(ledger') = Len(ledger) + 1
      /\ \A v \in 1..Len(ledger) : ledger'[v] = ledger[v]
  BY <1>1, <1>2, AppendProperties
<1>4. QED
  BY <1>3 DEF Carries

(* The steps of the node: the task's own state is as it was, and what the     *)
(* ledger reports of the versions so far.                                     *)
LEMMA NodeStep ==
    ASSUME InspectorInv,
           ledger' \in Seq(Feed!Kinds), Len(ledger') \in Nat, Len(ledger) <= Len(ledger'),
           \A v \in 1..Len(ledger) : Carries(v)' = Carries(v),
           indexed' \in Nat, pruned' \in Nat,
           UNCHANGED <<phase, last, walkVars, queue, sent, out>>
    PROVE  InspectorInv'
<1>0. Typed /\ Len(ledger) \in Nat /\ Known \in 0..Len(ledger)
  BY DEF InspectorInv, Typed
<1>1. Known' = Known /\ Sent' = Sent /\ Walking' = Walking /\ Awaiting' = Awaiting
  BY DEF Known, Sent, Walking, Awaiting, walkVars
<1>2. Typed'
  BY <1>0, <1>1 DEF Typed, walkVars
<1>3. \A v \in 0..Len(ledger) : SentUpTo(v) => SentUpTo(v)'
  BY <1>0, <1>1 DEF SentUpTo
<1>4. Waits'
  BY <1>0, <1>1, <1>3 DEF InspectorInv, Waits
<1>5. \A v : WalkedDownTo(v) => WalkedDownTo(v)'
  BY <1>0, <1>1 DEF WalkedDownTo, walkVars
<1>6. \A v : QueuedFrom(v) => QueuedFrom(v)'
  BY <1>0, <1>1 DEF QueuedFrom, walkVars
<1>7. Walks'
  <2>1. CASE ~Walking'
    BY <2>1 DEF Walks
  <2>2. CASE Walking'
    <3>1. cursor \in Nat /\ Known < cursor /\ cursor <= latest /\ WalkedDownTo(cursor)
      BY <1>1, <2>2 DEF InspectorInv, Walks
    <3>2. cursor' = cursor /\ latest' = latest
      BY DEF walkVars
    <3>3. WalkedDownTo(cursor)'
      BY <1>0, <1>1, <3>1 DEF WalkedDownTo, walkVars
    <3>4. QED
      BY <1>1, <3>1, <3>2, <3>3 DEF Walks
  <2>3. QED
    BY <2>1, <2>2
<1>8. Sends'
  <2> SUFFICES ASSUME phase = "send" PROVE Sends'
    BY DEF Sends
  <2> DEFINE v == latest - Len(queue)
  <2>1. WalkedDownTo(Known) /\ QueuedFrom(v) /\ SentUpTo(v)
    BY DEF InspectorInv, Sends
  <2>2. v \in Nat /\ v <= Len(ledger)
    <3>1. Len(queue) \in Nat
      BY <1>0, LenProperties DEF Typed
    <3>2. QED
      BY <1>0, <2>1, <3>1 DEF WalkedDownTo, QueuedFrom
  <2>3. v' = v
    BY DEF walkVars
  <2>4. SentUpTo(v)'
    <3>1. v \in 0..Len(ledger)
      BY <1>0, <2>2
    <3>2. QED
      BY <1>0, <1>1, <2>1, <2>3, <3>1 DEF SentUpTo
  <2>5. WalkedDownTo(Known)'
    BY <1>0, <1>1, <2>1 DEF WalkedDownTo, walkVars
  <2>6. QueuedFrom(v)'
    BY <1>1, <2>1, <2>3 DEF QueuedFrom, walkVars
  <2>7. QED
    BY <2>4, <2>5, <2>6 DEF Sends
<1>9. WholeWalks'
  BY <1>0, <1>1 DEF InspectorInv, WholeWalks, Known, Sent
<1>10. Sent' \subseteq 1..Len(ledger') /\ InOrder'
  BY <1>0, <1>1 DEF InspectorInv, InOrder
<1>11. QED
  BY <1>2, <1>4, <1>7, <1>8, <1>9, <1>10 DEF InspectorInv

(* A task that stops while it waits for an answer has sent whole walks only.  *)
LEMMA StopStep ==
    ASSUME InspectorInv, NEW o \in Feed!Errors, Awaiting \/ o = "channel", Stop(o)
    PROVE  InspectorInv'
<1>1. /\ Known' = Known /\ Sent' = Sent /\ ~Walking' /\ ~Awaiting' /\ phase' = "stopped"
      /\ UNCHANGED <<ledger, sent, last>> /\ out' = o
  BY DEF Stop, Known, Sent, Walking, Awaiting, nodeVars
<1>2. Typed'
  BY <1>1 DEF InspectorInv, Typed, Stop, nodeVars, walkVars, Feed!Errors
<1>3. Walks' /\ Sends' /\ Waits'
  BY <1>1 DEF Walks, Sends, Waits
<1>4. WholeWalks'
  <2>1. \A v \in 1..Known : Carries(v) => v \in Sent
    BY DEF InspectorInv, WholeWalks, Known, Sent
  <2>2. Awaiting => \A v \in Sent : v <= Known
    <3>1. Known \in Nat
      BY DEF InspectorInv, Typed
    <3>2. QED
      BY <3>1 DEF InspectorInv, Waits, SentUpTo
  <2>3. QED
    BY <1>1, <2>1, <2>2 DEF WholeWalks, Known, Sent, Carries
<1>5. QED
  BY <1>1, <1>2, <1>3, <1>4 DEF InspectorInv, InOrder

(* A walk that starts, at a version after the one delivered last.             *)
LEMMA StartStep ==
    ASSUME InspectorInv, Awaiting, NEW v \in Nat, Known < v, v <= Len(ledger), StartWalk(v)
    PROVE  InspectorInv'
<1>1. /\ Known' = Known /\ Sent' = Sent /\ Awaiting' /\ phase' = "transaction"
      /\ UNCHANGED <<ledger, sent, last, out>>
  BY DEF StartWalk, Known, Sent, Awaiting, nodeVars
<1>2. reverse' = <<>> /\ Len(reverse') = 0 /\ latest' = v /\ cursor' = v
  BY DEF StartWalk
<1>3. phase # "stopped" /\ Typed
  BY DEF Awaiting, InspectorInv
<1>4. Typed'
  BY <1>1, <1>2, <1>3 DEF Typed, StartWalk, nodeVars
<1>5. SentUpTo(Known)'
  BY <1>1 DEF InspectorInv, Waits, SentUpTo, Carries
<1>6. Walks'
  BY <1>1, <1>2, <1>3 DEF Walks, WalkedDownTo, Typed
<1>7. Sends' /\ Waits'
  BY <1>1, <1>5 DEF Sends, Waits
<1>8. WholeWalks'
  BY <1>1 DEF InspectorInv, WholeWalks, Known, Sent, Carries
<1>9. QED
  BY <1>1, <1>4, <1>6, <1>7, <1>8 DEF InspectorInv, InOrder

(* A walk that ends sends its updates in the order of the ledger.             *)
LEMMA BatchFacts ==
    ASSUME NEW r \in Seq(Nat), NEW top \in Nat, NEW v \in Nat,
           Len(r) = top - v, \A i \in 1..Len(r) : r[i] = top + 1 - i
    PROVE  /\ Batch(r) \in Seq(Nat) /\ Len(Batch(r)) = top - v
           /\ \A i \in 1..Len(Batch(r)) : Batch(r)[i] = v + i
<1>1. Len(r) \in Nat
  BY LenProperties
<1>2. Batch(r) = [i \in 1..Len(r) |-> r[(Len(r) - i) + 1]]
  BY DEF Batch, Reverse
<1>3. \A i \in 1..Len(r) : r[(Len(r) - i) + 1] \in Nat /\ r[(Len(r) - i) + 1] = v + i
  <2> SUFFICES ASSUME NEW i \in 1..Len(r) PROVE r[(Len(r) - i) + 1] = v + i
    BY <1>1
  <2>1. (Len(r) - i) + 1 \in 1..Len(r)
    BY <1>1
  <2>2. QED
    BY <1>1, <2>1
<1>4. Batch(r) \in Seq(Nat) /\ Len(Batch(r)) = Len(r)
  BY <1>1, <1>2, <1>3
<1>5. QED
  BY <1>2, <1>3, <1>4

LEMMA TransactionStep ==
    ASSUME InspectorInv, FetchTransaction
    PROVE  InspectorInv'
<1>1. /\ Typed /\ phase = "transaction" /\ Walking /\ Awaiting
      /\ cursor \in Nat /\ Known < cursor /\ cursor <= latest /\ WalkedDownTo(cursor)
      /\ Len(reverse) \in Nat /\ Known \in Nat
  BY LenProperties DEF InspectorInv, FetchTransaction, Walks, Walking, Awaiting, Typed
<1>2. /\ Known' = Known /\ Sent' = Sent
      /\ UNCHANGED <<ledger, sent, last, latest, out, indexed, pruned>>
  BY DEF FetchTransaction, Known, Sent, nodeVars
<1>3. /\ reverse' \in Seq(Nat) /\ Len(reverse') = latest - (cursor - 1)
      /\ \A i \in 1..Len(reverse') : reverse'[i] = latest + 1 - i
  <2>1. reverse' = Append(reverse, cursor) /\ reverse \in Seq(Nat)
    BY <1>1 DEF FetchTransaction, Typed
  <2>2. /\ reverse' \in Seq(Nat) /\ Len(reverse') = Len(reverse) + 1
        /\ \A i \in 1..Len(reverse) : reverse'[i] = reverse[i]
        /\ reverse'[Len(reverse) + 1] = cursor
    BY <1>1, <2>1, AppendProperties
  <2>3. /\ latest \in Nat /\ Len(reverse) = latest - cursor
        /\ \A i \in 1..Len(reverse) : reverse[i] = latest + 1 - i
    BY <1>1 DEF WalkedDownTo
  <2>4. Len(reverse') = latest - (cursor - 1) /\ latest + 1 - (Len(reverse) + 1) = cursor
    BY <1>1, <2>2, <2>3
  <2>5. ASSUME NEW i \in 1..Len(reverse') PROVE reverse'[i] = latest + 1 - i
    <3>1. i \in 1..Len(reverse) \/ i = Len(reverse) + 1
      BY <1>1, <2>2
    <3>2. QED
      BY <2>2, <2>3, <2>4, <3>1
  <2>6. QED
    BY <2>2, <2>4, <2>5
<1>4. SentUpTo(Known) /\ SentUpTo(Known)'
  BY <1>1, <1>2 DEF InspectorInv, Waits, SentUpTo, Carries
<1>5. WholeWalks' /\ Sent' \subseteq 1..Len(ledger') /\ InOrder'
  BY <1>2 DEF InspectorInv, WholeWalks, Known, Sent, Carries, InOrder
<1>6. CASE cursor = 1 \/ last = cursor - 1
  <2>1. phase' = "send" /\ queue' = Batch(reverse') /\ Known = cursor - 1
    <3>1. phase' = "send" /\ queue' = Batch(reverse')
      BY <1>6 DEF FetchTransaction
    <3>2. Known = cursor - 1
      <4>1. CASE cursor = 1
        BY <1>1, <4>1
      <4>2. CASE last = cursor - 1
        <5>1. cursor - 1 \in Nat
          BY <1>1
        <5>2. last # None
          BY <4>2, <5>1, NoneIsNoVersion
        <5>3. QED
          BY <4>2, <5>2 DEF Known
      <4>3. QED
        BY <1>6, <4>1, <4>2
    <3>3. QED
      BY <3>1, <3>2
  <2>2. /\ queue' \in Seq(Nat) /\ Len(queue') = latest - Known
        /\ \A i \in 1..Len(queue') : queue'[i] = Known + i
    <3>1. latest \in Nat /\ Len(reverse') = latest - Known
      BY <1>1, <1>3, <2>1 DEF WalkedDownTo
    <3>2. Known \in Nat /\ reverse' \in Seq(Nat)
      BY <1>1, <1>3
    <3>3. \A i \in 1..Len(reverse') : reverse'[i] = latest + 1 - i
      BY <1>3
    <3>4. QED
      BY <2>1, <3>1, <3>2, <3>3, BatchFacts
  <2>3. ~Walking' /\ ~Awaiting' /\ phase' # "stopped"
    BY <2>1 DEF Walking, Awaiting
  <2>4. Typed'
    BY <1>1, <1>2, <1>3, <2>1, <2>2, <2>3 DEF Typed
  <2>5. latest' - Len(queue') = Known
    BY <1>1, <1>2, <2>2 DEF WalkedDownTo
  <2>6. WalkedDownTo(Known)'
    BY <1>1, <1>2, <1>3, <2>1 DEF WalkedDownTo
  <2>7. QueuedFrom(Known)'
    BY <1>1, <1>2, <2>2 DEF QueuedFrom
  <2>8. Sends'
    BY <1>2, <1>4, <2>5, <2>6, <2>7 DEF Sends
  <2>9. QED
    BY <1>5, <2>3, <2>4, <2>8 DEF InspectorInv, Walks, Waits
<1>7. CASE ~(cursor = 1 \/ last = cursor - 1)
  <2>1. phase' = "object" /\ cursor' = cursor - 1 /\ queue' = queue
    BY <1>7 DEF FetchTransaction
  <2>2. Known < cursor - 1 /\ cursor - 1 \in Nat
    BY <1>1, <1>7 DEF Known, Typed
  <2>3. Typed'
    BY <1>1, <1>2, <1>3, <2>1 DEF Typed
  <2>4. Walks'
    BY <1>1, <1>2, <1>3, <2>1, <2>2 DEF Walks, WalkedDownTo
  <2>5. Sends' /\ Waits'
    BY <1>4, <2>1 DEF Sends, Waits
  <2>6. QED
    BY <1>5, <2>3, <2>4, <2>5 DEF InspectorInv
<1>8. QED
  BY <1>6, <1>7

(* The head of the queue is the next version, and everything before it that   *)
(* carries an event was sent.                                                 *)
LEMMA HeadOfQueue ==
    ASSUME InspectorInv, phase = "send", queue # <<>>
    PROVE  LET v == latest - Len(queue)
           IN /\ v \in Nat /\ v < Len(ledger) /\ Known <= v /\ latest \in Nat
              /\ Head(queue) = v + 1
              /\ Tail(queue) \in Seq(Nat) /\ latest - Len(Tail(queue)) = v + 1
              /\ \A i \in 1..Len(Tail(queue)) : Tail(queue)[i] = v + 1 + i
              /\ SentUpTo(v)
<1> DEFINE v == latest - Len(queue)
<1>1. queue \in Seq(Nat) /\ Len(queue) \in Nat \ {0} /\ Len(ledger) \in Nat /\ Known \in Nat
  BY EmptySeq DEF InspectorInv, Typed
<1>2. WalkedDownTo(Known) /\ QueuedFrom(v) /\ SentUpTo(v)
  BY DEF InspectorInv, Sends
<1>3. v \in Nat /\ v < Len(ledger) /\ Known <= v /\ latest \in Nat
  BY <1>1, <1>2 DEF WalkedDownTo, QueuedFrom
<1>4. Head(queue) = v + 1
  BY <1>1, <1>2, HeadTailProperties DEF QueuedFrom
<1>5. /\ Tail(queue) \in Seq(Nat) /\ Len(Tail(queue)) = Len(queue) - 1
      /\ \A i \in 1..Len(Tail(queue)) : Tail(queue)[i] = queue[i + 1]
  BY <1>1, HeadTailProperties
<1>6. \A i \in 1..Len(Tail(queue)) : Tail(queue)[i] = v + 1 + i
  <2> SUFFICES ASSUME NEW i \in 1..Len(Tail(queue)) PROVE Tail(queue)[i] = v + 1 + i
    OBVIOUS
  <2>1. i + 1 \in 1..Len(queue)
    BY <1>1, <1>5
  <2>2. queue[i + 1] = v + (i + 1)
    BY <1>2, <2>1 DEF QueuedFrom
  <2>3. QED
    BY <1>3, <1>5, <2>2
<1>7. QED
  BY <1>1, <1>2, <1>3, <1>4, <1>5, <1>6

(* The queue moves on by one version.                                         *)
LEMMA QueueMovesOn ==
    ASSUME InspectorInv, phase = "send", queue # <<>>, queue' = Tail(queue),
           UNCHANGED <<ledger, indexed, pruned, last, latest, reverse, phase, out>>,
           sent' \in Seq(Nat),
           NEW v \in Nat, v = latest - Len(queue), SentUpTo(v + 1)',
           Sent' \subseteq 1..Len(ledger'), InOrder'
    PROVE  InspectorInv'
<1>1. /\ v < Len(ledger) /\ Known <= v /\ latest \in Nat
      /\ Tail(queue) \in Seq(Nat) /\ latest - Len(Tail(queue)) = v + 1
      /\ \A i \in 1..Len(Tail(queue)) : Tail(queue)[i] = v + 1 + i
      /\ Len(Tail(queue)) \in Nat
  BY HeadOfQueue, LenProperties
<1>2. Known' = Known /\ ~Walking' /\ ~Awaiting' /\ Known \in Nat /\ WalkedDownTo(Known)
  BY DEF Known, Walking, Awaiting, InspectorInv, Sends, Typed
<1>3. Typed'
  BY <1>1, <1>2 DEF InspectorInv, Typed
<1>4. WalkedDownTo(Known)'
  BY <1>2 DEF WalkedDownTo
<1>5. QueuedFrom(v + 1)' /\ latest' - Len(queue') = v + 1
  BY <1>1, <1>2 DEF QueuedFrom
<1>6. SentUpTo(v + 1)'
  OBVIOUS
<1>7. Sends'
  BY <1>4, <1>5, <1>6 DEF Sends
<1>8. WholeWalks'
  <2>1. out' = "running"
    BY DEF InspectorInv, Typed
  <2>2. \A u \in 1..Known : Carries(u)' => u \in Sent'
    BY <1>1, <1>2, <1>6 DEF SentUpTo
  <2>3. QED
    BY <1>2, <2>1, <2>2 DEF WholeWalks, Known, Sent
<1>9. QED
  BY <1>2, <1>3, <1>7, <1>8 DEF InspectorInv, Walks, Waits

LEMMA SendNothingStep ==
    ASSUME InspectorInv, SendNothing
    PROVE  InspectorInv'
<1>1. /\ phase = "send" /\ queue # <<>> /\ queue' = Tail(queue)
      /\ UNCHANGED <<ledger, indexed, pruned, last, latest, reverse, phase, out, sent>>
      /\ ~Carries(Head(queue))
  BY DEF SendNothing, nodeVars, walkVars
<1>2. PICK v \in Nat : /\ v = latest - Len(queue) /\ v < Len(ledger)
                      /\ Head(queue) = v + 1 /\ SentUpTo(v)
  BY <1>1, HeadOfQueue
<1>3. Sent' = Sent /\ InOrder' /\ sent' \in Seq(Nat) /\ Sent' \subseteq 1..Len(ledger')
  BY <1>1 DEF InspectorInv, Typed, Sent, InOrder
<1>4. SentUpTo(v + 1)'
  BY <1>1, <1>2, <1>3 DEF SentUpTo, Carries
<1>5. QED
  BY <1>1, <1>2, <1>3, <1>4, QueueMovesOn

(* The version that is sent comes after all that were.                        *)
LEMMA SendEventsFacts ==
    ASSUME InspectorInv, SendEvents
    PROVE  LET v == latest - Len(queue)
           IN /\ v \in Nat /\ v < Len(ledger) /\ SentUpTo(v) /\ Carries(v + 1)
              /\ sent \in Seq(Nat) /\ sent' = Append(sent, v + 1)
              /\ Len(sent) \in Nat /\ \A i \in 1..Len(sent) : sent[i] \in 1..v
<1> DEFINE v == latest - Len(queue)
<1>1. phase = "send" /\ queue # <<>> /\ Carries(Head(queue)) /\ sent' = Append(sent, Head(queue))
  BY DEF SendEvents
<1>2. v \in Nat /\ v < Len(ledger) /\ Head(queue) = v + 1 /\ SentUpTo(v)
  BY <1>1, HeadOfQueue
<1>3. sent \in Seq(Nat) /\ Len(sent) \in Nat
  BY LenProperties DEF InspectorInv, Typed
<1>4. \A i \in 1..Len(sent) : sent[i] \in 1..v
  BY <1>2 DEF SentUpTo, Sent
<1>5. QED
  BY <1>1, <1>2, <1>3, <1>4

LEMMA SendEventsStep ==
    ASSUME InspectorInv, SendEvents
    PROVE  InspectorInv'
<1>1. /\ phase = "send" /\ queue # <<>> /\ queue' = Tail(queue)
      /\ UNCHANGED <<ledger, indexed, pruned, last, latest, reverse, phase, out>>
  BY DEF SendEvents, nodeVars, walkVars
<1>2. PICK v \in Nat :
         /\ v = latest - Len(queue) /\ v < Len(ledger) /\ SentUpTo(v) /\ Carries(v + 1)
         /\ sent \in Seq(Nat) /\ sent' = Append(sent, v + 1)
         /\ Len(sent) \in Nat /\ \A i \in 1..Len(sent) : sent[i] \in 1..v
  BY SendEventsFacts
<1>3. Len(ledger) \in Nat
  BY DEF InspectorInv, Typed
<1>4. /\ sent' \in Seq(Nat) /\ Len(sent') = Len(sent) + 1
      /\ \A i \in 1..Len(sent) : sent'[i] = sent[i]
      /\ sent'[Len(sent) + 1] = v + 1
  BY <1>2, AppendProperties
<1>5. Sent' = Sent \cup {v + 1}
  <2>1. 1..Len(sent') = (1..Len(sent)) \cup {Len(sent) + 1}
    BY <1>2, <1>4
  <2>2. QED
    BY <1>4, <2>1 DEF Sent
<1>6. SentUpTo(v + 1)'
  BY <1>1, <1>2, <1>5 DEF SentUpTo, Carries
<1>7. Sent' \subseteq 1..Len(ledger')
  BY <1>1, <1>2, <1>3, <1>5 DEF SentUpTo
<1>8. InOrder'
  <2>1. ASSUME NEW i \in 1..Len(sent'), NEW j \in 1..Len(sent'), i < j
        PROVE  sent'[i] < sent'[j]
    <3>1. i \in 1..Len(sent) /\ sent'[i] = sent[i] /\ sent[i] \in 1..v
      BY <1>2, <1>4, <2>1
    <3>2. CASE j \in 1..Len(sent)
      BY <1>4, <2>1, <3>1, <3>2 DEF InspectorInv, InOrder
    <3>3. CASE j = Len(sent) + 1
      BY <1>2, <1>4, <3>1, <3>3
    <3>4. QED
      BY <1>2, <1>4, <3>2, <3>3
  <2>2. QED
    BY <2>1 DEF InOrder
<1>9. QED
  BY <1>1, <1>2, <1>4, <1>6, <1>7, <1>8, QueueMovesOn

(* The walk was sent: its versions are known now.                             *)
LEMMA DeliveredFacts ==
    ASSUME InspectorInv, Delivered
    PROVE  /\ latest \in 1..Len(ledger) /\ Len(ledger) \in Nat /\ SentUpTo(latest)
           /\ \A i \in 1..Len(reverse) : reverse[i] \in 1..latest
<1>1. phase = "send" /\ Len(queue) = 0
  BY EmptySeq DEF Delivered
<1>2. WalkedDownTo(Known) /\ SentUpTo(latest - Len(queue))
  BY <1>1 DEF InspectorInv, Sends
<1>3. Known \in Nat /\ Len(ledger) \in Nat
  BY DEF InspectorInv, Typed
<1>4. latest \in 1..Len(ledger) /\ SentUpTo(latest)
  <2>1. latest \in 1..Len(ledger) /\ latest - Len(queue) = latest
    BY <1>1, <1>2, <1>3 DEF WalkedDownTo
  <2>2. QED
    BY <1>2, <2>1
<1>5. \A i \in 1..Len(reverse) : reverse[i] \in 1..latest
  BY <1>2, <1>3, <1>4 DEF WalkedDownTo
<1>6. QED
  BY <1>3, <1>4, <1>5

LEMMA DeliveredStep ==
    ASSUME InspectorInv, Delivered
    PROVE  InspectorInv'
<1>1. latest \in 1..Len(ledger) /\ Len(ledger) \in Nat /\ SentUpTo(latest)
  BY DeliveredFacts
<1>2. /\ last' = latest /\ latest # None /\ Known' = latest /\ Sent' = Sent
      /\ UNCHANGED <<ledger, indexed, pruned, queue, sent>> /\ reverse' = <<>>
      /\ \/ phase' = "poll" /\ out' = out
         \/ phase' = "stopped" /\ out' = "ok"
  BY <1>1, NoneIsNoVersion DEF Delivered, Known, Sent, nodeVars
<1>3. ~Walking' /\ phase' # "send"
  BY <1>2 DEF Walking
<1>4. out = "running"
  BY DEF InspectorInv, Typed, Delivered
<1>5. Typed'
  BY <1>1, <1>2, <1>4 DEF InspectorInv, Typed
<1>6. SentUpTo(Known)'
  BY <1>1, <1>2 DEF SentUpTo, Carries
<1>7. WholeWalks'
  BY <1>2, <1>4, <1>6 DEF WholeWalks, SentUpTo, Known, Sent
<1>8. QED
  BY <1>2, <1>3, <1>5, <1>6, <1>7 DEF InspectorInv, Walks, Sends, Waits, InOrder

(* A step that only counts a try, or that looks at another object.            *)
LEMMA KeepsWalking ==
    ASSUME InspectorInv, Walking, Walking',
           UNCHANGED <<ledger, indexed, pruned, last, latest, cursor, reverse, queue, sent, out>>
    PROVE  InspectorInv'
<1>1. Known' = Known /\ Sent' = Sent /\ phase' # "send" /\ phase' # "stopped" /\ Awaiting
  BY DEF Known, Sent, Walking, Awaiting
<1>2. Typed'
  BY <1>1 DEF InspectorInv, Typed, Walking
<1>3. Walks'
  BY <1>1 DEF InspectorInv, Walks, WalkedDownTo
<1>4. Sends' /\ Waits'
  BY <1>1 DEF InspectorInv, Sends, Waits, SentUpTo, Carries
<1>5. QED
  BY <1>1, <1>2, <1>3, <1>4 DEF InspectorInv, WholeWalks, Known, Sent, Carries, InOrder

------------------------------------------------------------------------------
LEMMA InspectorNext == InspectorInv /\ [Next]_vars => InspectorInv'
<1> SUFFICES ASSUME InspectorInv, [Next]_vars PROVE InspectorInv'
  OBVIOUS
<1>0. Len(ledger) \in Nat /\ indexed \in Nat /\ pruned \in Nat /\ ledger \in Seq(Feed!Kinds)
  BY DEF InspectorInv, Typed
<1>1. CASE Update
  BY <1>0, <1>1, UpdateKeeps, NodeStep DEF Update
<1>2. CASE Index \/ Prune \/ HangUp \/ DeadlineNears \/ UNCHANGED vars
  <2>1. /\ indexed' \in Nat /\ pruned' \in Nat
        /\ UNCHANGED <<ledger, phase, last, walkVars, queue, sent, out>>
    BY <1>0, <1>2 DEF Index, Prune, HangUp, DeadlineNears, vars, nodeVars
  <2>2. \A v \in 1..Len(ledger) : Carries(v)' = Carries(v)
    BY <2>1 DEF Carries
  <2>3. QED
    BY <1>0, <2>1, <2>2, NodeStep
<1>3. CASE MovedBackwards \/ BadAnswer \/ Timeout \/ TransactionMissing \/ ObjectMissing
  <2>1. PICK o \in Feed!Errors : Stop(o)
    BY <1>3 DEF MovedBackwards, BadAnswer, Timeout, TransactionMissing, ObjectMissing, Feed!Errors
  <2>2. Awaiting
    BY <1>3 DEF MovedBackwards, BadAnswer, Timeout, TransactionMissing, ObjectMissing, Awaiting
  <2>3. QED
    BY <2>1, <2>2, StopStep
<1>4. CASE ReceiverGone
  <2>1. Stop("channel") /\ "channel" \in Feed!Errors
    BY <1>4 DEF ReceiverGone, Feed!Errors
  <2>2. QED
    BY <2>1, StopStep
<1>5. CASE FetchLatest
  <2>1. PICK v \in Answers : (last = None \/ v > last) /\ StartWalk(v)
    BY <1>5 DEF FetchLatest
  <2>2. v \in 1..Len(ledger)
    <3>1. Len(ledger) > 0
      BY DEF InspectorInv, Typed
    <3>2. QED
      BY <1>0, <2>1, <3>1 DEF Answers
  <2>3. v \in Nat /\ Known < v /\ v <= Len(ledger)
    BY <1>0, <2>1, <2>2 DEF Known
  <2>4. Awaiting
    BY <1>5 DEF FetchLatest, Awaiting
  <2>5. QED
    BY <2>1, <2>3, <2>4, StartStep
<1>6. CASE Transient
  <2>1. Walking /\ Awaiting /\ StartWalk(latest)
    BY <1>6 DEF Transient, Walking, Awaiting
  <2>2. WalkedDownTo(cursor)
    BY <2>1 DEF InspectorInv, Walks
  <2>3. latest \in Nat /\ Known < latest /\ latest <= Len(ledger)
    BY <2>2 DEF WalkedDownTo
  <2>4. QED
    BY <2>1, <2>3, StartStep
<1>7. CASE FetchTransaction
  BY <1>7, TransactionStep
<1>8. CASE AwaitTransaction \/ FetchObject
  <2>1. /\ Walking /\ Walking'
        /\ UNCHANGED <<ledger, indexed, pruned, last, latest, cursor, reverse, queue, sent, out>>
    BY <1>8 DEF AwaitTransaction, FetchObject, Walking, nodeVars, walkVars
  <2>2. QED
    BY <2>1, KeepsWalking
<1>9. CASE SendNothing \/ SendEvents \/ Delivered
  BY <1>9, SendNothingStep, SendEventsStep, DeliveredStep
<1>10. QED
  BY <1>1, <1>2, <1>3, <1>4, <1>5, <1>6, <1>7, <1>8, <1>9 DEF Next, Progress

(* The position the next walk stops at is right, and only the caller's own    *)
(* end leaves a part of a walk behind (workflow.rs:1822-1836).                *)
THEOREM WalksAreWhole == Spec => []WholeWalks
<1>1. InspectorInv => WholeWalks
  BY DEF InspectorInv
<1>2. Spec => []InspectorInv
  BY InspectorInit, InspectorNext, PTL DEF Spec
<1>3. QED
  BY <1>1, <1>2, PTL

------------------------------------------------------------------------------
(* Every step is one of the feed's, or changes nothing that the caller sees.  *)
LEMMA SendIsDeliver ==
    ASSUME InspectorInv, SendEvents
    PROVE  Feed!Deliver
<1>1. PICK v \in Nat :
         /\ v = latest - Len(queue) /\ v < Len(ledger) /\ SentUpTo(v) /\ Carries(v + 1)
         /\ sent \in Seq(Nat) /\ sent' = Append(sent, v + 1)
         /\ Len(sent) \in Nat /\ \A i \in 1..Len(sent) : sent[i] \in 1..v
  BY SendEventsFacts
<1>2. out = "running" /\ UNCHANGED <<ledger, out>> /\ Len(ledger) \in Nat
  BY DEF InspectorInv, Typed, SendEvents, nodeVars
<1>3. Feed!Newest \in 0..v /\ \A u \in Sent : u <= Feed!Newest
  <2>1. CASE sent = <<>>
    BY <1>1, <2>1 DEF Feed!Newest, Sent
  <2>2. CASE sent # <<>>
    <3>1. Len(sent) \in 1..Len(sent) /\ Feed!Newest = sent[Len(sent)]
      BY <1>1, <2>2, EmptySeq DEF Feed!Newest
    <3>2. \A i \in 1..Len(sent) : sent[i] <= sent[Len(sent)]
      <4> SUFFICES ASSUME NEW i \in 1..Len(sent) PROVE sent[i] <= sent[Len(sent)]
        OBVIOUS
      <4>1. i < Len(sent) => sent[i] < sent[Len(sent)]
        BY <3>1 DEF InspectorInv, InOrder
      <4>2. sent[i] \in Nat /\ sent[Len(sent)] \in Nat /\ (i < Len(sent) \/ i = Len(sent))
        BY <1>1, <3>1
      <4>3. QED
        BY <4>1, <4>2
    <3>3. QED
      BY <1>1, <3>1, <3>2 DEF Sent
  <2>3. QED
    BY <2>1, <2>2
<1>4. \A u : Feed!Carries(u) <=> Carries(u)
  BY DEF Feed!Carries, Carries
<1>5. \A u \in Feed!Newest + 1..v : ~Carries(u)
  BY <1>1, <1>3 DEF SentUpTo
<1>6. v + 1 \in Feed!Newest + 1..Len(ledger) /\ (v + 1) - 1 = v
  BY <1>1, <1>2, <1>3
<1>7. QED
  BY <1>1, <1>2, <1>4, <1>5, <1>6 DEF Feed!Deliver

LEMMA DeliveredIsComplete ==
    ASSUME InspectorInv, Delivered
    PROVE  Feed!Complete \/ UNCHANGED <<ledger, sent, out>>
<1>1. /\ latest \in 1..Len(ledger) /\ SentUpTo(latest)
      /\ \A i \in 1..Len(reverse) : reverse[i] \in 1..latest
  BY DeliveredFacts
<1>2. out = "running" /\ UNCHANGED <<ledger, sent>>
  BY DEF InspectorInv, Typed, Delivered, nodeVars
<1>3. CASE \E i \in 1..Len(reverse) : ledger[reverse[i]] = "finished"
  <2>1. PICK i \in 1..Len(reverse) : ledger[reverse[i]] = "finished"
    BY <1>3
  <2>2. reverse[i] \in Sent
    BY <1>1, <2>1 DEF SentUpTo, Carries
  <2>3. PICK j \in 1..Len(sent) : sent[j] = reverse[i]
    BY <2>2 DEF Sent
  <2>4. out' = "ok"
    BY <1>3 DEF Delivered
  <2>5. QED
    BY <1>2, <2>1, <2>3, <2>4 DEF Feed!Complete
<1>4. CASE ~\E i \in 1..Len(reverse) : ledger[reverse[i]] = "finished"
  BY <1>2, <1>4 DEF Delivered
<1>5. QED
  BY <1>3, <1>4

LEMMA FeedNext ==
    ASSUME InspectorInv, [Next]_vars
    PROVE  [Feed!Next]_<<ledger, sent, out>>
<1>1. CASE Update
  BY <1>1 DEF Update, Feed!Next, Feed!Update
<1>2. CASE \/ Index \/ Prune \/ HangUp \/ DeadlineNears \/ UNCHANGED vars
           \/ FetchLatest \/ Transient \/ FetchTransaction \/ AwaitTransaction \/ FetchObject
           \/ SendNothing
  BY <1>2 DEF Index, Prune, HangUp, DeadlineNears, FetchLatest, Transient, StartWalk,
              FetchTransaction, AwaitTransaction, FetchObject, SendNothing, vars, nodeVars
<1>3. CASE MovedBackwards \/ BadAnswer \/ Timeout \/ TransactionMissing \/ ObjectMissing \/ ReceiverGone
  <2>1. PICK o \in Feed!Errors : Stop(o) /\ phase # "stopped"
    BY <1>3 DEF MovedBackwards, BadAnswer, Timeout, TransactionMissing, ObjectMissing,
                ReceiverGone, Awaiting, Feed!Errors
  <2>2. out = "running"
    BY <2>1 DEF InspectorInv, Typed
  <2>3. QED
    BY <2>1, <2>2 DEF Stop, Feed!Next, Feed!GiveUp, nodeVars
<1>4. CASE SendEvents \/ Delivered
  BY <1>4, SendIsDeliver, DeliveredIsComplete DEF Feed!Next
<1>5. QED
  BY <1>1, <1>2, <1>3, <1>4 DEF Next, Progress

(* The inspection implements the feed: each update with an event is delivered *)
(* once, none is left out, and it is Ok only after the end (workflow.rs:1756).*)
THEOREM InspectionImplementsFeed == Spec => ImplementsFeed
<1>1. Init => Feed!Init
  BY DEF Init
<1>2. Spec => []InspectorInv
  BY InspectorInit, InspectorNext, PTL DEF Spec
<1>3. InspectorInv /\ [Next]_vars => [Feed!Next]_<<ledger, sent, out>>
  BY FeedNext
<1>4. QED
  BY <1>1, <1>2, <1>3, PTL DEF Spec, ImplementsFeed, Feed!Spec
===============================================================================
