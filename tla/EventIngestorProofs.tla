--------------------------- MODULE EventIngestorProofs ---------------------------
(***************************************************************************)
(* Proofs about EventIngestor: no gap, safe page checkpoints, pages in     *)
(* order and only recent repeats, for any ledger, channel and number of    *)
(* failures and crashes.  The argument: what the driver knows to be        *)
(* delivered (before its resume checkpoint, before its place in a stream)  *)
(* is handled or on its way in the channel, page by page in the order of   *)
(* the ledger; and what its connection may still deliver is at or above    *)
(* all it reported.                                                        *)
(***************************************************************************)
EXTENDS EventIngestor, SequenceTheorems, WellFoundedInduction, TLAPS

AnyFrames ==
    [ev : Nat, cp : Options(Checkpoints), end : {"", "bound", "limit", "tip"},
     from : {"replay", "live"}]
AnyMessages ==
    [kind : {"page"} \cup Failed, events : SUBSET Nat, checkpoint : Options(Checkpoints)]

(* The ledger: checkpoints do not decrease and none is ahead of the tip.      *)
Ledger ==
    /\ log \in Seq(Checkpoints) /\ tip \in 0..MaxCheckpoint /\ from \in Options(Checkpoints)
    /\ \A k \in 1..Len(log) : log[k] <= tip
    /\ \A j, k \in 1..Len(log) : j <= k => log[j] <= log[k]

(* Every owed event before event k, or of a checkpoint below c, is in S.      *)
Before(k, S) == \A j \in 1..(k - 1) : Owed(j) => j \in S
Below(c, S) == \A j \in 1..Len(log) : Owed(j) /\ log[j] < c => j \in S

(* What the consumer has handled; with what is in the channel up to page i,   *)
(* and with all of it.                                                        *)
HadBy(i) == got \cup UNION {chan[j].events : j \in 1..i}
Had == HadBy(Len(chan))

Consumed ==
    /\ got \subseteq 1..Len(log)
    /\ \A k \in got : Before(k, got)
    /\ seen \in Options(Checkpoints)
    /\ seen # None => seen <= tip /\ Below(seen, got)
    /\ seen = None => got = {}

Queued ==
    /\ chan \in Seq(AnyMessages)
    /\ \A i \in 1..Len(chan) :
          /\ chan[i].events \subseteq 1..Len(log)
          /\ \A k \in chan[i].events : Before(k, HadBy(i))
          /\ chan[i].kind = "page" =>
                /\ chan[i].checkpoint \in Checkpoints /\ chan[i].checkpoint <= tip
                /\ Below(chan[i].checkpoint, HadBy(i))
          /\ chan[i].kind # "page" => chan[i].events = {}

(* The checkpoint to resume from; none is known before anything was sent.     *)
Resumes ==
    /\ resume \in Options(Checkpoints)
    /\ resume # None => (resume = from \/ resume <= tip) /\ Below(resume, Had)
    /\ resume = None =>
          /\ from = None /\ seen = None
          /\ \A i \in 1..Len(chan) : chan[i].kind # "page"

(* Where the driver is in its streams.  While it processes a frame, the       *)
(* frame's event is still missing.                                            *)
InFrame == phase \in {"watermark", "event"}
Replaying == phase \in {"request", "replay"} \/ (InFrame /\ frame.from = "replay")
Missing == IF InFrame THEN {frame.ev} ELSE {}

AtFirst == phase = "first" => live \in 0..Len(log) /\ (resume = None => Before(live + 1, Had))

AtReplay ==
    Replaying =>
        /\ live \in 0..Len(log) /\ start \in Checkpoints /\ after \in Options(Nat)
        /\ first \in AnyFrames /\ first.from = "live" /\ first.ev \in {0, live}
        /\ first.cp # None =>
              first.cp <= tip /\ \A j \in 1..Len(log) : log[j] < first.cp => j <= Bound
        /\ \A j \in 1..Bound :
              Owed(j) /\ (log[j] < start \/ (after # None /\ j <= after)) => j \in Had \cup Missing

AtFrame ==
    InFrame =>
        /\ frame \in AnyFrames /\ frame.ev \in 0..Len(log)
        /\ frame.ev # 0 => Before(frame.ev, Had)
        /\ frame.cp # None => frame.cp <= tip /\ Below(frame.cp, Had)
        /\ frame.from = "live" =>
              /\ live \in 0..Len(log) /\ frame.ev \in {0, live}
              /\ frame.ev = 0 => Before(live + 1, Had)
        /\ frame.from = "replay" /\ frame.end = "bound" =>
              \A j \in 1..Bound : Owed(j) => j \in Had \cup Missing

AtLive == phase = "live" => live \in 0..Len(log) /\ Before(live + 1, Had)

Store == Ledger /\ Consumed /\ Queued /\ Resumes
AtReport == phase = "report" => failure \in Failed

Position == AtFirst /\ AtReplay /\ AtFrame /\ AtLive /\ AtReport
DeliveryInv == Store /\ Position

-------------------------------------------------------------------------------
(* The numbers in the ledger.                                                 *)
LEMMA LedgerFacts ==
    ASSUME Ledger
    PROVE  /\ log \in Seq(Checkpoints) /\ Len(log) \in Nat
           /\ tip \in Nat /\ tip <= MaxCheckpoint /\ MaxCheckpoint \in Nat
           /\ \A k \in 1..Len(log) : log[k] \in Checkpoints
           /\ \A k \in 1..Len(log) : log[k] \in Nat
<1>1. log \in Seq(Checkpoints) /\ Len(log) \in Nat
  BY LenProperties DEF Ledger
<1>2. \A k \in 1..Len(log) : log[k] \in Checkpoints
  BY <1>1
<1>3. QED
  BY <1>1, <1>2, ConfigAssumption DEF Ledger, Checkpoints

(* Whether an event is owed depends on the ledger up to it.                   *)
LEMMA OwedStays ==
    ASSUME UNCHANGED <<from, origin>>, NEW k, log'[k] = log[k]
    PROVE  Owed(k)' <=> Owed(k)
  BY DEF Owed, StartedAfter

LEMMA HadIsQueued ==
    ASSUME chan \in Seq(AnyMessages), NEW k
    PROVE  k \in Had <=> k \in got \/ \E i \in 1..Len(chan) : k \in chan[i].events
  BY DEF Had, HadBy

(* What is appended to the channel joins what was there.                      *)
LEMMA AppendHad ==
    ASSUME chan \in Seq(AnyMessages), NEW m \in AnyMessages, chan' = Append(chan, m), got' = got
    PROVE  /\ chan' \in Seq(AnyMessages)
           /\ Len(chan') = Len(chan) + 1 /\ Len(chan) \in Nat
           /\ chan'[Len(chan) + 1] = m
           /\ \A i \in 1..Len(chan) : chan'[i] = chan[i] /\ HadBy(i)' = HadBy(i)
           /\ Had' = Had \cup m.events
<1>1. /\ chan' \in Seq(AnyMessages) /\ Len(chan') = Len(chan) + 1
      /\ \A i \in 1..Len(chan) : chan'[i] = chan[i]
  BY AppendProperties
<1>2. Len(chan) \in Nat
  BY LenProperties
<1>3. chan'[Len(chan) + 1] = m
  BY AppendProperties
<1>4. \A i \in 1..Len(chan) : HadBy(i)' = HadBy(i)
  <2> SUFFICES ASSUME NEW i \in 1..Len(chan) PROVE HadBy(i)' = HadBy(i)
    OBVIOUS
  <2>1. \A j \in 1..i : chan'[j] = chan[j]
    BY <1>1, <1>2
  <2>2. {chan'[j].events : j \in 1..i} = {chan[j].events : j \in 1..i}
    BY <2>1
  <2>3. QED
    BY <2>2 DEF HadBy
<1>5. Had' = Had \cup m.events
  <2>1. \A k : k \in Had' <=> k \in got \/ \E i \in 1..Len(chan) + 1 : k \in chan'[i].events
    BY <1>1 DEF Had, HadBy
  <2>2. \A k : k \in Had' <=> k \in got \/ (\E i \in 1..Len(chan) : k \in chan[i].events) \/ k \in m.events
    BY <1>1, <1>2, <1>3, <2>1
  <2>3. QED
    BY <2>2, HadIsQueued
<1>6. QED
  BY <1>1, <1>2, <1>3, <1>4, <1>5

-------------------------------------------------------------------------------
(* The ledger grows: its new events are of the new tip, later than everything *)
(* that is claimed.                                                           *)
LEMMA GrowFacts ==
    ASSUME Ledger, Grow
    PROVE  /\ tip' = tip + 1 /\ tip' \in 0..MaxCheckpoint
           /\ log' \in Seq(Checkpoints) /\ Len(log) \in Nat /\ Len(log') \in Nat
           /\ Len(log) <= Len(log')
           /\ \A k \in 1..Len(log) : log'[k] = log[k]
           /\ \A k \in 1..Len(log') : k > Len(log) => log'[k] = tip + 1
           /\ \A k \in 1..Len(log) : Owed(k)' <=> Owed(k)
<1>1. PICK n \in 0..MaxPerCheckpoint : log' = log \o [i \in 1..n |-> tip + 1]
  BY DEF Grow
<1>2. tip' = tip + 1 /\ tip + 1 \in Checkpoints /\ n \in Nat /\ MaxCheckpoint \in Nat
  BY ConfigAssumption DEF Grow, Ledger, Checkpoints
<1>3. log \in Seq(Checkpoints) /\ Len(log) \in Nat
  BY LenProperties DEF Ledger
<1> DEFINE new == [i \in 1..n |-> tip + 1]
<1>4. new \in Seq(Checkpoints) /\ Len(new) = n /\ \A i \in 1..n : new[i] = tip + 1
  BY <1>2
<1>5. /\ log \o new \in Seq(Checkpoints)
      /\ Len(log \o new) = Len(log) + Len(new)
      /\ \A i \in 1..(Len(log) + Len(new)) :
            (log \o new)[i] = IF i <= Len(log) THEN log[i] ELSE new[i - Len(log)]
  BY <1>3, <1>4, ConcatProperties, Z3
<1> HIDE DEF new
<1>6. log' \in Seq(Checkpoints) /\ Len(log') = Len(log) + n
  BY <1>1, <1>4, <1>5 DEF new
<1>7. \A k \in 1..Len(log) : log'[k] = log[k]
  BY <1>1, <1>2, <1>3, <1>4, <1>5 DEF new
<1>8. \A k \in 1..Len(log') : k > Len(log) => log'[k] = tip + 1
  <2> SUFFICES ASSUME NEW k \in 1..Len(log'), k > Len(log) PROVE log'[k] = tip + 1
    OBVIOUS
  <2>1. k - Len(log) \in 1..n /\ k \in 1..(Len(log) + Len(new))
    BY <1>2, <1>3, <1>4, <1>6
  <2>2. log'[k] = new[k - Len(log)]
    BY <1>1, <1>3, <1>5, <2>1 DEF new
  <2>3. QED
    BY <1>4, <2>1, <2>2
<1>9. UNCHANGED <<from, origin>>
  BY DEF Grow
<1>10. \A k \in 1..Len(log) : Owed(k)' <=> Owed(k)
  BY <1>7, <1>9, OwedStays
<1>11. QED
  BY <1>2, <1>3, <1>6, <1>7, <1>8, <1>10 DEF Checkpoints

LEMMA GrowBelow ==
    ASSUME Ledger, Grow, NEW S, NEW c \in Checkpoints, c <= tip \/ c = from, Below(c, S)
    PROVE  \A j \in 1..Len(log') : Owed(j)' /\ log'[j] < c => j \in S
<1> SUFFICES ASSUME NEW j \in 1..Len(log'), Owed(j)', log'[j] < c PROVE j \in S
  OBVIOUS
<1>1. CASE j <= Len(log)
  BY <1>1, GrowFacts DEF Below
<1>2. CASE j > Len(log) /\ c <= tip
  BY <1>2, GrowFacts DEF Checkpoints, Ledger
<1>3. CASE j > Len(log) /\ c = from
  <2>1. from' = from /\ from # None
    BY <1>3, ConfigAssumption DEF Grow, Checkpoints
  <2>2. log'[j] >= from
    BY <2>1 DEF Owed
  <2>3. QED
    BY <1>3, <2>2, GrowFacts DEF Checkpoints, Ledger
<1>4. QED
  BY <1>1, <1>2, <1>3, GrowFacts

LEMMA GrowBefore ==
    ASSUME Ledger, Grow, NEW S, NEW k \in 0..(Len(log) + 1), Before(k, S)
    PROVE  \A j \in 1..(k - 1) : Owed(j)' => j \in S
  BY GrowFacts DEF Before

LEMMA GrowStore == ASSUME Store, Grow PROVE Store'
<1>0. Ledger /\ Consumed /\ Queued /\ Resumes
  BY DEF Store
<1>u. UNCHANGED <<from, phase, resume, chan, got, seen>> /\ Had' = Had /\ \A i : HadBy(i)' = HadBy(i)
  BY DEF Grow, driverVars, consumerVars, Had, HadBy
<1>1. Ledger'
  <2>1. log' \in Seq(Checkpoints) /\ tip' \in 0..MaxCheckpoint /\ from' \in Options(Checkpoints)
    BY <1>0, <1>u, GrowFacts DEF Ledger
  <2>2. \A k \in 1..Len(log) : log[k] \in Int /\ log[k] <= tip
    <3>1. \A k \in 1..Len(log) : log[k] \in Checkpoints
      BY <1>0 DEF Ledger
    <3>2. QED
      BY <1>0, <3>1 DEF Ledger, Checkpoints
  <2>3. \A k \in 1..Len(log') : log'[k] <= tip'
    BY <1>0, <2>2, GrowFacts DEF Ledger
  <2>4. ASSUME NEW j \in 1..Len(log'), NEW k \in 1..Len(log'), j <= k PROVE log'[j] <= log'[k]
    <3>1. CASE k <= Len(log)
      <4>1. j \in 1..Len(log) /\ k \in 1..Len(log)
        BY <1>0, <2>4, <3>1, GrowFacts
      <4>2. QED
        BY <1>0, <2>4, <4>1, GrowFacts DEF Ledger
    <3>2. CASE k > Len(log)
      <4>1. log'[k] = tip'
        BY <1>0, <3>2, GrowFacts
      <4>2. QED
        BY <2>3, <4>1
    <3>3. QED
      BY <1>0, <3>1, <3>2, GrowFacts
  <2>5. QED
    BY <2>1, <2>3, <2>4 DEF Ledger
<1>2. Consumed'
  <2>1. got' \subseteq 1..Len(log')
    BY <1>0, <1>u, GrowFacts DEF Consumed
  <2>2. \A k \in got' : Before(k, got)'
    BY <1>0, <1>u, GrowFacts, GrowBefore DEF Consumed, Before
  <2>3. seen # None => seen <= tip' /\ Below(seen, got)'
    <3> SUFFICES ASSUME seen # None PROVE seen <= tip' /\ Below(seen, got)'
      OBVIOUS
    <3>1. seen \in Checkpoints /\ seen <= tip /\ Below(seen, got)
      BY <1>0 DEF Consumed, Options
    <3>2. seen <= tip'
      BY <1>0, <3>1, GrowFacts DEF Ledger, Checkpoints
    <3>3. QED
      BY <1>0, <1>u, <3>1, <3>2, GrowBelow DEF Below
  <2>4. QED
    BY <1>0, <1>u, <2>1, <2>2, <2>3 DEF Consumed
<1>3. Queued'
  <2> SUFFICES ASSUME NEW i \in 1..Len(chan)
               PROVE  /\ chan[i].events \subseteq 1..Len(log')
                      /\ \A k \in chan[i].events : Before(k, HadBy(i))'
                      /\ chan[i].kind = "page" =>
                            /\ chan[i].checkpoint \in Checkpoints /\ chan[i].checkpoint <= tip'
                            /\ Below(chan[i].checkpoint, HadBy(i))'
    BY <1>0, <1>u DEF Queued
  <2>1. chan[i].events \subseteq 1..Len(log')
    BY <1>0, GrowFacts DEF Queued
  <2>2. \A k \in chan[i].events : Before(k, HadBy(i))'
    <3> SUFFICES ASSUME NEW k \in chan[i].events PROVE Before(k, HadBy(i))'
      OBVIOUS
    <3>1. k \in 0..(Len(log) + 1) /\ Before(k, HadBy(i))
      BY <1>0, GrowFacts DEF Queued
    <3>2. \A j \in 1..(k - 1) : Owed(j)' => j \in HadBy(i)
      BY <1>0, <3>1, GrowBefore
    <3>3. QED
      BY <1>u, <3>2 DEF Before
  <2>3. ASSUME chan[i].kind = "page"
        PROVE  /\ chan[i].checkpoint \in Checkpoints /\ chan[i].checkpoint <= tip'
               /\ Below(chan[i].checkpoint, HadBy(i))'
    <3>1. /\ chan[i].checkpoint \in Checkpoints /\ chan[i].checkpoint <= tip
          /\ Below(chan[i].checkpoint, HadBy(i))
      BY <1>0, <2>3 DEF Queued
    <3>2. chan[i].checkpoint <= tip'
      BY <1>0, <3>1, GrowFacts DEF Ledger, Checkpoints
    <3>3. \A j \in 1..Len(log') : Owed(j)' /\ log'[j] < chan[i].checkpoint => j \in HadBy(i)
      BY <1>0, <3>1, GrowBelow
    <3>4. QED
      BY <1>u, <3>1, <3>2, <3>3 DEF Below
  <2>4. QED
    BY <2>1, <2>2, <2>3
<1>4. Resumes'
  <2>1. ASSUME resume # None
        PROVE  (resume = from \/ resume <= tip') /\ Below(resume, Had)'
    <3>1. resume \in Checkpoints /\ (resume = from \/ resume <= tip) /\ Below(resume, Had)
      BY <1>0, <2>1 DEF Resumes, Options
    <3>2. resume = from \/ resume <= tip'
      BY <1>0, <3>1, GrowFacts DEF Ledger, Checkpoints
    <3>3. \A j \in 1..Len(log') : Owed(j)' /\ log'[j] < resume => j \in Had
      BY <1>0, <3>1, GrowBelow
    <3>4. QED
      BY <1>u, <3>2, <3>3 DEF Below
  <2>2. QED
    BY <1>0, <1>u, <2>1 DEF Resumes
<1>5. QED
  BY <1>1, <1>2, <1>3, <1>4 DEF Store

LEMMA GrowPosition == ASSUME DeliveryInv, Grow PROVE Position'
<1>0. Ledger /\ AtFirst /\ AtReplay /\ AtFrame /\ AtLive /\ AtReport
  BY DEF DeliveryInv, Store, Position
<1>u. /\ UNCHANGED <<from, phase, resume, first, live, start, after, frame, failure, chan, got>>
      /\ Had' = Had /\ Bound' = Bound /\ InFrame' = InFrame /\ Replaying' = Replaying
      /\ Missing' = Missing
  BY DEF Grow, driverVars, consumerVars, Had, HadBy, Bound, InFrame, Replaying, Missing
<1>1. AtFirst'
  BY <1>0, <1>u, GrowFacts, GrowBefore DEF AtFirst, Before
<1>2. AtReplay'
  <2> SUFFICES ASSUME Replaying PROVE AtReplay'
    BY <1>u DEF AtReplay
  <2>1. /\ live \in 0..Len(log) /\ start \in Checkpoints /\ after \in Options(Nat)
        /\ first \in AnyFrames /\ first.from = "live" /\ first.ev \in {0, live}
        /\ first.cp # None =>
              first.cp <= tip /\ \A j \in 1..Len(log) : log[j] < first.cp => j <= Bound
        /\ \A j \in 1..Bound :
              Owed(j) /\ (log[j] < start \/ (after # None /\ j <= after)) => j \in Had \cup Missing
    BY <1>0 DEF AtReplay
  <2>2. Bound <= Len(log) /\ Bound \in Int /\ live \in 0..Len(log')
    <3>1. Len(log) \in Nat /\ Len(log') \in Nat /\ Len(log) <= Len(log')
      BY <1>0, GrowFacts
    <3>2. live \in Int /\ live <= Len(log) /\ 0 <= live
      BY <2>1, <3>1
    <3>3. QED
      BY <2>1, <3>1, <3>2 DEF Bound
  <2>3. ASSUME first.cp # None
        PROVE  first.cp <= tip' /\ \A j \in 1..Len(log') : log'[j] < first.cp => j <= Bound
    <3>1. first.cp \in Checkpoints /\ first.cp <= tip
      BY <2>1, <2>3 DEF AnyFrames, Options
    <3>2. \A j \in 1..Len(log') : log'[j] < first.cp => j <= Len(log)
      BY <1>0, <3>1, GrowFacts DEF Checkpoints, Ledger
    <3>3. QED
      BY <1>0, <2>1, <2>3, <3>1, <3>2, GrowFacts DEF Checkpoints, Ledger
  <2>4. \A j \in 1..Bound :
           Owed(j)' /\ (log'[j] < start \/ (after # None /\ j <= after)) => j \in Had \cup Missing
    BY <1>0, <2>1, <2>2, GrowFacts
  <2>5. QED
    BY <1>u, <2>1, <2>2, <2>3, <2>4 DEF AtReplay
<1>3. AtFrame'
  <2> SUFFICES ASSUME InFrame PROVE AtFrame'
    BY <1>u DEF AtFrame
  <2>1. /\ frame \in AnyFrames /\ frame.ev \in 0..Len(log)
        /\ frame.ev # 0 => Before(frame.ev, Had)
        /\ frame.cp # None => frame.cp <= tip /\ Below(frame.cp, Had)
        /\ frame.from = "live" =>
              /\ live \in 0..Len(log) /\ frame.ev \in {0, live}
              /\ frame.ev = 0 => Before(live + 1, Had)
    BY <1>0 DEF AtFrame
  <2>2. frame.ev \in 0..Len(log') /\ (frame.ev # 0 => Before(frame.ev, Had)')
    BY <1>0, <1>u, <2>1, GrowFacts, GrowBefore DEF Before
  <2>3. ASSUME frame.cp # None PROVE frame.cp <= tip' /\ Below(frame.cp, Had)'
    <3>1. frame.cp \in Checkpoints /\ frame.cp <= tip /\ Below(frame.cp, Had)
      BY <2>1, <2>3 DEF AnyFrames, Options
    <3>2. frame.cp <= tip'
      BY <1>0, <3>1, GrowFacts DEF Ledger, Checkpoints
    <3>3. \A j \in 1..Len(log') : Owed(j)' /\ log'[j] < frame.cp => j \in Had
      BY <1>0, <3>1, GrowBelow
    <3>4. QED
      BY <1>u, <3>2, <3>3 DEF Below
  <2>4. ASSUME frame.from = "live"
        PROVE  live \in 0..Len(log') /\ frame.ev \in {0, live} /\ (frame.ev = 0 => Before(live + 1, Had)')
    BY <1>0, <1>u, <2>1, <2>4, GrowFacts, GrowBefore DEF Before
  <2>5. ASSUME frame.from = "replay", frame.end = "bound"
        PROVE  \A j \in 1..Bound : Owed(j)' => j \in Had \cup Missing
    <3>1. \A j \in 1..Bound : Owed(j) => j \in Had \cup Missing
      BY <1>0, <2>5 DEF AtFrame
    <3>2. live \in 0..Len(log) /\ first.ev \in {0, live} /\ Bound \in Int /\ Bound <= Len(log)
      BY <1>0, <2>5, GrowFacts DEF AtReplay, Replaying, Bound
    <3>3. QED
      BY <1>0, <3>1, <3>2, GrowFacts
  <2>6. QED
    BY <1>u, <2>1, <2>2, <2>3, <2>4, <2>5 DEF AtFrame
<1>4. AtLive'
  BY <1>0, <1>u, GrowFacts, GrowBefore DEF AtLive, Before
<1>5. AtReport'
  BY <1>0, <1>u DEF AtReport
<1>6. QED
  BY <1>1, <1>2, <1>3, <1>4, <1>5 DEF Position

-------------------------------------------------------------------------------
(* Steps that leave the ledger, the channel and the consumer alone.           *)
LEMMA KeepStore ==
    ASSUME Store, UNCHANGED <<ledgerVars, resume, chan, consumerVars, origin>>
    PROVE  Store' /\ Had' = Had /\ (\A k : Owed(k)' <=> Owed(k))
<1>1. Had' = Had /\ (\A i : HadBy(i)' = HadBy(i)) /\ (\A k : Owed(k)' <=> Owed(k))
  BY DEF ledgerVars, consumerVars, Had, HadBy, Owed, StartedAfter
<1>2. (\A k, S : Before(k, S)' <=> Before(k, S)) /\ (\A c, S : Below(c, S)' <=> Below(c, S))
  BY <1>1 DEF ledgerVars, Before, Below
<1>3. UNCHANGED <<from, log, tip, resume, chan, got, seen>>
  BY DEF ledgerVars, consumerVars
<1>4. QED
  BY <1>1, <1>2, <1>3 DEF Store, Ledger, Consumed, Queued, Resumes

(* A page with the events e, or none, and the checkpoint c.                   *)
LEMMA PageStore ==
    ASSUME Store, NEW e \in SUBSET (1..Len(log)), NEW c \in Checkpoints, c <= tip,
           Below(c, Had), \A k \in e : Before(k, Had),
           resume' = Advance(resume, c),
           (chan' = Append(chan, Page(e, c))) \/ (chan' = chan),
           UNCHANGED <<ledgerVars, consumerVars, origin>>
    PROVE  /\ Store' /\ Had \subseteq Had'
           /\ (chan' = Append(chan, Page(e, c)) => Had' = Had \cup e)
           /\ (chan' = chan => Had' = Had)
<1>0. Ledger /\ Consumed /\ Queued /\ Resumes /\ chan \in Seq(AnyMessages) /\ Len(chan) \in Nat
  BY LenProperties DEF Store, Queued
<1>u. /\ UNCHANGED <<from, log, tip, got, seen>>
      /\ \A k : Owed(k)' <=> Owed(k)
  BY DEF ledgerVars, consumerVars, Owed, StartedAfter
<1>1. Ledger' /\ Consumed'
  BY <1>0, <1>u DEF Ledger, Consumed, Before, Below
<1>2. resume' \in Checkpoints /\ (resume' = from \/ resume' <= tip)
  BY <1>0 DEF Advance, Above, Resumes, Options
<1>3. Below(resume', Had)
  BY <1>0 DEF Advance, Above, Resumes
<1>4. resume' # None
  BY <1>2, ConfigAssumption DEF Checkpoints
<1>5. CASE chan' = chan
  <2>1. Had' = Had /\ (\A i : HadBy(i)' = HadBy(i))
    BY <1>5, <1>u DEF Had, HadBy
  <2>2. Queued'
    BY <1>0, <1>5, <1>u, <2>1 DEF Queued, Before, Below
  <2>3. Resumes'
    BY <1>u, <1>2, <1>3, <1>4, <2>1 DEF Resumes, Below, Options
  <2>4. QED
    BY <1>1, <1>0, <1>5, <2>1, <2>2, <2>3, AppendProperties DEF Store
<1>6. CASE chan' = Append(chan, Page(e, c))
  <2>1. Page(e, c) \in AnyMessages
    <3>1. e \in SUBSET Nat
      BY <1>0
    <3>2. QED
      BY <3>1 DEF Page, AnyMessages, Options
  <2>2. /\ chan' \in Seq(AnyMessages) /\ Len(chan') = Len(chan) + 1
        /\ chan'[Len(chan) + 1] = Page(e, c)
        /\ \A i \in 1..Len(chan) : chan'[i] = chan[i] /\ HadBy(i)' = HadBy(i)
        /\ Had' = Had \cup e
    BY <1>0, <1>6, <1>u, <2>1, AppendHad DEF Page
  <2>3. \A i : i = Len(chan) + 1 => HadBy(i)' = Had'
    BY <2>2 DEF Had
  <2>4. ASSUME NEW i \in 1..Len(chan')
        PROVE  /\ chan'[i].events \subseteq 1..Len(log)
               /\ \A k \in chan'[i].events : Before(k, HadBy(i)')
               /\ chan'[i].kind = "page" =>
                     /\ chan'[i].checkpoint \in Checkpoints /\ chan'[i].checkpoint <= tip
                     /\ Below(chan'[i].checkpoint, HadBy(i)')
               /\ chan'[i].kind # "page" => chan'[i].events = {}
    <3>1. CASE i \in 1..Len(chan)
      BY <1>0, <2>2, <3>1 DEF Queued
    <3>2. CASE i = Len(chan) + 1
      <4>1. HadBy(i)' = Had \cup e /\ chan'[i] = Page(e, c)
        BY <2>2, <2>3, <3>2
      <4>2. chan'[i].events = e /\ chan'[i].kind = "page" /\ chan'[i].checkpoint = c
        BY <4>1 DEF Page
      <4>3. (\A k \in e : Before(k, Had \cup e)) /\ Below(c, Had \cup e)
        BY DEF Before, Below
      <4>4. QED
        BY <4>1, <4>2, <4>3
    <3>3. QED
      BY <1>0, <2>2, <3>1, <3>2
  <2>5. Queued'
    BY <1>u, <2>2, <2>4 DEF Queued, Before, Below
  <2>6. Resumes'
    BY <1>u, <1>2, <1>3, <1>4, <2>2 DEF Resumes, Below, Options
  <2>7. chan' # chan
    BY <1>0, <2>2
  <2>8. QED
    BY <1>1, <2>2, <2>5, <2>6, <2>7 DEF Store
<1>7. QED
  BY <1>5, <1>6

-------------------------------------------------------------------------------
(* Where the driver is after a step that keeps the store.                     *)
LEMMA PositionStays ==
    ASSUME Position, Had \subseteq Had',
           UNCHANGED <<ledgerVars, origin, first, live, start, after, frame, failure>>,
           \/ UNCHANGED <<phase, resume>>
           \/ phase \in {"request", "replay"} /\ phase' \in {"request", "replay"}
           \/ InFrame /\ phase' \in {"watermark", "event"}
    PROVE  Position'
<1>1. Bound' = Bound /\ (\A k : Owed(k)' <=> Owed(k)) /\ UNCHANGED <<log, tip>>
  BY DEF ledgerVars, Bound, Owed, StartedAfter
<1>2. /\ \A k : Before(k, Had) => Before(k, Had)'
      /\ \A c : Below(c, Had) => Below(c, Had)'
  <2>1. \A k : k \in Had => k \in Had'
    OBVIOUS
  <2>2. ASSUME NEW k, Before(k, Had) PROVE Before(k, Had)'
    BY <1>1, <2>1, <2>2 DEF Before
  <2>3. QED
    BY <1>1, <2>1 DEF Before, Below
<1>3. Replaying' = Replaying /\ InFrame' = InFrame /\ Missing' = Missing
  BY DEF Replaying, InFrame, Missing
<1>4. AtFirst' /\ AtLive' /\ AtReport'
  BY <1>1, <1>2 DEF Position, AtReport, AtFirst, AtLive, InFrame
<1>5. AtReplay'
  BY <1>1, <1>2, <1>3 DEF Position, AtReplay
<1>6. AtFrame'
  BY <1>1, <1>2, <1>3 DEF Position, AtFrame
<1>7. QED
  BY <1>4, <1>5, <1>6 DEF Position

LEMMA Elsewhere ==
    ASSUME phase' \in {"connect", "report", "backoff", "stopped"},
           phase' = "report" => failure' \in Failed
    PROVE  Position'
  BY DEF Position, AtReport, AtFirst, AtReplay, AtFrame, AtLive, InFrame, Replaying

(* A frame of the live stream: its watermark has no event behind the cursor.  *)
LEMMA LiveFrameFacts ==
    ASSUME Ledger, live \in 0..Len(log), NEW f \in Frames, LiveFrame(f), PastFrame(f)
    PROVE  /\ f \in AnyFrames /\ f.from = "live"
           /\ live' \in 0..Len(log) /\ f.ev \in {0, live'}
           /\ f.ev # 0 => f.ev = live + 1
           /\ f.ev = 0 => live' = live
           /\ f.cp # None => /\ f.cp \in Checkpoints /\ f.cp <= tip
                             /\ \A j \in 1..Len(log) : log[j] < f.cp => j <= live
<1>0. log \in Seq(Checkpoints) /\ Len(log) \in Nat /\ tip \in Int /\ MaxCheckpoint \in Nat
  BY LenProperties, ConfigAssumption DEF Ledger
<1>1. \A k \in 1..Len(log) : log[k] \in Int
  <2>1. \A k \in 1..Len(log) : log[k] \in Checkpoints
    BY <1>0
  <2>2. QED
    BY <2>1 DEF Checkpoints
<1>2. f \in AnyFrames
  <2>1. \A x \in Cursors : x \in Nat
    BY ConfigAssumption DEF Cursors
  <2>2. QED
    BY <2>1 DEF Frames, AnyFrames
<1>3. CASE /\ live < Len(log)
           /\ \E c \in EventWatermarks(live + 1) :
                 f = [ev |-> live + 1, cp |-> c, end |-> "", from |-> "live"]
  <2>0. PICK c \in EventWatermarks(live + 1) :
           f = [ev |-> live + 1, cp |-> c, end |-> "", from |-> "live"]
    BY <1>3
  <2>a. f.ev = live + 1 /\ f.cp = c /\ f.from = "live"
    BY <2>0
  <2>1. live + 1 \in 1..Len(log) /\ f.ev = live + 1 /\ f.ev # 0 /\ f.from = "live"
    <3>1. live < Len(log)
      BY <1>3
    <3>2. live \in Int /\ 0 <= live
      BY <1>0
    <3>3. live + 1 \in 1..Len(log) /\ live + 1 # 0
      BY <1>0, <3>1, <3>2
    <3>4. QED
      BY <2>a, <3>3
  <2>2. ASSUME f.cp # None
        PROVE  f.cp \in 1..tip /\ f.cp <= log[live + 1]
    BY <2>0, <2>a, <2>2 DEF EventWatermarks, Watermarks
  <2>3. ASSUME f.cp # None, NEW j \in 1..Len(log), log[j] < f.cp PROVE j <= live
    <3>1. j > live => log[live + 1] <= log[j]
      BY <1>0, <2>1 DEF Ledger
    <3>2. f.cp \in Int /\ log[j] \in Int /\ log[live + 1] \in Int
      BY <1>0, <1>1, <2>1, <2>2, <2>3
    <3>3. QED
      BY <1>0, <2>2, <2>3, <3>1, <3>2
  <2>4. live' = live + 1
    BY <2>1 DEF PastFrame
  <2>5. f.cp # None => f.cp \in Checkpoints /\ f.cp <= tip
    BY <1>0, <2>2 DEF Checkpoints, Ledger
  <2>6. QED
    BY <1>0, <1>2, <2>1, <2>3, <2>4, <2>5
<1>4. CASE \E c \in Watermarks(live) :
              f = [ev |-> 0, cp |-> c, end |-> "", from |-> "live"]
  <2>0. PICK c \in Watermarks(live) :
           f = [ev |-> 0, cp |-> c, end |-> "", from |-> "live"]
    BY <1>4
  <2>a. f.ev = 0 /\ f.cp = c /\ f.from = "live"
    BY <2>0
  <2>1. f.ev = 0 /\ f.from = "live" /\ live' = live
    BY <2>a DEF PastFrame
  <2>2. ASSUME f.cp # None
        PROVE  f.cp \in 1..tip /\ (live < Len(log) => f.cp < log[live + 1])
    BY <2>0, <2>a, <2>2 DEF Watermarks
  <2>3. ASSUME f.cp # None, NEW j \in 1..Len(log), log[j] < f.cp PROVE j <= live
    <3>1. j > live => live < Len(log) /\ live + 1 \in 1..Len(log) /\ log[live + 1] <= log[j]
      BY <1>0 DEF Ledger
    <3>2. f.cp \in Int /\ log[j] \in Int /\ (j > live => log[live + 1] \in Int)
      BY <1>0, <1>1, <2>2, <2>3, <3>1
    <3>3. QED
      BY <1>0, <2>2, <2>3, <3>1, <3>2
  <2>4. f.cp # None => f.cp \in Checkpoints /\ f.cp <= tip
    BY <1>0, <2>2 DEF Checkpoints, Ledger
  <2>5. QED
    BY <1>0, <1>2, <2>1, <2>3, <2>4
<1>5. QED
  BY <1>3, <1>4 DEF LiveFrame

-------------------------------------------------------------------------------
(* The replay: what is not pending is delivered, and it goes by the cursor.   *)
LEMMA LessThan ==
    \A x, y : <<x, y>> \in OpToRel(<, Nat) <=> x \in Nat /\ y \in Nat /\ x < y
  BY Zenon DEF OpToRel

LEMMA HasLeast ==
    ASSUME NEW S \in SUBSET Nat, S # {}
    PROVE  \E n \in S : \A k \in S : n <= k
<1>1. PICK n \in S : \A k \in S : ~(<<k, n>> \in OpToRel(<, Nat))
  BY Zenon, NatLessThanWellFounded, WFMin
<1>2. \A k \in S : ~(k < n)
  BY Zenon, <1>1, LessThan
<1>3. QED
  BY <1>2

LEMMA PendingFacts ==
    ASSUME Ledger, AtReplay, phase = "replay"
    PROVE  /\ Bound \in Nat /\ Bound <= Len(log) /\ Pending \subseteq 1..Bound
           /\ start \in Checkpoints /\ after \in Options(Nat)
           /\ Pending # {} =>
                 Next1(Pending) \in Pending /\ \A j \in Pending : Next1(Pending) <= j
           /\ \A j \in 1..Bound : Owed(j) /\ j \notin Pending => j \in Had
<1>1. /\ live \in 0..Len(log) /\ start \in Checkpoints /\ after \in Options(Nat)
      /\ first.ev \in {0, live}
      /\ \A j \in 1..Bound :
            Owed(j) /\ (log[j] < start \/ (after # None /\ j <= after)) => j \in Had \cup Missing
  BY DEF AtReplay, Replaying
<1>2. Missing = {}
  BY DEF Missing, InFrame
<1>3. log \in Seq(Checkpoints) /\ Len(log) \in Nat
  BY LenProperties DEF Ledger
<1>4. Bound \in Nat /\ Bound <= Len(log)
  BY <1>1, <1>3 DEF Bound
<1>5. Pending \subseteq 1..Bound
  BY DEF Pending
<1>6. ASSUME Pending # {}
      PROVE  Next1(Pending) \in Pending /\ \A j \in Pending : Next1(Pending) <= j
  <2>1. \E n \in Pending : \A j \in Pending : n <= j
    BY <1>4, <1>5, <1>6, HasLeast
  <2>2. QED
    BY <2>1 DEF Next1
<1>7. ASSUME NEW j \in 1..Bound, Owed(j), j \notin Pending PROVE j \in Had
  <2>1. log[j] \in Checkpoints
    BY <1>3, <1>4
  <2>2. ~(log[j] >= start) \/ (after # None /\ ~(j > after))
    BY <1>7 DEF Pending
  <2>3. log[j] < start \/ (after # None /\ j <= after)
    BY <1>1, <1>4, <2>1, <2>2 DEF Checkpoints, Options
  <2>4. QED
    BY <1>1, <1>2, <1>7, <2>3
<1>8. QED
  BY <1>1, <1>4, <1>5, <1>6, <1>7

(* A replay frame at cursor k: everything owed up to k is delivered, the      *)
(* frame's own event excepted.                                                *)
Ends == {"", "bound", "limit", "tip"}
MarksOf(e, k) == IF e = 0 THEN Watermarks(k) ELSE EventWatermarks(k)
Replayed(e, c, r) == [ev |-> e, cp |-> c, end |-> r, from |-> "replay"]

LEMMA ReplayFrame ==
    ASSUME DeliveryInv, phase = "replay",
           NEW k \in 0..Bound, NEW e \in {0, k},
           NEW c \in MarksOf(e, k),
           NEW r \in Ends,
           frame' = Replayed(e, c, r),
           after' = k, phase' = "watermark",
           \A j \in 1..k : Owed(j) => j \in Had \/ (j = k /\ e = k),
           r = "bound" => \A j \in 1..Bound : Owed(j) => j \in Had \/ j = e,
           UNCHANGED <<ledgerVars, resume, first, live, start, chan, consumerVars, origin>>
    PROVE  DeliveryInv'
<1>0. Ledger /\ AtReplay /\ Store
  BY DEF DeliveryInv, Store, Position
<1>1. Bound \in Nat /\ Bound <= Len(log) /\ start \in Checkpoints
  BY <1>0, PendingFacts
<1>2. Store' /\ Had' = Had /\ (\A j : Owed(j)' <=> Owed(j))
  BY <1>0, KeepStore
<1>3. UNCHANGED <<log, tip>> /\ Bound' = Bound
  BY DEF ledgerVars, Bound
<1>4. InFrame' /\ Replaying' /\ Missing' = {e}
  BY DEF InFrame, Replaying, Missing, Replayed
<1>5. /\ Len(log) \in Nat /\ tip \in Nat /\ tip <= MaxCheckpoint /\ MaxCheckpoint \in Nat
      /\ \A j \in 1..Len(log) : log[j] \in Nat
  BY <1>0, LedgerFacts
<1>6. e \in 0..Len(log) /\ k \in Nat /\ k <= Len(log)
  BY <1>1, <1>5
<1>7. ASSUME c # None PROVE c \in Checkpoints /\ c <= tip /\ Below(c, Had)
  <2>1. c \in 1..tip /\ (k < Len(log) => c < log[k + 1])
    BY <1>7 DEF MarksOf, Watermarks, EventWatermarks
  <2>e. e # 0 => c <= log[k]
    BY <1>7 DEF MarksOf, EventWatermarks
  <2>2. ASSUME NEW j \in 1..Len(log), Owed(j), log[j] < c PROVE j \in Had
    <3>1. log[j] \in Int
      BY <1>5
    <3>2. j <= k
      <4>1. SUFFICES ASSUME j > k PROVE FALSE
        BY <1>6
      <4>2. k + 1 \in 1..Len(log) /\ k < Len(log) /\ k + 1 <= j
        BY <1>5, <1>6, <4>1
      <4>3. log[k + 1] <= log[j] /\ log[k + 1] \in Int
        BY <1>0, <1>5, <4>2 DEF Ledger
      <4>4. QED
        BY <2>1, <2>2, <3>1, <4>2, <4>3
    <3>3. ~(j = k /\ e = k)
      <4>1. SUFFICES ASSUME j = k, e = k PROVE FALSE
        OBVIOUS
      <4>2. e # 0
        BY <4>1
      <4>3. QED
        BY <1>7, <2>1, <2>e, <2>2, <3>1, <4>1, <4>2
    <3>4. QED
      BY <2>2, <3>2, <3>3, <1>6
  <2>3. c \in Checkpoints /\ c <= tip
    BY <1>5, <2>1 DEF Checkpoints
  <2>4. QED
    BY <2>2, <2>3 DEF Below
<1>8. frame' \in AnyFrames
  <2>1. c \in Options(Checkpoints) /\ e \in Nat
    BY <1>5, <1>6, <1>7 DEF Options
  <2>2. QED
    BY <2>1 DEF AnyFrames, Replayed, Ends
<1>9. AtFrame'
  <2>1. e # 0 => Before(e, Had)
    BY <1>6 DEF Before
  <2>2. /\ \A x : Before(x, Had)' <=> Before(x, Had)
        /\ \A x : Below(x, Had)' <=> Below(x, Had)
    BY <1>2, <1>3 DEF Before, Below
  <2>3. frame'.ev = e /\ frame'.cp = c /\ frame'.from = "replay" /\ frame'.end = r
    BY DEF Replayed
  <2>4. QED
    BY <1>2, <1>3, <1>4, <1>6, <1>7, <1>8, <2>1, <2>2, <2>3 DEF AtFrame
<1>10. AtReplay'
  <2>1. /\ live \in 0..Len(log)
        /\ first \in AnyFrames /\ first.from = "live" /\ first.ev \in {0, live}
        /\ first.cp # None =>
              first.cp <= tip /\ \A j \in 1..Len(log) : log[j] < first.cp => j <= Bound
        /\ \A j \in 1..Bound :
              Owed(j) /\ (log[j] < start \/ (after # None /\ j <= after)) => j \in Had \cup Missing
    BY <1>0 DEF AtReplay, Replaying
  <2>2. Missing = {}
    BY DEF Missing, InFrame
  <2>3. ASSUME NEW j \in 1..Bound, Owed(j), log[j] < start \/ j <= k
        PROVE  j \in Had \cup {e}
    BY <1>6, <2>1, <2>2, <2>3
  <2>4. QED
    BY <1>1, <1>2, <1>3, <1>4, <1>6, <2>1, <2>3 DEF AtReplay, Options
<1>11. AtFirst' /\ AtLive' /\ AtReport'
  BY DEF AtFirst, AtLive, AtReport
<1>12. QED
  BY <1>2, <1>9, <1>10, <1>11 DEF DeliveryInv, Position

(* When a frame is done, with its event delivered if it is owed, the driver   *)
(* goes on at the right place.                                                *)
LEMMA LeaveFrameFacts ==
    ASSUME Ledger, Position, phase = "event", LeaveFrame, Had \subseteq Had',
           frame.ev # 0 /\ Owed(frame.ev) => frame.ev \in Had',
           UNCHANGED <<ledgerVars, origin, live, start, after>>
    PROVE  Position'
<1>1. /\ frame \in AnyFrames /\ frame.ev \in 0..Len(log)
      /\ frame.ev # 0 => Before(frame.ev, Had)
      /\ frame.from = "live" =>
            /\ live \in 0..Len(log) /\ frame.ev \in {0, live}
            /\ frame.ev = 0 => Before(live + 1, Had)
      /\ frame.from = "replay" /\ frame.end = "bound" =>
            \A j \in 1..Bound : Owed(j) => j \in Had \cup Missing
  BY DEF Position, AtFrame, InFrame
<1>2. Missing = {frame.ev} /\ frame.from \in {"replay", "live"}
  BY <1>1 DEF Missing, InFrame, AnyFrames
<1>3. Len(log) \in Nat
  BY LedgerFacts
<1>u. UNCHANGED <<log, tip, live, start, after>> /\ (\A k : Owed(k)' <=> Owed(k))
  BY DEF ledgerVars, Owed, StartedAfter
<1>4. \A j \in 1..Len(log) : Owed(j) /\ j \in Had \cup Missing => j \in Had'
  BY <1>2
<1>5. CASE frame.from = "live"
  <2>1. phase' = "live"
    BY <1>5 DEF LeaveFrame
  <2>2. ASSUME NEW j \in 1..live, Owed(j) PROVE j \in Had'
    <3>1. CASE frame.ev = 0
      BY <1>1, <1>5, <2>2, <3>1 DEF Before
    <3>2. CASE frame.ev = live /\ live # 0
      <4>1. j = live \/ j \in 1..(live - 1)
        BY <1>1, <1>3, <1>5
      <4>2. QED
        BY <1>1, <2>2, <3>2, <4>1 DEF Before
    <3>3. QED
      BY <1>1, <1>5, <3>1, <3>2
  <2>3. Before(live + 1, Had)'
    BY <1>1, <1>3, <1>5, <1>u, <2>2 DEF Before
  <2>4. QED
    BY <1>1, <1>5, <1>u, <2>1, <2>3
    DEF Position, AtReport, AtFirst, AtReplay, AtFrame, AtLive, InFrame, Replaying
<1>6. CASE frame.from = "replay"
  <2>1. /\ live \in 0..Len(log) /\ start \in Checkpoints /\ after \in Options(Nat)
        /\ first \in AnyFrames /\ first.from = "live" /\ first.ev \in {0, live}
        /\ first.cp # None =>
              first.cp <= tip /\ \A j \in 1..Len(log) : log[j] < first.cp => j <= Bound
        /\ \A j \in 1..Bound :
              Owed(j) /\ (log[j] < start \/ (after # None /\ j <= after)) => j \in Had \cup Missing
    BY <1>6 DEF Position, AtReplay, Replaying, InFrame
  <2>2. Bound \in Nat /\ Bound <= Len(log)
    BY <1>3, <2>1 DEF Bound
  <2>3. CASE frame.end = "bound"
    <3>1. frame' = first /\ phase' = "watermark"
      BY <1>6, <2>3 DEF LeaveFrame
    <3>2. \A j \in 1..Bound : Owed(j) => j \in Had'
      BY <1>1, <1>4, <1>6, <2>2, <2>3
    <3>3. frame'.ev # 0 => Before(frame.ev, Had)'
      BY <1>u, <3>1, <3>2 DEF Before, Bound
    <3>4. frame'.ev = 0 => Before(live + 1, Had)'
      BY <1>u, <3>1, <3>2, <2>1 DEF Before, Bound
    <3>5. frame'.cp # None => frame'.cp <= tip /\ Below(frame.cp, Had)'
      <4>1. SUFFICES ASSUME first.cp # None, NEW j \in 1..Len(log), Owed(j), log[j] < first.cp
                     PROVE  j \in Had'
        BY <1>u, <2>1, <3>1 DEF Below
      <4>2. j \in 1..Bound
        BY <1>3, <2>1, <2>2, <4>1
      <4>3. QED
        BY <3>2, <4>1, <4>2
    <3>6. first.ev \in 0..Len(log)
      BY <1>3, <2>1
    <3>7. AtFrame'
      <4>1. /\ frame' \in AnyFrames /\ frame'.ev \in 0..Len(log) /\ frame'.from = "live"
            /\ live \in 0..Len(log) /\ frame'.ev \in {0, live}
        BY <2>1, <3>1, <3>6
      <4>2. QED
        BY <1>u, <3>3, <3>4, <3>5, <4>1 DEF AtFrame
    <3>8. QED
      BY <2>1, <3>1, <3>7 DEF Position, AtReport, AtFirst, AtReplay, AtLive, Replaying
  <2>4. CASE frame.end # "bound"
    <3>1. phase' \in {"replay", "request"} /\ first' = first
      BY <1>6, <2>4 DEF LeaveFrame
    <3>2. Bound' = Bound
      BY <1>u, <3>1 DEF Bound
    <3>3. \A j \in 1..Bound :
              Owed(j) /\ (log[j] < start \/ (after # None /\ j <= after)) => j \in Had'
      BY <1>4, <2>1, <2>2
    <3>4. AtReplay'
      BY <1>u, <2>1, <3>1, <3>2, <3>3 DEF AtReplay
    <3>5. QED
      BY <3>1, <3>4 DEF Position, AtReport, AtFirst, AtFrame, AtLive, InFrame
  <2>5. QED
    BY <2>3, <2>4
<1>7. QED
  BY <1>2, <1>5, <1>6

-------------------------------------------------------------------------------
(* The steps of the driver.                                                   *)
LEMMA SubscribeKeeps == ASSUME DeliveryInv, Subscribe PROVE DeliveryInv'
<1>0. Ledger /\ Consumed /\ Queued /\ Resumes /\ Len(log) \in Nat
  BY LedgerFacts DEF DeliveryInv, Store
<1>1. /\ UNCHANGED <<from, log, tip, resume, chan, got, seen>>
      /\ phase' = "first" /\ live' = Len(log)
      /\ origin' = IF resume = None THEN Len(log) ELSE origin
  BY DEF Subscribe, ledgerVars, consumerVars
<1>2. CASE resume # None
  <2>1. Store'
    BY <1>1, <1>2, KeepStore DEF DeliveryInv, ledgerVars, consumerVars
  <2>2. Position'
    BY <1>0, <1>1, <1>2 DEF Position, AtReport, AtFirst, AtReplay, AtFrame, AtLive, InFrame, Replaying
  <2>3. QED
    BY <2>1, <2>2 DEF DeliveryInv
<1>3. CASE resume = None
  <2>1. from = None /\ seen = None /\ got = {} /\ \A i \in 1..Len(chan) : chan[i].events = {}
    BY <1>0, <1>3 DEF Resumes, Consumed, Queued
  <2>2. \A i \in 1..Len(chan) : chan[i].kind # "page"
    BY <1>0, <1>3 DEF Resumes
  <2>3. Consumed'
    BY <1>0, <1>1, <2>1 DEF Consumed
  <2>4. Queued'
    BY <1>0, <1>1, <2>1, <2>2 DEF Queued
  <2>5. Ledger' /\ Resumes'
    BY <1>0, <1>1, <1>3 DEF Ledger, Resumes
  <2>6. \A j \in 1..Len(log) : ~Owed(j)'
    BY <1>0, <1>1, <1>3, <2>1 DEF Owed, StartedAfter
  <2>7. AtFirst'
    BY <1>0, <1>1, <2>6 DEF AtFirst, Before
  <2>8. QED
    BY <1>1, <2>3, <2>4, <2>5, <2>7
    DEF DeliveryInv, Store, Position, AtReport, AtReplay, AtFrame, AtLive, InFrame, Replaying
<1>4. QED
  BY <1>2, <1>3

LEMMA FirstFrameKeeps == ASSUME DeliveryInv, FirstFrame PROVE DeliveryInv'
<1>0. Ledger /\ Resumes /\ Store /\ AtFirst
  BY DEF DeliveryInv, Store, Position
<1>1. PICK f \in Frames :
         /\ LiveFrame(f)
         /\ PastFrame(f)
         /\ IF resume = None
            THEN frame' = f /\ first' = None /\ phase' = "watermark"
            ELSE first' = f /\ phase' = "request" /\ UNCHANGED frame
  BY DEF FirstFrame
<1>2. /\ phase = "first" /\ start' = resume /\ after' = None
      /\ UNCHANGED <<ledgerVars, resume, chan, consumerVars, origin>>
  BY DEF FirstFrame
<1>3. Store' /\ Had' = Had /\ (\A k : Owed(k)' <=> Owed(k)) /\ UNCHANGED <<log, tip>>
  BY <1>0, <1>2, KeepStore DEF ledgerVars
<1>4. /\ Len(log) \in Nat /\ live \in 0..Len(log)
      /\ \A j \in 1..Len(log) : log[j] \in Nat
  BY <1>0, <1>2, LedgerFacts DEF AtFirst
<1>5. /\ f \in AnyFrames /\ f.from = "live"
      /\ live' \in 0..Len(log) /\ f.ev \in {0, live'}
      /\ f.ev # 0 => f.ev = live + 1
      /\ f.ev = 0 => live' = live
      /\ f.cp # None => /\ f.cp \in Checkpoints /\ f.cp <= tip
                        /\ \A j \in 1..Len(log) : log[j] < f.cp => j <= live
  BY <1>0, <1>1, <1>4, LiveFrameFacts
<1>6. CASE resume = None
  <2>1. frame' = f /\ phase' = "watermark"
    BY <1>1, <1>6
  <2>2. \A j \in 1..live : Owed(j) => j \in Had
    BY <1>0, <1>2, <1>4, <1>6 DEF AtFirst, Before
  <2>3. AtFrame'
    <3>1. f.ev \in 0..Len(log)
      BY <1>4, <1>5
    <3>2. frame'.ev # 0 => Before(frame.ev, Had)'
      BY <1>3, <1>4, <1>5, <2>1, <2>2 DEF Before
    <3>3. frame'.ev = 0 => Before(live + 1, Had)'
      BY <1>3, <1>4, <1>5, <2>1, <2>2 DEF Before
    <3>4. frame'.cp # None => frame'.cp <= tip /\ Below(frame.cp, Had)'
      BY <1>3, <1>4, <1>5, <2>1, <2>2 DEF Below
    <3>5. frame'.from = "live" /\ frame' \in AnyFrames
      BY <1>5, <2>1
    <3>6. QED
      BY <1>3, <1>5, <2>1, <3>1, <3>2, <3>3, <3>4, <3>5 DEF AtFrame
  <2>4. ~Replaying'
    BY <1>5, <2>1 DEF Replaying
  <2>5. QED
    BY <1>3, <2>1, <2>3, <2>4 DEF DeliveryInv, Position, AtReport, AtFirst, AtReplay, AtLive
<1>7. CASE resume # None
  <2>1. first' = f /\ phase' = "request"
    BY <1>1, <1>7
  <2>2. resume \in Checkpoints /\ Below(resume, Had)
    BY <1>0, <1>7 DEF Resumes, Options
  <2>3. Bound' = live
    BY <1>4, <1>5, <2>1 DEF Bound
  <2>4. AtReplay'
    <3>1. \A j \in 1..live : Owed(j) /\ (log[j] < resume \/ (None # None /\ j <= None)) => j \in Had
      BY <1>4, <2>2 DEF Below
    <3>2. None \in Options(Nat)
      BY DEF Options
    <3>3. QED
      BY <1>2, <1>3, <1>5, <2>1, <2>2, <2>3, <3>1, <3>2 DEF AtReplay
  <2>5. QED
    BY <1>3, <2>1, <2>4 DEF DeliveryInv, Position, AtReport, AtFirst, AtFrame, AtLive, InFrame
<1>8. QED
  BY <1>6, <1>7

LEMMA ReplayKeeps ==
    ASSUME DeliveryInv, ReplayEvent \/ ReplayProgress
    PROVE  DeliveryInv'
<1>0. Ledger /\ AtReplay
  BY DEF DeliveryInv, Store, Position
<1>1. /\ phase = "replay" /\ phase' = "watermark"
      /\ UNCHANGED <<ledgerVars, resume, first, live, start, chan, consumerVars, origin>>
  BY DEF ReplayEvent, ReplayProgress
<1>2. /\ Bound \in Nat /\ Pending \subseteq 1..Bound
      /\ Pending # {} => Next1(Pending) \in Pending /\ \A j \in Pending : Next1(Pending) <= j
      /\ \A j \in 1..Bound : Owed(j) /\ j \notin Pending => j \in Had
  BY <1>0, <1>1, PendingFacts
<1>3. CASE ReplayEvent
  <2> DEFINE k == Next1(Pending)
  <2>1. Pending # {} /\ after' = k
    BY <1>3 DEF ReplayEvent
  <2>2. k \in 1..Bound /\ \A j \in Pending : k <= j
    BY <1>2, <2>1
  <2> HIDE DEF k
  <2>3. k \in 0..Bound /\ k \in {0, k} /\ k # 0
    BY <1>2, <2>2
  <2>4. ASSUME NEW j \in 1..k, Owed(j), j # k PROVE j \in Had
    <3>1. j \in 1..Bound /\ ~(k <= j)
      BY <1>2, <2>2, <2>4
    <3>2. QED
      BY <1>2, <2>2, <2>4, <3>1
  <2>5. \A j \in 1..k : Owed(j) => j \in Had \/ (j = k /\ k = k)
    BY <2>4
  <2>6. PICK c \in EventWatermarks(k),
             r \in {"", "limit", "tip"} \cup IF Pending = {k} THEN {"bound"} ELSE {} :
                frame' = Replayed(k, c, r)
    BY <1>3, Zenon DEF ReplayEvent, Replayed, k
  <2>7. c \in MarksOf(k, k) /\ r \in Ends
    BY <2>3, <2>6 DEF MarksOf, Ends
  <2>8. r = "bound" => Pending = {k}
    BY <2>6
  <2>9. r = "bound" => \A j \in 1..Bound : Owed(j) => j \in Had \/ j = k
    BY <1>2, <2>8
  <2>10. QED
    BY <1>1, <2>1, <2>3, <2>5, <2>6, <2>7, <2>9, ReplayFrame
<1>4. CASE ReplayProgress
  <2> DEFINE k == IF Pending = {} THEN Bound ELSE Next1(Pending) - 1
  <2>1. after' = k
    BY <1>4 DEF ReplayProgress
  <2>2. PICK c \in Watermarks(k), r \in IF Pending = {} THEN {"bound"} ELSE {"limit", "tip"} :
                frame' = Replayed(0, c, r)
    BY <1>4, Zenon DEF ReplayProgress, Replayed
  <2>3. k \in 0..Bound /\ \A j \in 1..k : j \notin Pending
    <3>1. CASE Pending = {}
      BY <1>2, <3>1
    <3>2. CASE Pending # {}
      <4> DEFINE n == Next1(Pending)
      <4>1. n \in 1..Bound /\ (\A j \in Pending : n <= j) /\ k = n - 1
        BY <1>2, <3>2
      <4> HIDE DEF n, k
      <4>2. \A j \in 1..k : ~(n <= j)
        BY <1>2, <4>1
      <4>3. k \in 0..Bound
        BY <1>2, <4>1
      <4>4. QED
        BY <4>1, <4>2, <4>3
    <3>3. QED
      BY <3>1, <3>2
  <2> HIDE DEF k
  <2>4. \A j \in 1..k : j \in 1..Bound
    BY <1>2, <2>3
  <2>5. c \in MarksOf(0, k) /\ r \in Ends /\ 0 \in {0, k}
    BY <2>2 DEF MarksOf, Ends
  <2>6. \A j \in 1..k : Owed(j) => j \in Had \/ (j = k /\ 0 = k)
    BY <1>2, <2>3, <2>4
  <2>7. r = "bound" => \A j \in 1..Bound : Owed(j) => j \in Had \/ j = 0
    <3>1. r = "bound" => Pending = {}
      BY <2>2
    <3>2. QED
      BY <1>2, <3>1
  <2>8. QED
    BY <1>1, <2>1, <2>2, <2>3, <2>5, <2>6, <2>7, ReplayFrame
<1>5. QED
  BY <1>3, <1>4

LEMMA ReceiveLiveKeeps == ASSUME DeliveryInv, ReceiveLive PROVE DeliveryInv'
<1>0. Ledger /\ Store /\ AtLive
  BY DEF DeliveryInv, Store, Position
<1>1. PICK f \in Frames : LiveFrame(f) /\ PastFrame(f) /\ frame' = f
  BY DEF ReceiveLive
<1>2. /\ phase = "live" /\ phase' = "watermark"
      /\ UNCHANGED <<ledgerVars, resume, chan, consumerVars, origin>>
  BY DEF ReceiveLive
<1>3. Store' /\ Had' = Had /\ (\A k : Owed(k)' <=> Owed(k)) /\ UNCHANGED <<log, tip>>
  BY <1>0, <1>2, KeepStore DEF ledgerVars
<1>4. /\ Len(log) \in Nat /\ live \in 0..Len(log)
      /\ \A j \in 1..live : Owed(j) => j \in Had
      /\ \A j \in 1..Len(log) : log[j] \in Nat
  BY <1>0, <1>2, LedgerFacts DEF AtLive, Before
<1>5. /\ f \in AnyFrames /\ f.from = "live"
      /\ live' \in 0..Len(log) /\ f.ev \in {0, live'}
      /\ f.ev # 0 => f.ev = live + 1
      /\ f.ev = 0 => live' = live
      /\ f.cp # None => /\ f.cp \in Checkpoints /\ f.cp <= tip
                        /\ \A j \in 1..Len(log) : log[j] < f.cp => j <= live
  BY <1>0, <1>1, <1>4, LiveFrameFacts
<1>6. AtFrame'
  <2>1. f.ev \in 0..Len(log)
    BY <1>4, <1>5
  <2>2. frame'.ev # 0 => Before(frame.ev, Had)'
    BY <1>1, <1>3, <1>4, <1>5 DEF Before
  <2>3. frame'.ev = 0 => Before(live + 1, Had)'
    BY <1>1, <1>3, <1>4, <1>5 DEF Before
  <2>4. frame'.cp # None => frame'.cp <= tip /\ Below(frame.cp, Had)'
    BY <1>1, <1>3, <1>4, <1>5 DEF Below
  <2>5. frame'.from = "live" /\ frame' \in AnyFrames
    BY <1>1, <1>5
  <2>6. QED
    BY <1>1, <1>3, <1>5, <2>1, <2>2, <2>3, <2>4, <2>5 DEF AtFrame
<1>7. ~Replaying'
  BY <1>1, <1>2, <1>5 DEF Replaying
<1>8. QED
  BY <1>2, <1>3, <1>6, <1>7 DEF DeliveryInv, Position, AtReport, AtFirst, AtReplay, AtLive

LEMMA WatermarkKeeps == ASSUME DeliveryInv, ProcessWatermark PROVE DeliveryInv'
<1>0. Ledger /\ Store /\ Position /\ AtFrame /\ InFrame
  BY DEF DeliveryInv, Store, Position, ProcessWatermark, InFrame
<1>1. /\ phase' = "event"
      /\ UNCHANGED <<ledgerVars, first, live, start, after, frame, failure, consumerVars, origin>>
  BY DEF ProcessWatermark
<1>2. Store' /\ Had \subseteq Had'
  <2>1. CASE frame.cp = None
    <3>1. UNCHANGED <<resume, chan>>
      BY <2>1 DEF ProcessWatermark
    <3>2. QED
      BY <1>0, <1>1, <3>1, KeepStore
  <2>2. CASE frame.cp # None
    <3>1. frame.cp \in Checkpoints /\ frame.cp <= tip /\ Below(frame.cp, Had)
      BY <1>0, <2>2 DEF AtFrame, AnyFrames, Options
    <3>2. resume' = Advance(resume, frame.cp)
      BY <2>2 DEF ProcessWatermark
    <3>3. chan' = Append(chan, Page({}, frame.cp)) \/ chan' = chan
      BY <2>2 DEF ProcessWatermark, Send
    <3>4. {} \in SUBSET (1..Len(log)) /\ \A k \in {} : Before(k, Had)
      OBVIOUS
    <3>5. QED
      BY <1>0, <1>1, <3>1, <3>2, <3>3, <3>4, PageStore
  <2>3. QED
    BY <2>1, <2>2
<1>3. Position'
  BY <1>0, <1>1, <1>2, PositionStays
<1>4. QED
  BY <1>2, <1>3 DEF DeliveryInv

LEMMA NoEventKeeps == ASSUME DeliveryInv, NoEvent PROVE DeliveryInv'
<1>1. Store /\ Ledger /\ Position
  BY DEF DeliveryInv, Store
<1>2. /\ phase = "event" /\ frame.ev = 0 /\ LeaveFrame
      /\ UNCHANGED <<ledgerVars, resume, chan, consumerVars, origin, live, start, after>>
  BY DEF NoEvent
<1>3. Store' /\ Had' = Had
  BY <1>1, <1>2, KeepStore
<1>4. QED
  BY <1>1, <1>2, <1>3, LeaveFrameFacts DEF DeliveryInv

LEMMA EventKeeps == ASSUME DeliveryInv, ProcessEvent PROVE DeliveryInv'
<1>0. Store /\ Ledger /\ Position /\ AtFrame
  BY DEF DeliveryInv, Store, Position
<1>1. /\ phase = "event" /\ frame.ev # 0 /\ LeaveFrame
      /\ resume' = Advance(resume, log[frame.ev])
      /\ UNCHANGED <<ledgerVars, origin, live, start, after, consumerVars>>
  BY DEF ProcessEvent
<1> DEFINE k == frame.ev
           e == {k} \ Ignored
           c == log[k]
<1>2. /\ Len(log) \in Nat
      /\ \A j \in 1..Len(log) : log[j] \in Nat
      /\ \A j \in 1..Len(log) : log[j] \in Checkpoints
  BY <1>0, LedgerFacts
<1>3. k \in 0..Len(log) /\ Before(k, Had)
  BY <1>0, <1>1 DEF AtFrame, InFrame
<1>4. k \in 1..Len(log)
  BY <1>1, <1>2, <1>3
<1> HIDE DEF k
<1>5. c \in Checkpoints /\ c <= tip
  BY <1>0, <1>2, <1>4 DEF Ledger
<1>6. Below(c, Had)
  <2>1. SUFFICES ASSUME NEW j \in 1..Len(log), Owed(j), log[j] < log[k] PROVE j \in Had
    BY DEF Below
  <2>2. ~(k <= j)
    BY <1>0, <1>2, <1>4, <2>1 DEF Ledger
  <2>3. QED
    BY <1>2, <1>3, <1>4, <2>1, <2>2 DEF Before
<1>7. e \in SUBSET (1..Len(log)) /\ \A x \in e : Before(x, Had)
  BY <1>3, <1>4
<1>8. (k \notin Ignored => chan' = Append(chan, Page(e, c)))
         /\ (chan' = Append(chan, Page(e, c)) \/ chan' = chan)
  BY DEF ProcessEvent, Send, k
<1>9. resume' = Advance(resume, c)
  BY <1>1 DEF k
<1> HIDE DEF c
<1>10. /\ Store' /\ Had \subseteq Had'
       /\ chan' = Append(chan, Page(e, c)) => Had' = Had \cup e
  BY <1>0, <1>1, <1>5, <1>6, <1>7, <1>8, <1>9, PageStore
<1>11. Owed(k) => k \in Had'
  BY <1>8, <1>10 DEF Owed
<1>12. frame.ev # 0 /\ Owed(frame.ev) => frame.ev \in Had'
  BY <1>11 DEF k
<1>13. Position'
  BY <1>0, <1>1, <1>10, <1>12, LeaveFrameFacts
<1>14. QED
  BY <1>10, <1>13 DEF DeliveryInv

(* An error carries no events.                                                *)
LEMMA ReportKeeps == ASSUME DeliveryInv, Report PROVE DeliveryInv'
<1>0. Ledger /\ Consumed /\ Queued /\ Resumes /\ Len(chan) \in Nat /\ chan \in Seq(AnyMessages)
  BY LenProperties DEF DeliveryInv, Store, Queued
<1>1. /\ phase' \in {"backoff", "stopped"} /\ failure \in Failed
      /\ chan' = Append(chan, Error(failure))
      /\ UNCHANGED <<from, log, tip, resume, got, seen, origin>>
  BY DEF Report, ledgerVars, consumerVars, DeliveryInv, Position, AtReport
<1>2. Error(failure) \in AnyMessages /\ Error(failure).events = {} /\ Error(failure).kind # "page"
  BY <1>1 DEF Error, AnyMessages, Failed, Options
<1>3. /\ chan' \in Seq(AnyMessages) /\ Len(chan') = Len(chan) + 1
      /\ chan'[Len(chan) + 1] = Error(failure)
      /\ \A i \in 1..Len(chan) : chan'[i] = chan[i] /\ HadBy(i)' = HadBy(i)
      /\ Had' = Had \cup {}
  BY <1>0, <1>1, <1>2, AppendHad
<1>4. Had' = Had /\ (\A k : Owed(k)' <=> Owed(k))
  BY <1>1, <1>3 DEF Owed, StartedAfter
<1>5. Ledger' /\ Consumed'
  BY <1>0, <1>1, <1>4 DEF Ledger, Consumed, Before, Below
<1>6. ASSUME NEW i \in 1..Len(chan')
      PROVE  /\ chan'[i].events \subseteq 1..Len(log)
             /\ \A k \in chan'[i].events : Before(k, HadBy(i)')
             /\ chan'[i].kind = "page" =>
                   /\ chan'[i].checkpoint \in Checkpoints /\ chan'[i].checkpoint <= tip
                   /\ Below(chan'[i].checkpoint, HadBy(i)')
                   /\ i \in 1..Len(chan) /\ chan[i].kind = "page"
             /\ chan'[i].kind # "page" => chan'[i].events = {}
  <2>1. CASE i \in 1..Len(chan)
    BY <1>0, <1>3, <2>1 DEF Queued
  <2>2. CASE i = Len(chan) + 1
    BY <1>2, <1>3, <2>2
  <2>3. QED
    BY <1>0, <1>3, <2>1, <2>2
<1>7. Queued'
  BY <1>1, <1>3, <1>4, <1>6 DEF Queued, Before, Below
<1>8. Resumes'
  BY <1>0, <1>1, <1>3, <1>4, <1>6 DEF Resumes, Below
<1>9. Position'
  BY <1>1, Elsewhere
<1>10. QED
  BY <1>5, <1>7, <1>8, <1>9 DEF DeliveryInv, Store

(* Steps that only move the driver.                                           *)
LEMMA QuietKeeps ==
    ASSUME DeliveryInv, ListEvents \/ Break \/ Reconnect \/ Cancel
    PROVE  DeliveryInv'
<1>1. Store' /\ Had' = Had
  BY KeepStore
  DEF DeliveryInv, ListEvents, Break, Reconnect, Cancel, driverVars
<1>2. CASE ListEvents
  BY <1>1, <1>2, PositionStays DEF DeliveryInv, ListEvents, driverVars
<1>3. CASE Break
  <2>1. phase' = "report" /\ failure' \in Failed
    BY <1>3 DEF Break, Failed
  <2>2. QED
    BY <1>1, <2>1, Elsewhere DEF DeliveryInv
<1>4. CASE Reconnect \/ Cancel
  BY <1>1, <1>4, Elsewhere DEF DeliveryInv, Reconnect, Cancel
<1>5. QED
  BY <1>2, <1>3, <1>4

-------------------------------------------------------------------------------
(* The steps of the consumer.                                                 *)
LEMMA ConsumeFacts ==
    ASSUME DeliveryInv, Consume
    PROVE  /\ Len(chan) \in Nat \ {0} /\ Head(chan) = chan[1]
           /\ chan' \in Seq(AnyMessages) /\ Len(chan') = Len(chan) - 1
           /\ \A i \in 1..(Len(chan) - 1) : chan'[i] = chan[i + 1]
           /\ got' = got \cup chan[1].events /\ chan[1].events \subseteq 1..Len(log)
           /\ \A i \in 0..(Len(chan) - 1) : HadBy(i)' = HadBy(i + 1)
           /\ Had' = Had
<1>0. Queued /\ chan \in Seq(AnyMessages) /\ chan # <<>>
  BY DEF DeliveryInv, Store, Queued, Consume
<1>1. /\ chan' = Tail(chan)
      /\ IF Head(chan).kind = "page"
         THEN got' = got \cup Head(chan).events /\ seen' = Head(chan).checkpoint
         ELSE UNCHANGED consumerVars
  BY DEF Consume
<1>2. /\ Len(chan) \in Nat \ {0} /\ Head(chan) = chan[1]
      /\ chan' \in Seq(AnyMessages) /\ Len(chan') = Len(chan) - 1
      /\ \A i \in 1..(Len(chan) - 1) : chan'[i] = chan[i + 1]
  BY <1>0, <1>1, HeadTailProperties, EmptySeq
<1>3. got' = got \cup chan[1].events /\ chan[1].events \subseteq 1..Len(log)
  <2>1. 1 \in 1..Len(chan)
    BY <1>2
  <2>2. chan[1].events \subseteq 1..Len(log) /\ (chan[1].kind # "page" => chan[1].events = {})
    BY <1>0, <2>1 DEF Queued
  <2>3. QED
    BY <1>1, <1>2, <2>2 DEF consumerVars
<1>4. ASSUME NEW i \in 0..(Len(chan) - 1) PROVE HadBy(i)' = HadBy(i + 1)
  <2>1. \A x : x \in HadBy(i)' <=> x \in got' \/ \E j \in 1..i : x \in chan'[j].events
    BY DEF HadBy
  <2>2. \A j \in 1..i : chan'[j] = chan[j + 1] /\ j + 1 \in 2..(i + 1)
    BY <1>2
  <2>3. \A j \in 2..(i + 1) : j - 1 \in 1..i /\ chan'[j - 1] = chan[j]
    BY <1>2
  <2>4. \A x : x \in HadBy(i)' <=> x \in got' \/ \E j \in 2..(i + 1) : x \in chan[j].events
    BY <2>1, <2>2, <2>3
  <2>5. \A j : j \in 1..(i + 1) <=> j = 1 \/ j \in 2..(i + 1)
    BY <1>2
  <2>6. \A x : x \in HadBy(i + 1) <=> x \in got \/ \E j \in 1..(i + 1) : x \in chan[j].events
    BY DEF HadBy
  <2>7. \A x : x \in HadBy(i)' <=> x \in HadBy(i + 1)
    BY <1>3, <2>4, <2>5, <2>6
  <2>8. QED
    BY <2>7
<1>5. Had' = Had
  <2>1. Len(chan) - 1 \in 0..(Len(chan) - 1) /\ (Len(chan) - 1) + 1 = Len(chan)
    BY <1>2
  <2>2. \A i \in 0..(Len(chan) - 1) : HadBy(i)' = HadBy(i + 1)
    BY <1>4
  <2>3. \A i : i = Len(chan) - 1 => Had' = HadBy(i)'
    BY <1>2 DEF Had
  <2>4. QED
    BY <2>1, <2>2, <2>3 DEF Had
<1>6. QED
  BY <1>2, <1>3, <1>4, <1>5

LEMMA ConsumeKeeps == ASSUME DeliveryInv, Consume PROVE DeliveryInv'
<1>0. /\ Ledger /\ Consumed /\ Queued /\ Resumes /\ Position
      /\ chan \in Seq(AnyMessages) /\ chan # <<>>
  BY DEF DeliveryInv, Store, Queued, Consume
<1>1. /\ chan' = Tail(chan)
      /\ IF Head(chan).kind = "page"
         THEN got' = got \cup Head(chan).events /\ seen' = Head(chan).checkpoint
         ELSE UNCHANGED consumerVars
      /\ UNCHANGED <<ledgerVars, phase, driverVars, origin>>
  BY DEF Consume
<1>2. /\ Len(chan) \in Nat \ {0} /\ Head(chan) = chan[1]
      /\ chan' \in Seq(AnyMessages) /\ Len(chan') = Len(chan) - 1
      /\ \A i \in 1..(Len(chan) - 1) : chan'[i] = chan[i + 1]
  BY ConsumeFacts
<1>3. got' = got \cup chan[1].events /\ chan[1].events \subseteq 1..Len(log)
  BY ConsumeFacts
<1>4. \A i \in 0..(Len(chan) - 1) : HadBy(i)' = HadBy(i + 1)
  BY ConsumeFacts
<1>5. Had' = Had
  BY ConsumeFacts
<1>6. HadBy(1) = got'
  <2>1. 0 \in 0..(Len(chan) - 1) /\ 0 + 1 = 1
    BY <1>2
  <2>2. HadBy(0)' = got'
    BY DEF HadBy
  <2>3. QED
    BY <1>4, <2>1, <2>2
<1>u. /\ UNCHANGED <<from, log, tip, resume>>
      /\ \A k : Owed(k)' <=> Owed(k)
  BY <1>1 DEF ledgerVars, driverVars, Owed, StartedAfter
<1>7. /\ 1 \in 1..Len(chan)
      /\ \A k \in chan[1].events : Before(k, got')
      /\ chan[1].kind = "page" =>
            /\ chan[1].checkpoint \in Checkpoints /\ chan[1].checkpoint <= tip
            /\ Below(chan[1].checkpoint, got')
      /\ chan[1].kind # "page" => chan[1].events = {}
  <2>1. 1 \in 1..Len(chan)
    BY <1>2
  <2>2. QED
    BY <1>0, <1>6, <2>1 DEF Queued
<1>8. Consumed'
  <2>1. got' \subseteq 1..Len(log) /\ \A k \in got' : Before(k, got')
    BY <1>0, <1>3, <1>7 DEF Consumed, Before
  <2>2. CASE chan[1].kind = "page"
    <3>1. seen' = chan[1].checkpoint /\ seen' # None
      BY <1>1, <1>2, <1>7, <2>2, ConfigAssumption DEF Checkpoints
    <3>2. QED
      BY <1>u, <1>7, <2>1, <2>2, <3>1 DEF Consumed, Before, Below, Options
  <2>3. CASE chan[1].kind # "page"
    BY <1>0, <1>u, <1>1, <1>2, <2>1, <2>3 DEF Consumed, Before, Below, consumerVars
  <2>4. QED
    BY <2>2, <2>3
<1>9. ASSUME NEW i \in 1..Len(chan')
      PROVE  /\ chan'[i].events \subseteq 1..Len(log)
             /\ \A k \in chan'[i].events : Before(k, HadBy(i)')
             /\ chan'[i].kind = "page" =>
                   /\ chan'[i].checkpoint \in Checkpoints /\ chan'[i].checkpoint <= tip
                   /\ Below(chan'[i].checkpoint, HadBy(i)')
             /\ chan'[i].kind # "page" => chan'[i].events = {}
  <2>1. i \in 1..(Len(chan) - 1) /\ i + 1 \in 1..Len(chan) /\ i \in 0..(Len(chan) - 1)
    BY <1>2
  <2>2. chan'[i] = chan[i + 1] /\ HadBy(i)' = HadBy(i + 1)
    BY <1>2, <1>4, <2>1
  <2>3. QED
    BY <1>0, <2>1, <2>2 DEF Queued
<1>10. Queued'
  BY <1>2, <1>u, <1>9 DEF Queued, Before, Below
<1>11. Ledger' /\ Resumes'
  <2>1. Ledger'
    BY <1>0, <1>u DEF Ledger
  <2>2. resume # None => (resume = from \/ resume <= tip) /\ Below(resume, Had)'
    BY <1>0, <1>u, <1>5 DEF Resumes, Below
  <2>3. resume = None => from = None /\ seen' = None
    BY <1>0, <1>1, <1>2, <1>7 DEF Resumes, consumerVars
  <2>4. resume = None => \A i \in 1..Len(chan') : chan'[i].kind # "page"
    <3>1. \A i \in 1..Len(chan') : i \in 1..(Len(chan) - 1) /\ i + 1 \in 1..Len(chan)
      BY <1>2
    <3>2. QED
      BY <1>0, <1>2, <3>1 DEF Resumes
  <2>5. QED
    BY <1>0, <1>u, <2>1, <2>2, <2>3, <2>4 DEF Resumes
<1>12. Position'
  BY <1>0, <1>1, <1>5, PositionStays DEF driverVars
<1>13. QED
  BY <1>8, <1>10, <1>11, <1>12 DEF DeliveryInv, Store

LEMMA RestartKeeps == ASSUME DeliveryInv, Restart PROVE DeliveryInv'
<1>0. Ledger /\ Consumed
  BY DEF DeliveryInv, Store
<1>1. /\ chan' = <<>> /\ phase' = "connect"
      /\ resume' = IF seen = None THEN from ELSE seen
      /\ origin' = IF seen = None THEN None ELSE origin
      /\ UNCHANGED <<from, log, tip, got, seen>>
  BY DEF Restart, ledgerVars, consumerVars
<1>2. chan' \in Seq(AnyMessages) /\ Len(chan') = 0
  BY <1>1
<1>3. Had' = got
  BY <1>1, <1>2 DEF Had, HadBy
<1>4. Ledger' /\ Queued'
  BY <1>0, <1>1, <1>2 DEF Ledger, Queued
<1>5. CASE seen = None
  <2>1. got = {} /\ resume' = from
    BY <1>0, <1>1, <1>5 DEF Consumed
  <2>2. Consumed'
    BY <1>0, <1>1, <1>5, <2>1 DEF Consumed
  <2>3. from # None => Below(from, Had)'
    <3>1. SUFFICES ASSUME from # None, NEW j \in 1..Len(log), Owed(j)', log[j] < from
                   PROVE  FALSE
      BY <1>1 DEF Below
    <3>2. log[j] >= from
      BY <1>1, <3>1 DEF Owed
    <3>3. from \in Int /\ log[j] \in Int
      BY <1>0, <3>1, LedgerFacts DEF Ledger, Options, Checkpoints
    <3>4. QED
      BY <3>1, <3>2, <3>3
  <2>4. Resumes'
    BY <1>0, <1>1, <1>2, <1>5, <2>1, <2>3 DEF Resumes, Ledger
  <2>5. QED
    BY <1>1, <1>4, <2>2, <2>4, Elsewhere DEF DeliveryInv, Store
<1>6. CASE seen # None
  <2>1. resume' = seen /\ UNCHANGED origin /\ \A k : Owed(k)' <=> Owed(k)
    BY <1>1, <1>6 DEF Owed, StartedAfter
  <2>2. Consumed'
    BY <1>0, <1>1, <2>1 DEF Consumed, Before, Below
  <2>3. Resumes'
    BY <1>0, <1>1, <1>3, <1>6, <2>1 DEF Resumes, Consumed, Below
  <2>4. QED
    BY <1>1, <1>4, <2>2, <2>3, Elsewhere DEF DeliveryInv, Store
<1>7. QED
  BY <1>5, <1>6

-------------------------------------------------------------------------------
(* What is on its way to the consumer, and what the driver has before its     *)
(* place in a stream, leaves nothing owed out, in every reachable state.      *)
THEOREM Delivery == Spec => []DeliveryInv
<1>1. Init => DeliveryInv
  <2> SUFFICES ASSUME Init PROVE DeliveryInv
    OBVIOUS
  <2>1. /\ log = <<>> /\ tip = 0 /\ from \in Options(Checkpoints)
        /\ resume = from /\ phase = "connect" /\ chan = <<>> /\ got = {} /\ seen = None
    BY ConfigAssumption DEF Init, Options
  <2>2. log \in Seq(Checkpoints) /\ Len(log) = 0 /\ chan \in Seq(AnyMessages) /\ Len(chan) = 0
    BY <2>1
  <2>3. Ledger
    BY <2>1, <2>2, ConfigAssumption DEF Ledger
  <2>4. Consumed /\ Queued /\ Resumes
    BY <2>1, <2>2 DEF Consumed, Queued, Resumes, Before, Below, Options
  <2>5. Position
    BY <2>1 DEF Position, AtReport, AtFirst, AtReplay, AtFrame, AtLive, InFrame, Replaying
  <2>6. QED
    BY <2>3, <2>4, <2>5 DEF DeliveryInv, Store
<1>2. DeliveryInv /\ [Next]_vars => DeliveryInv'
  <2> SUFFICES ASSUME DeliveryInv, [Next]_vars PROVE DeliveryInv'
    OBVIOUS
  <2>1. CASE Grow
    <3>1. Store
      BY DEF DeliveryInv
    <3>2. QED
      BY <2>1, <3>1, GrowStore, GrowPosition DEF DeliveryInv
  <2>2. CASE Drive
    BY <2>2, SubscribeKeeps, FirstFrameKeeps, QuietKeeps, ReplayKeeps, ReceiveLiveKeeps,
       WatermarkKeeps, NoEventKeeps, EventKeeps, ReportKeeps DEF Drive
  <2>3. CASE Break \/ Cancel
    BY <2>3, QuietKeeps
  <2>4. CASE Consume
    BY <2>4, ConsumeKeeps
  <2>5. CASE Restart
    BY <2>5, RestartKeeps
  <2>6. CASE UNCHANGED vars
    <3>1. /\ Store /\ Position
          /\ UNCHANGED <<ledgerVars, phase, driverVars, chan, consumerVars, origin>>
      BY <2>6 DEF vars, DeliveryInv
    <3>2. Store' /\ Had' = Had
      BY <3>1, KeepStore DEF driverVars
    <3>3. QED
      BY <3>1, <3>2, PositionStays DEF DeliveryInv, driverVars
  <2>7. QED
    BY <2>1, <2>2, <2>3, <2>4, <2>5, <2>6 DEF Next
<1>3. QED
  BY <1>1, <1>2, PTL DEF Spec

(* The consumer has no gap, whatever fails, reconnects, replays or crashes.   *)
THEOREM EventsHaveNoGap == Spec => []NoGap
<1>1. DeliveryInv => NoGap
  BY DEF DeliveryInv, Store, Consumed, Before, NoGap
<1>2. QED
  BY <1>1, Delivery, PTL

(* The checkpoint of a handled page is a safe place to restart from.          *)
THEOREM CheckpointsAreSafe == Spec => []PageCheckpointComplete
<1>1. DeliveryInv => PageCheckpointComplete
  BY DEF DeliveryInv, Store, Consumed, Below, PageCheckpointComplete
<1>2. QED
  BY <1>1, Delivery, PTL

-------------------------------------------------------------------------------
(* The order of what is delivered.  What the driver reported, and the         *)
(* watermark in its hands, are at or below every event that its connection    *)
(* may still deliver; between connections they are at or below the checkpoint *)
(* to resume from.                                                            *)
Comes(k) ==
    \/ phase \in {"first", "live"} /\ k > live
    \/ InFrame /\ (k = frame.ev \/ (frame.from = "live" /\ k > live))
    \/ Replaying /\ (k > Bound \/ (log[k] >= start /\ (after = None \/ k > after)))
Coming == {k \in 1..Len(log) : Comes(k)}
AtOrBelow(c, S) == c # None => \A k \in S : c <= log[k]

Reported ==
    /\ highest \in Options(Checkpoints)
    /\ highest # None => highest <= tip /\ resume # None /\ highest <= resume
ReplayPlace == InFrame /\ frame.from = "replay" => frame.ev \in {0, after} /\ frame.ev <= Bound

OrderInv ==
    /\ Reported /\ ReplayPlace
    /\ AtOrBelow(highest, Coming)
    /\ phase = "watermark" => AtOrBelow(frame.cp, Coming)

(* Where nothing is connected nothing comes.                                  *)
LEMMA NothingComes ==
    ASSUME phase' \in {"connect", "report", "backoff", "stopped"}
    PROVE  Coming' = {} /\ ReplayPlace' /\ phase' # "watermark"
  BY DEF Coming, Comes, InFrame, Replaying, ReplayPlace

LEMMA ComingStays ==
    ASSUME UNCHANGED <<log, live, start, after, first, frame>>,
           \/ UNCHANGED phase
           \/ phase = "request" /\ phase' = "replay"
           \/ phase = "watermark" /\ phase' = "event"
    PROVE  Coming' = Coming /\ Bound' = Bound
<1>1. /\ Bound' = Bound /\ InFrame' = InFrame /\ Replaying' = Replaying
      /\ (phase \in {"first", "live"})' <=> phase \in {"first", "live"}
  BY DEF Bound, InFrame, Replaying
<1>2. \A k : Comes(k)' <=> Comes(k)
  BY <1>1 DEF Comes
<1>3. QED
  BY <1>1, <1>2 DEF Coming

(* A watermark is at or below what its stream has still to deliver.           *)
LEMMA MarksAreBelow ==
    ASSUME Ledger, NEW k \in 0..Len(log), NEW c, c # None, NEW j \in 1..Len(log)
    PROVE  /\ c \in Watermarks(k) /\ j > k => c <= log[j]
           /\ c \in EventWatermarks(k) /\ k # 0 /\ j >= k => c <= log[j]
<1>1. /\ Len(log) \in Nat /\ tip \in Nat
      /\ \A i \in 1..Len(log) : log[i] \in Nat
  BY LedgerFacts
<1>2. ASSUME c \in Watermarks(k), j > k PROVE c <= log[j]
  <2>1. k + 1 \in 1..Len(log) /\ k < Len(log) /\ k + 1 <= j
    BY <1>1, <1>2
  <2>2. c \in 1..tip /\ c < log[k + 1]
    BY <1>2, <2>1 DEF Watermarks
  <2>3. log[k + 1] <= log[j] /\ log[k + 1] \in Nat /\ log[j] \in Nat
    BY <1>1, <2>1 DEF Ledger
  <2>4. QED
    BY <1>1, <2>2, <2>3
<1>3. ASSUME c \in EventWatermarks(k), k # 0, j >= k PROVE c <= log[j]
  <2>1. k \in 1..Len(log) /\ k <= j
    BY <1>1, <1>3
  <2>2. c \in 1..tip /\ c <= log[k]
    BY <1>3 DEF EventWatermarks, Watermarks
  <2>3. log[k] <= log[j] /\ log[k] \in Nat /\ log[j] \in Nat
    BY <1>1, <2>1 DEF Ledger
  <2>4. QED
    BY <1>1, <2>2, <2>3
<1>4. QED
  BY <1>2, <1>3

(* A live frame takes what the stream had still to deliver.                   *)
LEMMA LiveComing ==
    ASSUME Ledger, live \in 0..Len(log), phase \in {"first", "live"},
           NEW f \in Frames, LiveFrame(f), PastFrame(f),
           frame' = f, phase' = "watermark", UNCHANGED log
    PROVE  Coming' \subseteq Coming /\ AtOrBelow(frame.cp, Coming)' /\ ReplayPlace'
<1>1. /\ f.from = "live" /\ live' \in 0..Len(log) /\ f.ev \in {0, live'}
      /\ f.ev # 0 => f.ev = live + 1
      /\ f.ev = 0 => live' = live
      /\ f.cp # None => f.cp \in Checkpoints /\ \A j \in 1..Len(log) : log[j] < f.cp => j <= live
  BY LiveFrameFacts
<1>2. Len(log) \in Nat /\ \A j \in 1..Len(log) : log[j] \in Nat
  BY LedgerFacts
<1>3. ~Replaying' /\ ReplayPlace'
  BY <1>1 DEF Replaying, ReplayPlace
<1>4. ASSUME NEW k \in Coming' PROVE k \in 1..Len(log) /\ k > live
  <2>1. k \in 1..Len(log) /\ (k = f.ev \/ k > live')
    BY <1>3, <1>4 DEF Coming, Comes, InFrame
  <2>2. QED
    BY <1>1, <1>2, <2>1
<1>5. Coming' \subseteq Coming
  BY <1>4 DEF Coming, Comes
<1>6. AtOrBelow(frame.cp, Coming)'
  <2>1. SUFFICES ASSUME f.cp # None, NEW k \in Coming' PROVE f.cp <= log[k]
    BY DEF AtOrBelow
  <2>2. k \in 1..Len(log) /\ ~(log[k] < f.cp)
    BY <1>1, <1>2, <1>4, <2>1
  <2>3. QED
    BY <1>1, <1>2, <2>1, <2>2 DEF Checkpoints
<1>7. QED
  BY <1>3, <1>5, <1>6

(* A replay frame at cursor k: what comes is what came, from k on.            *)
LEMMA ReplayComing ==
    ASSUME DeliveryInv, ReplayEvent \/ ReplayProgress
    PROVE  Coming' \subseteq Coming /\ AtOrBelow(frame.cp, Coming)' /\ ReplayPlace'
<1>0. Ledger /\ AtReplay
  BY DEF DeliveryInv, Store, Position
<1>1. /\ phase = "replay" /\ phase' = "watermark" /\ UNCHANGED <<log, live, first, start>>
  BY DEF ReplayEvent, ReplayProgress, ledgerVars
<1>2. /\ Bound \in Nat /\ Bound <= Len(log) /\ Pending \subseteq 1..Bound
      /\ start \in Checkpoints /\ after \in Options(Nat)
      /\ Pending # {} => Next1(Pending) \in Pending /\ \A j \in Pending : Next1(Pending) <= j
  BY <1>0, <1>1, PendingFacts
<1>3. /\ Len(log) \in Nat /\ (\A j \in 1..Len(log) : log[j] \in Nat)
      /\ Bound' = Bound /\ Replaying /\ ~InFrame
  BY <1>0, <1>1, LedgerFacts DEF Bound, Replaying, InFrame
<1>4. ASSUME NEW k \in 0..Len(log), k <= Bound, after' = k, NEW e \in {0, k},
             NEW c, NEW r \in Ends, frame' = Replayed(e, c, r),
             k # 0 /\ e = k => k \in Pending,
             after # None => \A j \in 1..Bound : j > k => j > after,
             \A j \in 1..Len(log) : c # None /\ (j > k \/ (j = k /\ e = k)) => c <= log[j]
      PROVE  Coming' \subseteq Coming /\ AtOrBelow(frame.cp, Coming)' /\ ReplayPlace'
  <2>1. frame'.ev = e /\ frame'.cp = c /\ frame'.from = "replay" /\ InFrame' /\ Replaying'
    BY <1>1, <1>4 DEF Replayed, InFrame, Replaying
  <2>2. ASSUME NEW j \in Coming'
        PROVE  j \in 1..Len(log) /\ (j > k \/ (j = k /\ e = k)) /\ j \in Coming
    <3>1. j \in 1..Len(log) /\ (j = e \/ j > Bound \/ (log[j] >= start /\ j > k))
      BY <1>1, <1>3, <1>4, <2>1, <2>2, ConfigAssumption DEF Coming, Comes
    <3>2. CASE j = e
      <4>1. j \in Pending /\ j = k /\ e = k
        BY <1>4, <3>1, <3>2
      <4>2. QED
        BY <1>3, <3>1, <4>1 DEF Coming, Comes, Pending
    <3>3. CASE j > Bound
      <4>1. j > k
        BY <1>2, <1>4, <3>1, <3>3
      <4>2. QED
        BY <1>3, <3>1, <3>3, <4>1 DEF Coming, Comes
    <3>4. CASE log[j] >= start /\ j > k /\ ~(j > Bound)
      <4>1. j \in 1..Bound
        BY <1>2, <3>1, <3>4
      <4>2. after = None \/ j > after
        BY <1>4, <3>4, <4>1
      <4>3. QED
        BY <1>3, <3>1, <3>4, <4>2 DEF Coming, Comes
    <3>5. QED
      BY <3>1, <3>2, <3>3, <3>4
  <2>3. AtOrBelow(frame.cp, Coming)'
    BY <1>1, <1>4, <2>1, <2>2 DEF AtOrBelow
  <2>4. ReplayPlace'
    BY <1>2, <1>3, <1>4, <2>1 DEF ReplayPlace
  <2>5. QED
    BY <2>2, <2>3, <2>4
<1>5. CASE ReplayEvent
  <2> DEFINE k == Next1(Pending)
  <2>1. Pending # {} /\ after' = k
    BY <1>5 DEF ReplayEvent
  <2>2. k \in 1..Bound /\ k \in Pending
    BY <1>2, <2>1
  <2>3. after # None => after \in Nat /\ k > after
    BY <1>2, <2>2 DEF Pending, Options
  <2> HIDE DEF k
  <2>4. k \in 0..Len(log) /\ k \in Nat /\ k <= Bound /\ k # 0 /\ k \in {0, k}
    BY <1>2, <1>3, <2>2
  <2>5. after # None => \A j \in 1..Bound : j > k => j > after
    BY <1>2, <2>3, <2>4
  <2>6. \A j \in 1..Len(log) : j > k \/ (j = k /\ k = k) => j >= k
    BY <1>3, <2>4
  <2>7. PICK c \in EventWatermarks(k),
             r \in {"", "limit", "tip"} \cup IF Pending = {k} THEN {"bound"} ELSE {} :
                frame' = Replayed(k, c, r)
    BY <1>5, Zenon DEF ReplayEvent, Replayed, k
  <2>8. r \in Ends
    BY <2>7 DEF Ends
  <2>9. \A j \in 1..Len(log) : c # None /\ (j > k \/ (j = k /\ k = k)) => c <= log[j]
    BY <1>0, <2>4, <2>6, <2>7, MarksAreBelow
  <2>10. QED
    BY <1>4, <2>1, <2>2, <2>4, <2>5, <2>7, <2>8, <2>9
<1>6. CASE ReplayProgress
  <2> DEFINE k == IF Pending = {} THEN Bound ELSE Next1(Pending) - 1
  <2>1. after' = k
    BY <1>6 DEF ReplayProgress
  <2>2. k \in 0..Bound /\ (after # None => \A j \in 1..Bound : j > k => j > after)
    <3>1. CASE Pending = {}
      BY <1>2, <3>1
    <3>2. CASE Pending # {}
      <4> DEFINE n == Next1(Pending)
      <4>1. n \in 1..Bound /\ n \in Pending /\ k = n - 1
        BY <1>2, <3>2
      <4>2. after # None => after \in Nat /\ n > after
        BY <1>2, <4>1 DEF Pending, Options
      <4> HIDE DEF n, k
      <4>3. QED
        BY <1>2, <4>1, <4>2
    <3>3. QED
      BY <3>1, <3>2
  <2>3. PICK c \in Watermarks(k), r \in IF Pending = {} THEN {"bound"} ELSE {"limit", "tip"} :
                frame' = Replayed(0, c, r)
    BY <1>6, Zenon DEF ReplayProgress, Replayed
  <2> HIDE DEF k
  <2>4. k \in 0..Len(log) /\ k <= Bound /\ 0 \in {0, k} /\ ~(k # 0 /\ 0 = k)
    BY <1>2, <1>3, <2>2
  <2>5. r \in Ends
    BY <2>3 DEF Ends
  <2>6. ASSUME NEW j \in 1..Len(log), j > k, c # None PROVE c <= log[j]
    BY <1>0, <2>3, <2>4, <2>6, MarksAreBelow
  <2>7. \A j \in 1..Len(log) : c # None /\ (j > k \/ (j = k /\ 0 = k)) => c <= log[j]
    BY <2>6
  <2>8. QED
    BY <1>4, <2>1, <2>2, <2>3, <2>4, <2>5, <2>7
<1>7. QED
  BY <1>5, <1>6

(* When a frame is done, what comes is after its event.                       *)
LEMMA LeaveComing ==
    ASSUME Ledger, Position, ReplayPlace, phase = "event", LeaveFrame,
           UNCHANGED <<log, live, start, after>>
    PROVE  /\ Coming' \subseteq Coming /\ ReplayPlace'
           /\ \A k \in Coming' : frame.ev <= k
           /\ phase' = "watermark" => AtOrBelow(frame.cp, Coming)'
<1>1. /\ InFrame /\ frame \in AnyFrames /\ frame.ev \in 0..Len(log) /\ frame.from \in {"replay", "live"}
      /\ frame.from = "live" => live \in 0..Len(log) /\ frame.ev \in {0, live}
  BY DEF Position, AtFrame, InFrame, AnyFrames
<1>2. Len(log) \in Nat /\ \A j \in 1..Len(log) : log[j] \in Nat
  BY LedgerFacts
<1>3. CASE frame.from = "live"
  <2>1. phase' = "live"
    BY <1>3 DEF LeaveFrame
  <2>2. ~InFrame' /\ ~Replaying' /\ ReplayPlace'
    BY <2>1 DEF InFrame, Replaying, ReplayPlace
  <2>3. ASSUME NEW k \in Coming' PROVE k \in 1..Len(log) /\ k > live
    BY <2>1, <2>2, <2>3 DEF Coming, Comes
  <2>4. Coming' \subseteq Coming
    BY <1>1, <1>3, <2>3 DEF Coming, Comes
  <2>5. \A k \in Coming' : frame.ev <= k
    BY <1>1, <1>2, <1>3, <2>3
  <2>6. QED
    BY <2>1, <2>2, <2>4, <2>5
<1>4. CASE frame.from = "replay"
  <2>1. /\ live \in 0..Len(log) /\ after \in Options(Nat)
        /\ first \in AnyFrames /\ first.from = "live" /\ first.ev \in {0, live}
        /\ first.cp # None => first.cp <= tip /\ \A j \in 1..Len(log) : log[j] < first.cp => j <= Bound
    BY <1>1, <1>4 DEF Position, AtReplay, Replaying
  <2>2. /\ Bound \in Nat /\ Bound <= Len(log)
        /\ first.ev = 0 => live = Bound
        /\ first.ev # 0 => first.ev = Bound + 1 /\ live = Bound + 1
    BY <1>2, <2>1 DEF Bound
  <2>3. frame.ev \in {0, after} /\ frame.ev <= Bound /\ Replaying
    BY <1>1, <1>4 DEF ReplayPlace, Replaying
  <2>4. CASE frame.end = "bound"
    <3>1. frame' = first /\ phase' = "watermark"
      BY <1>4, <2>4 DEF LeaveFrame
    <3>2. ReplayPlace' /\ ~Replaying'
      BY <2>1, <3>1 DEF ReplayPlace, Replaying
    <3>3. ASSUME NEW k \in Coming' PROVE k \in 1..Len(log) /\ k > Bound
      <4>1. k \in 1..Len(log) /\ (k = first.ev \/ k > live)
        BY <3>1, <3>2, <3>3 DEF Coming, Comes
      <4>2. QED
        BY <1>2, <2>1, <2>2, <4>1
    <3>4. Coming' \subseteq Coming
      BY <2>3, <3>3 DEF Coming, Comes
    <3>5. \A k \in Coming' : frame.ev <= k
      BY <1>1, <1>2, <2>2, <2>3, <3>3
    <3>6. AtOrBelow(frame.cp, Coming)'
      <4>1. SUFFICES ASSUME first.cp # None, NEW k \in Coming' PROVE first.cp <= log[k]
        BY <3>1 DEF AtOrBelow
      <4>2. k \in 1..Len(log) /\ ~(log[k] < first.cp)
        BY <1>2, <2>1, <2>2, <3>3, <4>1
      <4>3. first.cp \in Checkpoints
        BY <2>1, <4>1 DEF AnyFrames, Options
      <4>4. QED
        BY <1>2, <4>2, <4>3 DEF Checkpoints
    <3>7. QED
      BY <3>2, <3>4, <3>5, <3>6
  <2>5. CASE frame.end # "bound"
    <3>1. phase' \in {"replay", "request"} /\ first' = first
      BY <1>4, <2>5 DEF LeaveFrame
    <3>2. Replaying' /\ ~InFrame' /\ ReplayPlace' /\ Bound' = Bound
      BY <3>1 DEF Replaying, InFrame, ReplayPlace, Bound
    <3>3. ASSUME NEW k \in Coming'
          PROVE  k \in 1..Len(log) /\ (k > Bound \/ (log[k] >= start /\ (after = None \/ k > after)))
      BY <3>1, <3>2, <3>3 DEF Coming, Comes
    <3>4. Coming' \subseteq Coming
      BY <2>3, <3>3 DEF Coming, Comes
    <3>5. ASSUME NEW k \in Coming' PROVE frame.ev <= k
      <4>1. CASE frame.ev = 0 \/ k > Bound
        BY <1>1, <1>2, <2>2, <2>3, <3>3, <4>1
      <4>2. CASE frame.ev = after /\ k > after
        <5>1. after \in Nat
          BY <1>1, <1>2, <4>2
        <5>2. QED
          BY <1>2, <3>3, <4>2, <5>1
      <4>3. frame.ev = after => after # None
        BY <1>1, <1>2, ConfigAssumption
      <4>4. QED
        BY <2>3, <3>3, <4>1, <4>2, <4>3
    <3>6. QED
      BY <3>1, <3>2, <3>4, <3>5
  <2>6. QED
    BY <2>4, <2>5
<1>5. QED
  BY <1>1, <1>3, <1>4

(* The ledger grows above all that was reported.                              *)
LEMMA GrowComing ==
    ASSUME DeliveryInv, Grow
    PROVE  \A k \in Coming' : k \in Coming \/ (k \in 1..Len(log') /\ k > Len(log) /\ log'[k] = tip + 1)
<1>1. Ledger
  BY DEF DeliveryInv, Store
<1>2. UNCHANGED <<phase, first, live, start, after, frame>>
  BY DEF Grow, driverVars
<1>3. Bound' = Bound /\ InFrame' = InFrame /\ Replaying' = Replaying
  BY <1>2 DEF Bound, InFrame, Replaying
<1>4. ASSUME NEW k \in Coming', k <= Len(log) PROVE k \in Coming
  <2>1. k \in 1..Len(log) /\ log'[k] = log[k]
    BY <1>1, <1>4, GrowFacts DEF Coming
  <2>2. Comes(k)
    BY <1>2, <1>3, <1>4, <2>1 DEF Coming, Comes
  <2>3. QED
    BY <2>1, <2>2 DEF Coming
<1>5. QED
  BY <1>1, <1>4, GrowFacts DEF Coming

LEMMA AdvanceFacts ==
    ASSUME NEW m \in Options(Checkpoints), NEW c \in Checkpoints
    PROVE  /\ Advance(m, c) \in Checkpoints /\ Advance(m, c) # None
           /\ c <= Advance(m, c)
           /\ m # None => m <= Advance(m, c)
           /\ Advance(m, c) = m \/ Advance(m, c) = c
  BY ConfigAssumption DEF Advance, Above, Options, Checkpoints

LEMMA GrowOrder == ASSUME DeliveryInv, OrderInv, Grow PROVE OrderInv'
<1>1. Ledger /\ AtFrame
  BY DEF DeliveryInv, Store, Position
<1>2. UNCHANGED <<phase, resume, highest, first, live, after, frame>>
  BY DEF Grow, driverVars
<1>3. /\ tip' = tip + 1 /\ tip \in Nat /\ Len(log) \in Nat
      /\ \A k \in 1..Len(log) : log'[k] = log[k]
  BY <1>1, LedgerFacts, GrowFacts
<1>4. ReplayPlace'
  BY <1>2 DEF OrderInv, ReplayPlace, InFrame, Bound
<1>5. Reported'
  BY <1>2, <1>3 DEF OrderInv, Reported, Options, Checkpoints
<1>6. ASSUME NEW c \in Checkpoints, c <= tip, AtOrBelow(c, Coming), NEW k \in Coming' PROVE c <= log'[k]
  <2>1. k \in Coming \/ log'[k] = tip + 1
    BY <1>6, GrowComing
  <2>2. CASE k \in Coming
    <3>1. k \in 1..Len(log) /\ c <= log[k]
      BY <1>6, <2>2, ConfigAssumption DEF Coming, AtOrBelow, Checkpoints
    <3>2. QED
      BY <1>3, <3>1
  <2>3. CASE log'[k] = tip + 1
    BY <1>3, <1>6, <2>3 DEF Checkpoints
  <2>4. QED
    BY <2>1, <2>2, <2>3
<1>7. AtOrBelow(highest, Coming)'
  <2>1. SUFFICES ASSUME highest # None, NEW k \in Coming' PROVE highest <= log'[k]
    BY <1>2 DEF AtOrBelow
  <2>2. highest \in Checkpoints /\ highest <= tip /\ AtOrBelow(highest, Coming)
    BY <2>1 DEF OrderInv, Reported, Options
  <2>3. QED
    BY <1>6, <2>2
<1>8. ASSUME phase' = "watermark" PROVE AtOrBelow(frame.cp, Coming)'
  <2>1. SUFFICES ASSUME frame.cp # None, NEW k \in Coming' PROVE frame.cp <= log'[k]
    BY <1>2 DEF AtOrBelow
  <2>2. frame.cp \in Checkpoints /\ frame.cp <= tip /\ AtOrBelow(frame.cp, Coming)
    BY <1>1, <1>2, <1>8, <2>1 DEF OrderInv, AtFrame, InFrame, AnyFrames, Options
  <2>3. QED
    BY <1>6, <2>2
<1>9. QED
  BY <1>4, <1>5, <1>7, <1>8 DEF OrderInv

(* A step that reports nothing and from which nothing more comes.             *)
LEMMA SilentOrder ==
    ASSUME OrderInv, UNCHANGED <<log, tip, resume, highest>>, Coming' \subseteq Coming,
           ReplayPlace', phase' = "watermark" => AtOrBelow(frame.cp, Coming)'
    PROVE  OrderInv'
<1>1. Reported'
  BY DEF OrderInv, Reported
<1>2. AtOrBelow(highest, Coming)'
  BY DEF OrderInv, AtOrBelow
<1>3. QED
  BY <1>1, <1>2 DEF OrderInv

(* A checkpoint taken by resume and maybe by highest.                         *)
LEMMA ReportOrder ==
    ASSUME DeliveryInv, OrderInv, NEW c \in Checkpoints, c <= tip, UNCHANGED <<log, tip>>,
           resume' = Advance(resume, c), highest' = highest \/ highest' = Advance(highest, c),
           Coming' \subseteq Coming, \A k \in Coming' : c <= log[k],
           ReplayPlace', phase' = "watermark" => AtOrBelow(frame.cp, Coming)'
    PROVE  OrderInv'
<1>1. Ledger /\ Resumes
  BY DEF DeliveryInv, Store
<1>2. /\ resume \in Options(Checkpoints) /\ highest \in Options(Checkpoints) /\ tip \in Nat
      /\ highest # None => highest <= tip /\ resume # None /\ highest <= resume
  BY <1>1, LedgerFacts DEF Resumes, OrderInv, Reported
<1>3. /\ resume' \in Checkpoints /\ resume' # None /\ c <= resume'
      /\ resume # None => resume <= resume'
  BY <1>2, AdvanceFacts
<1>4. highest' = highest \/ highest' = c
  BY <1>2, AdvanceFacts
<1>5. Reported'
  <2>1. CASE highest' = c
    BY <1>3, <2>1 DEF Reported, Options
  <2>2. CASE highest' = highest
    <3>1. highest # None => highest \in Checkpoints /\ resume \in Checkpoints
      BY <1>2 DEF Options
    <3>2. highest # None => highest <= resume'
      BY <1>2, <1>3, <3>1 DEF Checkpoints
    <3>3. QED
      BY <1>2, <1>3, <2>2, <3>2 DEF Reported
  <2>3. QED
    BY <1>4, <2>1, <2>2
<1>6. AtOrBelow(highest, Coming)'
  BY <1>4 DEF OrderInv, AtOrBelow
<1>7. QED
  BY <1>5, <1>6 DEF OrderInv

(* What a frame carries is of the ledger.                                     *)
LEMMA FrameFacts ==
    ASSUME DeliveryInv, InFrame
    PROVE  /\ frame.cp # None => frame.cp \in Checkpoints /\ frame.cp <= tip
           /\ frame.ev # 0 =>
                 /\ frame.ev \in 1..Len(log) /\ frame.ev \in Coming
                 /\ log[frame.ev] \in Checkpoints /\ log[frame.ev] <= tip
<1>1. Ledger /\ frame \in AnyFrames /\ frame.ev \in 0..Len(log) /\ (frame.cp # None => frame.cp <= tip)
  BY DEF DeliveryInv, Store, Position, AtFrame
<1>2. Len(log) \in Nat
  BY <1>1, LedgerFacts
<1>3. frame.cp # None => frame.cp \in Checkpoints
  BY <1>1 DEF AnyFrames, Options
<1>4. frame.ev # 0 => frame.ev \in 1..Len(log)
  BY <1>1, <1>2
<1>5. QED
  BY <1>1, <1>3, <1>4, LedgerFacts DEF Ledger, Coming, Comes

LEMMA WatermarkOrder == ASSUME DeliveryInv, OrderInv, ProcessWatermark PROVE OrderInv'
<1>1. /\ phase = "watermark" /\ phase' = "event" /\ InFrame
      /\ UNCHANGED <<log, tip, live, start, after, first, frame>>
  BY DEF ProcessWatermark, ledgerVars, InFrame
<1>2. Coming' = Coming /\ Bound' = Bound
  BY <1>1, ComingStays
<1>3. ReplayPlace'
  BY <1>1, <1>2 DEF OrderInv, ReplayPlace, InFrame
<1>4. CASE frame.cp = None
  <2>1. UNCHANGED <<resume, highest>>
    BY <1>4 DEF ProcessWatermark
  <2>2. QED
    BY <1>1, <1>2, <1>3, <2>1, SilentOrder
<1>5. CASE frame.cp # None
  <2>1. frame.cp \in Checkpoints /\ frame.cp <= tip
    BY <1>1, <1>5, FrameFacts
  <2>2. resume' = Advance(resume, frame.cp) /\ (highest' = highest \/ highest' = Advance(highest, frame.cp))
    BY <1>5 DEF ProcessWatermark, Send
  <2>3. \A k \in Coming' : frame.cp <= log[k]
    BY <1>1, <1>2, <1>5 DEF OrderInv, AtOrBelow
  <2>4. QED
    BY <1>1, <1>2, <1>3, <2>1, <2>2, <2>3, ReportOrder
<1>6. QED
  BY <1>4, <1>5

(* The event of a frame is at or below what comes after it.                   *)
LEMMA EventComing ==
    ASSUME DeliveryInv, OrderInv, NoEvent \/ ProcessEvent
    PROVE  /\ Coming' \subseteq Coming /\ ReplayPlace' /\ UNCHANGED <<log, tip>>
           /\ phase' = "watermark" => AtOrBelow(frame.cp, Coming)'
           /\ frame.ev # 0 => \A k \in Coming' : log[frame.ev] <= log[k]
<1>1. Ledger /\ Position /\ ReplayPlace
  BY DEF DeliveryInv, Store, OrderInv
<1>2. /\ phase = "event" /\ LeaveFrame /\ InFrame
      /\ UNCHANGED <<log, tip, live, start, after>>
  BY DEF NoEvent, ProcessEvent, ledgerVars, InFrame
<1>3. /\ Coming' \subseteq Coming /\ ReplayPlace'
      /\ \A k \in Coming' : frame.ev <= k
      /\ phase' = "watermark" => AtOrBelow(frame.cp, Coming)'
  BY <1>1, <1>2, LeaveComing
<1>4. ASSUME frame.ev # 0, NEW k \in Coming' PROVE log[frame.ev] <= log[k]
  <2>1. frame.ev \in 1..Len(log) /\ k \in 1..Len(log) /\ frame.ev <= k
    BY <1>2, <1>3, <1>4, FrameFacts DEF Coming
  <2>2. QED
    BY <1>1, <2>1 DEF Ledger
<1>5. QED
  BY <1>2, <1>3, <1>4

LEMMA EventOrder == ASSUME DeliveryInv, OrderInv, NoEvent \/ ProcessEvent PROVE OrderInv'
<1>1. /\ Coming' \subseteq Coming /\ ReplayPlace' /\ UNCHANGED <<log, tip>>
      /\ phase' = "watermark" => AtOrBelow(frame.cp, Coming)'
      /\ frame.ev # 0 => \A k \in Coming' : log[frame.ev] <= log[k]
  BY EventComing
<1>2. CASE NoEvent
  <2>1. UNCHANGED <<resume, highest>>
    BY <1>2 DEF NoEvent
  <2>2. QED
    BY <1>1, <2>1, SilentOrder
<1>3. CASE ProcessEvent
  <2> DEFINE c == log[frame.ev]
  <2>1. frame.ev # 0 /\ InFrame
    BY <1>3 DEF ProcessEvent, InFrame
  <2>2. c \in Checkpoints /\ c <= tip
    BY <2>1, FrameFacts
  <2>3. resume' = Advance(resume, c) /\ (highest' = highest \/ highest' = Advance(highest, c))
    BY <1>3 DEF ProcessEvent, Send
  <2>4. \A k \in Coming' : c <= log[k]
    BY <1>1, <2>1
  <2> HIDE DEF c
  <2>5. QED
    BY <1>1, <2>2, <2>3, <2>4, ReportOrder
<1>4. QED
  BY <1>2, <1>3

(* The steps that connect: what comes is of the checkpoint resumed from, or   *)
(* after all that was in the ledger.                                          *)
LEMMA ConnectComing ==
    ASSUME DeliveryInv, Subscribe \/ FirstFrame
    PROVE  /\ \A k \in Coming' : k \in 1..Len(log) /\ (k \in Coming \/ (resume # None /\ resume <= log[k]))
           /\ ReplayPlace' /\ (phase' = "watermark" => AtOrBelow(frame.cp, Coming)')
           /\ UNCHANGED <<log, tip, resume, highest>>
<1>0. Ledger /\ Resumes /\ Len(log) \in Nat
  BY LedgerFacts DEF DeliveryInv, Store
<1>u. UNCHANGED <<log, tip, resume, highest>>
  BY DEF Subscribe, FirstFrame, ledgerVars
<1>1. CASE Subscribe
  <2>1. phase' = "first" /\ live' = Len(log) /\ ~InFrame' /\ ~Replaying'
    BY <1>1 DEF Subscribe, InFrame, Replaying
  <2>2. Coming' = {}
    BY <1>0, <1>u, <2>1 DEF Coming, Comes
  <2>3. QED
    BY <1>u, <2>1, <2>2 DEF ReplayPlace
<1>2. CASE FirstFrame
  <2>1. PICK f \in Frames :
           /\ LiveFrame(f)
           /\ PastFrame(f)
           /\ IF resume = None
              THEN frame' = f /\ first' = None /\ phase' = "watermark"
              ELSE first' = f /\ phase' = "request" /\ UNCHANGED frame
    BY <1>2 DEF FirstFrame
  <2>2. phase = "first" /\ start' = resume /\ live \in 0..Len(log)
    BY <1>2 DEF FirstFrame, DeliveryInv, Position, AtFirst
  <2>3. CASE resume = None
    <3>1. Coming' \subseteq Coming /\ AtOrBelow(frame.cp, Coming)' /\ ReplayPlace'
      BY <1>0, <1>u, <2>1, <2>2, <2>3, LiveComing
    <3>2. QED
      BY <1>u, <3>1 DEF Coming
  <2>4. CASE resume # None
    <3>1. /\ live' \in 0..Len(log) /\ f.ev \in {0, live'}
          /\ f.ev # 0 => f.ev = live + 1
          /\ f.ev = 0 => live' = live
      BY <1>0, <2>1, <2>2, LiveFrameFacts
    <3>2. first' = f /\ phase' = "request" /\ ~InFrame' /\ Replaying' /\ ReplayPlace'
      BY <2>1, <2>4 DEF InFrame, Replaying, ReplayPlace
    <3>3. Bound' = live
      BY <1>0, <2>2, <3>1, <3>2 DEF Bound
    <3>4. ASSUME NEW k \in Coming'
          PROVE  k \in 1..Len(log) /\ (k \in Coming \/ (resume # None /\ resume <= log[k]))
      <4>1. k \in 1..Len(log) /\ (k > live \/ log[k] >= resume)
        BY <1>u, <2>2, <3>2, <3>3, <3>4 DEF Coming, Comes
      <4>2. log[k] \in Nat /\ resume \in Nat
        BY <1>0, <2>4, <4>1, LedgerFacts DEF Resumes, Options, Checkpoints
      <4>3. QED
        BY <2>2, <2>4, <4>1, <4>2 DEF Coming, Comes
    <3>5. QED
      BY <1>u, <3>2, <3>4
  <2>5. QED
    BY <2>3, <2>4
<1>3. QED
  BY <1>1, <1>2

LEMMA ConnectOrder == ASSUME DeliveryInv, OrderInv, Subscribe \/ FirstFrame PROVE OrderInv'
<1>1. /\ \A k \in Coming' : k \in 1..Len(log) /\ (k \in Coming \/ (resume # None /\ resume <= log[k]))
      /\ ReplayPlace' /\ (phase' = "watermark" => AtOrBelow(frame.cp, Coming)')
      /\ UNCHANGED <<log, tip, resume, highest>>
  BY ConnectComing
<1>2. Ledger /\ Resumes
  BY DEF DeliveryInv, Store
<1>3. AtOrBelow(highest, Coming)'
  <2>1. SUFFICES ASSUME highest # None, NEW k \in Coming' PROVE highest <= log[k]
    BY <1>1 DEF AtOrBelow
  <2>2. CASE k \in Coming
    BY <2>1, <2>2 DEF OrderInv, AtOrBelow
  <2>3. CASE resume # None /\ resume <= log[k]
    <3>1. highest \in Nat /\ resume \in Nat /\ highest <= resume
      BY <1>2, <2>1, <2>3 DEF OrderInv, Reported, Resumes, Options, Checkpoints
    <3>2. log[k] \in Nat
      BY <1>1, <1>2, LedgerFacts
    <3>3. QED
      BY <2>3, <3>1, <3>2
  <2>4. QED
    BY <1>1, <2>2, <2>3
<1>4. Reported'
  BY <1>1 DEF OrderInv, Reported
<1>5. QED
  BY <1>1, <1>3, <1>4 DEF OrderInv

(* What comes in every other step of the driver and the consumer.             *)
LEMMA OtherComing ==
    ASSUME DeliveryInv, OrderInv,
           \/ ListEvents \/ ReplayEvent \/ ReplayProgress \/ ReceiveLive \/ Report \/ Reconnect
           \/ Break \/ Cancel \/ Consume \/ UNCHANGED vars
    PROVE  /\ Coming' \subseteq Coming /\ UNCHANGED <<log, tip, resume, highest>>
           /\ ReplayPlace' /\ (phase' = "watermark" => AtOrBelow(frame.cp, Coming)')
<1>u. UNCHANGED <<log, tip, resume, highest>>
  BY DEF ListEvents, ReplayEvent, ReplayProgress, ReceiveLive, Report, Reconnect, Break, Cancel, Consume,
         vars, ledgerVars, driverVars
<1>1. CASE ReplayEvent \/ ReplayProgress
  BY <1>u, <1>1, ReplayComing
<1>2. CASE ReceiveLive
  <2>1. PICK f \in Frames : LiveFrame(f) /\ PastFrame(f) /\ frame' = f
    BY <1>2 DEF ReceiveLive
  <2>2. Ledger /\ live \in 0..Len(log) /\ phase = "live" /\ phase' = "watermark"
    BY <1>2 DEF DeliveryInv, Store, Position, AtLive, ReceiveLive
  <2>3. QED
    BY <1>u, <2>1, <2>2, LiveComing
<1>3. CASE Report \/ Reconnect \/ Break \/ Cancel
  <2>1. phase' \in {"connect", "report", "backoff", "stopped"}
    BY <1>3 DEF Report, Reconnect, Break, Cancel
  <2>2. QED
    BY <1>u, <2>1, NothingComes
<1>4. CASE ListEvents \/ Consume \/ UNCHANGED vars
  <2>1. /\ UNCHANGED <<log, live, start, after, first, frame>>
        /\ UNCHANGED phase \/ (phase = "request" /\ phase' = "replay")
    BY <1>4 DEF ListEvents, Consume, vars, ledgerVars, driverVars
  <2>2. Coming' = Coming /\ Bound' = Bound
    BY <2>1, ComingStays
  <2>3. ReplayPlace' /\ (phase' = "watermark" => AtOrBelow(frame.cp, Coming)')
    BY <1>u, <2>1, <2>2 DEF OrderInv, ReplayPlace, InFrame, AtOrBelow
  <2>4. QED
    BY <1>u, <2>2, <2>3
<1>5. QED
  BY <1>1, <1>2, <1>3, <1>4

LEMMA RestartOrder == ASSUME Restart PROVE OrderInv'
<1>1. phase' = "connect" /\ highest' = None
  BY DEF Restart
<1>2. Coming' = {} /\ ReplayPlace' /\ phase' # "watermark"
  BY <1>1, NothingComes
<1>3. QED
  BY <1>1, <1>2 DEF OrderInv, Reported, AtOrBelow, Options

THEOREM Order == Spec => [](DeliveryInv /\ OrderInv)
<1>1. Init => OrderInv
  <2>1. Init => phase = "connect" /\ highest = None
    BY DEF Init
  <2>2. QED
    BY <2>1 DEF OrderInv, Reported, ReplayPlace, AtOrBelow, InFrame, Options
<1>2. DeliveryInv /\ OrderInv /\ [Next]_vars => OrderInv'
  <2> SUFFICES ASSUME DeliveryInv, OrderInv, [Next]_vars PROVE OrderInv'
    OBVIOUS
  <2>1. CASE Grow
    BY <2>1, GrowOrder
  <2>2. CASE Subscribe \/ FirstFrame
    BY <2>2, ConnectOrder
  <2>3. CASE ProcessWatermark
    BY <2>3, WatermarkOrder
  <2>4. CASE NoEvent \/ ProcessEvent
    BY <2>4, EventOrder
  <2>5. CASE \/ ListEvents \/ ReplayEvent \/ ReplayProgress \/ ReceiveLive \/ Report \/ Reconnect
             \/ Break \/ Cancel \/ Consume \/ UNCHANGED vars
    BY <2>5, OtherComing, SilentOrder
  <2>6. CASE Restart
    BY <2>6, RestartOrder
  <2>7. QED
    BY <2>1, <2>2, <2>3, <2>4, <2>5, <2>6 DEF Next, Drive
<1>3. QED
  BY <1>1, <1>2, Delivery, PTL DEF Spec

(* Only two steps send a page.                                                *)
LEMMA PageSteps ==
    ASSUME DeliveryInv, [Next]_vars, PageSent
    PROVE  /\ ProcessWatermark \/ ProcessEvent
           /\ ProcessWatermark =>
                 frame.cp # None /\ Above(frame.cp, highest) /\ Newest' = Page({}, frame.cp)
           /\ ProcessEvent => Newest' = Page({frame.ev} \ Ignored, log[frame.ev])
<1>1. chan \in Seq(AnyMessages) /\ Len(chan) \in Nat /\ Position
  BY LenProperties DEF DeliveryInv, Store, Queued
<1>2. ASSUME NEW m \in AnyMessages, chan' = Append(chan, m) PROVE Newest' = m
  BY <1>1, <1>2, AppendProperties DEF Newest
<1>3. chan' # chan /\ chan' # <<>> /\ ~Consume
  <2>1. Len(chan') > Len(chan)
    BY DEF PageSent
  <2>2. chan' # chan
    BY <1>1, <2>1
  <2>3. chan' # <<>>
    <3>1. Len(<<>>) = 0
      BY EmptySeq
    <3>2. QED
      BY <1>1, <2>1, <3>1
  <2>4. ~Consume
    <3>1. SUFFICES ASSUME Consume PROVE FALSE
      OBVIOUS
    <3>2. chan # <<>> /\ chan' = Tail(chan)
      BY <3>1 DEF Consume
    <3>3. Len(chan') = Len(chan) - 1
      BY <1>1, <3>2, HeadTailProperties
    <3>4. QED
      BY <1>1, <2>1, <3>3
  <2>5. QED
    BY <2>2, <2>3, <2>4
<1>4. ~Report
  <2>1. SUFFICES ASSUME Report PROVE FALSE
    OBVIOUS
  <2>2. failure \in Failed /\ chan' = Append(chan, Error(failure))
    BY <1>1, <2>1 DEF Report, Position, AtReport
  <2>3. Error(failure) \in AnyMessages /\ Error(failure).kind # "page"
    BY <2>2 DEF Error, AnyMessages, Failed, Options
  <2>4. QED
    BY <1>2, <2>2, <2>3 DEF PageSent
<1>5. ProcessWatermark \/ ProcessEvent
  BY <1>3, <1>4 DEF Next, Drive, Grow, Subscribe, FirstFrame, ListEvents, ReplayEvent, ReplayProgress,
     ReceiveLive, NoEvent, Reconnect, Break, Cancel, Restart, vars
<1>6. ASSUME NEW c \in Checkpoints, NEW e \in SUBSET (1..Len(log)) PROVE Page(e, c) \in AnyMessages
  <2>1. e \in SUBSET Nat
    BY LedgerFacts DEF DeliveryInv, Store
  <2>2. QED
    BY <2>1 DEF Page, AnyMessages, Options
<1>7. ASSUME ProcessWatermark
      PROVE  frame.cp # None /\ Above(frame.cp, highest) /\ Newest' = Page({}, frame.cp)
  <2>1. frame.cp # None /\ Above(frame.cp, highest) /\ chan' = Append(chan, Page({}, frame.cp)) /\ InFrame
    BY <1>3, <1>7 DEF ProcessWatermark, Send, InFrame
  <2>2. Page({}, frame.cp) \in AnyMessages
    BY <1>6, <2>1, FrameFacts
  <2>3. QED
    BY <1>2, <2>1, <2>2
<1>8. ASSUME ProcessEvent PROVE Newest' = Page({frame.ev} \ Ignored, log[frame.ev])
  <2>1. frame.ev # 0 /\ InFrame /\ chan' = Append(chan, Page({frame.ev} \ Ignored, log[frame.ev]))
    BY <1>3, <1>8 DEF ProcessEvent, Send, InFrame
  <2>2. Page({frame.ev} \ Ignored, log[frame.ev]) \in AnyMessages
    BY <1>6, <2>1, FrameFacts
  <2>3. QED
    BY <1>2, <2>1, <2>2
<1>9. QED
  BY <1>5, <1>7, <1>8

(* The checkpoints of pages never go back within one ingestion.               *)
THEOREM PagesGoForward == Spec => PagesInOrder
<1>1. ASSUME DeliveryInv, OrderInv, [Next]_vars, PageSent, highest # None
      PROVE  Newest'.checkpoint >= highest
  <2>1. highest \in Nat
    BY <1>1 DEF OrderInv, Reported, Options, Checkpoints
  <2>2. CASE ProcessWatermark
    <3>1. frame.cp \in Nat /\ frame.cp > highest /\ Newest'.checkpoint = frame.cp
      <4>1. frame.cp # None /\ Above(frame.cp, highest) /\ Newest' = Page({}, frame.cp) /\ InFrame
        BY <1>1, <2>2, PageSteps DEF ProcessWatermark, InFrame
      <4>2. QED
        BY <1>1, <4>1, FrameFacts DEF Above, Page, Checkpoints
    <3>2. QED
      BY <2>1, <3>1
  <2>3. CASE ProcessEvent
    <3>1. /\ frame.ev # 0 /\ InFrame
          /\ Newest' = Page({frame.ev} \ Ignored, log[frame.ev])
      BY <1>1, <2>3, PageSteps DEF ProcessEvent, InFrame
    <3>2. frame.ev \in Coming /\ log[frame.ev] \in Checkpoints
      BY <1>1, <3>1, FrameFacts
    <3>3. highest <= log[frame.ev]
      BY <1>1, <3>2 DEF OrderInv, AtOrBelow
    <3>4. QED
      BY <2>1, <3>1, <3>2, <3>3 DEF Page, Checkpoints
  <2>4. QED
    BY <1>1, <2>2, <2>3, PageSteps
<1>2. DeliveryInv /\ OrderInv /\ [Next]_vars
         => [PageSent /\ highest # None => Newest'.checkpoint >= highest]_vars
  BY <1>1
<1>3. QED
  BY <1>2, Order, PTL DEF Spec, PagesInOrder

-------------------------------------------------------------------------------
(* What is delivered twice is recent.  While the consumer crashed at most     *)
(* once, nothing it handled, and nothing on its way to it, is later than what *)
(* the connection may still deliver, nor than the checkpoint to resume from.  *)
(* The first crash keeps this because, until then, the pages were in order:   *)
(* the last one handled has the highest checkpoint.                           *)
Recent ==
    restarts <= 1 =>
        /\ \A j \in Had : resume # None /\ log[j] <= resume
        /\ \A j \in Had : AtOrBelow(log[j], Coming)

PageAt(i) == i \in 1..Len(chan) /\ chan[i].kind = "page"
FirstRun ==
    restarts = 0 =>
        /\ seen # None => highest # None /\ seen <= highest /\ \A j \in got : log[j] <= seen
        /\ \A i \in 1..Len(chan) : PageAt(i) =>
              /\ highest # None /\ chan[i].checkpoint <= highest
              /\ seen # None => seen <= chan[i].checkpoint
              /\ \A k \in chan[i].events : log[k] <= chan[i].checkpoint
              /\ \A h \in 1..i : PageAt(h) => chan[h].checkpoint <= chan[i].checkpoint
RecencyInv == restarts \in Nat /\ Recent /\ FirstRun

LEMMA HadFacts ==
    ASSUME DeliveryInv
    PROVE  /\ Had \subseteq 1..Len(log) /\ got \subseteq Had
           /\ \A j \in Had : log[j] \in Checkpoints /\ log[j] \in Nat /\ log[j] <= tip
<1>1. Ledger /\ Consumed /\ Queued /\ chan \in Seq(AnyMessages)
  BY DEF DeliveryInv, Store, Queued
<1>2. \A j : j \in Had <=> j \in got \/ \E i \in 1..Len(chan) : j \in chan[i].events
  BY <1>1, HadIsQueued
<1>3. Had \subseteq 1..Len(log) /\ got \subseteq Had
  BY <1>1, <1>2 DEF Consumed, Queued
<1>4. QED
  BY <1>1, <1>3, LedgerFacts DEF Ledger

(* A step that neither reports nor delivers.                                  *)
LEMMA SilentRecency ==
    ASSUME DeliveryInv, RecencyInv, UNCHANGED <<log, resume, highest, chan, got, seen, restarts>>,
           \A k \in Coming' : k \in Coming \/ (resume # None /\ resume <= log[k]),
           Coming' \subseteq 1..Len(log)
    PROVE  RecencyInv'
<1>1. Had' = Had
  BY DEF Had, HadBy
<1>2. FirstRun'
  BY DEF RecencyInv, FirstRun, PageAt
<1>3. Recent'
  <2>1. SUFFICES ASSUME restarts <= 1, NEW j \in Had, NEW k \in Coming' PROVE log[j] <= log[k]
    BY <1>1 DEF RecencyInv, Recent, AtOrBelow
  <2>2. log[j] \in Nat /\ log[j] # None /\ resume # None /\ log[j] <= resume /\ AtOrBelow(log[j], Coming)
    BY <2>1, HadFacts, ConfigAssumption DEF RecencyInv, Recent
  <2>3. CASE k \in Coming
    BY <2>2, <2>3 DEF AtOrBelow
  <2>4. CASE resume <= log[k]
    <3>1. Ledger /\ Resumes
      BY DEF DeliveryInv, Store
    <3>2. resume \in Nat /\ log[k] \in Nat
      BY <2>1, <2>2, <3>1, LedgerFacts DEF Resumes, Options, Checkpoints
    <3>3. QED
      BY <2>2, <2>4, <3>2
  <2>5. QED
    BY <2>1, <2>3, <2>4
<1>4. QED
  BY <1>2, <1>3 DEF RecencyInv

LEMMA GrowRecency == ASSUME DeliveryInv, RecencyInv, Grow PROVE RecencyInv'
<1>1. Ledger /\ Consumed /\ Queued
  BY DEF DeliveryInv, Store
<1>2. UNCHANGED <<resume, highest, chan, got, seen, restarts>> /\ Had' = Had
  BY DEF Grow, driverVars, consumerVars, boundVars, Had, HadBy
<1>3. /\ tip \in Nat /\ Len(log) \in Nat
      /\ \A k \in 1..Len(log) : log'[k] = log[k]
  BY <1>1, LedgerFacts, GrowFacts
<1>4. Recent'
  <2> SUFFICES ASSUME restarts <= 1, NEW j \in Had
               PROVE  resume # None /\ log'[j] <= resume /\ AtOrBelow(log[j], Coming)'
    BY <1>2 DEF Recent
  <2>1. /\ log'[j] = log[j] /\ log[j] \in Nat /\ log[j] # None /\ log[j] <= tip
        /\ resume # None /\ log[j] <= resume /\ AtOrBelow(log[j], Coming)
    BY <1>3, HadFacts, ConfigAssumption DEF RecencyInv, Recent
  <2>2. ASSUME NEW k \in Coming' PROVE log[j] <= log'[k]
    <3>1. CASE k \in Coming
      BY <1>3, <2>1, <3>1 DEF AtOrBelow, Coming
    <3>2. CASE log'[k] = tip + 1
      BY <1>3, <2>1, <3>2
    <3>3. QED
      BY <2>2, <3>1, <3>2, GrowComing
  <2>3. QED
    BY <2>1, <2>2 DEF AtOrBelow
<1>5. FirstRun'
  <2>1. \A j \in got : j \in 1..Len(log)
    BY <1>1 DEF Consumed
  <2>2. \A i \in 1..Len(chan) : \A j \in chan[i].events : j \in 1..Len(log)
    BY <1>1 DEF Queued
  <2>3. QED
    BY <1>2, <1>3, <2>1, <2>2 DEF RecencyInv, FirstRun, PageAt
<1>6. QED
  BY <1>2, <1>4, <1>5 DEF RecencyInv

(* A page, or none, with an event at most, at the checkpoint c, when what     *)
(* comes is at or above it.                                                   *)
LEMMA PageRecency ==
    ASSUME DeliveryInv, OrderInv, RecencyInv,
           NEW e \in SUBSET (1..Len(log)), NEW c \in Checkpoints,
           \A k \in e : log[k] = c,
           resume' = Advance(resume, c),
           \/ chan' = chan /\ highest' = highest
           \/ /\ chan' = Append(chan, Page(e, c)) /\ highest' = Advance(highest, c)
              /\ highest # None => highest <= c,
           UNCHANGED <<log, got, seen, restarts>>,
           Coming' \subseteq Coming, \A k \in Coming' : c <= log[k]
    PROVE  RecencyInv'
<1>1. /\ chan \in Seq(AnyMessages) /\ Len(chan) \in Nat /\ Resumes /\ Ledger
      /\ resume \in Options(Checkpoints) /\ highest \in Options(Checkpoints)
  BY LenProperties DEF DeliveryInv, Store, Queued, Resumes, OrderInv, Reported
<1>2. /\ resume' \in Checkpoints /\ resume' # None /\ c <= resume'
      /\ resume # None => resume <= resume'
  BY <1>1, AdvanceFacts
<1>3. Page(e, c) \in AnyMessages /\ Page(e, c).events = e /\ Page(e, c).kind = "page" /\ Page(e, c).checkpoint = c
  <2>1. e \in SUBSET Nat
    BY <1>1, LedgerFacts
  <2>2. QED
    BY <2>1 DEF Page, AnyMessages, Options
<1>4. Had' \subseteq Had \cup e
  <2>1. CASE chan' = chan
    BY <2>1 DEF Had, HadBy
  <2>2. CASE chan' = Append(chan, Page(e, c))
    BY <1>1, <1>3, <2>2, AppendHad
  <2>3. QED
    BY <2>1, <2>2
<1>5. Recent'
  <2> SUFFICES ASSUME restarts <= 1, NEW j \in Had \cup e
               PROVE  log[j] <= resume' /\ \A k \in Coming' : log[j] <= log[k]
    BY <1>2, <1>4 DEF Recent, AtOrBelow
  <2>1. CASE j \in e
    BY <1>2, <2>1
  <2>2. CASE j \in Had
    <3>1. /\ log[j] \in Nat /\ log[j] # None /\ resume # None /\ log[j] <= resume
          /\ AtOrBelow(log[j], Coming)
      BY <2>2, HadFacts, ConfigAssumption DEF RecencyInv, Recent
    <3>2. resume \in Nat /\ resume' \in Nat /\ resume <= resume'
      BY <1>1, <1>2, <3>1 DEF Options, Checkpoints
    <3>3. QED
      BY <3>1, <3>2 DEF AtOrBelow
  <2>3. QED
    BY <2>1, <2>2
<1>6. FirstRun'
  <2>1. CASE chan' = chan /\ highest' = highest
    BY <2>1 DEF RecencyInv, FirstRun, PageAt
  <2>2. CASE /\ chan' = Append(chan, Page(e, c)) /\ highest' = Advance(highest, c)
             /\ highest # None => highest <= c
    <3> SUFFICES ASSUME restarts = 0 PROVE FirstRun'
      BY DEF FirstRun
    <3>1. /\ Len(chan') = Len(chan) + 1 /\ chan'[Len(chan) + 1] = Page(e, c)
          /\ \A i \in 1..Len(chan) : chan'[i] = chan[i]
      BY <1>1, <1>3, <2>2, AppendHad
    <3>2. highest' \in Checkpoints /\ highest' # None /\ c <= highest' /\ (highest # None => highest <= highest')
      BY <1>1, <2>2, AdvanceFacts
    <3>3. \A i \in 1..Len(chan) : PageAt(i)' <=> PageAt(i)
      BY <1>1, <3>1 DEF PageAt
    <3>4. ASSUME seen # None
          PROVE  seen <= highest' /\ seen <= c /\ \A j \in got : log[j] <= seen
      <4>1. /\ highest # None /\ seen <= highest /\ (\A j \in got : log[j] <= seen)
            /\ seen \in Checkpoints
        BY <3>4 DEF RecencyInv, FirstRun, DeliveryInv, Store, Consumed, Options
      <4>2. highest \in Nat /\ seen \in Nat /\ c \in Nat /\ highest' \in Nat
        BY <1>1, <3>2, <4>1 DEF Options, Checkpoints
      <4>3. QED
        BY <2>2, <3>2, <4>1, <4>2
    <3>5. ASSUME NEW i \in 1..Len(chan), PageAt(i)
          PROVE  /\ chan[i].checkpoint <= highest' /\ chan[i].checkpoint <= c
                 /\ seen # None => seen <= chan[i].checkpoint
                 /\ \A k \in chan[i].events : log[k] <= chan[i].checkpoint
                 /\ \A h \in 1..i : PageAt(h) => chan[h].checkpoint <= chan[i].checkpoint
      <4>1. /\ highest # None /\ chan[i].checkpoint <= highest
            /\ seen # None => seen <= chan[i].checkpoint
            /\ \A k \in chan[i].events : log[k] <= chan[i].checkpoint
            /\ \A h \in 1..i : PageAt(h) => chan[h].checkpoint <= chan[i].checkpoint
        BY <3>5 DEF RecencyInv, FirstRun
      <4>2. chan[i].checkpoint \in Checkpoints
        BY <3>5 DEF PageAt, DeliveryInv, Store, Queued
      <4>3. highest \in Nat /\ chan[i].checkpoint \in Nat /\ c \in Nat /\ highest' \in Nat
        BY <1>1, <3>2, <4>1, <4>2 DEF Options, Checkpoints
      <4>4. QED
        BY <2>2, <3>2, <4>1, <4>3
    <3>6. ASSUME NEW i \in 1..Len(chan'), PageAt(i)'
          PROVE  /\ chan'[i].checkpoint <= highest'
                 /\ seen # None => seen <= chan'[i].checkpoint
                 /\ \A k \in chan'[i].events : log[k] <= chan'[i].checkpoint
                 /\ \A h \in 1..i : PageAt(h)' => chan'[h].checkpoint <= chan'[i].checkpoint
      <4>1. CASE i \in 1..Len(chan)
        <5>1. \A h \in 1..i : h \in 1..Len(chan)
          BY <1>1, <4>1
        <5>2. PageAt(i) /\ chan'[i] = chan[i]
          BY <3>1, <3>3, <3>6, <4>1
        <5>3. QED
          BY <3>1, <3>3, <3>5, <4>1, <5>1, <5>2
      <4>2. CASE i = Len(chan) + 1
        <5>1. chan'[i].checkpoint = c /\ chan'[i].events = e
          BY <1>3, <3>1, <4>2
        <5>2. ASSUME NEW h \in 1..i, PageAt(h)' PROVE chan'[h].checkpoint <= c
          <6>1. CASE h \in 1..Len(chan)
            BY <3>1, <3>3, <3>5, <5>2, <6>1
          <6>2. CASE h = i
            BY <5>1, <6>2 DEF Checkpoints
          <6>3. QED
            BY <1>1, <4>2, <6>1, <6>2
        <5>3. \A k \in e : log[k] <= c
          BY DEF Checkpoints
        <5>4. QED
          BY <3>2, <3>4, <5>1, <5>2, <5>3
      <4>3. QED
        BY <1>1, <3>1, <4>1, <4>2
    <3>7. QED
      BY <3>2, <3>4, <3>6 DEF FirstRun
  <2>3. QED
    BY <2>1, <2>2
<1>7. QED
  BY <1>5, <1>6 DEF RecencyInv

(* An error on its way changes nothing.                                       *)
LEMMA ReportRecency == ASSUME DeliveryInv, OrderInv, RecencyInv, Report PROVE RecencyInv'
<1>1. chan \in Seq(AnyMessages) /\ Len(chan) \in Nat /\ Position /\ Coming' \subseteq Coming
  BY LenProperties, OtherComing DEF DeliveryInv, Store, Queued
<1>2. /\ failure \in Failed /\ chan' = Append(chan, Error(failure))
      /\ UNCHANGED <<log, resume, highest, got, seen, restarts>>
  BY <1>1 DEF Report, Position, AtReport, ledgerVars, consumerVars, boundVars
<1>3. Error(failure) \in AnyMessages /\ Error(failure).events = {} /\ Error(failure).kind # "page"
  BY <1>2 DEF Error, AnyMessages, Failed, Options
<1>4. /\ Len(chan') = Len(chan) + 1 /\ chan'[Len(chan) + 1] = Error(failure)
      /\ \A i \in 1..Len(chan) : chan'[i] = chan[i]
      /\ Had' = Had \cup {}
  BY <1>1, <1>2, <1>3, AppendHad
<1>5. Recent'
  BY <1>1, <1>2, <1>4 DEF RecencyInv, Recent, AtOrBelow
<1>6. \A i : PageAt(i)' <=> PageAt(i)
  <2>1. \A i : i \in 1..Len(chan') <=> i \in 1..Len(chan) \/ i = Len(chan) + 1
    BY <1>1, <1>4
  <2>2. QED
    BY <1>1, <1>3, <1>4, <2>1 DEF PageAt
<1>7. FirstRun'
  <2> SUFFICES ASSUME restarts = 0 PROVE FirstRun'
    BY <1>2 DEF FirstRun
  <2>1. seen # None => highest # None /\ seen <= highest /\ \A j \in got : log[j] <= seen
    BY DEF RecencyInv, FirstRun
  <2>2. ASSUME NEW i, PageAt(i)
        PROVE  /\ chan'[i] = chan[i]
               /\ highest # None /\ chan[i].checkpoint <= highest
               /\ seen # None => seen <= chan[i].checkpoint
               /\ \A k \in chan[i].events : log[k] <= chan[i].checkpoint
               /\ \A h \in 1..i : PageAt(h) => chan[h].checkpoint <= chan[i].checkpoint
    BY <1>4, <2>2 DEF RecencyInv, FirstRun, PageAt
  <2>3. ASSUME NEW i, PageAt(i), NEW h \in 1..i, PageAt(h)
        PROVE  chan'[h].checkpoint <= chan'[i].checkpoint
    BY <2>2, <2>3
  <2>4. QED
    BY <1>2, <1>6, <2>1, <2>2, <2>3 DEF FirstRun
<1>8. QED
  BY <1>2, <1>5, <1>7 DEF RecencyInv

(* The consumer takes the pages in the order of their checkpoints.            *)
LEMMA ConsumeRecency == ASSUME DeliveryInv, OrderInv, RecencyInv, Consume PROVE RecencyInv'
<1>1. /\ Len(chan) \in Nat \ {0} /\ Head(chan) = chan[1]
      /\ Len(chan') = Len(chan) - 1
      /\ \A i \in 1..(Len(chan) - 1) : chan'[i] = chan[i + 1]
      /\ got' = got \cup chan[1].events
      /\ Had' = Had
  BY ConsumeFacts
<1>2. Coming' \subseteq Coming /\ UNCHANGED <<log, resume, highest, restarts>>
  BY OtherComing DEF Consume, boundVars
<1>3. IF chan[1].kind = "page" THEN seen' = chan[1].checkpoint ELSE seen' = seen
  BY <1>1 DEF Consume, consumerVars
<1>4. /\ 1 \in 1..Len(chan)
      /\ chan[1].kind = "page" => chan[1].checkpoint \in Checkpoints
      /\ chan[1].kind # "page" => chan[1].events = {}
      /\ seen \in Options(Checkpoints) /\ (seen = None => got = {})
      /\ got \subseteq 1..Len(log) /\ Ledger
  <2>1. 1 \in 1..Len(chan)
    BY <1>1
  <2>2. QED
    BY <2>1 DEF DeliveryInv, Store, Queued, Consumed
<1>5. Recent'
  BY <1>1, <1>2 DEF RecencyInv, Recent, AtOrBelow
<1>6. FirstRun'
  <2> SUFFICES ASSUME restarts = 0 PROVE FirstRun'
    BY <1>2 DEF FirstRun
  <2>1. seen # None => highest # None /\ seen <= highest /\ \A j \in got : log[j] <= seen
    BY DEF RecencyInv, FirstRun
  <2>2. ASSUME NEW i, PageAt(i)
        PROVE  /\ highest # None /\ chan[i].checkpoint <= highest
               /\ seen # None => seen <= chan[i].checkpoint
               /\ \A k \in chan[i].events : log[k] <= chan[i].checkpoint
               /\ \A h \in 1..i : PageAt(h) => chan[h].checkpoint <= chan[i].checkpoint
    BY <2>2 DEF RecencyInv, FirstRun, PageAt
  <2>3. seen' # None => highest # None /\ seen' <= highest /\ \A j \in got' : log[j] <= seen'
    <3>1. CASE chan[1].kind = "page"
      <4>1. PageAt(1) /\ seen' = chan[1].checkpoint
        BY <1>3, <1>4, <3>1 DEF PageAt
      <4>2. highest # None /\ seen' <= highest /\ \A j \in chan[1].events : log[j] <= seen'
        BY <2>2, <4>1
      <4>3. \A j \in got : log[j] <= seen'
        <5>1. SUFFICES ASSUME NEW j \in got PROVE log[j] <= seen'
          OBVIOUS
        <5>2. seen \in Nat /\ log[j] <= seen /\ seen <= seen'
          BY <1>4, <2>1, <2>2, <4>1, <5>1 DEF Options, Checkpoints
        <5>3. log[j] \in Nat /\ seen' \in Nat
          BY <1>4, <3>1, <4>1, <5>1, LedgerFacts DEF Checkpoints
        <5>4. QED
          BY <5>2, <5>3
      <4>4. QED
        BY <1>1, <4>2, <4>3
    <3>2. CASE chan[1].kind # "page"
      BY <1>1, <1>3, <1>4, <2>1, <3>2
    <3>3. QED
      BY <3>1, <3>2
  <2>4. ASSUME NEW i, PageAt(i)' PROVE PageAt(i + 1) /\ chan'[i] = chan[i + 1] /\ i \in Nat \ {0}
    BY <1>1, <2>4 DEF PageAt
  <2>5. ASSUME NEW i, PageAt(i)', seen' # None PROVE seen' <= chan'[i].checkpoint
    <3>1. PageAt(i + 1) /\ chan'[i] = chan[i + 1] /\ 1 \in 1..(i + 1)
      BY <2>4, <2>5
    <3>2. CASE chan[1].kind = "page"
      BY <1>3, <1>4, <2>2, <3>1, <3>2 DEF PageAt
    <3>3. CASE chan[1].kind # "page"
      BY <1>3, <2>2, <2>5, <3>1, <3>3
    <3>4. QED
      BY <3>2, <3>3
  <2>6. ASSUME NEW i, PageAt(i)', NEW h \in 1..i, PageAt(h)'
        PROVE  chan'[h].checkpoint <= chan'[i].checkpoint
    <3>1. PageAt(i + 1) /\ PageAt(h + 1) /\ chan'[i] = chan[i + 1] /\ chan'[h] = chan[h + 1]
      BY <2>4, <2>6
    <3>2. h + 1 \in 1..(i + 1)
      BY <2>4, <2>6
    <3>3. QED
      BY <2>2, <3>1, <3>2
  <2>7. ASSUME NEW i, PageAt(i)'
        PROVE  /\ highest # None /\ chan'[i].checkpoint <= highest
               /\ \A k \in chan'[i].events : log[k] <= chan'[i].checkpoint
    BY <2>2, <2>4, <2>7
  <2>8. QED
    BY <1>2, <2>3, <2>5, <2>6, <2>7 DEF FirstRun
<1>7. QED
  BY <1>2, <1>5, <1>6 DEF RecencyInv

(* The first crash resumes from the checkpoint of the last page handled.      *)
LEMMA RestartRecency == ASSUME DeliveryInv, RecencyInv, Restart PROVE RecencyInv'
<1>1. /\ chan' = <<>> /\ phase' = "connect" /\ restarts' = restarts + 1 /\ restarts \in Nat
      /\ resume' = IF seen = None THEN from ELSE seen
      /\ UNCHANGED <<log, got, seen>>
  BY DEF Restart, RecencyInv, ledgerVars, consumerVars
<1>2. Coming' = {}
  BY <1>1, NothingComes
<1>3. Had' = got
  <2>1. Len(chan') = 0
    BY <1>1
  <2>2. QED
    BY <1>1, <2>1 DEF Had, HadBy
<1>4. Recent'
  <2>1. SUFFICES ASSUME restarts = 0, NEW j \in got PROVE resume' # None /\ log[j] <= resume'
    BY <1>1, <1>2, <1>3 DEF Recent, AtOrBelow
  <2>2. seen # None
    BY <2>1 DEF DeliveryInv, Store, Consumed
  <2>3. QED
    BY <1>1, <2>1, <2>2 DEF RecencyInv, FirstRun
<1>5. FirstRun' /\ restarts' \in Nat
  BY <1>1 DEF FirstRun
<1>6. QED
  BY <1>4, <1>5 DEF RecencyInv

LEMMA WatermarkRecency ==
    ASSUME DeliveryInv, OrderInv, RecencyInv, ProcessWatermark PROVE RecencyInv'
<1>1. /\ phase = "watermark" /\ phase' = "event" /\ InFrame
      /\ UNCHANGED <<log, live, start, after, first, frame, got, seen, restarts>>
  BY DEF ProcessWatermark, ledgerVars, consumerVars, boundVars, InFrame
<1>2. Coming' = Coming
  BY <1>1, ComingStays
<1>3. CASE frame.cp = None
  <2>1. UNCHANGED <<resume, chan, highest>>
    BY <1>3 DEF ProcessWatermark
  <2>2. QED
    BY <1>1, <1>2, <2>1, SilentRecency DEF Coming
<1>4. CASE frame.cp # None
  <2>1. frame.cp \in Checkpoints /\ resume' = Advance(resume, frame.cp)
    BY <1>1, <1>4, FrameFacts DEF ProcessWatermark
  <2>2. \/ chan' = chan /\ highest' = highest
        \/ /\ chan' = Append(chan, Page({}, frame.cp)) /\ highest' = Advance(highest, frame.cp)
           /\ Above(frame.cp, highest)
    BY <1>4 DEF ProcessWatermark, Send
  <2>3. Above(frame.cp, highest) /\ highest # None => highest <= frame.cp
    BY <2>1 DEF Above, OrderInv, Reported, Options, Checkpoints
  <2>4. \A k \in Coming' : frame.cp <= log[k]
    BY <1>1, <1>2, <1>4 DEF OrderInv, AtOrBelow
  <2>5. {} \in SUBSET (1..Len(log)) /\ \A k \in {} : log[k] = frame.cp
    OBVIOUS
  <2>6. QED
    BY <1>1, <1>2, <2>1, <2>2, <2>3, <2>4, <2>5, PageRecency
<1>5. QED
  BY <1>3, <1>4

LEMMA EventRecency ==
    ASSUME DeliveryInv, OrderInv, RecencyInv, ProcessEvent PROVE RecencyInv'
<1> DEFINE c == log[frame.ev]
           e == {frame.ev} \ Ignored
<1>1. /\ Coming' \subseteq Coming /\ UNCHANGED <<log, got, seen, restarts>>
      /\ frame.ev # 0 => \A k \in Coming' : c <= log[k]
  BY EventComing DEF ProcessEvent, ledgerVars, consumerVars, boundVars
<1>2. frame.ev # 0 /\ InFrame /\ resume' = Advance(resume, c)
  BY DEF ProcessEvent, InFrame
<1>3. frame.ev \in 1..Len(log) /\ frame.ev \in Coming /\ c \in Checkpoints
  BY <1>2, FrameFacts
<1>4. e \in SUBSET (1..Len(log)) /\ \A k \in e : log[k] = c
  BY <1>3
<1>5. \/ chan' = chan /\ highest' = highest
      \/ chan' = Append(chan, Page(e, c)) /\ highest' = Advance(highest, c)
  BY DEF ProcessEvent, Send
<1>6. highest # None => highest <= c
  BY <1>3 DEF OrderInv, AtOrBelow
<1> HIDE DEF c, e
<1>7. QED
  BY <1>1, <1>2, <1>3, <1>4, <1>5, <1>6, PageRecency

THEOREM Recency == Spec => [](DeliveryInv /\ OrderInv /\ RecencyInv)
<1>1. Init => RecencyInv
  <2> SUFFICES ASSUME Init PROVE RecencyInv
    OBVIOUS
  <2>1. chan = <<>> /\ got = {} /\ seen = None /\ restarts = 0 /\ Len(chan) = 0
    BY EmptySeq DEF Init
  <2>2. QED
    BY <2>1 DEF RecencyInv, Recent, FirstRun, Had, HadBy
<1>2. DeliveryInv /\ OrderInv /\ RecencyInv /\ [Next]_vars => RecencyInv'
  <2> SUFFICES ASSUME DeliveryInv, OrderInv, RecencyInv, [Next]_vars PROVE RecencyInv'
    OBVIOUS
  <2>1. CASE Grow
    BY <2>1, GrowRecency
  <2>2. CASE Subscribe \/ FirstFrame
    <3>1. UNCHANGED <<chan, got, seen, restarts>>
      BY <2>2 DEF Subscribe, FirstFrame, consumerVars, boundVars
    <3>2. QED
      BY <2>2, <3>1, ConnectComing, SilentRecency
  <2>3. CASE ProcessWatermark
    BY <2>3, WatermarkRecency
  <2>4. CASE ProcessEvent
    BY <2>4, EventRecency
  <2>5. CASE NoEvent
    <3>1. UNCHANGED <<resume, highest, chan, got, seen, restarts>>
      BY <2>5 DEF NoEvent, consumerVars, boundVars
    <3>2. Coming' \subseteq Coming /\ UNCHANGED log
      BY <2>5, EventComing
    <3>3. QED
      BY <3>1, <3>2, SilentRecency DEF Coming
  <2>6. CASE \/ ListEvents \/ ReplayEvent \/ ReplayProgress \/ ReceiveLive \/ Reconnect
             \/ Break \/ Cancel \/ UNCHANGED vars
    <3>1. UNCHANGED <<chan, got, seen, restarts>>
      BY <2>6 DEF ListEvents, ReplayEvent, ReplayProgress, ReceiveLive, Reconnect, Break, Cancel,
         vars, consumerVars, boundVars
    <3>2. Coming' \subseteq Coming /\ UNCHANGED <<log, resume, highest>>
      BY <2>6, OtherComing
    <3>3. QED
      BY <3>1, <3>2, SilentRecency DEF Coming
  <2>7. CASE Report
    BY <2>7, ReportRecency
  <2>8. CASE Consume
    BY <2>8, ConsumeRecency
  <2>9. CASE Restart
    BY <2>9, RestartRecency
  <2>10. QED
    BY <2>1, <2>2, <2>3, <2>4, <2>5, <2>6, <2>7, <2>8, <2>9 DEF Next, Drive
<1>3. QED
  BY <1>1, <1>2, Order, PTL DEF Spec

(* A replay repeats events of the latest checkpoint handled, and no older     *)
(* ones, while the consumer crashed at most once.                             *)
THEOREM OnlyRecentEventsRepeat == Spec => RepeatsAreRecent
<1>1. ASSUME DeliveryInv, OrderInv, RecencyInv, [Next]_vars, PageSent, restarts <= 1,
             NEW k \in Newest'.events \cap got, NEW j \in got
      PROVE  log[j] <= log[k]
  <2>1. ProcessEvent /\ Newest' = Page({frame.ev} \ Ignored, log[frame.ev])
    <3>1. ProcessWatermark => Newest'.events = {}
      BY <1>1, PageSteps DEF Page
    <3>2. QED
      BY <1>1, <3>1, PageSteps
  <2>2. k = frame.ev /\ k \in Coming
    <3>1. InFrame /\ frame.ev # 0 /\ k = frame.ev
      BY <1>1, <2>1 DEF ProcessEvent, InFrame, Page
    <3>2. QED
      BY <1>1, <3>1, FrameFacts
  <2>3. j \in Had /\ log[j] # None
    BY <1>1, HadFacts, ConfigAssumption
  <2>4. QED
    BY <1>1, <2>2, <2>3 DEF RecencyInv, Recent, AtOrBelow
<1>2. DeliveryInv /\ OrderInv /\ RecencyInv /\ [Next]_vars
         => [PageSent /\ restarts <= 1 =>
               \A k \in Newest'.events \cap got : \A j \in got : log[j] <= log[k]]_vars
  BY <1>1
<1>3. QED
  BY <1>2, Recency, PTL DEF Spec, RepeatsAreRecent
===============================================================================
