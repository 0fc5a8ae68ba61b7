----------------------------- MODULE EventIngestor -----------------------------
(***************************************************************************)
(* The event ingestor (sdk/src/sui/events/driver.rs, ingestor.rs) between  *)
(* a Sui node and a consumer.  It subscribes to the live stream, replays   *)
(* what it missed by paging list_events up to the cursor where the live    *)
(* stream begins, and then follows the stream; a retryable failure is      *)
(* reported and answered by a new connection that resumes, inclusively,    *)
(* from the last checkpoint it heard of.  Pages go through a bounded       *)
(* channel.                                                                *)
(*                                                                         *)
(* The node is external: it delivers the events of its ledger in order and *)
(* attaches to a frame a watermark, a checkpoint up to which nothing more  *)
(* will come on this stream, or none.  A cursor is the number of events    *)
(* that precede it.  The consumer is external too: it handles a page and   *)
(* its checkpoint in one step, and after a crash starts a new ingestor     *)
(* from that checkpoint.                                                   *)
(***************************************************************************)
EXTENDS Integers, Sequences

CONSTANTS
    FromCheckpoints,  \* what start may be called with: Some(c), or None
    None,
    Capacity,         \* channel_capacity
    Ignored,          \* events for which decode returns no output
    CanCancel,        \* may the cancellation token fire?
    MaxCheckpoint,    \* bound: checkpoints the ledger ever has
    MaxPerCheckpoint, \* bound: events in one checkpoint
    MaxFailures,      \* bound: failed connections
    MaxRestarts       \* bound: crashes of the consumer

Checkpoints == 1..MaxCheckpoint

ASSUME ConfigAssumption ==
    /\ FromCheckpoints \subseteq Checkpoints \cup {None}
    /\ None \notin Int
    /\ Capacity \in Nat \ {0}
    /\ CanCancel \in BOOLEAN
    /\ MaxCheckpoint \in Nat \ {0}
    /\ MaxPerCheckpoint \in Nat
    /\ MaxFailures \in Nat
    /\ MaxRestarts \in Nat

VARIABLES
    from,      \* from_checkpoint
    log,       \* the ledger: the checkpoint of each event the filter matches
    tip,       \* its latest checkpoint
    phase,     \* where the driver is
    resume,    \* resume_checkpoint
    highest,   \* highest_output_checkpoint
    first,     \* the first frame of the live stream, until it is processed
    live,      \* cursor of the live stream
    start,     \* start_checkpoint of the running replay
    after,     \* after_cursor of the running replay
    frame,     \* the frame being processed
    failure,   \* the error to report: retryable or terminal
    chan,      \* pages and errors on their way to the consumer
    got,       \* events the consumer has handled
    seen,      \* checkpoint of the last page it handled
    origin,    \* history: for start(None), the cursor where the stream started
    failures, restarts

ledgerVars == <<from, log, tip>>
driverVars == <<resume, highest, first, live, start, after, frame, failure>>
consumerVars == <<got, seen>>
boundVars == <<failures, restarts>>
vars == <<ledgerVars, phase, driverVars, chan, consumerVars, origin, boundVars>>

Phases == {"connect", "first", "request", "replay", "live", "watermark", "event",
           "report", "backoff", "stopped"}
Cursors == 0..(MaxCheckpoint * MaxPerCheckpoint)
Options(S) == S \cup {None}

(* ev: the event the frame carries, 0 if none.  cp: its watermark.  end:     *)
(* the reason why a replay stream ends with this frame, "" if it goes on.    *)
(* The event may turn out not to be of interest: decode returns None.        *)
Frames ==
    [ev : Cursors, cp : Options(Checkpoints), end : {"", "bound", "limit", "tip"},
     from : {"replay", "live"}]
Failed == {"retryable", "terminal"}
Page(events, c) == [kind |-> "page", events |-> events, checkpoint |-> c]
Error(e) == [kind |-> e, events |-> {}, checkpoint |-> None]
Messages ==
    [kind : {"page"}, events : SUBSET Cursors, checkpoint : Checkpoints]
        \cup {Error(e) : e \in Failed}

TypeOK ==
    /\ from \in Options(Checkpoints)
    /\ log \in Seq(Checkpoints) /\ Len(log) \in Cursors
    /\ tip \in 0..MaxCheckpoint
    /\ phase \in Phases
    /\ resume \in Options(Checkpoints)
    /\ highest \in Options(Checkpoints)
    /\ first \in Options(Frames)
    /\ live \in Cursors
    /\ start \in Options(Checkpoints)
    /\ after \in Options(Cursors)
    /\ frame \in Options(Frames)
    /\ failure \in Options(Failed)
    /\ chan \in Seq(Messages) /\ Len(chan) <= Capacity
    /\ got \subseteq Cursors
    /\ seen \in Options(Checkpoints)
    /\ origin \in Options(Cursors)
    /\ failures \in 0..MaxFailures /\ restarts \in 0..MaxRestarts

Init ==
    /\ log = <<>> /\ tip = 0
    /\ phase = "connect"
    /\ from \in FromCheckpoints
    /\ resume = from
    /\ highest = None
    /\ first = None /\ live = 0 /\ start = None /\ after = None
    /\ frame = None /\ failure = None
    /\ chan = <<>>
    /\ got = {} /\ seen = None
    /\ origin = None
    /\ failures = 0 /\ restarts = 0

------------------------------------------------------------------------------
(* The node.                                                                 *)
Grow ==
    /\ tip < MaxCheckpoint
    /\ tip' = tip + 1
    /\ \E n \in 0..MaxPerCheckpoint : log' = log \o [i \in 1..n |-> tip + 1]
    /\ UNCHANGED <<from, phase, driverVars, chan, consumerVars, origin, boundVars>>

(* The checkpoints a frame at cursor k may name: none of their events is     *)
(* behind the cursor.  The watermark of an event is not ahead of it: the     *)
(* driver reports the watermark before the event.                            *)
Watermarks(k) ==
    {c \in 1..tip : k < Len(log) => c < log[k + 1]} \cup {None}
EventWatermarks(k) == {c \in Watermarks(k) : c # None => c <= log[k]}

------------------------------------------------------------------------------
(* The driver.                                                               *)
Above(c, m) == m = None \/ c > m
(* Mutant of Advance: a checkpoint once known never moves.                  *)
KeepFirst(m, c) == IF m = None THEN c ELSE m
Advance(m, c) == IF Above(c, m) THEN c ELSE m

Subscribe ==
    /\ phase = "connect"
    /\ phase' = "first"
    /\ live' = Len(log)
    /\ origin' = IF resume = None THEN live' ELSE origin
    /\ UNCHANGED <<ledgerVars, resume, highest, first, start, after, frame, failure,
                   chan, consumerVars, boundVars>>

(* A frame of the live stream: the next event, or progress without one.      *)
LiveFrame(f) ==
    \/ /\ live < Len(log)
       /\ \E c \in EventWatermarks(live + 1) :
             f = [ev |-> live + 1, cp |-> c, end |-> "", from |-> "live"]
    \/ \E c \in Watermarks(live) :
             f = [ev |-> 0, cp |-> c, end |-> "", from |-> "live"]

PastFrame(f) == live' = IF f.ev = 0 THEN live ELSE f.ev

(* The first frame bounds the replay; without a checkpoint to resume from    *)
(* there is none.                                                            *)
FirstFrame ==
    /\ phase = "first"
    /\ \E f \in Frames :
          /\ LiveFrame(f)
          /\ PastFrame(f)
          /\ IF resume = None
             THEN frame' = f /\ first' = None /\ phase' = "watermark"
             ELSE first' = f /\ phase' = "request" /\ UNCHANGED frame
    /\ start' = resume
    /\ after' = None
    /\ UNCHANGED <<ledgerVars, resume, highest, failure, chan, consumerVars, origin, boundVars>>

(* The events a replay still has to deliver: those before the live cursor,   *)
(* from the start checkpoint on, after the after cursor.                     *)
Bound == IF first.ev = 0 THEN live ELSE first.ev - 1
Pending ==
    {k \in 1..Bound : log[k] >= start /\ (after = None \/ k > after)}
Next1(S) == CHOOSE k \in S : \A j \in S : k <= j

ListEvents ==
    /\ phase = "request"
    /\ phase' = "replay"
    /\ UNCHANGED <<ledgerVars, driverVars, chan, consumerVars, origin, boundVars>>

(* A frame of the replay: its last one tells why it ended.  Only the server  *)
(* knows when a page or a scan is long enough, or how far its index is.      *)
ReplayEvent ==
    /\ phase = "replay"
    /\ Pending # {}
    /\ LET k == Next1(Pending) IN
          /\ after' = k
          /\ \E c \in EventWatermarks(k),
                e \in {"", "limit", "tip"} \cup IF Pending = {k} THEN {"bound"} ELSE {} :
                frame' = [ev |-> k, cp |-> c, end |-> e, from |-> "replay"]
    /\ phase' = "watermark"
    /\ UNCHANGED <<ledgerVars, resume, highest, first, live, start, failure,
                   chan, consumerVars, origin, boundVars>>

ReplayProgress ==
    /\ phase = "replay"
    /\ LET k == IF Pending = {} THEN Bound ELSE Next1(Pending) - 1 IN
          /\ after' = k
          /\ \E c \in Watermarks(k),
                e \in IF Pending = {} THEN {"bound"} ELSE {"limit", "tip"} :
                frame' = [ev |-> 0, cp |-> c, end |-> e, from |-> "replay"]
    /\ phase' = "watermark"
    /\ UNCHANGED <<ledgerVars, resume, highest, first, live, start, failure,
                   chan, consumerVars, origin, boundVars>>

ReceiveLive ==
    /\ phase = "live"
    /\ \E f \in Frames : LiveFrame(f) /\ PastFrame(f) /\ frame' = f
    /\ phase' = "watermark"
    /\ UNCHANGED <<ledgerVars, resume, highest, first, start, after, failure,
                   chan, consumerVars, origin, boundVars>>

------------------------------------------------------------------------------
(* process_frame.                                                            *)
Send(events, c) ==
    /\ Len(chan) < Capacity
    /\ chan' = Append(chan, Page(events, c))
    /\ highest' = Advance(highest, c)

(* Mutant of ProcessWatermark: every watermark is reported.                  *)
ReportEveryWatermark ==
    /\ phase = "watermark"
    /\ resume' = IF frame.cp = None THEN resume ELSE Advance(resume, frame.cp)
    /\ IF frame.cp # None THEN Send({}, frame.cp) ELSE UNCHANGED <<chan, highest>>
    /\ phase' = "event"
    /\ UNCHANGED <<ledgerVars, first, live, start, after, frame, failure,
                   consumerVars, origin, boundVars>>

ProcessWatermark ==
    /\ phase = "watermark"
    /\ resume' = IF frame.cp = None THEN resume ELSE Advance(resume, frame.cp)
    /\ IF frame.cp # None /\ Above(frame.cp, highest)
       THEN Send({}, frame.cp)
       ELSE UNCHANGED <<chan, highest>>
    /\ phase' = "event"
    /\ UNCHANGED <<ledgerVars, first, live, start, after, frame, failure,
                   consumerVars, origin, boundVars>>

(* Mutants of LeaveFrame: the replay is taken to be complete at an item      *)
(* limit, or at the tip of an index that lags behind the stream; the first   *)
(* live frame is forgotten after the replay.                                 *)
ReplayEndsAt(ends) ==
    IF frame.from = "live" THEN
        frame' = None /\ phase' = "live" /\ UNCHANGED first
    ELSE IF frame.end \in ends THEN
        frame' = first /\ first' = None /\ phase' = "watermark"
    ELSE
        /\ frame' = None
        /\ phase' = IF frame.end = "" THEN "replay" ELSE "request"
        /\ UNCHANGED first
LimitEndsReplay == ReplayEndsAt({"bound", "limit"})
TipEndsReplay == ReplayEndsAt({"bound", "tip"})
ForgetFirst ==
    /\ frame' = None
    /\ IF frame.from = "replay" /\ frame.end # "bound"
       THEN phase' = (IF frame.end = "" THEN "replay" ELSE "request") /\ UNCHANGED first
       ELSE phase' = "live" /\ first' = None

(* Where the driver goes when a frame is done.                               *)
LeaveFrame ==
    IF frame.from = "live" THEN
        frame' = None /\ phase' = "live" /\ UNCHANGED first
    ELSE IF frame.end = "bound" THEN
        frame' = first /\ first' = None /\ phase' = "watermark"
    ELSE
        /\ frame' = None
        /\ phase' = IF frame.end = "" THEN "replay" ELSE "request"
        /\ UNCHANGED first

NoEvent ==
    /\ phase = "event"
    /\ frame.ev = 0
    /\ LeaveFrame
    /\ UNCHANGED <<ledgerVars, resume, highest, live, start, after, failure,
                   chan, consumerVars, origin, boundVars>>

ProcessEvent ==
    /\ phase = "event"
    /\ frame.ev # 0
    /\ resume' = Advance(resume, log[frame.ev])
    /\ IF frame.ev \notin Ignored \/ Above(log[frame.ev], highest)
       THEN Send({frame.ev} \ Ignored, log[frame.ev])
       ELSE UNCHANGED <<chan, highest>>
    /\ LeaveFrame
    /\ UNCHANGED <<ledgerVars, live, start, after, failure, consumerVars, origin, boundVars>>

------------------------------------------------------------------------------
(* Failures.  A decode failure, a violated protocol and a permanent status   *)
(* are terminal, the others are retryable.                                   *)
Break ==
    /\ failures < MaxFailures
    /\ failures' = failures + 1
    /\ \/ /\ phase \in {"connect", "first", "request", "replay", "live"}
          /\ failure' \in Failed
       \/ /\ phase = "event" /\ frame.ev # 0
          /\ failure' = "terminal"
    /\ phase' = "report"
    /\ UNCHANGED <<ledgerVars, resume, highest, first, live, start, after, frame,
                   chan, consumerVars, origin, restarts>>

Report ==
    /\ phase = "report"
    /\ Len(chan) < Capacity
    /\ chan' = Append(chan, Error(failure))
    /\ phase' = IF failure = "retryable" THEN "backoff" ELSE "stopped"
    /\ frame' = None /\ first' = None /\ start' = None /\ after' = None
    /\ failure' = None
    /\ UNCHANGED <<ledgerVars, resume, highest, live, consumerVars, origin, boundVars>>

Reconnect ==
    /\ phase = "backoff"
    /\ phase' = "connect"
    /\ UNCHANGED <<ledgerVars, driverVars, chan, consumerVars, origin, boundVars>>

------------------------------------------------------------------------------
(* The consumer.                                                             *)
Consume ==
    /\ chan # <<>>
    /\ chan' = Tail(chan)
    /\ IF Head(chan).kind = "page"
       THEN got' = got \cup Head(chan).events /\ seen' = Head(chan).checkpoint
       ELSE UNCHANGED consumerVars
    /\ UNCHANGED <<ledgerVars, phase, driverVars, origin, boundVars>>

(* The token fires: the driver ends at its next await, without a report.     *)
Cancel ==
    /\ CanCancel
    /\ phase # "stopped"
    /\ phase' = "stopped"
    /\ frame' = None /\ first' = None /\ start' = None /\ after' = None
    /\ failure' = None
    /\ UNCHANGED <<ledgerVars, resume, highest, live, chan, consumerVars, origin, boundVars>>

(* The consumer crashes, which drops the receiver and ends the driver at its *)
(* next await, and starts over from the last checkpoint it handled.          *)
Restart ==
    /\ restarts < MaxRestarts
    /\ restarts' = restarts + 1
    /\ chan' = <<>>
    /\ phase' = "connect"
    /\ resume' = IF seen = None THEN from ELSE seen
    /\ origin' = IF seen = None THEN None ELSE origin
    /\ highest' = None /\ first' = None /\ live' = 0 /\ start' = None /\ after' = None
    /\ frame' = None /\ failure' = None
    /\ UNCHANGED <<ledgerVars, consumerVars, failures>>

Drive ==
    \/ Subscribe \/ FirstFrame \/ ListEvents \/ ReplayEvent \/ ReplayProgress
    \/ ReceiveLive \/ ProcessWatermark \/ NoEvent \/ ProcessEvent \/ Report \/ Reconnect

Next == Grow \/ Drive \/ Break \/ Cancel \/ Consume \/ Restart

Spec == Init /\ [][Next]_vars

(* The driver and the consumer run; the node keeps answering, and its frames *)
(* are not progress forever while it has an event to deliver.                *)
FairSpec ==
    /\ Spec
    /\ WF_vars(Drive) /\ WF_vars(Consume)
    /\ SF_vars(ReplayEvent) /\ SF_vars(ReceiveLive /\ frame'.ev # 0)

------------------------------------------------------------------------------
(* The events a consumer is entitled to: from the checkpoint it asked for,   *)
(* or from where the stream started.                                         *)
StartedAfter(k) == from = None /\ (origin = None \/ k <= origin)
Owed(k) ==
    /\ k \notin Ignored
    /\ IF from = None THEN ~StartedAfter(k) ELSE log[k] >= from

(* The consumer never handles an event without having handled all the owed   *)
(* ones before it, whatever fails, reconnects, replays, or crashes           *)
(* (driver.rs:19-236).                                                       *)
NoGap == \A k \in got : \A j \in 1..(k - 1) : Owed(j) => j \in got

(* The checkpoint of a page is a safe place to restart from: once the        *)
(* consumer handled a page of checkpoint c it has all owed events before c   *)
(* (driver.rs:260-322).                                                      *)
PageCheckpointComplete ==
    seen # None => \A k \in 1..Len(log) : Owed(k) /\ log[k] < seen => k \in got

Newest == chan[Len(chan)]
PageSent == Len(chan') > Len(chan) /\ Newest'.kind = "page"

(* Page checkpoints never go back within one ingestion, replays after a      *)
(* reconnect included (driver.rs:260-322).                                   *)
PagesInOrder ==
    [][PageSent /\ highest # None => Newest'.checkpoint >= highest]_vars

(* What is delivered twice is recent: a replay repeats events of the latest  *)
(* checkpoint the consumer has events of, and no older ones, while it        *)
(* crashed at most once.  The first watermark after a restart is reported    *)
(* even if it is below the checkpoint restarted from (driver.rs:260), so a   *)
(* second crash may go back further.                                         *)
RepeatsAreRecent ==
    [][PageSent /\ restarts <= 1 =>
         \A k \in Newest'.events \cap got : \A j \in got : log[j] <= log[k]]_vars

(* Every owed event reaches the consumer, despite failures, lagging indexes, *)
(* limited replay pages and back-pressure, unless the ingestor reported a    *)
(* terminal error and stopped.  A stream started at its current position     *)
(* owes what comes after its first connection only from the first checkpoint *)
(* it hears of: a failure before that moves the start (driver.rs:91).        *)
EventsArrive ==
    \A k \in Cursors \ {0} :
        (k <= Len(log) /\ Owed(k)) ~> (k \in got \/ phase = "stopped" \/ StartedAfter(k))
================================================================================
