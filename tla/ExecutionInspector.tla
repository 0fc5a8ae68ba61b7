--------------------------- MODULE ExecutionInspector ---------------------------
(***************************************************************************)
(* Following one execution (sdk/src/nexus/workflow.rs, inspect_execution). *)
(* A task polls the latest version of the execution object; when it is not *)
(* the one delivered last, the task walks the chain of updates backwards   *)
(* from it, one transaction and one object version at a time, down to the  *)
(* version delivered last or the creation, and then sends the collected    *)
(* events in the order of the ledger through an unbounded channel.  All of *)
(* it runs under one deadline.                                             *)
(*                                                                         *)
(* The versions of the object are numbered 1, 2, ... in their order (the   *)
(* chain's own numbers have gaps), and the update that wrote version v is  *)
(* named v; its events of this execution stay together, in their order.    *)
(* The full node is external.  Its answers come from replicas: its latest  *)
(* object may be behind, its transactions may not be visible yet, and old  *)
(* versions and transactions may be pruned.                                *)
(***************************************************************************)
EXTENDS Integers, Sequences, SequencesExt

CONSTANTS
    None,
    MaxRetries,   \* MAX_TRANSACTION_NOT_FOUND_RETRIES
    Calm,         \* the kinds of environment: TRUE for one that behaves
    MaxVersion,   \* bound: updates of the execution
    MaxFaults     \* bound: transient errors during reconstructions

ASSUME InspectorAssumption ==
    /\ None \notin Int
    /\ MaxRetries \in Nat
    /\ Calm \subseteq BOOLEAN
    /\ MaxVersion \in Nat \ {0}
    /\ MaxFaults \in Nat

VARIABLES
    ledger,   \* what each update of the execution reports
    indexed,  \* the transactions up to this one are visible
    pruned,   \* the versions and transactions up to this one are gone
    calm,     \* no pruning, no stale replica, no bad answer, no deadline
    open,     \* has the caller kept its receiver?
    late,     \* is the deadline less than a poll interval away?
    phase,    \* where the task is
    last,     \* last_delivered_version
    latest,   \* the version being reconstructed
    cursor,   \* the version whose update is next
    reverse,  \* reverse_updates: the updates collected, newest first
    retries,  \* of the transaction being fetched
    queue,    \* the updates of the walk whose events were not sent yet
    sent,     \* the updates whose events were sent
    out,      \* the result of the task
    faults    \* transient errors so far

nodeVars == <<ledger, indexed, pruned, calm>>
callerVars == <<open, late>>
walkVars == <<latest, cursor, reverse, retries>>
vars == <<nodeVars, callerVars, phase, last, walkVars, queue, sent, out, faults>>

Feed == INSTANCE ExecutionFeed
Versions == 1..MaxVersion
Carries(v) == ledger[v] # "nothing"

TypeOK ==
    /\ ledger \in Seq(Feed!Kinds) /\ Len(ledger) \in Versions
    /\ indexed \in 0..Len(ledger)
    /\ pruned \in 0..(Len(ledger) - 1)
    /\ calm \in BOOLEAN /\ open \in BOOLEAN /\ late \in BOOLEAN
    /\ phase \in {"poll", "transaction", "object", "send", "stopped"}
    /\ last \in Versions \cup {None}
    /\ latest \in Versions \cup {None}
    /\ cursor \in Versions \cup {None}
    /\ reverse \in Seq(Versions)
    /\ retries \in 0..MaxRetries
    /\ queue \in Seq(Versions)
    /\ sent \in Seq(Versions)
    /\ out \in {"running", "ok"} \cup Feed!Errors
    /\ faults \in 0..MaxFaults

Init ==
    /\ Feed!Init
    /\ indexed = 0 /\ pruned = 0
    /\ calm \in Calm
    /\ open = TRUE /\ late = FALSE
    /\ phase = "poll"
    /\ last = None
    /\ latest = None /\ cursor = None /\ reverse = <<>> /\ retries = 0
    /\ queue = <<>>
    /\ faults = 0

------------------------------------------------------------------------------
(* The node and the caller.                                                  *)
Finished == \E v \in 1..Len(ledger) : ledger[v] = "finished"

Update ==
    /\ Len(ledger) < MaxVersion
    /\ \E k \in Feed!Kinds \ (IF Finished THEN {"finished"} ELSE {}) :
          ledger' = Append(ledger, k)
    /\ UNCHANGED <<indexed, pruned, calm, callerVars, phase, last, walkVars, queue,
                   sent, out, faults>>

Index ==
    /\ indexed < Len(ledger)
    /\ indexed' = indexed + 1
    /\ UNCHANGED <<ledger, pruned, calm, callerVars, phase, last, walkVars, queue,
                   sent, out, faults>>

Prune ==
    /\ ~calm
    /\ pruned < Len(ledger) - 1
    /\ pruned' = pruned + 1
    /\ UNCHANGED <<ledger, indexed, calm, callerVars, phase, last, walkVars, queue,
                   sent, out, faults>>

HangUp ==
    /\ ~calm /\ open
    /\ open' = FALSE
    /\ UNCHANGED <<nodeVars, late, phase, last, walkVars, queue, sent, out, faults>>

DeadlineNears ==
    /\ ~calm /\ ~late
    /\ late' = TRUE
    /\ UNCHANGED <<nodeVars, open, phase, last, walkVars, queue, sent, out, faults>>

------------------------------------------------------------------------------
(* The task.  Only the awaits can fail or meet the deadline: sending is not  *)
(* one.                                                                      *)
Awaiting == phase \in {"poll", "transaction", "object"}
Stop(o) ==
    /\ phase' = "stopped"
    /\ out' = o
    /\ UNCHANGED <<nodeVars, callerVars, last, walkVars, queue, sent, faults>>

StartWalk(v) ==
    /\ phase' = "transaction"
    /\ latest' = v /\ cursor' = v
    /\ reverse' = <<>> /\ retries' = 0
    /\ UNCHANGED <<nodeVars, callerVars, last, queue, sent, out>>

(* The answers of the replicas to the request for the latest version.        *)
Answers == IF calm THEN {Len(ledger)} ELSE pruned + 1..Len(ledger)

(* A new version.  The same one, or a transient error, changes nothing: the  *)
(* task sleeps and polls again.                                              *)
FetchLatest ==
    /\ phase = "poll"
    /\ \E v \in {a \in Answers : last = None \/ a > last} : StartWalk(v)
    /\ UNCHANGED faults

(* "moved backwards from delivered version": a replica lags behind.          *)
MovedBackwards ==
    /\ phase = "poll"
    /\ last # None
    /\ \E v \in Answers : v < last
    /\ Stop("rpc")

(* A transient error during a reconstruction: it starts again, from the same *)
(* latest version.                                                           *)
Transient ==
    /\ phase \in {"transaction", "object"}
    /\ faults < MaxFaults
    /\ faults' = faults + 1
    /\ StartWalk(latest)

(* A permanent error, or an answer that does not fit the chain of updates: a *)
(* wrong type, owner, digest or version, or events that do not decode.       *)
BadAnswer ==
    /\ Awaiting
    /\ ~calm
    /\ Stop("rpc")

Timeout ==
    /\ Awaiting
    /\ late
    /\ Stop("timeout")

(* Mutant of Batch: the order of the walk.                                   *)
BatchUnreversed(r) == r

(* What a complete walk sends.                                               *)
Batch(r) == Reverse(r)

(* The transaction of the version under the cursor.  The walk ends at the    *)
(* creation or above the version delivered last.                             *)
FetchTransaction ==
    /\ phase = "transaction"
    /\ cursor \in pruned + 1..indexed
    /\ reverse' = Append(reverse, cursor)
    /\ retries' = 0
    /\ IF cursor = 1 \/ last = cursor - 1
       THEN /\ phase' = "send"
            /\ queue' = Batch(reverse')
            /\ cursor' = None
       ELSE /\ phase' = "object"
            /\ cursor' = cursor - 1
            /\ UNCHANGED queue
    /\ UNCHANGED <<nodeVars, callerVars, last, latest, sent, out, faults>>

(* It is not found, and there is time for another try.                       *)
AwaitTransaction ==
    /\ phase = "transaction"
    /\ cursor \notin pruned + 1..indexed
    /\ retries < MaxRetries /\ ~late
    /\ retries' = retries + 1
    /\ UNCHANGED <<nodeVars, callerVars, phase, last, latest, cursor, reverse, queue,
                   sent, out, faults>>

TransactionMissing ==
    /\ phase = "transaction"
    /\ cursor \notin pruned + 1..indexed
    /\ retries = MaxRetries \/ late
    /\ Stop("missing")

FetchObject ==
    /\ phase = "object"
    /\ cursor > pruned
    /\ phase' = "transaction"
    /\ UNCHANGED <<nodeVars, callerVars, last, walkVars, queue, sent, out, faults>>

ObjectMissing ==
    /\ phase = "object"
    /\ cursor <= pruned
    /\ Stop("missing")

------------------------------------------------------------------------------
(* An update without an event of this execution has nothing to send.         *)
SendNothing ==
    /\ phase = "send" /\ queue # <<>> /\ ~Carries(Head(queue))
    /\ queue' = Tail(queue)
    /\ UNCHANGED <<nodeVars, callerVars, phase, last, walkVars, sent, out, faults>>

SendEvents ==
    /\ phase = "send" /\ queue # <<>> /\ Carries(Head(queue)) /\ open
    /\ sent' = Append(sent, Head(queue))
    /\ queue' = Tail(queue)
    /\ UNCHANGED <<nodeVars, callerVars, phase, last, walkVars, out, faults>>

ReceiverGone ==
    /\ phase = "send" /\ queue # <<>> /\ Carries(Head(queue)) /\ ~open
    /\ Stop("channel")

(* Mutants of Delivered: the version is taken from a poll after the walk;    *)
(* the end of the execution is not noticed.                                  *)
DeliveredNewest ==
    /\ phase = "send" /\ queue = <<>>
    /\ last' = Len(ledger)
    /\ IF \E i \in 1..Len(reverse) : ledger[reverse[i]] = "finished"
       THEN phase' = "stopped" /\ out' = "ok"
       ELSE phase' = "poll" /\ UNCHANGED out
    /\ latest' = None /\ reverse' = <<>>
    /\ UNCHANGED <<nodeVars, callerVars, cursor, retries, queue, sent, faults>>
DeliveredOnly ==
    /\ phase = "send" /\ queue = <<>>
    /\ last' = latest
    /\ phase' = "poll"
    /\ latest' = None /\ reverse' = <<>>
    /\ UNCHANGED <<nodeVars, callerVars, cursor, retries, queue, sent, out, faults>>

Delivered ==
    /\ phase = "send" /\ queue = <<>>
    /\ last' = latest
    /\ IF \E i \in 1..Len(reverse) : ledger[reverse[i]] = "finished"
       THEN phase' = "stopped" /\ out' = "ok"
       ELSE phase' = "poll" /\ UNCHANGED out
    /\ latest' = None /\ reverse' = <<>>
    /\ UNCHANGED <<nodeVars, callerVars, cursor, retries, queue, sent, faults>>

Progress ==
    \/ FetchLatest \/ FetchTransaction \/ AwaitTransaction \/ TransactionMissing
    \/ FetchObject \/ ObjectMissing
    \/ SendNothing \/ SendEvents \/ ReceiverGone \/ Delivered

Next ==
    \/ Update \/ Index \/ Prune \/ HangUp \/ DeadlineNears
    \/ Progress
    \/ MovedBackwards \/ Transient \/ BadAnswer \/ Timeout

Spec == Init /\ [][Next]_vars

(* Requests are answered and the task is polled; transactions become visible.*)
FairSpec == Spec /\ WF_vars(Progress) /\ WF_vars(Index)

------------------------------------------------------------------------------
(* The caller sees every update's events once and in the ledger's order, and *)
(* an Ok only after the end of the execution, although the task walks        *)
(* backwards, starts walks over and meets new updates meanwhile              *)
(* (workflow.rs:1756, "emits matching events chronologically").              *)
ImplementsFeed == Feed!Spec

(* The position the next walk stops at is right: everything up to it was     *)
(* sent; and an inspection that ends for the node or the deadline never      *)
(* leaves a part of a walk behind (workflow.rs:1826-1829).                   *)
WholeWalks ==
    LET sentSet == {sent[i] : i \in 1..Len(sent)}
        known == IF last = None THEN 0 ELSE last
    IN  /\ \A v \in 1..known : Carries(v) => v \in sentSet
        /\ out \in {"timeout", "rpc", "missing"} => \A v \in sentSet : v <= known

(* Once the execution finished, the inspection completes, whatever transient *)
(* errors it meets, unless a transaction stays invisible for longer than the *)
(* retries allow.                                                            *)
FinishArrives == (calm /\ Finished) ~> out \in {"ok", "missing"}
================================================================================
