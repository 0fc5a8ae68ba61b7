---------------------------- MODULE ExpiredWalks ----------------------------
(* Walks that expired (src/sdk/src/nexus/workflow.rs): resolving one of them,  *)
(* and aborting an execution with or without the gas of a tool.  Each call    *)
(* reads the execution and the clock, for every walk it considers its         *)
(* committed result, the marker of an insufficient settlement and its         *)
(* on-chain result, and the payment's locks, one request after the other,     *)
(* while leaders and tools go on; then it submits.                            *)
EXTENDS Naturals, FiniteSets

CONSTANTS
    Walks,  \* the walks of the execution, each at a vertex with a tool of its own
    NoWalk, \* none of them
    Moves   \* bound on what leaders, tools and the clock do

ASSUME WalkAssumption == NoWalk \notin Walks /\ Moves \in Nat

VARIABLES
    walk,    \* the chain's walks
    clock,   \* the walks that are past twice their timeout
    attempt, \* the call that runs, with what it has read
    lost,    \* history: the walks whose consumable result was destroyed
    moves    \* what leaders, tools and the clock have done so far

walkVars == <<walk, clock, attempt, lost, moves>>

(* A result is not there, there but not finalized, or finalized with or       *)
(* without the stamps that let it be consumed.  A committed result waits for  *)
(* its settlement, and is marked when the payment does not suffice for it.    *)
Walk ==
    [state : {"active", "pending", "done", "aborted"},
     result : {"none", "empty", "stamped", "unstamped"},
     marked : BOOLEAN, locked : BOOLEAN]

Committed(w) == walk[w].state = "pending"
Finalized(r) == r \in {"stamped", "unstamped"}

NoAttempt ==
    [step |-> "idle", call |-> "none", target |-> NoWalk, w |-> NoWalk, clock |-> {}, walks |-> <<>>,
     committed |-> FALSE, marked |-> FALSE, left |-> {}, cleanups |-> {}, answer |-> "none"]

WalkInit ==
    /\ walk = [w \in Walks |->
                  [state |-> "active", result |-> "none", marked |-> FALSE, locked |-> FALSE]]
    /\ clock = {} /\ attempt = NoAttempt /\ lost = {} /\ moves = 0

Now(a) == attempt' = a /\ UNCHANGED <<walk, clock, lost, moves>>
At(step) == attempt.step = step
To(step) == [attempt EXCEPT !.step = step]
Answer(answer) == [To("answer") EXCEPT !.answer = answer]
-----------------------------------------------------------------------------
(* DAGWalk::timeout_expired_vertex and abortable_timeout_expired_vertex, for  *)
(* the walks and the clock as they were read.                                 *)
TimeoutExpired(a, w) == w \in a.clock /\ a.walks[w].state \in {"active", "pending"}
Abortable(a, w) == w \in a.clock /\ a.walks[w].state = "active"

(* Resolving reads the clock first, aborting reads the execution first.       *)
Resolve(w) ==
    /\ At("idle")
    /\ Now([To("walks") EXCEPT !.call = "resolve", !.target = w, !.w = w, !.clock = clock])

ReadWalks ==
    /\ At("walks")
    /\ LET a == [To("committed") EXCEPT !.walks = walk]
       IN Now(IF TimeoutExpired(a, a.w) THEN a ELSE Answer("skipped"))

Abort(call) ==
    At("idle") /\ call \in {"abort", "abort_with_tool_gas"}
    /\ Now([To("clock") EXCEPT !.call = call, !.walks = walk])

(* The walks that may be aborted, one after the other.                        *)
LookAt(a, left, cleanups) ==
    IF left = {} THEN [a EXCEPT !.step = "submit", !.cleanups = cleanups]
    ELSE LET w == CHOOSE v \in left : TRUE
         IN [a EXCEPT !.step = "committed", !.w = w, !.left = left \ {w}, !.cleanups = cleanups]

ReadClock ==
    /\ At("clock")
    /\ LET a == [attempt EXCEPT !.clock = clock]
           expired == {w \in Walks : Abortable(a, w)}
       IN Now(IF a.call = "abort" THEN LookAt(a, expired, {})
             ELSE [a EXCEPT !.step = "payment", !.left = expired])
-----------------------------------------------------------------------------
(* fetch_onchain_tool_result_state_for_walk: three requests.                  *)

ReadCommitted ==
    At("committed") /\ Now([To("marker") EXCEPT !.committed = Committed(attempt.w)])

ReadMarker ==
    At("marker") /\ Now([To("result") EXCEPT !.marked = walk[attempt.w].marked])

ResultState ==
    CASE attempt.marked -> "insufficient"
      [] ~attempt.marked /\ attempt.committed -> "committed"
      [] OTHER -> walk[attempt.w].result

(* What resolving decides.  Without a result the payment is looked at next.   *)
PlanResolution ==
    /\ At("result") /\ attempt.call = "resolve"
    /\ Now(CASE ResultState = "committed" -> To("settle")
             [] Finalized(ResultState) -> To("settle_onchain")
             [] ResultState \in {"insufficient", "empty"} -> Answer("skipped")
             [] ResultState = "none" ->
                    IF Abortable(attempt, attempt.w) THEN To("payment") ELSE Answer("skipped"))

(* What an abort has to clean up first, or cannot.                            *)
(* Mutant of RequiredStamps: every finalized result is cleaned up.            *)
NoRequiredStamps(result) == FALSE

RequiredStamps(result) == result = "stamped"

PlanCleanup ==
    /\ At("result") /\ attempt.call = "abort"
    /\ Now(CASE ResultState = "empty" -> Answer("blocked")
             [] Finalized(ResultState) /\ RequiredStamps(ResultState) -> Answer("blocked")
             [] Finalized(ResultState) /\ ~RequiredStamps(ResultState) ->
                    LookAt(attempt, attempt.left, attempt.cleanups \cup {attempt.w})
             [] OTHER -> LookAt(attempt, attempt.left, attempt.cleanups))

(* An unlocked walk is aborted as it is, a locked one with its tool's gas;    *)
(* either way another call takes over and reads everything again.  The walks  *)
(* it then finds locked are the candidates.                                   *)
ReadPayment ==
    /\ At("payment")
    /\ IF attempt.call = "resolve"
       THEN Now([NoAttempt EXCEPT !.step = "walks_again", !.target = attempt.target,
                    !.call = IF walk[attempt.w].locked THEN "abort_with_tool_gas" ELSE "abort"])
       ELSE LET candidates == {w \in attempt.left : walk[w].locked}
                chosen == candidates \cap
                    (IF attempt.target = NoWalk THEN candidates ELSE {attempt.target})
            IN IF chosen = {} THEN Now(Answer("ineligible"))
               ELSE \E w \in chosen : Now([To("submit") EXCEPT !.w = w])

ReadWalksAgain == At("walks_again") /\ Now([To("clock") EXCEPT !.walks = walk])
-----------------------------------------------------------------------------
(* Submissions.  The chain checks them against the walks as they are then: it *)
(* aborts no walk that has a result, nor a locked one without its gas.        *)

Settle(w) == walk' = [walk EXCEPT ![w].state = "done", ![w].result = "none", ![w].locked = FALSE]

SubmitSettlement ==
    /\ At("settle") \/ At("settle_onchain")
    /\ IF \/ At("settle") /\ Committed(attempt.w) /\ ~walk[attempt.w].marked
          \/ At("settle_onchain") /\ walk[attempt.w].state = "active"
             /\ walk[attempt.w].result = "stamped"
       THEN /\ Settle(attempt.w)
            /\ attempt' = Answer("settled")
            /\ UNCHANGED <<clock, lost, moves>>
       ELSE Now(Answer("refused"))

Expired == {w \in clock : walk[w].state = "active"}

AbortAccepted ==
    /\ Expired # {}
    /\ \A w \in attempt.cleanups : w \in Expired /\ Finalized(walk[w].result)
    /\ \A w \in Expired : walk[w].result = "none" \/ w \in attempt.cleanups
    /\ \A w \in Expired : walk[w].locked => attempt.call = "abort_with_tool_gas" /\ w = attempt.w
    /\ attempt.call = "abort_with_tool_gas" => attempt.w \in Expired /\ walk[attempt.w].locked

SubmitAbort ==
    /\ At("submit")
    /\ IF AbortAccepted
       THEN /\ walk' = [w \in Walks |->
                IF w \in Expired
                THEN [walk[w] EXCEPT !.state = "aborted", !.result = "none", !.locked = FALSE]
                ELSE walk[w]]
            /\ lost' = lost \cup {w \in Expired : walk[w].result = "stamped"}
            /\ attempt' = Answer("aborted")
            /\ UNCHANGED <<clock, moves>>
       ELSE Now(Answer("refused"))

FailAttempt == attempt.step \notin {"idle", "answer"} /\ Now(Answer("failed"))
Finish == At("answer") /\ Now(NoAttempt)
-----------------------------------------------------------------------------
(* Leaders lock the payment of a walk, run its tool and consume or commit     *)
(* results; payments may not suffice, and are filled up; time passes.         *)

Moved(w, v) ==
    /\ moves < Moves
    /\ moves' = moves + 1
    /\ walk' = [walk EXCEPT ![w] = v]
    /\ UNCHANGED <<clock, attempt, lost>>

Lock(w) ==
    walk[w].state = "active" /\ ~walk[w].locked /\ Moved(w, [walk[w] EXCEPT !.locked = TRUE])

RunTool(w, result) ==
    /\ walk[w].state = "active"
    /\ \/ walk[w].result = "none"
       \/ walk[w].result = "empty" /\ result # "empty"
    /\ Moved(w, [walk[w] EXCEPT !.result = result])

(* The result of an off-chain tool, or one on chain that is consumed.         *)
Commit(w) ==
    /\ walk[w].state = "active" /\ walk[w].result \in {"none", "stamped"}
    /\ \E marked \in BOOLEAN :
        Moved(w, [walk[w] EXCEPT !.state = "pending", !.result = "none", !.marked = marked])

Refill(w) == walk[w].marked /\ Moved(w, [walk[w] EXCEPT !.marked = FALSE])

LeaderSettles(w) ==
    /\ Committed(w) /\ ~walk[w].marked
    /\ Moved(w, [walk[w] EXCEPT !.state = "done", !.locked = FALSE])

Expire(w) ==
    /\ w \notin clock /\ moves < Moves
    /\ clock' = clock \cup {w}
    /\ moves' = moves + 1
    /\ UNCHANGED <<walk, attempt, lost>>

WalkNext ==
    \/ \E w \in Walks : Resolve(w)
    \/ \E call \in {"abort", "abort_with_tool_gas"} : Abort(call)
    \/ ReadWalks \/ ReadWalksAgain \/ ReadClock \/ ReadCommitted \/ ReadMarker
    \/ PlanResolution \/ PlanCleanup \/ ReadPayment
    \/ SubmitSettlement \/ SubmitAbort
    \/ FailAttempt \/ Finish
    \/ \E w \in Walks :
        \/ Lock(w) \/ Commit(w) \/ Refill(w) \/ LeaderSettles(w) \/ Expire(w)
        \/ \E result \in {"empty", "stamped", "unstamped"} : RunTool(w, result)

WalkSpec == WalkInit /\ [][WalkNext]_walkVars
-----------------------------------------------------------------------------
WalkTypeOK ==
    /\ walk \in [Walks -> Walk]
    /\ clock \subseteq Walks /\ lost \subseteq Walks
    /\ attempt.left \subseteq Walks /\ attempt.cleanups \subseteq Walks
    /\ moves \in 0 .. Moves

(* No call destroys a result that could still be consumed: an abort cleans up *)
(* only results it found without the stamps, however old what it read is.  And *)
(* a settlement that is reported stands on chain.                             *)
NoResultLost ==
    /\ lost = {}
    /\ attempt.answer = "settled" => walk[attempt.target].state = "done"
=============================================================================
