---------------------------- MODULE TaskCreation ----------------------------
(* SchedulerActions::create_task and TapActions::create_agent_task            *)
(* (src/sdk/src/nexus/{scheduler,tap}.rs): the task is created by one         *)
(* transaction and its first occurrence added by another, with checks and     *)
(* reads before, between and after them.  An agent that is owned changes its  *)
(* version with every transaction that it enters, by whomever.                *)
EXTENDS Naturals, FiniteSets

CONSTANT Uses \* bound on what others do with the agent

ASSUME UsesAssumption == Uses \in Nat

VARIABLES
    taskAgent, \* how the chain holds the agent, and its version
    creation, \* the call that runs
    uses      \* what others have done with the agent so far

creationVars == <<taskAgent, creation, uses>>

(* What is asked for.  "half" gives an agent or a skill alone; "user_extra"   *)
(* has options that only an agent's task has.  An OccurrenceRequest starts at *)
(* a time or after an offset.                                                 *)
TaskRequests ==
    [bound : {"both", "neither", "half"},
     payment : {"none", "user", "user_extra", "vault"},
     generator : {"queue", "periodic"},
     schedule : {"none", "absolute", "relative"}]
OfAgent(r) == r.bound = "both"
NoRequest == [bound |-> "neither", payment |-> "none", generator |-> "queue", schedule |-> "none"]

(* created and added count what this call has put on chain; touched: others   *)
(* used the agent after it was last read.                                     *)
NoCreation ==
    [step |-> "idle", request |-> NoRequest, ref |-> [held |-> "owned", version |-> 0],
     created |-> 0, added |-> 0, touched |-> FALSE, answer |-> "none"]

CreationInit ==
    /\ taskAgent \in [held : {"owned", "shared", "frozen"}, version : {0}]
    /\ creation = NoCreation
    /\ uses = 0

Step(s) == creation.step = s
Goes(c) == creation' = c /\ UNCHANGED <<taskAgent, uses>>
Next_(s) == [creation EXCEPT !.step = s]
Errors(e) == [creation EXCEPT !.step = "answer", !.answer = e]
Succeeds(c) == [c EXCEPT !.step = "answer", !.answer = "ok"]
-----------------------------------------------------------------------------
(* Before anything is submitted.  The default executor's payment is looked at *)
(* after the binding; a periodic agent task has no first occurrence.          *)
Unsound(r) ==
    \/ r.bound = "half"
    \/ r.payment = "none"
    \/ r.bound = "neither" /\ r.payment \in {"vault", "user_extra"}
    \/ OfAgent(r) /\ r.schedule # "none" /\ r.generator # "queue"

(* Versions are counted from the start of the call: it has no earlier one.    *)
BeginCreate(r) ==
    /\ Step("idle")
    /\ creation' = [NoCreation EXCEPT
                !.request = r,
                !.step = IF Unsound(r) THEN "answer" ELSE IF OfAgent(r) THEN "agent" ELSE "create",
                !.answer = IF Unsound(r) THEN "invalid" ELSE "none"]
    /\ taskAgent' = [taskAgent EXCEPT !.version = 0]
    /\ UNCHANGED uses

(* agent_input_from_metadata; the builder refuses a frozen agent's vault.     *)
ReadAgentForTask ==
    /\ Step("agent")
    /\ Goes(IF creation.request.payment = "vault" /\ taskAgent.held = "frozen" THEN Errors("not_built")
            ELSE [Next_("create") EXCEPT !.ref = taskAgent, !.touched = FALSE])

(* A shared agent enters whatever its version, an owned one only with the     *)
(* version it has, and then gets a new one.                                   *)
AgentAccepted ==
    OfAgent(creation.request) =>
        taskAgent.held = creation.ref.held /\ (taskAgent.held = "owned" => taskAgent = creation.ref)

AgentEntered ==
    IF OfAgent(creation.request) /\ taskAgent.held = "owned"
    THEN [taskAgent EXCEPT !.version = @ + 1] ELSE taskAgent

(* Mutant of SubmitTask: a lost answer is taken for a failure and retried.    *)
SubmitTaskAgain ==
    /\ Step("create")
    /\ IF AgentAccepted
       THEN /\ taskAgent' = AgentEntered
            /\ creation' \in {[Next_("created") EXCEPT !.created = 1],
                              [Next_("created") EXCEPT !.created = 2]}
            /\ UNCHANGED uses
       ELSE Goes(Errors("refused_task"))

SubmitTask ==
    /\ Step("create")
    /\ IF AgentAccepted
       THEN /\ taskAgent' = AgentEntered
            /\ creation' \in {[Next_("created") EXCEPT !.created = 1],
                              [Errors("lost") EXCEPT !.created = 1]} \* the answer may be lost
            /\ UNCHANGED uses
       ELSE Goes(Errors("refused_task"))
-----------------------------------------------------------------------------
(* The first occurrence.  What create_task checks only now leaves the task    *)
(* behind.                                                                    *)
LateError(r) ==
    IF OfAgent(r) THEN r.schedule = "absolute"
    ELSE r.schedule # "none" /\ r.generator # "queue"

CheckSchedule ==
    /\ Step("created")
    /\ LET r == creation.request
       IN Goes(IF r.schedule = "none" THEN Succeeds(creation)
               ELSE IF LateError(r) THEN Errors("late") ELSE Next_("task"))

ReadTask ==
    Step("task") /\ Goes(Next_(IF OfAgent(creation.request) THEN "agent_again" ELSE "occurrence"))

(* Mutant of ReadFreshAgent: the reference of the first transaction is kept.  *)
KeepAgent == Step("agent_again") /\ Goes([Next_("occurrence") EXCEPT !.touched = FALSE])

ReadFreshAgent ==
    /\ Step("agent_again")
    /\ Goes([Next_("occurrence") EXCEPT !.ref = taskAgent, !.touched = FALSE])

SubmitOccurrence ==
    /\ Step("occurrence")
    /\ IF AgentAccepted
       THEN /\ taskAgent' = AgentEntered
            /\ LET c == [creation EXCEPT !.added = 1]
               IN creation' \in {Succeeds(c), [c EXCEPT !.step = "answer", !.answer = "lost"]}
            /\ UNCHANGED uses
       ELSE Goes(Errors("refused_occurrence"))

FailRead == creation.step \in {"agent", "task", "agent_again"} /\ Goes(Errors("rpc"))
TakeTask == Step("answer") /\ Goes(NoCreation)

(* Others use an owned agent, share it or freeze it.                          *)
OthersUse ==
    /\ uses < Uses /\ taskAgent.held = "owned"
    /\ \E held \in {"owned", "shared", "frozen"} :
        taskAgent' = [held |-> held, version |-> taskAgent.version + 1]
    /\ creation' = [creation EXCEPT !.touched = TRUE]
    /\ uses' = uses + 1

CreationNext ==
    \/ \E r \in TaskRequests : BeginCreate(r)
    \/ ReadAgentForTask \/ SubmitTask \/ CheckSchedule
    \/ ReadTask \/ ReadFreshAgent \/ SubmitOccurrence
    \/ FailRead \/ TakeTask \/ OthersUse

CreationSpec == CreationInit /\ [][CreationNext]_creationVars
-----------------------------------------------------------------------------
CreationTypeOK ==
    /\ taskAgent.held \in {"owned", "shared", "frozen"} /\ taskAgent.version \in Nat
    /\ creation.request \in TaskRequests
    /\ creation.created \in 0 .. 1 /\ creation.added \in 0 .. 1
    /\ uses \in 0 .. Uses

(* A task that is reported has the occurrence that was asked for and no       *)
(* other; an unsound request puts nothing on chain; an occurrence is added to *)
(* this call's task only.  The chain refuses a step only if someone else used *)
(* the agent after the method read it: the call's own first transaction never *)
(* makes its second one stale.                                                *)
CreatesWhatWasAsked ==
    /\ creation.answer = "ok" =>
        /\ creation.created = 1 /\ ~Unsound(creation.request)
        /\ creation.added = 1 <=> creation.request.schedule # "none"
        /\ creation.request.generator = "queue" \/ creation.added = 0
    /\ creation.answer \in {"invalid", "not_built"} => creation.created = 0
    /\ creation.added <= creation.created
    /\ creation.answer \in {"refused_task", "refused_occurrence"} => creation.touched
=============================================================================
