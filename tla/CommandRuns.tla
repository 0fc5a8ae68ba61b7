----------------------------- MODULE CommandRuns -----------------------------
(* A command of the command line runs, step by step (src/cli/src/main.rs),    *)
(* while the coins of its wallet are spent and the agent is handed over by    *)
(* others.  The programs of the commands are in TapCommands, ToolCommands and *)
(* WorkCommands.                                                              *)
EXTENDS CommandSteps, FiniteSets

CONSTANT Coins \* the SUI coins of the wallet, in the order of their IDs

ASSUME CommandRunsAssumption == Coins \subseteq Nat /\ NoCoin \notin Coins

VARIABLES
    commandRun, \* the command that runs
    purse,      \* what is on the coins of the wallet, 0 if one is not there
    holder,     \* who holds the agent
    meddled     \* did somebody else change either while the command ran?

commandVars == <<commandRun, purse, holder, meddled>>

Tap == INSTANCE TapCommands
Tool_ == INSTANCE ToolCommands
Work == INSTANCE WorkCommands

Arguments ==
    [ tap |-> Tap!TapCommand, scheduled_task |-> Tap!ScheduledTaskCommand,
      agent |-> Tap!AgentCommand, vault |-> Tap!VaultCommand, registry |-> Tap!RegistryCommand,
      default_agent |-> Tap!DefaultAgentCommand, payments |-> Tap!PaymentsCommand,
      execution |-> Tap!ExecutionCommand, tool |-> Tool_!ToolCommand,
      register |-> Tool_!RegisterCommand, validate |-> Tool_!ValidateCommand,
      configure_verifier |-> Tool_!ConfigureVerifierCommand, auth |-> Tool_!ToolAuthCommand,
      dag |-> Work!DagCommand, task |-> Work!TaskCommand, occurrence |-> Work!OccurrenceCommand,
      periodic |-> Work!PeriodicCommand, gas |-> Work!GasCommand, expiry |-> Work!ExpiryCommand,
      limited_invocations |-> Work!LimitedInvocationsCommand, conf |-> Work!ConfCommand ]

Programs(group, gas, coin, options) ==
    CASE group = "tap" -> Tap!handle(gas, options)
      [] group = "scheduled_task" -> Tap!handle_scheduled_task(gas, options)
      [] group = "agent" -> Tap!handle_agent_command
      [] group = "vault" -> Tap!handle_vault_command(gas, options)
      [] group = "registry" -> [show |-> Tap!show_registry]
      [] group = "default_agent" -> [show |-> Tap!show_default_agent]
      [] group = "payments" -> Tap!handle_payments_command(gas, options)
      [] group = "execution" -> Tap!handle_execution_command(gas, options)
      [] group = "tool" -> Tool_!handle(gas, options)
      [] group = "register" -> Tool_!handle_register(gas, options)
      [] group = "validate" -> Tool_!handle_validate(gas, options)
      [] group = "configure_verifier" -> Tool_!handle_configure_verifier(gas, options)
      [] group = "auth" -> Tool_!handle_tool_auth(gas, options)
      [] group = "dag" -> Work!handle_dag(gas, coin, options)
      [] group = "task" -> Work!handle_task(gas, coin, options)
      [] group = "occurrence" -> Work!handle_occurrence(gas, coin, options)
      [] group = "periodic" -> Work!handle_periodic(gas, coin, options)
      [] group = "gas" -> Work!handle_gas(gas, coin, options)
      [] group = "expiry" -> Work!handle_expiry(gas, coin, options)
      [] group = "limited_invocations" -> Work!handle_limited_invocations(gas, coin, options)
      [] group = "conf" -> Work!handle_conf(gas, coin, options)
-----------------------------------------------------------------------------
NoCommandRuns == [status |-> "idle"]
Holders == {"signer", "shared", "frozen", "another"}
Runs == commandRun.status = "running"
Kinds(program) == {program[i].kind : i \in DOMAIN program}
Roles(program) == {program[i].what : i \in {j \in DOMAIN program : program[j].kind = "choose"}}
Outside == UNCHANGED <<purse, holder, meddled>>

CommandsInit ==
    /\ commandRun = NoCommandRuns /\ holder = "signer"
    /\ purse = [c \in Coins |-> 1] /\ meddled = FALSE

(* The command line is parsed and dispatched.  Of the wallet and the agent    *)
(* only those states are looked at that the command can tell apart.           *)
BeginCommand(group, command, gas, coin, options) ==
    /\ commandRun = NoCommandRuns
    /\ LET program == Programs(group, gas, coin, options)[command]
       IN /\ commandRun' = [status |-> "running", command |-> <<group, command>>, gas |-> gas,
                            coin |-> coin, left |-> program, roles |-> Roles(program),
                            chosen |-> [role \in {"gas", "payment"} |-> NoCoin], done |-> {}]
          /\ purse' \in [Coins -> 0..Cardinality(Roles(program))]
          /\ holder' \in IF "access" \in Kinds(program) THEN Holders ELSE {"signer"}
    /\ meddled' = FALSE

AtStep(kind) == Runs /\ commandRun.left # <<>> /\ Head(commandRun.left).kind = kind
This == Head(commandRun.left)
Steps(record) == commandRun' = record /\ Outside
Passed == [commandRun EXCEPT !.left = Tail(@)]
Done(effect) == [Passed EXCEPT !.done = @ \cup {effect}]
Ended(status) == [commandRun EXCEPT !.status = status, !.left = <<>>]

Checks == AtStep("check") /\ (Steps(Passed) \/ Steps(Ended("wrong")))
Contradiction == AtStep("never") /\ Steps(Ended("wrong"))
Queries == AtStep("query") /\ Steps(Passed)
Effects == AtStep("effect") /\ Steps(Done(This.what))
KeepsCaps == AtStep("keep") /\ Steps(IF "executed" \in commandRun.done THEN Done("saved") ELSE Passed)
Accesses ==
    /\ AtStep("access")
    /\ Steps(IF ensure_agent_owner_allowed(holder, This.what) THEN Passed ELSE Ended("refused"))

(* A named coin must be in the wallet; otherwise the largest is taken, among  *)
(* equals the one with the smallest ID.                                       *)
There == {c \in Coins : purse[c] > 0}
Before(c, d) == purse[c] > purse[d] \/ (purse[c] = purse[d] /\ c < d)
First(S) == CHOOSE c \in S : \A d \in S \ {c} : Before(c, d)
Chooses ==
    /\ AtStep("choose")
    /\ LET found == IF This.named # NoCoin THEN There \cap {This.named} ELSE There \ This.apart
       IN Steps(IF found = {} THEN Ended("refused")
                ELSE [Passed EXCEPT !.chosen[This.what] = First(found)])
Finds ==
    /\ AtStep("find")
    /\ Steps(IF commandRun.chosen[This.what] \in There THEN Passed ELSE Ended("refused"))
Apart(payment) == commandRun.chosen["gas"] # payment
LooksApart == AtStep("apart") /\ Steps(IF Apart(commandRun.coin) THEN Passed ELSE Ended("refused"))

(* The chain takes the coins of a transaction if they are there and no coin   *)
(* is both its gas and one of its inputs, and the agent from who may use it.  *)
Accepted(roles) ==
    /\ \A role \in roles \cap {"gas", "payment"} : commandRun.chosen[role] \in There
    /\ "payment" \in roles => Apart(commandRun.chosen["payment"])
    /\ "agent" \in roles => ensure_agent_owner_allowed(holder, "mutable")
Submits ==
    /\ AtStep("submit")
    /\ Steps(IF Accepted(This.what) THEN Done("executed") ELSE Ended("rejected"))
(* A tool that is registered already is refused, and that is printed.         *)
AlreadyRegistered ==
    /\ AtStep("submit") /\ "new_tool" \in This.what
    /\ Steps([Ended("failed") EXCEPT !.done = @ \cup {"printed"}])
Tries ==
    /\ AtStep("try")
    /\ \/ /\ Accepted(This.what.roles)
          /\ Steps([Done("executed") EXCEPT !.left = This.what.accepted \o @])
       \/ Steps(Passed)

(* Steps that depend on what was answered, or are ignored if they fail.       *)
Branches ==
    /\ AtStep("maybe")
    /\ Steps(Passed) \/ Steps([Passed EXCEPT !.left = This.what \o @])
Repeats ==
    /\ AtStep("repeat")
    /\ Steps(Passed) \/ Steps([commandRun EXCEPT !.left = This.what \o @])
BestEffort == AtStep("attempt") /\ (Steps(Passed) \/ Steps(Done(This.what)))

Finishes == Runs /\ commandRun.left = <<>> /\ Steps(Ended("ok"))
(* A request, a file or the chain fails.                                      *)
Breaks ==
    /\ Runs /\ commandRun.left # <<>> /\ This.kind \notin {"maybe", "repeat", "attempt"}
    /\ Steps(Ended("failed"))
Leaves ==
    /\ commandRun.status \notin {"idle", "running"}
    /\ commandRun' = NoCommandRuns /\ purse' = [c \in Coins |-> 1] /\ holder' = "signer"
    /\ meddled' = FALSE

SpendsCoin(c) ==
    /\ Runs /\ ~meddled /\ c \in There
    /\ purse' = [purse EXCEPT ![c] = 0] /\ meddled' = TRUE
    /\ UNCHANGED <<commandRun, holder>>
HandsOver(who) ==
    /\ Runs /\ ~meddled /\ "access" \in Kinds(commandRun.left) /\ holder = "signer"
    /\ holder' = who /\ meddled' = TRUE
    /\ UNCHANGED <<commandRun, purse>>

CommandsNext ==
    \/ /\ commandRun = NoCommandRuns
       /\ \E group \in DOMAIN Arguments : \E command \in DOMAIN Arguments[group] :
            LET may == Arguments[group][command]
            IN \E gas \in {NoCoin} \cup IF "gas" \in may THEN Coins ELSE {},
                  coin \in IF "coin" \in may THEN Coins ELSE {NoCoin},
                  options \in SUBSET (may \ {"gas", "coin"}) :
                 BeginCommand(group, command, gas, coin, options)
    \/ Checks \/ Contradiction \/ Queries \/ Effects \/ KeepsCaps \/ Accesses
    \/ Chooses \/ Finds \/ LooksApart \/ Submits \/ AlreadyRegistered \/ Tries
    \/ Branches \/ Repeats \/ BestEffort
    \/ Finishes \/ Breaks \/ Leaves
    \/ \E c \in Coins : SpendsCoin(c)
    \/ \E who \in Holders \ {"signer"} : HandsOver(who)
-----------------------------------------------------------------------------
CommandsTypeOK ==
    /\ purse \in [Coins -> 0..2] /\ holder \in Holders /\ meddled \in BOOLEAN
    /\ commandRun.status \in {"idle", "running", "ok", "wrong", "refused", "rejected", "failed"}

(* A command that turns its arguments down, or the coins or the agent it      *)
(* finds, has left nothing behind: no transaction, no file, no configuration. *)
(* Only data that was sent to Walrus may be left, by the commands that create *)
(* a task and check the times of its first occurrence late; a batch of tools  *)
(* ends at the first whose server answers nonsense; and an execution that is  *)
(* inspected at once has a second client made for that.                       *)
RefusedUnchanged ==
    commandRun.status \in {"wrong", "refused"} =>
        /\ commandRun.done \cap {"executed", "written", "saved"} # {} =>
              commandRun.command \in {<<"register", "off_chain">>, <<"dag", "execute">>}
        /\ "stored" \in commandRun.done =>
              commandRun.command \in 
                  {<<"task", "create">>, <<"tap", "schedule_task">>, <<"dag", "execute">>}

(* Where the arguments are right, the wallet has a coin for gas besides the   *)
(* one that is to pay, the agent may be used and nobody interferes, neither   *)
(* the command nor the chain has anything to object to: the choices made by   *)
(* the steps of a command fit together.  Only who buys a ticket and names no  *)
(* gas coin may find that it is the ticket's coin that was chosen.            *)
Suffices ==
    \E c \in There : /\ commandRun.gas \in {NoCoin, c}
                     /\ "payment" \in commandRun.roles => commandRun.coin \in There \ {c}
CommandsSucceed ==
    commandRun.status \in {"refused", "rejected"} =>
        \/ meddled \/ holder \in {"frozen", "another"} \/ ~Suffices
        \/ commandRun.command[2] = "buy_ticket" /\ commandRun.gas = NoCoin

(* The result is printed once, after all that the command does: who reads it  *)
(* may rely on it, and who does not get it knows that the command failed.     *)
(* Only the configuration is printed before it is saved, a skill that is      *)
(* tried or published is reported valid first, and so is the file that is     *)
(* kept in step with the leaders until the user stops it.                     *)
ReportsLast ==
    (Runs /\ "printed" \in commandRun.done) =>
        \/ Kinds(commandRun.left) \cap
              {"effect", "keep", "submit", "try", "maybe", "repeat", "attempt"} = {}
        \/ commandRun.command \in {<<"conf", "set">>, <<"tap", "dry_run">>,
                <<"tap", "publish_skill">>, <<"auth", "sync_allowed_leaders">>}

(* What a command did and what it answers agree.                              *)
OutcomesTrue == RefusedUnchanged /\ ReportsLast
=============================================================================
