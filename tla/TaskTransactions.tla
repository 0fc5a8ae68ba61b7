-------------------------- MODULE TaskTransactions --------------------------
(* The transactions built for scheduled tasks and for agents                  *)
(* (src/sdk/src/transactions/{scheduler,tap}.rs).  agent is how the chain     *)
(* holds the agent, generator "queue" or "periodic", feeInRange whether the    *)
(* priority fee of the caller is a percentage the SDK accepts.                *)
EXTENDS DagTransactions

TaskObj == The("Task")
-----------------------------------------------------------------------------
(* A task is made of two policies.  Each is made from a table of symbols that *)
(* is only read and must be dropped.                                          *)

PolicyFrom(fn, k) ==
    LET table == Res(<<"TableVec", k>>)
    IN << Call("table_vec_empty", <<>>, <<k>>), Do("table_vec_push_back", <<table>>),
          Call(fn, <<table>>, <<k>>), Do("table_vec_drop", <<table>>) >>

ConstraintsPolicy == Res(<<"ConstraintsPolicy", "constraints">>)
ExecutionPolicy == Res(<<"ExecutionPolicy", "execution">>)

Generator(generator) ==
    IF generator = "queue"
    THEN << Call("new_queue_generator_state", <<>>, <<"state">>),
            Do("register_queue_generator",
               <<ConstraintsPolicy, Res(<<"QueueGeneratorState", "state">>)>>) >>
    ELSE << Call("new_periodic_generator_state", <<>>, <<"state">>),
            Do("register_periodic_generator",
               <<ConstraintsPolicy, Res(<<"PeriodicGeneratorState", "state">>)>>) >>

NewConstraintsPolicy(generator) ==
    PolicyFrom("new_constraints_policy", "constraints") \o Generator(generator)

NewExecutionPolicy ==
    PolicyFrom("new_execution_policy", "execution")
    \o << Do("register_begin_execution", <<ExecutionPolicy>>) >>

Policies(generator) == NewConstraintsPolicy(generator) \o NewExecutionPolicy

Prepay == Call("withdraw_sui", <<>>, <<"prepaid">>)
Prepaid == Res(<<"CoinSui", "prepaid">>)
ShareTask == Do("public_share_object", <<Res(TaskObj)>>)

CreateDefaultAgentTask(generator, feeInRange) ==
    IF ~feeInRange THEN NotBuilt
    ELSE Policies(generator)
         \o << Prepay,
               Call("new_default_agent_task",
                    <<ConstraintsPolicy, ExecutionPolicy, Mut(The("AgentRegistry")), Prepaid>>, <<"">>),
               ShareTask >>

(* The invoker prepays with its own SUI and the agent is only read, or the    *)
(* agent's vault pays and the agent changes.                                  *)
NewInvokerFundedTask(agent) ==
    << Prepay,
       Call("new_invoker_funded_agent_task",
            <<ConstraintsPolicy, ExecutionPolicy, Mut(The("AgentRegistry")), ReadAgent(agent), Prepaid>>,
            <<"">>) >>
NewAgentFundedTask(agent) ==
    << Call("new_agent_funded_task",
            <<ConstraintsPolicy, ExecutionPolicy, Mut(The("AgentRegistry")), MutableAgent(agent)>>,
            <<"">>) >>

CreateAgentTaskPtb(agent, vault, generator, feeInRange) ==
    IF ~feeInRange \/ (vault /\ ~CanMutate(agent)) THEN NotBuilt
    ELSE Policies(generator)
         \o (IF vault THEN NewAgentFundedTask(agent) ELSE NewInvokerFundedTask(agent))
         \o << ShareTask >>
-----------------------------------------------------------------------------
(* A created task.  The default executor's tasks ask the agent registry who    *)
(* may change them, an agent's tasks ask the agent.                           *)

UpdateMetadataPtb == << Do("update_metadata", <<Mut(TaskObj)>>) >>

PauseTask == << Do("pause", <<Mut(TaskObj), Read("AgentRegistry")>>) >>
ResumeTask == << Do("resume", <<Mut(TaskObj), Read("AgentRegistry")>>) >>
CancelTask == << Do("cancel", <<Mut(TaskObj), Mut(The("AgentRegistry"))>>) >>
PauseAgentTask(agent) == << Do("pause_with_agent", <<Mut(TaskObj), ReadAgent(agent)>>) >>
ResumeAgentTask(agent) == << Do("resume_with_agent", <<Mut(TaskObj), ReadAgent(agent)>>) >>
CancelAgentTask(agent) ==
    << Do("cancel_with_agent", <<Mut(TaskObj), ReadAgent(agent), Mut(The("AgentRegistry"))>>) >>

Occurrence(fn, between, feeInRange) ==
    IF ~feeInRange THEN NotBuilt
    ELSE << Do(fn, <<Mut(TaskObj)>> \o between \o <<Read("LeaderRegistry")>>) >>

AddOccurrenceAbsolute(feeInRange) ==
    Occurrence("add_occurrence_absolute_for_task", <<>>, feeInRange)
AddOccurrenceRelative(feeInRange) ==
    Occurrence("add_occurrence_relative_for_task", <<>>, feeInRange)
AddOccurrenceRelativeForAgent(agent, feeInRange) ==
    Occurrence("add_occurrence_relative_for_agent_task", <<ReadAgent(agent)>>, feeInRange)
ConfigurePeriodicPtb(feeInRange) ==
    Occurrence("new_or_modify_periodic_for_task", <<>>, feeInRange)
DisablePeriodicPtb == << Do("disable_periodic_for_task", <<Mut(TaskObj)>>) >>

(* The leader takes the due occurrence, starts its execution from the         *)
(* prepaid budget and gives the proof back to the task.                       *)
ExecuteScheduledOccurrence(generator, ts) ==
    << Call(IF generator = "queue" THEN "check_queue_occurrence" ELSE "check_periodic_occurrence",
            <<Mut(TaskObj), Read("LeaderRegistry")>>, <<"occurrence">>),
       Call("prepare_execution_from_scheduled_payment",
            <<Imm(DagObj), Read("AgentRegistry"), Read("ToolRegistry"), Mut(TaskObj), Imm(LeaderCap)>>,
            <<"">>) >>
    \o FundAndStart(ts)
    \o << Do("finish", <<Mut(TaskObj), Res(<<"ProofOfUID", "occurrence">>)>>) >>
-----------------------------------------------------------------------------
(* Agents and their skills, and the packages of those that have their own.    *)

PublishPackagePtb ==
    << Call("publish", <<>>, <<"">>), Do("transfer_objects", <<Res(The("UpgradeCap"))>>) >>

NewAgent == Call("create_agent", <<Mut(The("AgentRegistry"))>>, <<"">>)

CreateAgentForSelf == << NewAgent, Do("transfer_objects", <<Res(The("Agent"))>>) >>

SkillCall(fn, agent) ==
    Do(fn, <<Mut(The("AgentRegistry")), agent, Read("ToolRegistry"), Imm(DagObj)>>)

RegisterSkillPtb(agent) ==
    IF ~CanMutate(agent) THEN NotBuilt
    ELSE << SkillCall("register_skill", MutableAgent(agent)) >>

UpdateSkillFromArtifactPtb(agent) ==
    IF ~CanMutate(agent) THEN NotBuilt
    ELSE << SkillCall("update_dag", MutableAgent(agent)),
            Do("update_skill_policies", <<Mut(The("AgentRegistry")), MutableAgent(agent)>>) >>

(* A new agent with its first skill: nothing is done with the agent itself.   *)
BindAgentSkillPtb == << NewAgent, SkillCall("register_skill", Res(The("Agent"))) >>

DepositAgentPaymentVaultPtb(agent) ==
    IF ~CanMutate(agent) THEN NotBuilt
    ELSE << Call("withdraw_sui", <<>>, <<"deposit">>),
            Do("deposit_agent_payment_vault", <<MutableAgent(agent), Res(<<"CoinSui", "deposit">>)>>) >>
=============================================================================
