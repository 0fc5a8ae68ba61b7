----------------------------- MODULE TapCommands -----------------------------
(* The commands about agents, their skills and what they are paid with:       *)
(* src/cli/src/tap.  The commands of an enum come with the optional arguments *)
(* that change what its handler does.                                         *)
EXTENDS CommandSteps

Gas == {"gas"}
AgentArgs == {"agent_id", "alias"}

TapCommand ==
    [ scaffold |-> {}, validate_skill |-> {}, publish_skill |-> {"out", "gas"},
      create_skill_artifact |-> {}, create_agent |-> Gas, register_skill |-> Gas,
      update_skill |-> Gas, bind |-> Gas, requirements |-> {}, dry_run |-> {}, execute |-> {"gas"},
      schedule_task |-> {"schedule", "periodic", "refund_recipient", "agent_funded", "gas"} ]
ScheduledTaskCommand == [pause |-> Gas, resume |-> Gas, cancel |-> Gas]
AgentCommand == [save |-> {}, list |-> {}, remove |-> {}]
VaultCommand == [balance |-> AgentArgs, deposit |-> AgentArgs \cup Gas]
RegistryCommand == [show |-> {}]
DefaultAgentCommand == [show |-> {}]
PaymentsCommand ==
    [ show |-> {}, wait |-> {}, list |-> AgentArgs,
      resolve |-> AgentArgs \cup Gas, refill |-> AgentArgs \cup Gas ]
ExecutionCommand ==
    [resolve_expired_walk |-> Gas \cup {"settled"}, settle |-> Gas, abort |-> Gas]
-----------------------------------------------------------------------------
(* A skill is written, checked, published.                                    *)
scaffold_files == Query("templates")
scaffold_tap_skill == scaffold_files \o Write \o Report

read_skill_config == Check("config")
validate_dag_file == Check("dag")
validate_tap_package_manifest == Check("manifest")
validate_tap_package_sources == Check("sources")
validate_skill ==
    read_skill_config \o Check("skill") \o validate_dag_file \o validate_tap_package_manifest
    \o validate_tap_package_sources \o Report
dry_run_skill == validate_skill \o Report

pick_publish_environment == Check("environment")
publish_skill(gas, options) ==
    validate_skill \o get_nexus_client(gas) \o Query("chain") \o validate_tap_package_manifest
    \o pick_publish_environment \o Transact({"gas"}) \o Transact({"gas"})
    \o If("out" \in options, Write) \o Report

fetch_input_commitment == ReadingClient \o Query("dag") \o Query("vertices")
payment_policy_from_cli == Check("payment_policy")
schedule_policy_from_cli == Check("recurrence")
parse_fixed_tool == Check("fixed_tool")
build_artifact == Check("name") \o payment_policy_from_cli \o schedule_policy_from_cli
                  \o parse_fixed_tool \o Check("requirements")
create_skill_artifact == fetch_input_commitment \o build_artifact \o Write \o Report
-----------------------------------------------------------------------------
(* Agents and their skills on the chain.                                      *)
read_artifact == Check("artifact")
create_agent(gas) == get_nexus_client(gas) \o Transact({"gas"}) \o Report
bind_agent_skill(gas) == read_artifact \o get_nexus_client(gas) \o Transact({"gas"}) \o Report
register_skill(gas) ==
    read_artifact \o get_nexus_client(gas) \o ensure_cli_mutable_agent \o Transact({"gas", "agent"})
    \o Report
update_skill_from_artifact(gas) == register_skill(gas)
fetch_requirements == ReadingClient \o ensure_cli_agent_owner \o Query("skill") \o Report
show_default_agent == ReadingClient \o Query("executor") \o Report
show_registry == ReadingClient \o Query("registry") \o Report

handle_agent_command ==
    [save |-> Save \o Report, list |-> Report, remove |-> Save \o Report]
deposit_agent_vault(gas, options) ==
    agent_id_from_alias_or_arg(options) \o get_nexus_client(gas) \o ensure_cli_mutable_agent
    \o Transact({"gas", "agent"}) \o Report
handle_vault_command(gas, options) ==
    [ balance |-> agent_id_from_alias_or_arg(options) \o ReadingClient \o ensure_cli_agent_owner
                  \o Query("vault") \o Report,
      deposit |-> deposit_agent_vault(gas, options) ]
-----------------------------------------------------------------------------
(* Executions and tasks of an agent's skill.                                  *)
agent_execute_options_from_cli == Check("payment_source")
execute_agent_dag_skill(gas) ==
    agent_execute_options_from_cli \o get_nexus_client(gas) \o ensure_cli_mutable_agent
    \o EntryPorts \o Store \o Transact({"gas", "agent"}) \o Report

validated_priority_fee_percentages == Check("percentages")
resolve_scheduled_tap_dag_selection == Check("dag_id")
CreateTask(options) ==
    Transact({"gas"}) \o If("schedule" \in options, Transact({"gas"}))
schedule_tap_task(gas, options) ==
    LET agentFunded == "agent_funded" \in options
    IN validated_priority_fee_percentages
       \o If(agentFunded /\ "refund_recipient" \in options, Never)
       \o get_nexus_client(gas)
       \o (IF agentFunded THEN ensure_cli_mutable_agent ELSE ensure_cli_agent_owner)
       \o Query("target") \o resolve_scheduled_tap_dag_selection \o Check("metadata")
       \o EntryPorts \o Store
       \o If("schedule" \in options,
              OccurrenceRequest \o If("periodic" \in options, Never))
       \o CreateTask(options) \o Report
set_agent_task_state(gas) == get_nexus_client(gas) \o Transact({"gas", "agent"}) \o Report

(* What executions are paid with, and what becomes of their walks.            *)
AnyAgent(options, steps) == If(options \cap AgentArgs # {}, steps)
show_payment == ReadingClient \o Query("payment") \o Report
wait_payment == Check("poll_secs") \o ReadingClient \o Query("payment") \o Report
list_payments(options) ==
    AnyAgent(options, agent_id_from_alias_or_arg(options)) \o ReadingClient
    \o AnyAgent(options, ensure_cli_agent_owner) \o Query("receipts") \o Report
resolve_payment(gas, options) ==
    AnyAgent(options, agent_id_from_alias_or_arg(options)) \o get_nexus_client(gas)
    \o AnyAgent(options, ensure_cli_mutable_agent) \o Transact({"gas", "agent"}) \o Report
refill_payment(gas, options) == resolve_payment(gas, options)
handle_payments_command(gas, options) ==
    [ show |-> show_payment, wait |-> wait_payment, list |-> list_payments(options),
      resolve |-> resolve_payment(gas, options), refill |-> refill_payment(gas, options) ]

resolve_expired_walk(gas, skip) ==
    get_nexus_client(gas) \o Query("walk") \o If(~skip, Transact({"gas"})) \o Report
settle_committed_result(gas) == get_nexus_client(gas) \o Transact({"gas"}) \o Report
abort_execution(gas) == get_nexus_client(gas) \o Transact({"gas"}) \o Report
handle_execution_command(gas, options) ==
    [ resolve_expired_walk |-> resolve_expired_walk(gas, "settled" \in options),
      settle |-> settle_committed_result(gas), abort |-> abort_execution(gas) ]

handle(gas, options) ==
    [ scaffold |-> scaffold_tap_skill, validate_skill |-> validate_skill,
      publish_skill |-> publish_skill(gas, options),
      create_skill_artifact |-> create_skill_artifact, create_agent |-> create_agent(gas),
      register_skill |-> register_skill(gas), update_skill |-> update_skill_from_artifact(gas),
      bind |-> bind_agent_skill(gas), requirements |-> fetch_requirements,
      dry_run |-> dry_run_skill, execute |-> execute_agent_dag_skill(gas),
      schedule_task |-> schedule_tap_task(gas, options) ]
handle_scheduled_task(gas, options) ==
    [ pause |-> set_agent_task_state(gas), resume |-> set_agent_task_state(gas),
      cancel |-> set_agent_task_state(gas) ]
=============================================================================
