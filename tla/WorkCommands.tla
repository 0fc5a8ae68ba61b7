---------------------------- MODULE WorkCommands ----------------------------
(* The commands about DAGs and their executions, scheduled tasks, tickets and *)
(* fees, and the configuration: src/cli/src/dag, scheduler, gas and conf.     *)
EXTENDS CommandSteps

Gas == {"gas"}
CapArgs == {"owner_cap", "gas"}
CoinArgs == {"coin", "gas"}

DagCommand ==
    [ validate |-> {}, publish |-> Gas, execute |-> CoinArgs \cup {"inspect"},
      inspect_execution |-> {}, execution_cost |-> {}, abort_expired |-> Gas ]
TaskCommand ==
    [ create |-> {"schedule", "periodic", "gas"}, inspect |-> {}, metadata |-> Gas,
      pause |-> Gas, resume |-> Gas, cancel |-> Gas ]
OccurrenceCommand == [add |-> Gas]
PeriodicCommand == [set |-> Gas, disable |-> Gas]
GasCommand ==
    [ configure_priority_fee_vault |-> Gas, swap_us_for_sui |-> Gas,
      drain_priority_fee_vault_sui |-> Gas, withdraw_priority_fee |-> {"share", "gas"} ]
ExpiryCommand == [enable |-> CapArgs, disable |-> CapArgs, buy_ticket |-> CoinArgs]
LimitedInvocationsCommand == [enable |-> CapArgs, disable |-> CapArgs, buy_ticket |-> CoinArgs]
ConfCommand == [set |-> {"objects"}, get |-> {}]
-----------------------------------------------------------------------------
(* DAGs and their executions.                                                 *)
validate_dag == Query("file") \o Check("dag")
publish_dag(gas) == validate_dag \o get_nexus_client(gas) \o Transact({"gas"}) \o Report

await_poller_outcome == Query("poller")
inspect_dag_execution ==
    ReadingClient \o Query("execution") \o Repeat(Query("event") \o Maybe(Query("data")))
    \o await_poller_outcome \o Report

(* The payment coin pays for the execution and another one for gas.           *)
execute_dag(gas, coin, options) ==
    get_signing_key \o If(coin = NoCoin, Never)
    \o If(gas # NoCoin /\ gas = coin, Never)
    \o build_sui_grpc_client
    \o fetch_coin_with_balance_excluding("gas", gas, {coin}) \o CoinApart
    \o fetch_coin_with_balance("payment", coin) \o Check("budget") \o ClientWith(Find("gas"))
    \o EntryPorts \o Store \o Transact({"gas", "payment"})
    \o (IF "inspect" \in options THEN inspect_dag_execution ELSE Report)
execution_cost == ReadingClient \o Query("payment") \o Report
abort_expired_execution(gas) == get_nexus_client(gas) \o Transact({"gas"}) \o Report

handle_dag(gas, coin, options) ==
    [ validate |-> validate_dag, publish |-> publish_dag(gas),
      execute |-> execute_dag(gas, coin, options), inspect_execution |-> inspect_dag_execution,
      execution_cost |-> execution_cost, abort_expired |-> abort_expired_execution(gas) ]
-----------------------------------------------------------------------------
(* Scheduled tasks.                                                           *)
parse_metadata == Check("metadata")

create_task(gas, options) ==
    get_nexus_client(gas) \o parse_metadata \o EntryPorts \o Store
    \o If("schedule" \in options,
          OccurrenceRequest \o If("periodic" \in options, Never))
    \o Transact({"gas"}) \o If("schedule" \in options, Transact({"gas"})) \o Save \o Report
inspect_task == ReadingClient \o Query("task") \o Report
update_task_metadata(gas) == parse_metadata \o get_nexus_client(gas) \o Transact({"gas"}) \o Report
set_task_state(gas) == get_nexus_client(gas) \o Transact({"gas"}) \o Report
add_occurrence_to_task(gas) ==
    OccurrenceRequest \o get_nexus_client(gas) \o Transact({"gas"}) \o Report
set_periodic_task(gas) == get_nexus_client(gas) \o Transact({"gas"}) \o Report
disable_periodic_task(gas) == get_nexus_client(gas) \o Transact({"gas"}) \o Report

handle_task(gas, coin, options) ==
    [ create |-> create_task(gas, options), inspect |-> inspect_task,
      metadata |-> update_task_metadata(gas), pause |-> set_task_state(gas),
      resume |-> set_task_state(gas), cancel |-> set_task_state(gas) ]
handle_occurrence(gas, coin, options) == [add |-> add_occurrence_to_task(gas)]
handle_periodic(gas, coin, options) ==
    [set |-> set_periodic_task(gas), disable |-> disable_periodic_task(gas)]
-----------------------------------------------------------------------------
(* Tickets and priority fees.                                                 *)
enable_expiry_extension(gas, options) ==
    get_nexus_client(gas) \o If("owner_cap" \notin options, Check("cap"))
    \o Transact({"gas"}) \o Report
disable_expiry_extension(gas, options) == enable_expiry_extension(gas, options)
enable_limited_invocations_extension(gas, options) == enable_expiry_extension(gas, options)
disable_limited_invocations_extension(gas, options) == enable_expiry_extension(gas, options)
buy_expiry_gas_ticket(gas, coin) ==
    If(coin = gas, Never) \o get_nexus_client(gas)
    \o Choose("payment", coin, {}) \o Transact({"gas", "payment"}) \o Report
buy_limited_invocations_gas_ticket(gas, coin) == buy_expiry_gas_ticket(gas, coin)
handle_expiry(gas, coin, options) ==
    [ enable |-> enable_expiry_extension(gas, options),
      disable |-> disable_expiry_extension(gas, options),
      buy_ticket |-> buy_expiry_gas_ticket(gas, coin) ]
handle_limited_invocations(gas, coin, options) ==
    [ enable |-> enable_limited_invocations_extension(gas, options),
      disable |-> disable_limited_invocations_extension(gas, options),
      buy_ticket |-> buy_limited_invocations_gas_ticket(gas, coin) ]

configure_priority_fee_vault(gas) == get_nexus_client(gas) \o Transact({"gas"}) \o Report
swap_us_for_sui(gas) == get_nexus_client(gas) \o Transact({"gas"}) \o Report
drain_priority_fee_vault_sui(gas) ==
    get_nexus_client(gas) \o Query("vault") \o Transact({"gas"}) \o Report
withdraw_priority_fee(gas, options) ==
    get_nexus_client(gas) \o If("share" \notin options, Query("share")) \o Transact({"gas"}) \o Report
handle_gas(gas, coin, options) ==
    [ configure_priority_fee_vault |-> configure_priority_fee_vault(gas),
      swap_us_for_sui |-> swap_us_for_sui(gas),
      drain_priority_fee_vault_sui |-> drain_priority_fee_vault_sui(gas),
      withdraw_priority_fee |-> withdraw_priority_fee(gas, options) ]

(* The configuration.                                                         *)
set_nexus_conf(options) ==
    If("objects" \in options, Query("objects_file") \o Check("objects_file")) \o Check("storage")
    \o Report \o Save
get_nexus_conf == Check("file") \o Report
handle_conf(gas, coin, options) == [set |-> set_nexus_conf(options), get |-> get_nexus_conf]
=============================================================================
