----------------------------- MODULE MoveCalls -----------------------------
(* The Move functions that the builders of the SDK call, with the resources   *)
(* they take and return (src/sdk/src/move_bindings/ir holds the summaries).   *)
(* Parameters that may be copied and dropped, and the clock, are left out.    *)
EXTENDS Ptb

(* The Sui framework and the commands of a transaction.                       *)
Framework ==
    [ transfer_objects     |-> Sig(<<V("any")>>, <<>>),
      public_share_object  |-> Sig(<<V("any")>>, <<>>),
      publish              |-> Sig(<<>>, <<"UpgradeCap">>),
      split_coins          |-> Sig(<<M("CoinSui")>>, <<"CoinSui">>),
      withdraw_sui         |-> Sig(<<>>, <<"CoinSui">>),
      withdraw_us          |-> Sig(<<>>, <<"CoinUs">>),
      send_funds           |-> Sig(<<V("CoinUs")>>, <<>>),
      table_vec_empty      |-> Sig(<<>>, <<"TableVec">>),
      table_vec_push_back  |-> Sig(<<M("TableVec")>>, <<>>),
      table_vec_drop       |-> Sig(<<V("TableVec")>>, <<>>) ]

(* Tools, their gas, their keys and the leaders.                              *)
Registry ==
    [ register_off_chain_tool |-> Sig(<<M("ToolRegistry"), M("CoinUs")>>, <<"Tool", "OverTool">>),
      register_on_chain_tool  |-> Sig(<<M("ToolRegistry"), M("CoinUs")>>, <<"Tool", "OverTool">>),
      register_on_chain_tool_with_workflow_authorization_cap |->
          Sig(<<M("ToolRegistry"), M("CoinUs")>>, <<"Tool", "OverTool">>),
      unregister              |->
          Sig(<<M("Tool"), M("ToolRegistry"), M("VerifierRegistry"), M("OverTool")>>, <<>>),
      claim_collateral_for_self |-> Sig(<<M("Tool"), M("OverTool")>>, <<>>),
      update_tool_timeout     |-> Sig(<<R("Tool"), M("ToolRegistry"), M("OverTool")>>, <<>>),
      configure_tool          |->
          Sig(<<M("ToolRegistry"), R("Tool"), M("OverTool"), R("NetworkAuth"), R("KeyBinding")>>, <<>>),
      register_external_verifier |->
          Sig(<<M("ToolRegistry"), M("VerifierRegistry"), R("Tool"), M("OverTool"),
                V("ExternalVerifierRegistration")>>, <<>>),
      prove_offchain_tool     |-> Sig(<<R("Tool"), M("OverTool")>>, <<"ProofOfIdentity">>),
      prove_leader            |-> Sig(<<R("OverNetwork")>>, <<"ProofOfIdentity">>),
      create_binding          |-> Sig(<<M("NetworkAuth"), V("ProofOfIdentity")>>, <<"KeyBinding">>),
      new_proof_of_key        |-> Sig(<<R("KeyBinding"), R("ProofOfIdentity")>>, <<"ProofOfKey">>),
      register_key            |-> Sig(<<M("KeyBinding"), R("ProofOfIdentity"), V("ProofOfKey")>>, <<>>),
      leader_register         |-> Shares(<<M("LeaderRegistry"), M("CoinUs")>>, <<"OverNetwork">>),
      activate_and_claim      |-> Sig(<<M("LeaderRegistry"), R("OverNetwork")>>, <<>>),
      suspend_if_token        |-> Sig(<<M("LeaderRegistry"), R("OverNetwork")>>, <<>>) ]

ToolGasCalls ==
    [ gas_deescalate           |-> Sig(<<R("Tool"), M("OverTool")>>, <<"OverGas">>),
      create_tool_gas_and_share |-> Shares(<<M("GasService"), R("Tool"), M("OverGas")>>, <<"ToolGas">>),
      set_single_invocation_cost_mist |-> Sig(<<M("GasService"), R("Tool"), M("OverGas")>>, <<>>),
      enable_expiry            |-> Sig(<<M("ToolGas"), R("Tool"), M("OverGas")>>, <<>>),
      disable_expiry           |-> Sig(<<M("ToolGas"), R("Tool"), M("OverGas")>>, <<>>),
      buy_expiry_gas_ticket    |-> Sig(<<M("ToolGas"), R("Tool"), M("CoinSui")>>, <<>>),
      enable_limited_invocations |-> Sig(<<M("ToolGas"), R("Tool"), M("OverGas")>>, <<>>),
      disable_limited_invocations |-> Sig(<<M("ToolGas"), R("Tool"), M("OverGas")>>, <<>>),
      buy_limited_invocations_gas_ticket |-> Sig(<<M("ToolGas"), R("Tool"), M("CoinSui")>>, <<>>),
      snapshot_dag_tool_costs  |-> Sig(<<R("GasService"), M("DAGExecution"), R("DAG")>>, <<>>),
      lock_payment_state_for_tool |-> Sig(<<M("ToolGas"), R("DAG"), M("DAGExecution")>>, <<>>),
      settle_payment_state_for_vertex |-> Sig(<<M("ToolGas"), R("DAG"), M("DAGExecution")>>, <<>>),
      abort_expired_execution_with_tool_gas |-> Sig(<<M("ToolGas"), R("DAG"), M("DAGExecution")>>, <<>>),
      configure                |-> Sig(<<M("PriorityFeeVault"), R("PriorityFeeVaultOwnerCap")>>, <<>>),
      swap_us_for_sui          |-> Sig(<<M("PriorityFeeVault"), V("CoinUs")>>, <<"CoinSui", "CoinUs">>),
      withdraw_priority_fee    |->
          Sig(<<M("PriorityFeeVault"), R("LeaderRegistry"), R("OverNetwork")>>, <<"CoinUs">>) ]

(* Agents, DAGs and scheduled tasks.                                          *)
AgentCalls ==
    [ create_agent             |-> Sig(<<M("AgentRegistry")>>, <<"Agent">>),
      register_skill           |-> Sig(<<M("AgentRegistry"), M("Agent"), R("ToolRegistry"), R("DAG")>>, <<>>),
      update_dag               |-> Sig(<<M("AgentRegistry"), M("Agent"), R("ToolRegistry"), R("DAG")>>, <<>>),
      update_skill_policies    |-> Sig(<<M("AgentRegistry"), M("Agent")>>, <<>>),
      deposit_agent_payment_vault |-> Sig(<<M("Agent"), V("CoinSui")>>, <<>>),
      dag_new                  |-> Sig(<<>>, <<"DAG">>),
      with_dag                 |-> Sig(<<V("DAG")>>, <<"DAG">>),
      with_registered_dag      |-> Sig(<<R("ToolRegistry"), V("DAG")>>, <<"DAG">>) ]

SchedulerCalls ==
    [ new_constraints_policy   |-> Sig(<<R("TableVec")>>, <<"ConstraintsPolicy">>),
      new_execution_policy     |-> Sig(<<R("TableVec")>>, <<"ExecutionPolicy">>),
      new_queue_generator_state |-> Sig(<<>>, <<"QueueGeneratorState">>),
      register_queue_generator |-> Sig(<<M("ConstraintsPolicy"), V("QueueGeneratorState")>>, <<>>),
      new_periodic_generator_state |-> Sig(<<>>, <<"PeriodicGeneratorState">>),
      register_periodic_generator |-> Sig(<<M("ConstraintsPolicy"), V("PeriodicGeneratorState")>>, <<>>),
      register_begin_execution |-> Sig(<<M("ExecutionPolicy")>>, <<>>),
      new_default_agent_task   |->
          Sig(<<V("ConstraintsPolicy"), V("ExecutionPolicy"), M("AgentRegistry"), V("CoinSui")>>, <<"Task">>),
      new_invoker_funded_agent_task |->
          Sig(<<V("ConstraintsPolicy"), V("ExecutionPolicy"), M("AgentRegistry"), R("Agent"),
                V("CoinSui")>>, <<"Task">>),
      new_agent_funded_task    |->
          Sig(<<V("ConstraintsPolicy"), V("ExecutionPolicy"), M("AgentRegistry"), M("Agent")>>, <<"Task">>),
      update_metadata          |-> Sig(<<M("Task")>>, <<>>),
      pause                    |-> Sig(<<M("Task"), R("AgentRegistry")>>, <<>>),
      resume                   |-> Sig(<<M("Task"), R("AgentRegistry")>>, <<>>),
      cancel                   |-> Sig(<<M("Task"), M("AgentRegistry")>>, <<>>),
      pause_with_agent         |-> Sig(<<M("Task"), R("Agent")>>, <<>>),
      resume_with_agent        |-> Sig(<<M("Task"), R("Agent")>>, <<>>),
      cancel_with_agent        |-> Sig(<<M("Task"), R("Agent"), M("AgentRegistry")>>, <<>>),
      add_occurrence_absolute_for_task |-> Sig(<<M("Task"), R("LeaderRegistry")>>, <<>>),
      add_occurrence_relative_for_task |-> Sig(<<M("Task"), R("LeaderRegistry")>>, <<>>),
      add_occurrence_relative_for_agent_task |-> Sig(<<M("Task"), R("Agent"), R("LeaderRegistry")>>, <<>>),
      new_or_modify_periodic_for_task |-> Sig(<<M("Task"), R("LeaderRegistry")>>, <<>>),
      disable_periodic_for_task |-> Sig(<<M("Task")>>, <<>>),
      check_queue_occurrence   |-> Sig(<<M("Task"), R("LeaderRegistry")>>, <<"ProofOfUID">>),
      check_periodic_occurrence |-> Sig(<<M("Task"), R("LeaderRegistry")>>, <<"ProofOfUID">>),
      prepare_execution_from_scheduled_payment |->
          Sig(<<R("DAG"), R("AgentRegistry"), R("ToolRegistry"), M("Task"), R("OverNetwork")>>,
              <<"DAGExecution">>),
      finish                   |-> Sig(<<M("Task"), V("ProofOfUID")>>, <<>>),
      settle_finished_scheduled_execution_payment_if_ready |-> Sig(<<M("Task"), M("DAGExecution")>>, <<>>) ]

(* Executions, results and their settlement.                                  *)
WorkflowCalls ==
    [ begin_default_dag_execution |->
          Sig(<<R("DAG"), R("AgentRegistry"), R("ToolRegistry"), V("CoinSui")>>, <<"DAGExecution">>),
      begin_user_funded_agent_execution |->
          Sig(<<R("DAG"), R("AgentRegistry"), M("Agent"), R("ToolRegistry"), V("CoinSui")>>,
              <<"DAGExecution">>),
      start_execution          |-> Sig(<<R("DAG"), M("DAGExecution"), R("LeaderRegistry")>>, <<>>),
      accomplish_tap_execution_payment |-> Sig(<<M("DAGExecution")>>, <<>>),
      accomplish_tap_execution_payment_from_agent_vault |-> Sig(<<M("Agent"), M("DAGExecution")>>, <<>>),
      refill_tap_execution_payment |-> Sig(<<M("DAGExecution"), V("CoinSui")>>, <<>>),
      refill_tap_execution_payment_from_agent_vault |-> Sig(<<M("Agent"), M("DAGExecution")>>, <<>>),
      prepare_tool_result_submission_worksheet |->
          Sig(<<R("DAG"), R("AgentRegistry"), R("ToolRegistry"), R("VerifierRegistry"),
                R("LeaderRegistry"), M("DAGExecution"), R("OverNetwork")>>, <<"ProofOfUID">>),
      verify_none              |-> Sig(<<R("VerifierRegistry")>>, <<"VerificationVerdict">>),
      verify_registered_key    |->
          Sig(<<M("ProofOfUID"), R("VerifierRegistry"), R("LeaderRegistry"), R("NetworkAuth"),
                R("KeyBinding"), R("KeyBinding")>>, <<"VerificationVerdict">>),
      commit_off_chain_tool_result_for_walk |->
          Sig(<<R("DAG"), M("DAGExecution"), R("ToolRegistry"), R("VerifierRegistry"), V("ProofOfUID"),
                V("VerificationVerdict"), R("OverNetwork"), R("LeaderRegistry")>>, <<>>),
      create_on_chain_tool_result_for_walk |->
          Sig(<<R("DAG"), M("DAGExecution"), R("ProofOfUID"), R("OverNetwork"), R("LeaderRegistry")>>,
              <<"OnchainToolResult">>),
      release_vertex_authorization_for_onchain_walk |->
          Sig(<<R("DAG"), M("DAGExecution"), R("ProofOfUID"), R("OverNetwork")>>, <<"ProvenValue">>),
      execute                  |-> Shares(<<V("ProofOfUID"), V("OnchainToolResult")>>, <<"OnchainToolResult">>),
      execute_authorized       |->
          Shares(<<V("ProvenValue"), V("ProofOfUID"), V("OnchainToolResult")>>, <<"OnchainToolResult">>),
      finalize_and_share       |-> Shares(<<V("OnchainToolResult"), V("ProofOfUID")>>, <<"OnchainToolResult">>),
      consume_on_chain_tool_result_for_walk |->
          Sig(<<R("DAG"), M("DAGExecution"), R("ToolRegistry"), V("OnchainToolResult"), R("OverNetwork"),
                R("LeaderRegistry"), M("PriorityFeeVault")>>, <<>>),
      record_committed_tool_result_gas_charge_by_leader |->
          Sig(<<M("DAGExecution"), R("OverNetwork")>>, <<>>),
      settle_committed_tool_result_for_walk_by_leader |->
          Sig(<<R("DAG"), M("DAGExecution"), R("ToolRegistry"), R("LeaderRegistry"),
                M("PriorityFeeVault"), R("OverNetwork")>>, <<>>),
      settle_committed_tool_result_for_walk |->
          Sig(<<R("DAG"), M("DAGExecution"), R("ToolRegistry"), R("LeaderRegistry"),
                M("PriorityFeeVault")>>, <<>>),
      settle_onchain_tool_result_for_walk |->
          Sig(<<R("DAG"), M("DAGExecution"), R("ToolRegistry"), V("OnchainToolResult"),
                R("LeaderRegistry"), M("PriorityFeeVault")>>, <<>>),
      cleanup_broken_onchain_tool_result |->
          Sig(<<R("DAG"), M("DAGExecution"), R("ToolRegistry"), V("OnchainToolResult"),
                R("LeaderRegistry")>>, <<>>),
      abort_expired_execution  |-> Sig(<<R("DAG"), M("DAGExecution")>>, <<>>),
      emit_payment_ready_walk_requests |->
          Sig(<<R("DAG"), M("DAGExecution"), R("LeaderRegistry")>>, <<>>) ]

-----------------------------------------------------------------------------
(* What tool owners publish to verify results with, as the node describes it:  *)
(* it should take the worksheet, the bytes of the result and of the auxiliary  *)
(* data, the witness and further objects, and return a verdict.               *)

Bytes == "vector<u8>"
Verifier(params, returns) ==
    [public |-> TRUE, generic |-> FALSE, params |-> params, returns |-> returns]
Taking(objects) ==
    Verifier(<<M("ProofOfUID"), V(Bytes), V(Bytes)>> \o objects, <<"VerificationVerdict">>)

PublishedVerifiers ==
    LET plain == Taking(<<R("Witness")>>)
        With(i, p) == [plain EXCEPT !.params[i] = p]
    IN [ verify_external      |-> plain,
         verify_with_keys     |-> Taking(<<R("Witness"), R("NetworkAuth")>>),
         verify_for_leader    |-> Taking(<<R("Witness"), R("OverNetwork")>>),
         verify_privately     |-> [plain EXCEPT !.public = FALSE],
         verify_anything      |-> [plain EXCEPT !.generic = TRUE],
         verify_unwitnessed   |-> Taking(<<>>),
         verify_consuming     |-> With(1, V("ProofOfUID")),
         verify_reading       |-> With(1, R("ProofOfUID")),
         verify_other_sheet   |-> With(1, M("ProofOfKey")),
         verify_number        |-> With(2, V("u64")),
         verify_auxiliary_ref |-> With(3, R(Bytes)),
         verify_changing      |-> With(4, M("Witness")),
         verify_plain_data    |-> With(4, R(Bytes)),
         verify_silently      |-> Verifier(plain.params, <<>>),
         verify_twice         |-> Verifier(plain.params, <<"VerificationVerdict", "VerificationVerdict">>),
         verify_otherwise     |-> Verifier(plain.params, <<"ProofOfIdentity">>) ]

(* Nobody can call a private function, or a generic one without its types.    *)
Uncallable == Sig(<<V("nothing")>>, <<>>)
VerifierCalls ==
    [v \in DOMAIN PublishedVerifiers |->
        LET f == PublishedVerifiers[v]
        IN IF f.public /\ ~f.generic THEN Sig(f.params, f.returns) ELSE Uncallable]

(* The registration of a verifier's objects has their type as an argument.    *)
Of(fn, type) == fn \o "<" \o type \o ">"
RegistrationCalls(type) ==
    (Of("new_external_registration", type) :> Sig(<<R(type)>>, <<"ExternalVerifierRegistration">>))
    @@ (Of("add_obj", type) :> Sig(<<M("ExternalVerifierRegistration"), R(type)>>, <<>>))

Signature ==
    Framework @@ Registry @@ ToolGasCalls @@ AgentCalls @@ SchedulerCalls @@ WorkflowCalls
    @@ VerifierCalls
    @@ RegistrationCalls("Witness") @@ RegistrationCalls("NetworkAuth") @@ RegistrationCalls("OverNetwork")
=============================================================================
