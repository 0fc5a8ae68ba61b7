----------------------------- MODULE SdkMethods -----------------------------
(* The methods of the client as calls: each looks objects up, builds one       *)
(* transaction from what it found and submits it.  The chain holds the         *)
(* objects; the agent may change hands meanwhile.                             *)
EXTENDS ClientMethods

CONSTANTS
    OfferedMethods \* the names of the methods that are called

VARIABLES
    owner,  \* of every object: "none" if there is no such object
    call    \* the method that runs, and its answer

methodVars == <<owner, call>>

Holdings == {"owned", "shared", "frozen"}
-----------------------------------------------------------------------------
(* The methods, about a tool, about the agent as it is held, or neither.      *)

ToolMethods(t) ==
    [ register_one_tool |-> RegisterOneTool(t),
      register_on_chain_tool |-> RegisterOnChainTool(t),
      register_off_chain_with_address_balance |-> Builder(RegisterOffChain(t, "balance")),
      register_on_chain_with_address_balance |-> Builder(RegisterOnChain(t, "balance", FALSE)),
      register_off_chain_batch |-> Builder(RegisterBatch(<<t, Other(t)>>)),
      register_off_chain_batch_twice |-> Invalid(Builder(RegisterBatch(<<t, t>>))),
      set_tool_invocation_cost |-> SetToolInvocationCost(t),
      unregister_tool |-> UnregisterTool(t),
      claim_collateral |-> ClaimToolCollateral(t),
      update_timeout |-> UpdateTimeout(t),
      update_tool_timeout_ptb |-> Builder(UpdateToolTimeout(ToolOf(t), OverTool(t))),
      configure_registered_key_verifier |-> ConfigureRegisteredKeyVerifier(t),
      register_first_message_key |-> RegisterFirstMessageKey(t),
      register_tool_message_key |-> RegisterToolMessageKey(t),
      enable_expiry_extension |-> EnableExpiryExtension(t),
      disable_expiry_extension |-> DisableExpiryExtension(t),
      enable_limited_invocations_extension |-> EnableLimitedInvocationsExtension(t),
      disable_limited_invocations_extension |-> DisableLimitedInvocationsExtension(t),
      buy_expiry_ticket |-> BuyExpiryTicket(t),
      buy_limited_invocations_ticket |-> BuyLimitedInvocationsTicket(t),
      enable_expiry_ptb |-> Builder(EnableExpiry(t, ToolGasOf(t))),
      disable_expiry_ptb |-> Builder(DisableExpiry(t, ToolGasOf(t))),
      enable_limited_invocations_ptb |-> Builder(EnableLimitedInvocations(t, ToolGasOf(t))),
      disable_limited_invocations_ptb |-> Builder(DisableLimitedInvocations(t, ToolGasOf(t))),
      buy_expiry_gas_ticket_ptb |-> Builder(BuyExpiryGasTicket(t, ToolGasOf(t))),
      buy_limited_invocations_gas_ticket_ptb |->
          Builder(BuyLimitedInvocationsGasTicket(t, ToolGasOf(t))),
      abort_expired_execution_with_tool_gas |-> AbortExpiredExecutionWithToolGas(t) ]

(* Registering what was published as a verifier, by name, and what the leader *)
(* does with those that the SDK would register.                               *)
VerifierObjects(method) ==
    CASE method = "verify_with_keys" -> <<Witness, The("NetworkAuth")>>
      [] method = "verify_for_leader" -> <<Witness, LeaderCap>>
      [] method = "verify_unwitnessed" -> <<>>
      [] OTHER -> <<Witness>>

FittingVerifiers == {"verify_external", "verify_with_keys", "verify_for_leader"}
Configure(t, method) ==
    LET m == ConfigureExternalVerifier(t, method, VerifierObjects(method))
    IN IF method \in FittingVerifiers THEN m ELSE Invalid(m)

VerifierMethodsOf(t) ==
    [method \in DOMAIN PublishedVerifiers |-> Configure(t, method)]
    @@ [ configure_with_witness_twice |->
             Invalid(ConfigureExternalVerifier(t, "verify_with_keys", <<Witness, Witness>>)),
         configure_with_too_few |->
             Invalid(ConfigureExternalVerifier(t, "verify_with_keys", <<Witness>>)),
         configure_with_owned |->
             Invalid(ConfigureExternalVerifier(t, "verify_external", <<OwnedWitness>>)),
         configure_with_other_types |->
             Mistyped(ConfigureExternalVerifier(t, "verify_with_keys", <<The("NetworkAuth"), Witness>>)) ]

(* A leader finds the record valid, or else submits nothing.                  *)
SubmitExternally(method) ==
    LET record == ExternalRecord(method, VerifierObjects(method))
    IN Builder(IF ValidExternalRecord(record)
               THEN SubmitVerifiedOffChain("w", "v1", {}, TRUE, record) ELSE NotBuilt)

Registrable == {v \in DOMAIN PublishedVerifiers : Preflight(PublishedVerifiers[v], VerifierObjects(v))}
VerifiedSubmissions == [method \in Registrable |-> SubmitExternally(method)]

LeaderMethods ==
    [ register_leader |-> Builder(RegisterLeader),
      activate_and_claim |-> Builder(ActivateAndClaim),
      suspend_if_token |-> Builder(SuspendIfToken),
      create_leader_binding_and_register_key |->
          Without({BindingOf("leader")}, Builder(CreateBindingAndRegisterKey("leader"))),
      register_leader_key_on_existing_binding |-> Builder(RegisterKeyOnExistingBinding("leader")),
      configure_priority_fee_vault |-> ConfigurePriorityFeeVault,
      swap_us_for_sui |-> SwapUsForSui,
      drain_priority_fee_vault_sui |-> DrainPriorityFeeVaultSui,
      withdraw_priority_fee |-> WithdrawPriorityFee ]

WorkflowMethods ==
    [ publish |-> Publish(SampleDag(<<>>)),
      publish_with_entry_groups |-> Publish(SampleDag(<< <<1>>, <<2, 3>> >>)),
      publish_on_chain_verifier |-> Invalid(Publish(UnboundDag)),
      execute |-> Execute,
      execute_with_exact_coin |-> ExecuteDefaultAgentDag("exact", TRUE),
      execute_with_larger_coin |-> ExecuteDefaultAgentDag("larger", TRUE),
      execute_with_invalid_fee |-> Invalid(ExecuteDefaultAgentDag("balance", FALSE)),
      submit_off_chain_unverified |->
          Builder(SubmitOffChain("w", "v1", VertexTools, TRUE, "none", "t1")),
      submit_off_chain_registered |->
          Builder(SubmitOffChain("w", "v1", VertexTools, FALSE, "registered", "t1")),
      submit_on_chain |->
          Method({}, SubmitOnChain("w", "v2", VertexTools, TRUE, "plain"), DagTools),
      submit_on_chain_authorized |->
          Method({}, SubmitOnChain("w", "v2", VertexTools, FALSE, "authorized"), DagTools),
      submit_on_chain_error |->
          Method({}, SubmitOnChain("w", "v2", VertexTools, TRUE, "error"), DagTools),
      dry_run_on_chain |-> Builder(DryRunOnChain("w", FALSE)),
      dry_run_on_chain_authorized |-> Builder(DryRunOnChain("w", TRUE)),
      consume_on_chain |-> Method({}, ConsumeOnChain("w", VertexTools, FALSE), DagTools),
      consume_on_chain_scheduled |-> Method({}, ConsumeOnChain("w", VertexTools, TRUE), DagTools),
      settle_by_leader_and_continue |->
          Method({}, SettleCommittedByLeader(SetToSeq(DagTools), TRUE), DagTools),
      record_gas_charge |-> RecordCommittedToolResultGasCharge,
      settle_by_leader |-> SettleCommittedToolResultByLeader,
      settle_committed |-> SettleCommittedToolResult,
      resolve_onchain |-> ResolveExpiredOnchainWalk("w"),
      abort_expired_execution |-> AbortExpiredExecution(<<>>),
      abort_expired_execution_with_cleanup |-> AbortExpiredExecution(<<"w">>),
      accomplish_execution_payment |-> AccomplishExecutionPayment("none"),
      refill_execution_payment |-> RefillExecutionPayment ]

SchedulerMethods ==
    [ create_default_agent_task |-> CreateTask("queue", TRUE),
      create_periodic_task |-> CreateTask("periodic", TRUE),
      create_task_with_invalid_fee |-> Invalid(CreateTask("queue", FALSE)),
      update_metadata |-> UpdateMetadata,
      pause_task |-> SetTaskState(PauseTask),
      resume_task |-> SetTaskState(ResumeTask),
      cancel_task |-> SetTaskState(CancelTask),
      add_occurrence_absolute |-> AddOccurrence(TRUE, TRUE),
      add_occurrence_relative |-> AddOccurrence(FALSE, TRUE),
      add_occurrence_with_invalid_fee |-> Invalid(AddOccurrence(FALSE, FALSE)),
      configure_periodic |-> ConfigurePeriodic,
      disable_periodic |-> DisablePeriodic,
      execute_queue_occurrence |->
          Method({}, ExecuteScheduledOccurrence("queue", SetToSeq(DagTools)), DagTools),
      execute_periodic_occurrence |->
          Method({}, ExecuteScheduledOccurrence("periodic", SetToSeq(DagTools)), DagTools),
      create_agent |-> CreateAgent,
      bind_agent_skill |-> BindAgentSkill,
      publish_tap_package |-> PublishTapPackage ]

AgentMethods(held) ==
    [ register_skill |-> RegisterSkill(held),
      update_skill_from_artifact |-> UpdateSkillFromArtifact(held),
      deposit_agent_payment_vault |-> DepositAgentPaymentVault(held),
      accomplish_from_agent_vault |-> AccomplishExecutionPayment(held),
      refill_from_agent_vault |-> RefillExecutionPaymentFromAgentVault(held),
      execute_agent_dag |-> ExecuteAgentDag(held, "balance"),
      execute_agent_dag_with_coin |-> ExecuteAgentDag(held, "larger"),
      create_agent_task |-> CreateAgentTask(held, FALSE, "queue"),
      create_agent_funded_task |-> CreateAgentTask(held, TRUE, "periodic"),
      add_occurrence_for_agent |-> AddOccurrenceForAgent(held),
      pause_agent_task |-> SetAgentTaskState(PauseAgentTask(held)),
      resume_agent_task |-> SetAgentTaskState(ResumeAgentTask(held)),
      cancel_agent_task |-> SetAgentTaskState(CancelAgentTask(held)) ]

(* What every method does, once for each tool and way the agent is held.      *)
FundedBefore(tx, i, tools) ==
    \A t \in tools :
        \E j \in 1 .. i - 1 :
            /\ tx[j].fn = "lock_payment_state_for_tool" /\ tx[j].args[1].res = ToolGasOf(t)
            /\ tx[i].fn = "start_execution" =>
                \E k \in 1 .. j - 1 : tx[k].fn = "snapshot_dag_tool_costs"

RunsTools == {"start_execution", "execute", "execute_authorized", "emit_payment_ready_walk_requests"}
Funded(tx, tools) == \A i \in DOMAIN tx : tx[i].fn \in RunsTools => FundedBefore(tx, i, tools)

Compiled(catalogue, held) ==
    [name \in DOMAIN catalogue |->
        LET m == catalogue[name]
        IN [m EXCEPT !.tx = Compile(m.tx, Signature, IF held = "frozen" THEN {Agent} ELSE {})]
           @@ [funded |-> Funded(m.tx, m.tools)]]

NoArgument == "none"
Catalogue ==
    [t \in SdkTools |-> Compiled(ToolMethods(t) @@ VerifierMethodsOf(t), "owned")]
    @@ [held \in Holdings |-> Compiled(AgentMethods(held), held)]
    @@ [none \in {NoArgument} |->
            Compiled(LeaderMethods @@ WorkflowMethods @@ SchedulerMethods @@ VerifiedSubmissions, "owned")]
-----------------------------------------------------------------------------
(* The chain before any of this ran, or with everything that the tools need.  *)

Singletons ==
    {The(type) : type \in {"ToolRegistry", "GasService", "VerifierRegistry", "NetworkAuth",
                           "LeaderRegistry", "AgentRegistry", "PriorityFeeVault", "Witness"}}
Wallet == {CoinOf("CoinSui"), CoinOf("CoinUs"), The("PriorityFeeVaultOwnerCap"), OwnedWitness}
ToolObjects(t) == {ToolOf(t), ToolGasOf(t), OverTool(t), OverGas(t), BindingOf(t)}
Caps == UNION {{OverTool(t), OverGas(t)} : t \in SdkTools}
ToolSide == (UNION {ToolObjects(t) : t \in SdkTools}) \cup {LeaderCap, BindingOf("leader")}
RunSide == {DagObj, Execution, ResultObj("w"), TaskObj, Agent}

Deployed(there) ==
    [o \in Singletons \cup Wallet \cup ToolSide \cup RunSide |->
        IF o \in Wallet \/ o \in there \cap Caps THEN "mine"
        ELSE IF o \in Singletons \cup there THEN "shared" ELSE "none"]

NoCall == [step |-> "idle", arg |-> NoArgument, name |-> "none", missing |-> {}, answer |-> "none"]

MethodInit == owner \in {Deployed({}), Deployed(ToolSide)} /\ call = NoCall

HeldNow == CASE owner[Agent] = "mine" -> "owned" [] OTHER -> owner[Agent]
Called(c) == Catalogue[c.arg][c.name]
-----------------------------------------------------------------------------
(* The caller has references to the objects that the method does not look up, *)
(* and asks for nothing that is there already.                                *)
Offered(m) ==
    /\ \A o \in m.absent : ~Exists(o, owner)
    /\ \A a \in m.tx.inputs : a.res \in m.looks \/ Exists(a.res, owner)
    /\ \A f \in m.tx.fate : Exists(f[1], owner) => \E a \in m.tx.inputs : a.res = f[1]

Look(arg, name) ==
    /\ call = NoCall
    /\ arg \in Holdings => arg = HeldNow
    /\ name \in DOMAIN Catalogue[arg]
    /\ LET m == Catalogue[arg][name]
           missing == {o \in m.looks : ~Exists(o, owner)}
           refuses == ~m.tx.built \/ \E o \in m.shared : owner[o] # "shared"
       IN /\ Offered(m)
          /\ call' = [step |-> IF missing # {} \/ refuses THEN "answer" ELSE "submit",
                      arg |-> arg, name |-> name, missing |-> missing,
                      answer |-> IF missing # {} THEN "not_found"
                                 ELSE IF refuses THEN "not_built" ELSE "none"]
    /\ UNCHANGED owner

(* The wallet has further coins.                                              *)
Accept(c) == owner' = [o \in Wallet |-> owner[o]] @@ After(c, owner)

Submit ==
    /\ call.step = "submit"
    /\ LET m == Called(call)
       IN IF m.tx.ok /\ Enters(m.tx.inputs, owner)
          THEN Accept(m.tx) /\ call' = [call EXCEPT !.step = "answer", !.answer = "ok"]
          ELSE call' = [call EXCEPT !.step = "answer", !.answer = "refused"] /\ UNCHANGED owner

TakeAnswer == call.step = "answer" /\ call' = NoCall /\ UNCHANGED owner

(* The holder of the agent shares or freezes it, from somewhere else.         *)
AgentMoves(held) ==
    /\ owner[Agent] = "mine"
    /\ owner' = [owner EXCEPT ![Agent] = held]
    /\ UNCHANGED call

MethodNext ==
    \/ /\ call = NoCall
       /\ \E arg \in DOMAIN Catalogue : \E name \in OfferedMethods \cap DOMAIN Catalogue[arg] : Look(arg, name)
    \/ Submit \/ TakeAnswer
    \/ \E held \in {"shared", "frozen"} : AgentMoves(held)

MethodSpec == MethodInit /\ [][MethodNext]_methodVars
-----------------------------------------------------------------------------
MethodTypeOK ==
    /\ owner \in [DOMAIN owner -> {"none", "mine", "shared", "frozen"}]
    /\ call.answer \in {"none", "not_found", "not_built", "refused", "ok"}

(* Methods that never succeed, as they stand: bind_agent_skill leaves the     *)
(* agent that it creates over (tap.rs:226), withdraw_priority_fee takes a     *)
(* leader's capability, which is shared, as an owned object (gas.rs:195), and *)
(* update_timeout takes the gas of the tool for the tool (tool.rs:107).       *)
NeverAccepted == {"bind_agent_skill", "withdraw_priority_fee", "update_timeout"}

(* And those, update_timeout among them, that look for the gas of a tool      *)
(* where it is not, although it is there (client.rs:475).                     *)
NeverFound(m) == \E t \in SdkTools : FetchToolGas(t) \in m.looks
Meant(o) ==
    IF \E t \in SdkTools : o = FetchToolGas(t)
    THEN ToolGasOf(CHOOSE t \in SdkTools : o = FetchToolGas(t)) ELSE o

(* But for these, a call with sound arguments whose objects are there         *)
(* succeeds: every lookup is for an object that the transaction takes, and    *)
(* what the builder makes of them type-checks, uses every value that must be  *)
(* used and takes every object the way it is held.  Only an agent that        *)
(* changed hands after the method looked, or that is frozen, stands in the    *)
(* way.  So leaders can call whatever the SDK registers as a verifier.  Where *)
(* a lookup fails, the transaction it would have led to is judged all the     *)
(* same (the builders of src/sdk/src/transactions).                           *)
SoundCallsSucceed ==
    /\ call.answer = "refused" =>
           \/ Called(call).mistyped \/ call.name \in NeverAccepted
           \/ call.arg \in Holdings /\ call.arg # HeldNow
    /\ call.answer = "not_built" => Called(call).invalid \/ call.arg = "frozen"
    /\ call.answer = "not_found" =>
           \/ Called(call).invalid \/ call.arg = "frozen"
           \/ /\ \/ NeverFound(Called(call))
                 \/ \E a \in Called(call).tx.inputs : ~Exists(Meant(a.res), owner)
              /\ Called(call).tx.ok \/ Called(call).mistyped \/ call.name \in NeverAccepted
    /\ call.answer = "ok" =>
           /\ ~Called(call).invalid /\ ~Called(call).mistyped
           /\ call.name \notin NeverAccepted /\ ~NeverFound(Called(call))

(* No transaction starts an execution, or runs or requests a tool, before it  *)
(* has locked the payment for every tool it was given; and a started          *)
(* execution had its costs fixed before the first lock.                       *)
FundedBeforeStart == call.answer = "ok" => Called(call).funded

(* A lookup of the gas of a tool finds it if the tool was registered.         *)
RegisteredToolGasFound ==
    \A t \in SdkTools :
        FetchToolGas(t) \in call.missing => ~Exists(ToolGasOf(t), owner)
=============================================================================
