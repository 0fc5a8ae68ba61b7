---------------------------- MODULE ClientMethods ----------------------------
(* The methods of the client (src/sdk/src/nexus/{tool,gas,network_auth,tap,    *)
(* scheduler,workflow}.rs), the commands that build their transaction         *)
(* themselves (src/cli/src/tool), and the builders that others call: what     *)
(* each looks up, and the transaction it builds from what it found.           *)
EXTENDS TaskTransactions

Agent == The("Agent")
Witness == The("Witness")
OwnedWitness == <<"Witness", "owned">>
SdkTools == {"t1", "t2"}
Other(t) == IF t = "t1" THEN "t2" ELSE "t1"

(* A method: the objects it looks up (references to others come from the      *)
(* caller), those among them that must be shared, those it must not find, its *)
(* transaction, and the tools whose gas it has to lock.  An invalid one has   *)
(* arguments that the SDK refuses, a mistyped one such as only the chain can. *)
Method(looks, tx, tools) ==
    [looks |-> looks, shared |-> {}, absent |-> {}, tx |-> tx, tools |-> tools,
     invalid |-> FALSE, mistyped |-> FALSE]
Plain(looks, tx) == Method(looks, tx, {})
Builder(tx) == Plain({}, tx)
Without(absent, m) == [m EXCEPT !.absent = absent]
Invalid(m) == [m EXCEPT !.invalid = TRUE]
Mistyped(m) == [m EXCEPT !.mistyped = TRUE]
-----------------------------------------------------------------------------
(* Lookups of a tool.  The ID of its gas is derived from the tool registry by *)
(* fetch_tool_gas, and from the gas service by everything else.               *)

FetchTool(t) == ToolOf(t)
FetchToolGas(t) == <<"ToolGas", "registry:" \o t>>
ResolveToolAndOwnerCap(t) == {ToolOf(t), OverTool(t)}
FetchToolGasForDag(ts) == {ToolGasOf(t) : t \in ts}

(* nexus tool: the commands.                                                  *)
RegisterOneTool(t) == Plain({CoinOf("CoinUs")}, RegisterOffChain(t, "coin"))
RegisterOnChainTool(t) == Plain({CoinOf("CoinUs")}, RegisterOnChain(t, "coin", TRUE))
SetToolInvocationCost(t) == Plain({ToolOf(t), OverGas(t)}, SetInvocationCost(t))
UnregisterTool(t) == Plain({ToolOf(t), OverTool(t)}, Unregister(t))
ClaimToolCollateral(t) == Plain({ToolOf(t), OverTool(t)}, ClaimCollateral(t))

(* ToolActions.                                                               *)
UpdateTimeout(t) ==
    Plain({OverTool(t), FetchToolGas(t)}, UpdateToolTimeout(FetchToolGas(t), OverTool(t)))
ConfigureRegisteredKeyVerifier(t) ==
    Plain(ResolveToolAndOwnerCap(t) \cup {BindingOf(t)}, ConfigureRegisteredKeyVerifierPtb(t))

(* The function of an external verifier as the node describes it, and its     *)
(* objects: their number is compared with the parameters, their type is not.  *)
ObjectParameters(f) == SubSeq(f.params, 4, Len(f.params))
ObjectTypes(f) == [i \in DOMAIN ObjectParameters(f) |-> ObjectParameters(f)[i].type]
IsImmutableObject(p) == p.way = "ref" /\ p.type # Bytes
ValidVerifierFunction(f) ==
    /\ f.public /\ ~f.generic
    /\ Len(f.params) >= 4
    /\ f.params[1] = M("ProofOfUID") /\ f.params[2] = V(Bytes) /\ f.params[3] = V(Bytes)
    /\ \A i \in DOMAIN ObjectParameters(f) : IsImmutableObject(ObjectParameters(f)[i])
    /\ f.returns = <<"VerificationVerdict">>

Preflight(f, objects) ==
    /\ SoundObjects(objects) /\ ValidVerifierFunction(f)
    /\ Len(ObjectParameters(f)) = Len(objects)

ConfigureExternalVerifier(t, method, objects) ==
    LET f == PublishedVerifiers[method]
        tool == ResolveToolAndOwnerCap(t)
    IN IF Preflight(f, objects)
       THEN [Plain(tool \cup ToSet(objects), RegisterExternalVerifier(t, objects, ObjectTypes(f)))
             EXCEPT !.shared = ToSet(objects)]
       ELSE Plain(tool, NotBuilt)

(* The registries' record of it, by which leaders call it.                    *)
ExternalRecord(method, objects) ==
    [method |-> method, witness |-> objects[1], objects |-> objects]
ValidExternalRecord(record) == SoundObjects(record.objects) /\ record.objects[1] = record.witness

(* NetworkAuthActions: the first key of a tool makes its binding.             *)
RegisterFirstMessageKey(t) ==
    Without({BindingOf(t)}, Plain({ToolOf(t), OverTool(t)}, CreateBindingAndRegisterKey(t)))
RegisterToolMessageKey(t) ==
    Plain({ToolOf(t), OverTool(t), BindingOf(t)}, RegisterKeyOnExistingBinding(t))
-----------------------------------------------------------------------------
(* GasActions.                                                                *)

GasLooks(t) == {OverGas(t), FetchTool(t), FetchToolGas(t)}
TicketLooks(t) == {CoinOf("CoinSui"), FetchTool(t), FetchToolGas(t)}

ConfigurePriorityFeeVault == Builder(ConfigurePriorityFeeVaultPtb)
SwapUsForSui == Plain({CoinOf("CoinUs")}, SwapUsForSuiPtb)
DrainPriorityFeeVaultSui == Plain({The("PriorityFeeVault")} \cup SwapUsForSui.looks, SwapUsForSuiPtb)
WithdrawPriorityFee == Plain({LeaderCap}, WithdrawPriorityFeePtb(LeaderCap))

EnableExpiryExtension(t) == Plain(GasLooks(t), EnableExpiry(t, FetchToolGas(t)))
DisableExpiryExtension(t) == Plain(GasLooks(t), DisableExpiry(t, FetchToolGas(t)))
BuyLimitedInvocationsTicket(t) ==
    Plain(TicketLooks(t), BuyLimitedInvocationsGasTicket(t, FetchToolGas(t)))
EnableLimitedInvocationsExtension(t) ==
    Plain(GasLooks(t), EnableLimitedInvocations(t, FetchToolGas(t)))
DisableLimitedInvocationsExtension(t) ==
    Plain(GasLooks(t), DisableLimitedInvocations(t, FetchToolGas(t)))
BuyExpiryTicket(t) == Plain(TicketLooks(t), BuyExpiryGasTicket(t, FetchToolGas(t)))
-----------------------------------------------------------------------------
(* WorkflowActions.  A DAG of two tools, one of them at two vertices, and a   *)
(* walk at the first.                                                         *)

Vertex(onChain, ports) ==
    [onChain |-> onChain, verifier |-> ~onChain, failureAction |-> ports = 0, entryPorts |-> ports]
SampleDag(groups) ==
    [vertices |-> <<Vertex(FALSE, 1), Vertex(TRUE, 0), Vertex(FALSE, 2)>>, parts |-> 2,
     failureAction |-> TRUE, groups |-> groups]
UnboundDag == [SampleDag(<<>>) EXCEPT !.vertices[2].verifier = TRUE]
VertexTools == {<<"v1", "t1">>, <<"v2", "t2">>, <<"v3", "t1">>}
DagTools == {r[2] : r \in VertexTools}
DagLooks == {DagObj} \cup FetchToolGasForDag(DagTools)

Publish(dag) == Builder(PublishDag(dag))

ExecuteDefaultAgentDag(payment, feeInRange) ==
    Method(DagLooks \cup {The("AgentRegistry")},
           ExecuteAgentDagPtb("none", payment, feeInRange, SetToSeq(DagTools)), DagTools)
Execute == ExecuteDefaultAgentDag("balance", TRUE)

ExecuteAgentDag(held, payment) ==
    Method(DagLooks \cup {The("AgentRegistry"), Agent},
           ExecuteAgentDagPtb(held, payment, TRUE, SetToSeq(DagTools)), DagTools)

AbortExpiredExecution(broken) ==
    Plain({DagObj, Execution} \cup {ResultObj(w) : w \in ToSet(broken)}, AbortExpired(broken))
AbortExpiredExecutionWithToolGas(t) ==
    Plain({DagObj, Execution, ToolGasOf(t)}, AbortExpiredWithToolGas(t))
SettleCommittedToolResult == Plain({DagObj, Execution}, SettleCommittedForSelf)
SettleCommittedToolResultByLeader ==
    Plain({DagObj, Execution, LeaderCap}, SettleCommittedByLeaderForSelf)
RecordCommittedToolResultGasCharge == Plain({Execution, LeaderCap}, RecordGasCharge)
ResolveExpiredOnchainWalk(w) == Plain({DagObj, Execution, ResultObj(w)}, SettleOnChainForSelf(w))
-----------------------------------------------------------------------------
(* TapActions, for an agent as it is held when the method looks.              *)

PublishTapPackage == Builder(PublishPackagePtb)
CreateAgent == Without({Agent}, Builder(CreateAgentForSelf))
BindAgentSkill == Without({Agent}, Plain({DagObj}, BindAgentSkillPtb))
RegisterSkill(held) == Plain({Agent, DagObj}, RegisterSkillPtb(held))
UpdateSkillFromArtifact(held) == Plain({Agent, DagObj}, UpdateSkillFromArtifactPtb(held))
DepositAgentPaymentVault(held) == Plain({Agent}, DepositAgentPaymentVaultPtb(held))
AccomplishExecutionPayment(held) ==
    Plain({Execution} \cup (IF held = "none" THEN {} ELSE {Agent}), AccomplishPayment(held))
RefillExecutionPayment == Plain({Execution}, RefillPayment)
RefillExecutionPaymentFromAgentVault(held) ==
    Plain({Agent, Execution}, RefillPaymentFromVault(held))
CreateAgentTask(held, vault, generator) ==
    Plain({Agent}, CreateAgentTaskPtb(held, vault, generator, TRUE))
AddOccurrenceForAgent(held) == Plain({Agent, TaskObj}, AddOccurrenceRelativeForAgent(held, TRUE))
SetAgentTaskState(ptb) == Plain({Agent, TaskObj}, ptb)
-----------------------------------------------------------------------------
(* SchedulerActions.                                                          *)

FetchTask == {TaskObj}
CreateTask(generator, feeInRange) == Builder(CreateDefaultAgentTask(generator, feeInRange))
UpdateMetadata == Plain(FetchTask, UpdateMetadataPtb)
SetTaskState(ptb) == Plain(FetchTask, ptb)
EnqueueOccurrence(absolute, feeInRange) ==
    IF absolute THEN AddOccurrenceAbsolute(feeInRange) ELSE AddOccurrenceRelative(feeInRange)
AddOccurrence(absolute, feeInRange) == Plain(FetchTask, EnqueueOccurrence(absolute, feeInRange))
ConfigurePeriodic == Plain(FetchTask, ConfigurePeriodicPtb(TRUE))
DisablePeriodic == Plain(FetchTask, DisablePeriodicPtb)
=============================================================================
