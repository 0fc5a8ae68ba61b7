-------------------------- MODULE ToolTransactions --------------------------
(* The transactions built for tools, their gas, their keys, and leaders       *)
(* (src/sdk/src/transactions/{tool,gas,network_auth,leader}.rs).  t is a tool, *)
(* k the key of a value or coin, and an identity is a tool or the leader.      *)
EXTENDS MoveCalls

ToolOf(t) == <<"Tool", t>>
OverTool(t) == <<"OverTool", t>>
OverGas(t) == <<"OverGas", t>>
ToolGasOf(t) == <<"ToolGas", t>>
BindingOf(id) == <<"KeyBinding", id>>
CoinOf(kind) == <<kind, "pay">>
LeaderCap == The("OverNetwork")
-----------------------------------------------------------------------------
(* Keys.  A proof of identity is made for the binding and another for the key. *)

ProofFor(id, k) ==
    IF id = "leader"
    THEN Call("prove_leader", <<Imm(LeaderCap)>>, <<k>>)
    ELSE Call("prove_offchain_tool", <<Imm(ToolOf(id)), Own(OverTool(id))>>, <<k>>)

ProofInside(t, k) ==
    Call("prove_offchain_tool", <<Res(ToolOf(t)), Res(OverTool(t))>>, <<k>>)

RegisterKey(binding, proof, k) ==
    << Call("new_proof_of_key", <<binding, Res(<<"ProofOfIdentity", proof>>)>>, <<k>>),
       Do("register_key", <<binding, Res(<<"ProofOfIdentity", proof>>), Res(<<"ProofOfKey", k>>)>>) >>

CreateBinding(id, proof) ==
    Call("create_binding", <<Mut(The("NetworkAuth")), Res(<<"ProofOfIdentity", proof>>)>>, <<id>>)

ShareBinding(id) == Do("public_share_object", <<Res(BindingOf(id))>>)

CreateBindingAndRegisterKey(id) ==
    << ProofFor(id, "binding"), CreateBinding(id, "binding"), ProofFor(id, "key") >>
    \o RegisterKey(Res(BindingOf(id)), "key", id)
    \o << ShareBinding(id) >>

CreateBindingInside(t) ==
    << ProofInside(t, "binding" \o t), CreateBinding(t, "binding" \o t), ProofInside(t, t) >>
    \o RegisterKey(Res(BindingOf(t)), t, t)
    \o << ShareBinding(t) >>

RegisterKeyOnExistingBinding(id) ==
    << ProofFor(id, "key") >> \o RegisterKey(Mut(BindingOf(id)), "key", id)
-----------------------------------------------------------------------------
(* Registration.  collateral is "coin" or "balance": what was withdrawn from   *)
(* the address balance is a result, and what is left of it goes back.          *)

Collateral(collateral) ==
    IF collateral = "coin" THEN Own(CoinOf("CoinUs")) ELSE Res(<<"CoinUs", "collateral">>)

TakeCollateral(collateral) ==
    IF collateral = "coin" THEN <<>> ELSE << Call("withdraw_us", <<>>, <<"collateral">>) >>

ReturnRemainder(collateral) ==
    IF collateral = "coin" THEN <<>> ELSE << Do("send_funds", <<Collateral(collateral)>>) >>

RegisterTool(fn, t, collateral) ==
    Call(fn, <<Mut(The("ToolRegistry")), Collateral(collateral)>>, <<t, t>>)

ConfigureRegistration(t) ==
    << Call("gas_deescalate", <<Res(ToolOf(t)), Res(OverTool(t))>>, <<t>>),
       Call("create_tool_gas_and_share",
            <<Mut(The("GasService")), Res(ToolOf(t)), Res(OverGas(t))>>, <<t>>) >>

Each(ts, F(_)) == FlattenSeq([i \in DOMAIN ts |-> F(ts[i])])

(* Mutant of FinishRegistrations: the gas capability is left behind.          *)
FinishWithoutGasCap(ts) ==
    Each(ts, LAMBDA t : << Do("public_share_object", <<Res(ToolOf(t))>>) >>)
    \o Each(ts, LAMBDA t : << Do("transfer_objects", <<Res(OverTool(t))>>) >>)

FinishRegistrations(ts) ==
    Each(ts, LAMBDA t : << Do("public_share_object", <<Res(ToolOf(t))>>) >>)
    \o Each(ts, LAMBDA t : << Do("transfer_objects", <<Res(OverTool(t))>>),
                              Do("transfer_objects", <<Res(OverGas(t))>>) >>)

RegisterOffChain(t, collateral) ==
    TakeCollateral(collateral)
    \o << RegisterTool("register_off_chain_tool", t, collateral) >>
    \o ConfigureRegistration(t) \o FinishRegistrations(<<t>>) \o ReturnRemainder(collateral)

RegisterOnChain(t, collateral, authorizationFirst) ==
    TakeCollateral(collateral)
    \o << RegisterTool(IF authorizationFirst
                       THEN "register_on_chain_tool_with_workflow_authorization_cap"
                       ELSE "register_on_chain_tool", t, collateral) >>
    \o ConfigureRegistration(t) \o FinishRegistrations(<<t>>) \o ReturnRemainder(collateral)

(* A batch is refused before anything is built when it is empty or names a    *)
(* tool twice.                                                                *)
BatchSound(ts) == ts # <<>> /\ Cardinality(ToSet(ts)) = Len(ts)

RegisterBatch(ts) ==
    IF ~BatchSound(ts) THEN NotBuilt
    ELSE TakeCollateral("balance")
         \o Each(ts, LAMBDA t :
                << RegisterTool("register_off_chain_tool", t, "balance") >>
                \o ConfigureRegistration(t) \o CreateBindingInside(t))
         \o FinishRegistrations(ts) \o ReturnRemainder("balance")
-----------------------------------------------------------------------------
(* A registered tool.  cap is the capability the caller passes, and tool the  *)
(* object it passes for the tool.                                             *)

SetInvocationCost(t) ==
    << Do("set_single_invocation_cost_mist",
          <<Mut(The("GasService")), Imm(ToolOf(t)), Own(OverGas(t))>>) >>

Unregister(t) ==
    << Do("unregister", <<Mut(ToolOf(t)), Mut(The("ToolRegistry")), Mut(The("VerifierRegistry")),
                          Own(OverTool(t))>>) >>

ClaimCollateral(t) ==
    << Do("claim_collateral_for_self", <<Mut(ToolOf(t)), Own(OverTool(t))>>) >>

UpdateToolTimeout(tool, cap) ==
    << Do("update_tool_timeout", <<Imm(tool), Mut(The("ToolRegistry")), Own(cap)>>) >>

ConfigureRegisteredKeyVerifierPtb(t) ==
    << Do("configure_tool", <<Mut(The("ToolRegistry")), Imm(ToolOf(t)), Own(OverTool(t)),
                              Imm(The("NetworkAuth")), Imm(BindingOf(t))>>) >>

(* An external verifier's objects are its witness and the others, each once.  *)
SoundObjects(objects) ==
    objects # <<>> /\ The("zero") \notin ToSet(objects) /\ IsInjective(objects)

(* types are those of the function's parameters, not of the objects.          *)
RegisterExternalVerifier(t, objects, types) ==
    IF ~SoundObjects(objects) THEN NotBuilt
    ELSE << Call(Of("new_external_registration", types[1]), <<Imm(objects[1])>>, <<t>>) >>
         \o [i \in 1 .. Len(objects) - 1 |->
                Do(Of("add_obj", types[i + 1]),
                   <<Res(<<"ExternalVerifierRegistration", t>>), Imm(objects[i + 1])>>)]
         \o << Do("register_external_verifier",
                  <<Mut(The("ToolRegistry")), Mut(The("VerifierRegistry")), Imm(ToolOf(t)),
                    Own(OverTool(t)), Res(<<"ExternalVerifierRegistration", t>>)>>) >>
-----------------------------------------------------------------------------
(* Gas tickets and priority fees.  gas is the object passed for the tool's gas. *)

ToolAndOwner(t, gas) == <<Mut(gas), Imm(ToolOf(t)), Own(OverGas(t))>>
ToolTicket(t, gas) == <<Mut(gas), Imm(ToolOf(t)), Own(CoinOf("CoinSui"))>>

EnableExpiry(t, gas) == << Do("enable_expiry", ToolAndOwner(t, gas)) >>
DisableExpiry(t, gas) == << Do("disable_expiry", ToolAndOwner(t, gas)) >>
BuyExpiryGasTicket(t, gas) == << Do("buy_expiry_gas_ticket", ToolTicket(t, gas)) >>
EnableLimitedInvocations(t, gas) == << Do("enable_limited_invocations", ToolAndOwner(t, gas)) >>
DisableLimitedInvocations(t, gas) == << Do("disable_limited_invocations", ToolAndOwner(t, gas)) >>
BuyLimitedInvocationsGasTicket(t, gas) ==
    << Do("buy_limited_invocations_gas_ticket", ToolTicket(t, gas)) >>

ConfigurePriorityFeeVaultPtb ==
    << Do("configure", <<Mut(The("PriorityFeeVault")), Own(The("PriorityFeeVaultOwnerCap"))>>) >>

SwapUsForSuiPtb ==
    << Call("swap_us_for_sui", <<Mut(The("PriorityFeeVault")), Own(CoinOf("CoinUs"))>>,
            <<"out", "refund">>),
       Do("transfer_objects", <<Res(<<"CoinSui", "out">>)>>),
       Do("transfer_objects", <<Res(<<"CoinUs", "refund">>)>>) >>

WithdrawPriorityFeePtb(cap) ==
    << Call("withdraw_priority_fee",
            <<Mut(The("PriorityFeeVault")), Imm(The("LeaderRegistry")), Own(cap)>>, <<"out">>),
       Do("transfer_objects", <<Res(<<"CoinUs", "out">>)>>) >>
-----------------------------------------------------------------------------
(* Leaders.                                                                   *)

RegisterLeader ==
    << Call("leader_register", <<Mut(The("LeaderRegistry")), Own(CoinOf("CoinUs"))>>, <<"">>) >>
ActivateAndClaim == << Do("activate_and_claim", <<Mut(The("LeaderRegistry")), Imm(LeaderCap)>>) >>
SuspendIfToken == << Do("suspend_if_token", <<Mut(The("LeaderRegistry")), Imm(LeaderCap)>>) >>
=============================================================================
