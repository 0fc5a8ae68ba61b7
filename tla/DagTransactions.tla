--------------------------- MODULE DagTransactions ---------------------------
(* The transactions built for DAGs, their executions and the results of walks *)
(* (src/sdk/src/transactions/dag.rs).                                         *)
EXTENDS ToolTransactions, TLC

DagObj == The("DAG")
Execution == The("DAGExecution")
ResultObj(w) == <<"OnchainToolResult", w>>
Read(type) == Imm(The(type))

(* An agent enters as the chain holds it; only a read is possible if frozen.  *)
MutableAgent(input) == IF input = "shared" THEN Mut(The("Agent")) ELSE Own(The("Agent"))
ReadAgent(input) == IF input = "shared" THEN Imm(The("Agent")) ELSE Own(The("Agent"))
CanMutate(input) == input # "frozen"
-----------------------------------------------------------------------------
(* Publication.  A description is reduced to its vertices, each with its      *)
(* options, and to how many other parts of it there are: the DAG is passed by *)
(* value from call to call, and the last result is shared.                    *)

VertexCalls(v) ==
    <<"with_dag", "with_registered_dag">>
    \o (IF v.failureAction THEN <<"with_dag">> ELSE <<>>)
    \o (IF v.verifier THEN <<"with_registered_dag">> ELSE <<>>)

(* Entry groups if there are any, or else the entry ports in the default one. *)
EntryCalls(d) ==
    LET Ports(v) == [i \in 1 .. v.entryPorts |-> "with_dag"]
        Grouped(v) == IF v.entryPorts = 0 THEN <<"with_dag">> ELSE Ports(v)
    IN IF d.groups # <<>>
       THEN Each(d.groups, LAMBDA g : Each(g, LAMBDA i : Grouped(d.vertices[i])))
       ELSE Each(d.vertices, Ports)

DagCalls(d) ==
    Each(d.vertices, VertexCalls)
    \o (IF d.failureAction THEN <<"with_dag">> ELSE <<>>)
    \o [i \in 1 .. d.parts |-> "with_dag"]
    \o EntryCalls(d)

DagResult(i, n) == <<"DAG", IF i = n THEN "" ELSE ToString(i)>>

DagStep(fn, i, n) ==
    LET dag == Res(DagResult(i - 1, n))
    IN Call(fn, IF fn = "with_dag" THEN <<dag>> ELSE <<Read("ToolRegistry"), dag>>,
            <<DagResult(i, n)[2]>>)

PublishDag(d) ==
    LET calls == DagCalls(d)
        n == Len(calls)
    IN IF \E i \in DOMAIN d.vertices : d.vertices[i].onChain /\ d.vertices[i].verifier
       THEN NotBuilt
       ELSE << Call("dag_new", <<>>, <<DagResult(0, n)[2]>>) >>
            \o [i \in 1 .. n |-> DagStep(calls[i], i, n)]
            \o << Do("public_share_object", <<Res(DagObj)>>) >>
-----------------------------------------------------------------------------
(* The worksheet of a walk, and the tool gas objects of the successors: each  *)
(* enters once, in the order of its ID, however many vertices share the tool. *)

Worksheet(w) == Res(<<"ProofOfUID", w>>)

PrepareWorksheet(w) ==
    Call("prepare_tool_result_submission_worksheet",
         <<Imm(DagObj), Read("AgentRegistry"), Read("ToolRegistry"),
           Read("VerifierRegistry"), Read("LeaderRegistry"), Mut(Execution),
           Imm(LeaderCap)>>, <<w>>)

(* refs are the pairs of a vertex and the tool whose gas it uses.             *)
RuntimeToolGas(refs) == SetToSeq({r[2] : r \in refs})

SettleCurrentVertexGas(refs, vertex, settle) ==
    LET mine == {r[2] : r \in {s \in refs : s[1] = vertex}}
    IN IF settle /\ mine # {}
       THEN << Do("settle_payment_state_for_vertex",
                  <<Mut(ToolGasOf(CHOOSE t \in mine : TRUE)), Imm(DagObj), Mut(Execution)>>) >>
       ELSE <<>>

LockPaymentState(ts, execution) ==
    Each(ts, LAMBDA t : << Do("lock_payment_state_for_tool",
                              <<Mut(ToolGasOf(t)), Imm(DagObj), execution>>) >>)

EmitPaymentReady ==
    Do("emit_payment_ready_walk_requests",
       <<Imm(DagObj), Mut(Execution), Read("LeaderRegistry")>>)
-----------------------------------------------------------------------------
(* Results of off-chain tools.  verifier is "none", or "registered" with the   *)
(* keys of the leader and of the tool; or else there is an external one's      *)
(* record.                                                                     *)

CallExternalVerifier(w, record) ==
    Call(record.method,
         <<Worksheet(w), Pure(<<Bytes, "result">>), Pure(<<Bytes, "auxiliary">>)>>
         \o [i \in DOMAIN record.objects |-> Imm(record.objects[i])], <<w, "more">>)

Verdict(w, verifier, tool) ==
    IF verifier = "none" THEN Call("verify_none", <<Read("VerifierRegistry")>>, <<w>>)
    ELSE Call("verify_registered_key",
              <<Worksheet(w), Read("VerifierRegistry"), Read("LeaderRegistry"),
                Read("NetworkAuth"), Imm(BindingOf("leader")), Imm(BindingOf(tool))>>, <<w>>)

CommitOffChain(w) ==
    Do("commit_off_chain_tool_result_for_walk",
       <<Imm(DagObj), Mut(Execution), Read("ToolRegistry"), Read("VerifierRegistry"),
         Worksheet(w), Res(<<"VerificationVerdict", w>>), Imm(LeaderCap), Read("LeaderRegistry")>>)

Submission(w, vertex, refs, settle, verdict) ==
    << PrepareWorksheet(w) >>
    \o SettleCurrentVertexGas(refs, vertex, settle)
    \o << verdict, CommitOffChain(w) >>
    \o LockPaymentState(RuntimeToolGas(refs), Mut(Execution))

SubmitOffChain(w, vertex, refs, settle, verifier, tool) ==
    Submission(w, vertex, refs, settle, Verdict(w, verifier, tool))
SubmitVerifiedOffChain(w, vertex, refs, settle, record) ==
    Submission(w, vertex, refs, settle, CallExternalVerifier(w, record))
-----------------------------------------------------------------------------
(* Results of on-chain tools: the tool runs in the transaction, or the leader *)
(* records a terminal error in its place.                                     *)

CreateOnChainResult(w) ==
    Call("create_on_chain_tool_result_for_walk",
         <<Imm(DagObj), Mut(Execution), Worksheet(w), Imm(LeaderCap), Read("LeaderRegistry")>>, <<w>>)

ReleaseAuthorization(w) ==
    Call("release_vertex_authorization_for_onchain_walk",
         <<Imm(DagObj), Mut(Execution), Worksheet(w), Imm(LeaderCap)>>, <<w>>)

CommitOnChainExecution(w, authorized) ==
    << CreateOnChainResult(w) >>
    \o (IF authorized
        THEN << ReleaseAuthorization(w),
                Call("execute_authorized",
                     <<Res(<<"ProvenValue", w>>), Worksheet(w), Res(ResultObj(w))>>, <<w>>) >>
        ELSE << Call("execute", <<Worksheet(w), Res(ResultObj(w))>>, <<w>>) >>)

TerminalError(w) ==
    << CreateOnChainResult(w),
       Call("finalize_and_share", <<Res(ResultObj(w)), Worksheet(w)>>, <<w>>) >>

SubmitOnChain(w, vertex, refs, settle, submission) ==
    LET locks == LockPaymentState(RuntimeToolGas(refs), Mut(Execution))
    IN << PrepareWorksheet(w) >>
       \o SettleCurrentVertexGas(refs, vertex, settle)
       \o (IF submission = "error" THEN TerminalError(w) \o locks
            ELSE locks \o CommitOnChainExecution(w, submission = "authorized"))

DryRunOnChain(w, authorized) == << PrepareWorksheet(w) >> \o CommitOnChainExecution(w, authorized)

SettleScheduled(scheduled) ==
    IF scheduled
    THEN << Do("settle_finished_scheduled_execution_payment_if_ready",
               <<Mut(The("Task")), Mut(Execution)>>) >>
    ELSE <<>>

ConsumeOnChainResult(w) ==
    Do("consume_on_chain_tool_result_for_walk",
       <<Imm(DagObj), Mut(Execution), Read("ToolRegistry"), Mut(ResultObj(w)), Imm(LeaderCap),
         Read("LeaderRegistry"), Mut(The("PriorityFeeVault"))>>)

ConsumeOnChain(w, refs, scheduled) ==
    << ConsumeOnChainResult(w) >>
    \o LockPaymentState(RuntimeToolGas(refs), Mut(Execution))
    \o << EmitPaymentReady >> \o SettleScheduled(scheduled)
-----------------------------------------------------------------------------
(* Settlement of committed results, and executions that expired.              *)

SettleCommittedCall ==
    Do("settle_committed_tool_result_for_walk_by_leader",
       <<Imm(DagObj), Mut(Execution), Read("ToolRegistry"), Read("LeaderRegistry"),
         Mut(The("PriorityFeeVault")), Imm(LeaderCap)>>)

RecordGasCharge ==
    << Do("record_committed_tool_result_gas_charge_by_leader", <<Mut(Execution), Imm(LeaderCap)>>) >>

SettleCommittedByLeader(ts, scheduled) ==
    << SettleCommittedCall >> \o LockPaymentState(ts, Mut(Execution))
    \o << EmitPaymentReady >> \o SettleScheduled(scheduled)

SettleCommittedByLeaderForSelf == << SettleCommittedCall >>

SettleCommittedForSelf ==
    << Do("settle_committed_tool_result_for_walk",
          <<Imm(DagObj), Mut(Execution), Read("ToolRegistry"), Read("LeaderRegistry"),
            Mut(The("PriorityFeeVault"))>>) >>

SettleOnChainForSelf(w) ==
    << Do("settle_onchain_tool_result_for_walk",
          <<Imm(DagObj), Mut(Execution), Read("ToolRegistry"), Mut(ResultObj(w)),
            Read("LeaderRegistry"), Mut(The("PriorityFeeVault"))>>) >>

CleanupBroken(w) ==
    Do("cleanup_broken_onchain_tool_result",
       <<Imm(DagObj), Mut(Execution), Read("ToolRegistry"), Mut(ResultObj(w)),
         Read("LeaderRegistry")>>)

AbortExpired(ws) ==
    Each(ws, LAMBDA w : << CleanupBroken(w) >>)
    \o << Do("abort_expired_execution", <<Imm(DagObj), Mut(Execution)>>) >>

AbortExpiredWithToolGas(t) ==
    << Do("abort_expired_execution_with_tool_gas", <<Mut(ToolGasOf(t)), Imm(DagObj), Mut(Execution)>>) >>

AccomplishPayment(agent) ==
    CASE agent = "none" -> << Do("accomplish_tap_execution_payment", <<Mut(Execution)>>) >>
      [] ~CanMutate(agent) -> NotBuilt
      [] OTHER -> << Do("accomplish_tap_execution_payment_from_agent_vault",
                        <<MutableAgent(agent), Mut(Execution)>>) >>

RefillPayment ==
    << Call("withdraw_sui", <<>>, <<"refill">>),
       Do("refill_tap_execution_payment", <<Mut(Execution), Res(<<"CoinSui", "refill">>)>>) >>

RefillPaymentFromVault(agent) ==
    IF ~CanMutate(agent) THEN NotBuilt
    ELSE << Do("refill_tap_execution_payment_from_agent_vault", <<MutableAgent(agent), Mut(Execution)>>) >>
-----------------------------------------------------------------------------
(* Starting an execution.  agent is "none" for the default executor.  payment *)
(* is "balance" (withdrawn), "exact" (the coin is used up) or "larger" (it is *)
(* known to hold more than the budget, so the budget is split off).           *)

TakePayment(payment) ==
    CASE payment = "balance" -> << Call("withdraw_sui", <<>>, <<"budget">>) >>
      [] payment = "larger" -> << Call("split_coins", <<Own(CoinOf("CoinSui"))>>, <<"budget">>) >>
      [] payment = "exact" -> <<>>

Payment(payment) ==
    IF payment = "exact" THEN Own(CoinOf("CoinSui")) ELSE Res(<<"CoinSui", "budget">>)

Begin(agent, payment) ==
    IF agent = "none"
    THEN Call("begin_default_dag_execution",
              <<Imm(DagObj), Read("AgentRegistry"), Read("ToolRegistry"), Payment(payment)>>, <<"">>)
    ELSE Call("begin_user_funded_agent_execution",
              <<Imm(DagObj), Read("AgentRegistry"), MutableAgent(agent),
                Read("ToolRegistry"), Payment(payment)>>, <<"">>)

SnapshotCosts ==
    Do("snapshot_dag_tool_costs", <<Read("GasService"), Res(Execution), Imm(DagObj)>>)

(* Mutant of FundAndStart: the payment is locked after the start.             *)
StartAndFund(ts) ==
    << SnapshotCosts,
       Do("start_execution", <<Imm(DagObj), Res(Execution), Read("LeaderRegistry")>>) >>
    \o LockPaymentState(ts, Res(Execution))
    \o << Do("public_share_object", <<Res(Execution)>>) >>

FundAndStart(ts) ==
    << SnapshotCosts >> \o LockPaymentState(ts, Res(Execution))
    \o << Do("start_execution", <<Imm(DagObj), Res(Execution), Read("LeaderRegistry")>>),
          Do("public_share_object", <<Res(Execution)>>) >>

ExecuteAgentDagPtb(agent, payment, feeInRange, ts) ==
    IF ~feeInRange \/ (agent # "none" /\ ~CanMutate(agent)) THEN NotBuilt
    ELSE TakePayment(payment) \o << Begin(agent, payment) >> \o FundAndStart(ts)
=============================================================================
