---------------------------- MODULE CommandSteps ----------------------------
(* What the commands of src/cli/src are made of.  A command is the sequence of*)
(* the steps its handler takes: the arguments it checks, what it looks up, the*)
(* coins it chooses, and what it leaves behind.  What the looks find is left  *)
(* to the modules about the reads, and what a transaction does on the chain to*)
(* SdkMethods; here matters what comes before what.                           *)
EXTENDS Naturals, Sequences

CONSTANT NoCoin  \* no coin is named

StepOf(kind, what) == <<[kind |-> kind, what |-> what, named |-> NoCoin, apart |-> {}]>>

Check(what) == StepOf("check", what)  \* an argument, a file or a setting may be wrong
Query(what) == StepOf("query", what)  \* the node, a server or a file answers
Prompt == StepOf("query", "user")
Store == StepOf("effect", "stored")  \* data goes to Walrus
Expect(what) == StepOf("query", what)  \* an answer must hold this
Transact(roles) == StepOf("submit", roles)  \* a transaction, with the coins of these roles
\* Not accepted, it is only noted; accepted, it is followed by these steps.
TryTransact(roles, steps) == StepOf("try", [roles |-> roles, accepted |-> steps])
Write == StepOf("effect", "written")
Save == StepOf("effect", "saved")
SaveIfExecuted == StepOf("keep", "saved")
Cache == StepOf("effect", "cached")  \* public objects are kept in the configuration
Attempt(effect) == StepOf("attempt", effect)  \* a failure is ignored
Report == StepOf("effect", "printed")
Choose(role, coin, apart) ==
    <<[kind |-> "choose", what |-> role, named |-> coin, apart |-> apart]>>
Find(role) == StepOf("find", role)  \* the coin of the role is looked up again

Never == StepOf("never", "contradiction")  \* arguments that contradict each other
CoinApart == StepOf("apart", "payment")  \* the gas coin is not the payment coin
If(condition, steps) == IF condition THEN steps ELSE <<>>
Maybe(steps) == StepOf("maybe", steps)  \* as the answers before it say
Repeat(steps) == StepOf("repeat", steps)  \* once for each of any number
-----------------------------------------------------------------------------
(* The client of a command, paid for with the named coin or the largest.      *)
build_sui_grpc_client == Check("url")
get_signing_key == Check("key")

(* Mutant of fetch_coin_with_balance_excluding: nothing is excluded.          *)
ExcludingNothing(role, coin, apart) == Choose(role, coin, {})

fetch_coin_with_balance_excluding(role, coin, apart) == Choose(role, coin, apart)
fetch_coin_with_balance(role, coin) == fetch_coin_with_balance_excluding(role, coin, {})
fetch_coin(coin) == fetch_coin_with_balance("gas", coin)
fetch_coin_by_type == Check("US")
fetch_objects_from_url == Query("objects")
get_nexus_objects == Check("objects") \o Maybe(fetch_objects_from_url \o Cache)
ClientWith(gas) ==
    build_sui_grpc_client \o get_signing_key \o gas \o get_nexus_objects \o Query("package")
get_nexus_client(gas) == ClientWith(fetch_coin(gas))
ReadingClient == get_nexus_client(NoCoin)

(* The agent of a command, and whether the signer may use it.                 *)
agent_id_from_alias_or_arg(options) ==
    If("agent_id" \notin options, IF "alias" \in options THEN Check("alias") ELSE Never)
ensure_cli_agent_access(access) == Query("agent") \o StepOf("access", access)
ensure_cli_agent_owner == ensure_cli_agent_access("immutable")
ensure_cli_mutable_agent == ensure_cli_agent_access("mutable")
ensure_agent_owner_allowed(held, access) ==
    held \in {"signer", "shared"} \/ (held = "frozen" /\ access = "immutable")

(* Input data is sorted into what stays and what goes to Walrus.              *)
EntryPorts == Check("input")

(* The times of an occurrence, if there are any.                              *)
OccurrenceRequest == Check("occurrence")
=============================================================================
