---------------------------- MODULE ToolCommands ----------------------------
(* The commands about tools: src/cli/src/tool.  They are registered from what *)
(* their servers say or from a Move module, and used by their owner           *)
(* capabilities, which are named or taken from the configuration.             *)
EXTENDS CommandSteps

Gas == {"gas"}
CapArgs == {"owner_cap", "gas"}

ToolCommand ==
    [ new |-> {}, unregister |-> CapArgs \cup {"yes", "json"}, claim_collateral |-> CapArgs,
      set_invocation_cost |-> CapArgs, list |-> {}, inspect |-> {}, update_timeout |-> CapArgs ]
RegisterCommand ==
    [ off_chain |-> {"from_meta", "batch", "no_save", "gas"}, on_chain |-> {"no_save", "json", "gas"} ]
ValidateCommand == [off_chain |-> {}, on_chain |-> {}]
ConfigureVerifierCommand == [registered_key |-> CapArgs, external |-> CapArgs]
ToolAuthCommand ==
    [ keygen |-> {"out"}, register_key |-> CapArgs \cup {"skip_if_active", "active"},
      list_keys |-> {}, export_allowed_leaders |-> {"all"}, sync_allowed_leaders |-> {"once"} ]
-----------------------------------------------------------------------------
(* A tool is written; what its server says is checked.                        *)
ToolTemplate == Query("templates")
create_new_tool == ToolTemplate \o Write \o Repeat(Write) \o Report

build_tool_http_client == Check("root_certificate")
parse_tool_meta_json == Check("meta")
output_schema_has_top_level_one_of == Check("one_of")
validate_off_chain_tool_with_client ==
    Query("health") \o Query("meta") \o parse_tool_meta_json \o output_schema_has_top_level_one_of
validate_off_chain_tool == build_tool_http_client \o validate_off_chain_tool_with_client
validate_on_chain_tool == Never  \* there is no such check yet
load_meta_from_source ==
    Query("source") \o parse_tool_meta_json \o Check("meta_url")
    \o output_schema_has_top_level_one_of

(* Registration of one tool, or of all that a server has.  A tool that the    *)
(* chain refuses is noted and the next one is tried; one that is registered   *)
(* must come with both of its capabilities, which are saved at the end.       *)
register_one_tool ==
    fetch_coin_by_type \o TryTransact({"gas"}, Expect("both_caps") \o Query("tool") \o Expect("tool_ref"))
register_off_chain_tool(gas, options) ==
    LET validated == validate_off_chain_tool_with_client \o register_one_tool
    IN build_sui_grpc_client \o get_signing_key \o get_nexus_client(gas)
       \o (IF "from_meta" \in options THEN load_meta_from_source \o register_one_tool
           ELSE build_tool_http_client
                \o IF "batch" \in options THEN Query("tools") \o Repeat(validated) ELSE validated)
       \o If("no_save" \notin options, SaveIfExecuted) \o Report

(* Registration of a Move module.  Its schemas are derived from the module;   *)
(* the user may rename and describe what is in them, unless JSON is asked for.*)
customize_parameter == Prompt \o Prompt
customize_output_field == Prompt
customize_output_variant == Prompt \o Repeat(customize_output_field)
build_final_schema == Check("parameters")
customize_parameter_descriptions(options) ==
    If("json" \notin options,
       Check("input_schema")
       \o Maybe(customize_parameter \o Repeat(customize_parameter) \o build_final_schema))
customize_output_variant_and_field_descriptions(options) ==
    If("json" \notin options,
       Check("output_schema") \o Repeat(customize_output_variant) \o Check("variants"))
generate_and_customize_schemas(options) ==
    Query("execute") \o Query("Output") \o customize_parameter_descriptions(options)
    \o customize_output_variant_and_field_descriptions(options)
extract_owner_caps == Expect("over_tool_cap")
save_tool_owner_caps == Save
register_onchain_tool(gas, options) ==
    Check("coins") \o get_nexus_client(gas) \o build_sui_grpc_client \o fetch_coin_by_type
    \o generate_and_customize_schemas(options) \o Transact({"gas", "new_tool"})
    \o extract_owner_caps \o If("no_save" \notin options, save_tool_owner_caps)
    \o Query("tool") \o Expect("tool_ref") \o Report
-----------------------------------------------------------------------------
(* What the holder of a tool's capabilities may do.                           *)
resolve_owner_cap(options) == If("owner_cap" \notin options, Check("cap"))
Confirm == Prompt \o Check("confirmation")

unregister_tool(gas, options) ==
    If({"yes", "json"} \cap options = {}, Confirm) \o get_nexus_client(gas)
    \o resolve_owner_cap(options) \o Query("cap") \o Query("tool") \o Transact({"gas"}) \o Report
claim_collateral(gas, options) ==
    get_nexus_client(gas) \o resolve_owner_cap(options) \o Query("cap") \o Query("tool")
    \o Transact({"gas"}) \o Report
set_tool_invocation_cost(gas, options) == claim_collateral(gas, options)
configure_verifier(gas, options, preflight) ==
    resolve_owner_cap(options) \o get_nexus_client(gas) \o preflight \o Transact({"gas"}) \o Report
update_tool_timeout(gas, options) ==
    get_nexus_client(gas) \o resolve_owner_cap(options) \o Transact({"gas"}) \o Report

list_tools ==
    ReadingClient \o Query("registry") \o Query("timeouts") \o Query("tools") \o Expect("times")
    \o Report
inspect_tool == ReadingClient \o Query("tool") \o Expect("tool_ref") \o Report

(* Keys of signed HTTP, and the leaders a tool allows.                        *)

(* Mutant of keygen: the key is reported before it is written.                *)
ReportFirst(options) == Report \o If("out" \in options, Write)

keygen(options) == If("out" \in options, Write) \o Report
register_key(gas, options) ==
    resolve_owner_cap(options) \o Check("signing_key") \o get_nexus_client(gas)
    \o If("skip_if_active" \in options, Query("keys"))
    \o If(~({"skip_if_active", "active"} \subseteq options), Transact({"gas"})) \o Report
list_keys == ReadingClient \o Query("keys") \o Report
export_allowed_leaders(options) ==
    ReadingClient \o If("all" \notin options, Check("leaders")) \o Query("leader_keys")
    \o Write \o Report

(* The list is written if it has changed: once, or again and again until the  *)
(* user stops it, whatever fails.                                             *)
sync_once == Query("leader_keys") \o Query("file") \o Maybe(Write)
run_best_effort == Repeat(Attempt("written"))
sync_allowed_leaders(options) ==
    Check("interval") \o build_sui_grpc_client \o get_nexus_objects \o Check("reader")
    \o IF "once" \in options THEN sync_once \o Report ELSE Report \o run_best_effort

handle_tool_auth(gas, options) ==
    [ keygen |-> keygen(options), register_key |-> register_key(gas, options),
      list_keys |-> list_keys, export_allowed_leaders |-> export_allowed_leaders(options),
      sync_allowed_leaders |-> sync_allowed_leaders(options) ]
handle(gas, options) ==
    [ new |-> create_new_tool, unregister |-> unregister_tool(gas, options),
      claim_collateral |-> claim_collateral(gas, options),
      set_invocation_cost |-> set_tool_invocation_cost(gas, options), list |-> list_tools,
      inspect |-> inspect_tool, update_timeout |-> update_tool_timeout(gas, options) ]
handle_register(gas, options) ==
    [ off_chain |-> register_off_chain_tool(gas, options),
      on_chain |-> register_onchain_tool(gas, options) ]
handle_validate(gas, options) ==
    [off_chain |-> validate_off_chain_tool, on_chain |-> validate_on_chain_tool]
handle_configure_verifier(gas, options) ==
    [ registered_key |-> configure_verifier(gas, options, <<>>),
      external |-> configure_verifier(gas, options, Query("verifier")) ]
=============================================================================
