--------------------------- MODULE ToolInspection ---------------------------
(* What the SDK answers about a registered tool: inspect_tool in              *)
(* src/sdk/src/nexus/tool.rs and the reads of the registries that it and the  *)
(* leaders make (src/sdk/src/nexus/registry.rs).  The answer is put together  *)
(* from up to eight requests, between which the tool is registered,           *)
(* configured and unregistered.                                               *)
EXTENDS Naturals

CONSTANTS
    VerifierMethods, \* the methods of external verifiers
    MaxTurns         \* bound on the changes of the registration

ASSUME InspectionAssumption ==
    MaxTurns \in Nat /\ VerifierMethods \cap {"none", "key"} = {}

VARIABLES
    toolKind,     \* "http" or "sui"
    crowd,        \* the tables in which other tools have entries
    registration, \* the tool on the chain
    past,         \* history: what the registration was since the call began
    inspection,   \* the call
    turns         \* the changes so far

inspectionVars == <<toolKind, crowd, registration, past, inspection, turns>>

Supports == {"none", "key"} \cup VerifierMethods
Tables == {"registered", "supported", "external"}

(* The Tool and its ToolGas exist from the first registration on; the entry   *)
(* and the support of the tool as long as it is registered.                   *)
Unknown == [objects |-> FALSE, live |-> FALSE, support |-> "none"]
Registrations == [objects : BOOLEAN, live : BOOLEAN, support : Supports]
Sound(r) == (r.live => r.objects) /\ (r.support # "none" => r.live)

(* An external verifier is recorded exactly for tools that support it.        *)
RecordOf(r) == IF r.support \in VerifierMethods THEN r.support ELSE "none"

NoInspection == [step |-> "idle"]

InspectionInit ==
    /\ toolKind \in {"http", "sui"}
    /\ crowd \in SUBSET Tables
    /\ registration \in {r \in Registrations : Sound(r)}
    /\ toolKind = "sui" => registration.support = "none"
    /\ past = {} /\ inspection = NoInspection /\ turns = 0
-----------------------------------------------------------------------------
InspectionAt(step) == inspection.step = step
Proceed(r) == inspection' = r /\ UNCHANGED <<toolKind, crowd, registration, past, turns>>
GoOn(step) == [inspection EXCEPT !.step = step]
Answers_(answer) == [inspection EXCEPT !.step = "answer", !.answer = answer]

BeginInspection(by) ==
    /\ InspectionAt("idle")
    /\ inspection' = [step |-> IF by = "inspect_tool" THEN "tool" ELSE "verifiers", by |-> by,
                      tool |-> FALSE, sized |-> FALSE, support |-> "none", record |-> "none",
                      since |-> turns, broken |-> FALSE, answer |-> "none"]
    /\ past' = {registration}
    /\ UNCHANGED <<toolKind, crowd, registration, turns>>

(* A probe that fails for whatever reason counts as an absent object.         *)
ProbeTool(fails) ==
    /\ InspectionAt("tool")
    /\ Proceed([GoOn("gas") EXCEPT !.tool = registration.objects /\ ~fails, !.broken = fails])

ProbeGas(fails) ==
    /\ InspectionAt("gas")
    /\ LET gas == registration.objects /\ ~fails
           probed == [inspection EXCEPT !.broken = @ \/ fails]
       IN Proceed(IF inspection.tool # gas THEN [probed EXCEPT !.step = "answer", !.answer = "inconsistent"]
                  ELSE IF gas THEN [probed EXCEPT !.step = "fetch"]
                  ELSE [probed EXCEPT !.step = "answer", !.answer = "missing"])

(* Only tools behind HTTP have verifiers.                                     *)
FetchToolObject ==
    /\ InspectionAt("fetch")
    /\ Proceed(IF toolKind = "sui" THEN Answers_("exists") ELSE GoOn("registry"))

(* fetch_current_tool_registration: the sizes of the tables are those of the  *)
(* registry as it was read, the entries are read afterwards.                  *)
TableUsed(t) ==
    \/ t \in crowd
    \/ CASE t = "registered" -> registration.live
         [] t = "supported" -> registration.support # "none"
         [] t = "external" -> RecordOf(registration) # "none"

ReadToolRegistry ==
    /\ InspectionAt("registry")
    /\ Proceed(IF TableUsed("registered")
               THEN [GoOn("registered") EXCEPT !.sized = TableUsed("supported")]
               ELSE GoOn("verifiers"))

ReadRegistered ==
    /\ InspectionAt("registered")
    /\ Proceed(GoOn(IF registration.live /\ inspection.sized THEN "support" ELSE "verifiers"))

ReadSupport ==
    /\ InspectionAt("support")
    /\ Proceed([GoOn("verifiers") EXCEPT !.support = registration.support])

(* The support of a tool and its record name the same method, or neither.     *)
Agree(support, record) ==
    IF support \in VerifierMethods THEN record = support ELSE record = "none"

Conclude(record) ==
    LET read == [inspection EXCEPT !.step = "answer", !.record = record]
    IN IF inspection.by = "inspect_tool"
       THEN [read EXCEPT !.answer = IF Agree(inspection.support, record) THEN "exists" ELSE "inconsistent"]
       ELSE IF record = "none" THEN [read EXCEPT !.answer = "missing"]
       ELSE [read EXCEPT !.step = "objects"]

(* fetch_external_verifier_record.                                            *)
ReadVerifierRegistry ==
    /\ InspectionAt("verifiers")
    /\ Proceed(IF TableUsed("external") THEN GoOn("record") ELSE Conclude("none"))

ReadRecord == InspectionAt("record") /\ Proceed(Conclude(RecordOf(registration)))

(* fetch_external_verifier_runtime_call, for a leader: the shared objects of  *)
(* the record, which stay shared.                                             *)
ReadVerifierObjects == InspectionAt("objects") /\ Proceed(Answers_("exists"))

InspectionFails ==
    /\ inspection.step \in {"fetch", "registry", "registered", "support", "verifiers", "record", "objects"}
    /\ Proceed([Answers_("failed") EXCEPT !.broken = TRUE])

TakeInspection ==
    /\ InspectionAt("answer")
    /\ inspection' = NoInspection /\ past' = {}
    /\ UNCHANGED <<toolKind, crowd, registration, turns>>
-----------------------------------------------------------------------------
(* The registration changes, all of it in one transaction.                    *)
TurnTo(r) ==
    /\ turns < MaxTurns /\ inspection.step \notin {"idle", "answer"}
    /\ registration' = r /\ past' = past \cup {r} /\ turns' = turns + 1
    /\ UNCHANGED <<toolKind, crowd, inspection>>

RegisterThisTool(support) ==
    /\ ~registration.objects /\ (toolKind = "sui" => support = "none")
    /\ TurnTo([objects |-> TRUE, live |-> TRUE, support |-> support])
ConfigureVerifier(support) ==
    /\ registration.live /\ toolKind = "http" /\ support # registration.support
    /\ TurnTo([registration EXCEPT !.support = support])
UnregisterThisTool ==
    /\ registration.live
    /\ TurnTo([registration EXCEPT !.live = FALSE, !.support = "none"])

InspectionNext ==
    \/ \E by \in {"inspect_tool", "leader"} : BeginInspection(by)
    \/ \E fails \in BOOLEAN : ProbeTool(fails) \/ ProbeGas(fails)
    \/ FetchToolObject \/ ReadToolRegistry \/ ReadRegistered \/ ReadSupport
    \/ ReadVerifierRegistry \/ ReadRecord \/ ReadVerifierObjects
    \/ InspectionFails \/ TakeInspection
    \/ \E support \in Supports : RegisterThisTool(support) \/ ConfigureVerifier(support)
    \/ UnregisterThisTool
-----------------------------------------------------------------------------
InspectionTypeOK ==
    /\ toolKind \in {"http", "sui"} /\ crowd \subseteq Tables
    /\ registration \in Registrations /\ Sound(registration)
    /\ past \subseteq Registrations /\ turns \in 0..MaxTurns
    /\ inspection.step # "idle" => inspection.support \in Supports /\ inspection.record \in Supports

(* A tool is reported as inconsistent only when its registration changed      *)
(* meanwhile or a request failed, never for what the chain holds; and what is *)
(* reported of its verifier held all at once, at one moment of the call.      *)
InspectionTrue ==
    InspectionAt("answer") =>
        /\ inspection.answer = "inconsistent" => inspection.broken \/ inspection.since < turns
        /\ inspection.answer = "missing" /\ inspection.by = "inspect_tool" =>
              inspection.broken \/ \E r \in past : ~r.objects
        /\ inspection.answer = "missing" /\ inspection.by = "leader" =>
              \E r \in past : RecordOf(r) = "none"
        /\ inspection.answer = "exists" =>
              \E r \in past :
                 /\ inspection.by = "inspect_tool" => r.objects /\ r.support = inspection.support
                 /\ inspection.record # "none" => RecordOf(r) = inspection.record
=============================================================================
