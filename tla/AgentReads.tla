----------------------------- MODULE AgentReads -----------------------------
(* How a skill is found for an execution: src/sdk/src/nexus/tap.rs reads the  *)
(* registry of agents table by table into a snapshot, and                     *)
(* src/sdk/src/types/tap.rs and src/sdk/src/nexus/workflow.rs resolve the     *)
(* target in it.  Skills are revised, switched and made the default between   *)
(* the reads.                                                                 *)
EXTENDS Naturals, FiniteSets

CONSTANTS
    TapSkills,  \* the skills, each under an agent of its own
    Configured, \* the default executor that the configuration names
    NoSkill,
    MaxShifts   \* bound on the changes of the registry

ASSUME AgentReadsAssumption ==
    Configured \in TapSkills /\ NoSkill \notin TapSkills /\ MaxShifts \in Nat

VARIABLES
    skillRecords,   \* the record of every skill, on the chain
    defaultSkill,   \* the default executor of the registry
    sinceSkills,    \* history: the records of each skill since the call began
    sinceDefaults,  \* history: the default executors since then
    resolution,     \* the call
    shifts          \* the changes so far

agentReadVars ==
    <<skillRecords, defaultSkill, sinceSkills, sinceDefaults, resolution, shifts>>

(* A skill runs a DAG of its own or one that is selected at runtime; its      *)
(* requirements may be malformed.                                             *)
SkillRecords ==
    [active : BOOLEAN, runtime : BOOLEAN, sound : BOOLEAN, revision : 0..MaxShifts]
FirstRecords == {r \in SkillRecords : r.revision = 0}

NoResolution == [step |-> "idle"]
NoTarget == [ok |-> FALSE, skill |-> NoSkill]
TargetOf(s, snapshot) == [ok |-> TRUE, skill |-> s, record |-> snapshot[s]]

AgentReadInit ==
    /\ skillRecords \in [TapSkills -> FirstRecords]
    /\ defaultSkill \in TapSkills \cup {NoSkill}
    /\ sinceSkills = [s \in TapSkills |-> {}] /\ sinceDefaults = {}
    /\ resolution = NoResolution /\ shifts = 0
-----------------------------------------------------------------------------
ActiveIn(s, snapshot) == s \in DOMAIN snapshot /\ snapshot[s].active

(* skill_revision_record: every record of the registry is validated first.    *)
skill_revision_record(s, revision, snapshot) ==
    IF (\A t \in DOMAIN snapshot : snapshot[t].sound) /\ snapshot[s].revision = revision
    THEN TargetOf(s, snapshot) ELSE NoTarget

active_skill_revision_record(s, snapshot) ==
    IF ActiveIn(s, snapshot) /\ snapshot[s].sound THEN TargetOf(s, snapshot) ELSE NoTarget

resolve_active_tap_skill_execution_target(s, snapshot) ==
    active_skill_revision_record(s, snapshot)

resolve_default_tap_dag_executor(default, snapshot) ==
    LET target == resolve_active_tap_skill_execution_target(default, snapshot)
    IN IF default # NoSkill /\ target.ok /\ target.record.runtime THEN target ELSE NoTarget

(* The executor in the configuration is preferred to that of the registry.    *)
resolve_default_agent_dag_executor(default, snapshot) ==
    LET target == resolve_active_tap_skill_execution_target(Configured, snapshot)
    IN IF target.ok /\ target.record.runtime THEN target
       ELSE resolve_default_tap_dag_executor(default, snapshot)

Resolved(c, default) ==
    CASE c.by = "revision" -> skill_revision_record(c.wanted, c.revision, c.snapshot)
      [] c.by = "active" -> active_skill_revision_record(c.wanted, c.snapshot)
      [] c.by = "target" -> resolve_active_tap_skill_execution_target(c.wanted, c.snapshot)
      [] c.by = "default" -> resolve_default_tap_dag_executor(default, c.snapshot)
      [] c.by = "execute" -> resolve_default_agent_dag_executor(default, c.snapshot)
-----------------------------------------------------------------------------
ResolutionAt(step) == resolution.step = step
Keeps(r) ==
    resolution' = r /\ UNCHANGED <<skillRecords, defaultSkill, sinceSkills, sinceDefaults, shifts>>

(* Whether the default executor is read: the two that ask for one revision    *)
(* only read the tables.                                                      *)
ReadsDefault(by) == by \notin {"revision", "active"}

BeginResolution(by, s, revision) ==
    /\ ResolutionAt("idle")
    /\ resolution' = [step |-> "tables", by |-> by, wanted |-> s, revision |-> revision,
                      snapshot |-> [t \in {} |-> NoSkill], target |-> NoTarget,
                      since |-> shifts, broken |-> FALSE]
    /\ sinceSkills' = [t \in TapSkills |-> {skillRecords[t]}]
    /\ sinceDefaults' = {defaultSkill}
    /\ UNCHANGED <<skillRecords, defaultSkill, shifts>>

Answer_(target) == [resolution EXCEPT !.step = "answer", !.target = target]

(* fetch_agent_registry_tables: the agents come in any order, the skills of   *)
(* each are read by themselves.                                               *)
ReadSkills(s) ==
    /\ ResolutionAt("tables") /\ s \in TapSkills \ DOMAIN resolution.snapshot
    /\ Keeps([resolution EXCEPT
                !.snapshot = [t \in DOMAIN @ \cup {s} |-> IF t = s THEN skillRecords[s] ELSE @[t]]])

TablesRead ==
    /\ ResolutionAt("tables") /\ DOMAIN resolution.snapshot = TapSkills
    /\ Keeps(IF ReadsDefault(resolution.by) THEN [resolution EXCEPT !.step = "default"]
             ELSE Answer_(Resolved(resolution, NoSkill)))

(* fetch_default_dag_executor: one of three ways to decode the field.         *)
ReadDefault ==
    /\ ResolutionAt("default")
    /\ Keeps(Answer_(Resolved(resolution, defaultSkill)))

ResolutionFails ==
    /\ resolution.step \in {"tables", "default"}
    /\ Keeps([Answer_(NoTarget) EXCEPT !.broken = TRUE])

TakeTarget ==
    /\ ResolutionAt("answer")
    /\ resolution' = NoResolution
    /\ sinceSkills' = [s \in TapSkills |-> {}] /\ sinceDefaults' = {}
    /\ UNCHANGED <<skillRecords, defaultSkill, shifts>>
-----------------------------------------------------------------------------
(* Others administer the registry while the call runs.                        *)
Shift == shifts < MaxShifts /\ resolution.step \in {"tables", "default"} /\ shifts' = shifts + 1

(* One transaction may change a skill and the default executor as well.       *)
ChangeSkill(s, active, runtime, default) ==
    /\ Shift
    /\ skillRecords' = [skillRecords EXCEPT ![s] =
            [@ EXCEPT !.active = active, !.runtime = runtime, !.revision = shifts']]
    /\ sinceSkills' = [sinceSkills EXCEPT ![s] = @ \cup {skillRecords'[s]}]
    /\ defaultSkill' = default /\ sinceDefaults' = sinceDefaults \cup {default}
    /\ UNCHANGED resolution

ChangeDefault(s) ==
    /\ Shift
    /\ defaultSkill' = s /\ sinceDefaults' = sinceDefaults \cup {s}
    /\ UNCHANGED <<skillRecords, sinceSkills, resolution>>

AgentReadNext ==
    \/ \E by \in {"active", "target", "default", "execute"} : BeginResolution(by, Configured, 0)
    \/ \E revision \in 0..1 : BeginResolution("revision", Configured, revision)
    \/ \E s \in TapSkills :
         \/ ReadSkills(s) \/ ChangeDefault(s)
         \/ \E active, runtime \in BOOLEAN, default \in {defaultSkill} \cup TapSkills :
                ChangeSkill(s, active, runtime, default)
    \/ TablesRead \/ ReadDefault \/ ResolutionFails \/ TakeTarget
-----------------------------------------------------------------------------
AgentReadTypeOK ==
    /\ skillRecords \in [TapSkills -> SkillRecords]
    /\ defaultSkill \in TapSkills \cup {NoSkill}
    /\ shifts \in 0..MaxShifts
    /\ resolution.step # "idle" => DOMAIN resolution.snapshot \subseteq TapSkills

(* What may be answered for a target: a record that the skill had at some     *)
(* moment of the call and that fits the question, of a skill that was asked   *)
(* for or was the default at some moment; in place of the configured one only *)
(* if that was not fit at some moment.  The moments may differ: a skill that   *)
(* was fit before it became the default, and not after, is answered as well,   *)
(* since the default is read last.  The execution itself is then up to the     *)
(* chain.                                                                      *)
Executor(r) == r.active /\ r.runtime /\ r.sound
FitsQuestion(target) ==
    /\ target.record \in sinceSkills[target.skill]
    /\ target.record.sound
    /\ CASE resolution.by = "revision" ->
              target.skill = resolution.wanted /\ target.record.revision = resolution.revision
         [] resolution.by \in {"active", "target"} ->
              target.skill = resolution.wanted /\ target.record.active
         [] resolution.by = "default" -> Executor(target.record) /\ target.skill \in sinceDefaults
         [] resolution.by = "execute" ->
              /\ Executor(target.record)
              /\ target.skill # Configured =>
                    /\ target.skill \in sinceDefaults
                    /\ \E r \in sinceSkills[Configured] : ~Executor(r)

(* Nothing is answered although there is a target, only after a change or a   *)
(* failed request, or when a pinned revision is asked for while any skill of  *)
(* the registry is malformed.                                                 *)
NoneForCause ==
    \/ resolution.broken \/ resolution.since < shifts
    \/ LET r == skillRecords[resolution.wanted]
           d == defaultSkill # NoSkill /\ Executor(skillRecords[defaultSkill])
       IN CASE resolution.by = "revision" ->
                 r.revision # resolution.revision \/ \E s \in TapSkills : ~skillRecords[s].sound
            [] resolution.by \in {"active", "target"} -> ~(r.active /\ r.sound)
            [] resolution.by = "default" -> ~d
            [] resolution.by = "execute" -> ~d /\ ~Executor(skillRecords[Configured])

TargetsTrue ==
    ResolutionAt("answer") =>
        IF resolution.target.ok THEN FitsQuestion(resolution.target) ELSE NoneForCause
=============================================================================
