------------------------------- MODULE SdkProofs -------------------------------
(* What is proved of the operations of the SDK and the command line (Sdk), for
   every number of actors, names, amounts and changes. *)
EXTENDS FiniteSetTheorems, NaturalsInduction, SequenceTheorems, Sdk, TLAPS

(* A step of the SDK is, for every part of it, a step of that part or none. *)
LEMMA EachPartMoves ==
    ASSUME [Next]_vars
    PROVE  /\ [CreationNext]_creationVars /\ [KeyNext]_keyVars
           /\ [WalkNext]_walkVars /\ [BalanceNext]_balanceVars
           /\ [CrawlNext]_crawlVars /\ [InspectionNext]_inspectionVars
           /\ [AgentReadNext]_agentReadVars /\ [QuoteNext]_quoteVars /\ [DataNext]_dataVars
           /\ [CliNext]_cliVars /\ [AllowlistNext]_allowlistVars /\ [CommandsNext]_commandVars
BY DEF Next, vars, chainVars, readVars, fileVars,
       Methods, Tasks, Keys, ExpiredWalk, Crawls, Inspections, Resolutions, Quoting,
       Cli, Exports, BalancePays, Transfers, CommandLine

--------------------------------------------------------------------------------
(* Creating a task. *)
CreationSteps ==
    {"idle", "agent", "create", "created", "task", "agent_again", "occurrence", "answer"}
CreationAnswers ==
    {"none", "ok", "invalid", "not_built", "late", "lost", "rpc",
     "refused_task", "refused_occurrence"}
AgentRefs == [held : {"owned", "shared", "frozen"}, version : Nat]

Creations ==
    [step : CreationSteps, request : TaskRequests, ref : AgentRefs, created : {0, 1},
     added : {0, 1}, touched : BOOLEAN, answer : CreationAnswers]

CreationTyped == taskAgent \in AgentRefs /\ creation \in Creations

(* How far the call has come, and what it has put on chain by then. *)
CreationStages ==
    /\ creation.step # "answer" => creation.answer = "none"
    /\ creation.step \in {"idle", "agent", "create"} => creation.created = 0
    /\ creation.step \in {"created", "task", "agent_again", "occurrence"} => creation.created = 1
    /\ creation.step # "answer" => creation.added = 0
    /\ creation.step \notin {"idle", "answer"} => ~Unsound(creation.request)
    /\ creation.step \in {"task", "agent_again", "occurrence"} =>
          creation.request.schedule # "none" /\ creation.request.generator = "queue"

(* The reference that a transaction is built with is the agent's, unless
   somebody used the agent since. *)
ReferenceFresh ==
    creation.step \in {"create", "occurrence"} /\ OfAgent(creation.request) =>
        creation.touched \/ taskAgent = creation.ref

CreationInv == CreationTyped /\ CreationStages /\ ReferenceFresh /\ CreatesWhatWasAsked

LEMMA NoCreationTyped == NoRequest \in TaskRequests /\ NoCreation \in Creations
<1>1. NoRequest \in TaskRequests
  BY DEF NoRequest, TaskRequests
<1>2. QED BY <1>1 DEF NoCreation, Creations, CreationSteps, AgentRefs, CreationAnswers

LEMMA CreationStarts ==
    ASSUME CreationInit \/ CreationStill
    PROVE  CreationInv
<1>1. taskAgent \in AgentRefs /\ creation = NoCreation
  BY DEF CreationInit, CreationStill, AgentRefs
<1>2. QED BY <1>1, NoCreationTyped
     DEF CreationInv, CreationTyped, CreationStages, ReferenceFresh, CreatesWhatWasAsked, NoCreation

(* No step of the call or of others breaks it. *)
LEMMA CreationKept ==
    ASSUME CreationInv, [CreationNext]_creationVars
    PROVE  CreationInv'
<1>0. /\ taskAgent \in AgentRefs /\ creation \in Creations
      /\ creation.step \in CreationSteps /\ creation.request \in TaskRequests
      /\ creation.created \in {0, 1} /\ creation.added \in {0, 1} /\ creation.touched \in BOOLEAN
  BY DEF CreationInv, CreationTyped, Creations
<1>1. ASSUME NEW r \in TaskRequests, BeginCreate(r) PROVE CreationInv'
  <2>1. /\ taskAgent' \in AgentRefs
        /\ creation' \in Creations /\ creation'.request = r
        /\ creation'.created = 0 /\ creation'.added = 0
    BY <1>0, <1>1, NoCreationTyped
       DEF BeginCreate, NoCreation, Creations, AgentRefs, CreationSteps, CreationAnswers
  <2>2. \/ Unsound(r) /\ creation'.step = "answer" /\ creation'.answer = "invalid"
        \/ ~Unsound(r) /\ OfAgent(r) /\ creation'.step = "agent" /\ creation'.answer = "none"
        \/ ~Unsound(r) /\ ~OfAgent(r) /\ creation'.step = "create" /\ creation'.answer = "none"
    BY <1>1 DEF BeginCreate, NoCreation
  <2>3. QED BY <2>1, <2>2 DEF CreationInv, CreationTyped, CreationStages, ReferenceFresh,
       CreatesWhatWasAsked
<1>2. CASE ReadAgentForTask
  <2>1. /\ taskAgent' = taskAgent /\ creation' \in Creations
        /\ creation'.request = creation.request
        /\ creation'.created = creation.created /\ creation'.added = creation.added
        /\ \/ creation'.step = "answer" /\ creation'.answer = "not_built"
           \/ creation'.step = "create" /\ creation'.answer = creation.answer /\ creation'.ref = taskAgent
    BY <1>0, <1>2 DEF ReadAgentForTask, Goes, Errors, Next_, Creations, CreationSteps,
       CreationAnswers
  <2>2. creation.step = "agent"
    BY <1>2 DEF ReadAgentForTask, Step
  <2>3. QED BY <1>0, <2>1, <2>2 DEF CreationInv, CreationTyped, CreationStages, ReferenceFresh,
       CreatesWhatWasAsked
<1>3. ASSUME Step("create") \/ Step("occurrence"), ~AgentAccepted PROVE creation.touched
  BY <1>0, <1>3 DEF AgentAccepted, Step, CreationInv, ReferenceFresh
<1>4. AgentEntered \in AgentRefs
  BY <1>0 DEF AgentEntered, AgentRefs
<1>5. CASE SubmitTask
  <2>1. creation.step = "create"
    BY <1>5 DEF SubmitTask, Step
  <2>2. CASE AgentAccepted
    <3>1. taskAgent' \in AgentRefs
      BY <1>4, <1>5, <2>2 DEF SubmitTask
    <3>2. \/ creation' = [Next_("created") EXCEPT !.created = 1]
          \/ creation' = [Errors("lost") EXCEPT !.created = 1]
      BY <1>5, <2>2 DEF SubmitTask
    <3>3. /\ creation' \in Creations /\ creation'.request = creation.request
          /\ creation'.created = 1 /\ creation'.added = creation.added
          /\ \/ creation'.step = "created" /\ creation'.answer = creation.answer
             \/ creation'.step = "answer" /\ creation'.answer = "lost"
      <4>1. CASE creation' = [Next_("created") EXCEPT !.created = 1]
        BY <1>0, <4>1 DEF Next_, Creations, CreationSteps
      <4>2. CASE creation' = [Errors("lost") EXCEPT !.created = 1]
        BY <1>0, <4>2 DEF Errors, Creations, CreationSteps, CreationAnswers
      <4>3. QED BY <3>2, <4>1, <4>2
    <3>4. QED BY <1>0, <2>1, <3>1, <3>3
         DEF CreationInv, CreationTyped, CreationStages, ReferenceFresh, CreatesWhatWasAsked
  <2>3. CASE ~AgentAccepted
    <3>1. taskAgent' = taskAgent /\ creation' = Errors("refused_task") /\ creation.touched
      BY <1>3, <1>5, <2>3 DEF SubmitTask, Goes
    <3>2. /\ creation' \in Creations /\ creation'.step = "answer" /\ creation'.answer = "refused_task"
          /\ creation'.request = creation.request /\ creation'.touched = creation.touched
          /\ creation'.created = creation.created /\ creation'.added = creation.added
      BY <1>0, <3>1 DEF Errors, Creations, CreationSteps, CreationAnswers
    <3>3. QED BY <1>0, <2>1, <3>1, <3>2
         DEF CreationInv, CreationTyped, CreationStages, ReferenceFresh, CreatesWhatWasAsked
  <2>4. QED BY <2>2, <2>3
<1>6. CASE CheckSchedule
  <2>1. creation.step = "created" /\ taskAgent' = taskAgent
    BY <1>6 DEF CheckSchedule, Goes, Step
  <2>2. /\ creation' \in Creations /\ creation'.request = creation.request
        /\ creation'.created = creation.created /\ creation'.added = creation.added
    BY <1>0, <1>6 DEF CheckSchedule, Goes, Succeeds, Errors, Next_, Creations,
       CreationSteps, CreationAnswers
  <2>3. LET r == creation.request
        IN \/ r.schedule = "none" /\ creation'.step = "answer" /\ creation'.answer = "ok"
           \/ creation'.step = "answer" /\ creation'.answer = "late"
           \/ /\ r.schedule # "none" /\ ~LateError(r)
              /\ creation'.step = "task" /\ creation'.answer = creation.answer
    BY <1>0, <1>6 DEF CheckSchedule, Goes, Succeeds, Errors, Next_, Creations
  <2>4. ASSUME creation.request.schedule # "none", ~LateError(creation.request), ~Unsound(creation.request)
        PROVE  creation.request.generator = "queue"
    BY <2>4 DEF LateError, Unsound
  <2>5. ~Unsound(creation.request) /\ creation.created = 1 /\ creation.added = 0 /\ creation.answer = "none"
    BY <2>1 DEF CreationInv, CreationStages
  <2>6. QED BY <1>0, <2>1, <2>2, <2>3, <2>4, <2>5
       DEF CreationInv, CreationTyped, CreationStages, ReferenceFresh, CreatesWhatWasAsked
<1>7. CASE ReadTask \/ ReadFreshAgent
  <2>1. /\ taskAgent' = taskAgent /\ creation' \in Creations
        /\ creation'.request = creation.request /\ creation'.answer = creation.answer
        /\ creation'.created = creation.created /\ creation'.added = creation.added
        /\ \/ creation'.step = "agent_again"
           \/ creation'.step = "occurrence" /\ ~OfAgent(creation.request)
           \/ creation'.step = "occurrence" /\ creation'.ref = taskAgent
    BY <1>0, <1>7 DEF ReadTask, ReadFreshAgent, Goes, Next_, Creations, CreationSteps
  <2>2. creation.step \in {"task", "agent_again"}
    BY <1>7 DEF ReadTask, ReadFreshAgent, Step
  <2>3. QED BY <1>0, <2>1, <2>2 DEF CreationInv, CreationTyped, CreationStages, ReferenceFresh,
       CreatesWhatWasAsked
<1>8. CASE SubmitOccurrence
  <2>1. creation.step = "occurrence"
    BY <1>8 DEF SubmitOccurrence, Step
  <2>2. CASE AgentAccepted
    <3>1. taskAgent' \in AgentRefs
      BY <1>4, <1>8, <2>2 DEF SubmitOccurrence
    <3>2. PICK a \in {"ok", "lost"} :
              creation' = [[creation EXCEPT !.added = 1] EXCEPT !.step = "answer", !.answer = a]
      BY <1>8, <2>2 DEF SubmitOccurrence, Succeeds
    <3>3. /\ creation' \in Creations /\ creation'.request = creation.request
          /\ creation'.step = "answer" /\ creation'.answer \in {"ok", "lost"}
          /\ creation'.created = creation.created /\ creation'.added = 1
      <4>1. "answer" \in CreationSteps /\ a \in CreationAnswers /\ creation \in Creations
        BY <1>0 DEF CreationSteps, CreationAnswers
      <4> DEFINE c == [creation EXCEPT !.added = 1]
      <4>2. /\ c \in Creations /\ c.request = creation.request
            /\ c.created = creation.created /\ c.added = 1
        BY <4>1 DEF Creations
      <4>3. creation' = [c EXCEPT !.step = "answer", !.answer = a]
        BY <3>2
      <4> HIDE DEF c
      <4>4. QED BY <4>1, <4>2, <4>3 DEF Creations
    <3>4. QED BY <1>0, <2>1, <3>1, <3>3
         DEF CreationInv, CreationTyped, CreationStages, ReferenceFresh, CreatesWhatWasAsked
  <2>3. CASE ~AgentAccepted
    <3>1. taskAgent' = taskAgent /\ creation' = Errors("refused_occurrence") /\ creation.touched
      BY <1>3, <1>8, <2>3 DEF SubmitOccurrence, Goes
    <3>2. /\ creation' \in Creations /\ creation'.step = "answer"
          /\ creation'.answer = "refused_occurrence"
          /\ creation'.request = creation.request /\ creation'.touched = creation.touched
          /\ creation'.created = creation.created /\ creation'.added = creation.added
      BY <1>0, <3>1 DEF Errors, Creations, CreationSteps, CreationAnswers
    <3>3. QED BY <1>0, <2>1, <3>1, <3>2
         DEF CreationInv, CreationTyped, CreationStages, ReferenceFresh, CreatesWhatWasAsked
  <2>4. QED BY <2>2, <2>3
<1>9. CASE FailRead
  <2>1. /\ taskAgent' = taskAgent /\ creation' \in Creations
        /\ creation'.step = "answer" /\ creation'.answer = "rpc"
        /\ creation'.created = creation.created /\ creation'.added = creation.added
    BY <1>0, <1>9 DEF FailRead, Goes, Errors, Creations, CreationSteps, CreationAnswers
  <2>2. creation.step \in {"agent", "task", "agent_again"}
    BY <1>9 DEF FailRead
  <2>3. QED BY <1>0, <2>1, <2>2 DEF CreationInv, CreationTyped, CreationStages, ReferenceFresh,
       CreatesWhatWasAsked
<1>10. CASE TakeTask
  <2>1. taskAgent' = taskAgent /\ creation' = NoCreation
    BY <1>10 DEF TakeTask, Goes
  <2>2. QED BY <1>0, <2>1, NoCreationTyped
       DEF CreationInv, CreationTyped, CreationStages, ReferenceFresh, CreatesWhatWasAsked, NoCreation
<1>11. CASE OthersUse
  <2>1. /\ taskAgent' \in AgentRefs /\ creation' \in Creations
        /\ creation'.step = creation.step /\ creation'.request = creation.request
        /\ creation'.answer = creation.answer /\ creation'.touched
        /\ creation'.created = creation.created /\ creation'.added = creation.added
    <3>1. taskAgent' \in AgentRefs
      BY <1>0, <1>11 DEF OthersUse, AgentRefs
    <3>2. creation' = [creation EXCEPT !.touched = TRUE]
      BY <1>11 DEF OthersUse
    <3>3. QED BY <1>0, <3>1, <3>2 DEF Creations
  <2>2. QED BY <1>0, <2>1 DEF CreationInv, CreationTyped, CreationStages, ReferenceFresh,
       CreatesWhatWasAsked
<1>12. CASE UNCHANGED creationVars
  BY <1>12 DEF creationVars, CreationInv, CreationTyped, CreationStages, ReferenceFresh,
     CreatesWhatWasAsked
<1>13. QED BY <1>1, <1>2, <1>5, <1>6, <1>7, <1>8, <1>9, <1>10, <1>11, <1>12 DEF CreationNext

(* A task that is reported is the one that was asked for, and the call's own
   first transaction never makes its second one stale (scheduler.rs, tap.rs). *)
THEOREM TasksAreAsAsked == Spec => []CreatesWhatWasAsked
<1>1. Init => CreationInv
  BY CreationStarts DEF Init
<1>2. CreationInv /\ [Next]_vars => CreationInv'
  BY EachPartMoves, CreationKept
<1>3. CreationInv => CreatesWhatWasAsked
  BY DEF CreationInv
<1>4. QED BY <1>1, <1>2, <1>3, PTL DEF Spec

--------------------------------------------------------------------------------
(* The list of allowed leaders. *)
WriterSteps == {"rest", "compare", "write", "half", "rename"}

AllowlistTyped ==
    /\ published \in Nat /\ allowlist \in Int /\ highest \in Nat
    /\ temps \in [Writers -> Int]
    /\ writer \in [Writers -> [step : WriterSteps, list : Nat]]
    /\ overlapped \in BOOLEAN

Working(p) == writer[p].step # "rest"

(* A process that works exports a list that the chain had, and renames only a
   file that it wrote to the end. *)
ListsWhole ==
    /\ allowlist # TornFile /\ allowlist <= highest /\ highest <= published
    /\ \A p \in Writers : writer[p].step = "rest" => writer[p] = AtRest
    /\ \A p \in Writers : Working(p) => writer[p].list <= published
    /\ \A p \in Writers : writer[p].step = "rename" => temps[p] = writer[p].list

(* As long as no two processes have worked at a time, the one that works has a
   list that is no older than any the file held. *)
OneAtATime ==
    ~overlapped =>
        /\ allowlist = highest
        /\ \A p, q \in Writers : Working(p) /\ Working(q) => p = q
        /\ \A p \in Writers : Working(p) => highest <= writer[p].list

AllowlistInv == AllowlistTyped /\ ListsWhole /\ OneAtATime

LEMMA AllowlistStarts == AllowlistInit => AllowlistInv
<1>1. SUFFICES ASSUME AllowlistInit PROVE AllowlistInv
  OBVIOUS
<1> DEFINE Process == [step : WriterSteps, list : Nat]
<1>0. AtRest \in Process
  BY DEF AtRest, NoFile, WriterSteps
<1>2. AllowlistTyped
  <2> HIDE DEF Process
  <2>1. writer \in [Writers -> Process]
    BY <1>0, <1>1 DEF AllowlistInit
  <2>2. published = 1 /\ allowlist = 0 /\ highest = 0
    BY <1>1 DEF AllowlistInit, NoFile
  <2>5. overlapped \in BOOLEAN
    BY <1>1 DEF AllowlistInit
  <2>3. temps \in [Writers -> Int]
    BY <1>1 DEF AllowlistInit, NoFile
  <2>4. QED BY <2>1, <2>2, <2>3, <2>5 DEF AllowlistTyped, Process
<1>3. ListsWhole /\ OneAtATime
  BY <1>1 DEF AllowlistInit, ListsWhole, OneAtATime, Working, AtRest, NoFile, TornFile
<1>4. QED BY <1>2, <1>3 DEF AllowlistInv

LEMMA AllowlistKept ==
    ASSUME AllowlistInv, [AllowlistNext]_allowlistVars
    PROVE  AllowlistInv'
<1>0. AllowlistTyped /\ ListsWhole /\ OneAtATime
  BY DEF AllowlistInv
<1> DEFINE Process == [step : WriterSteps, list : Nat]
<1>1. AtRest \in Process /\ AtRest.step = "rest"
  BY DEF AtRest, NoFile, WriterSteps
<1>2. ASSUME NEW p \in Writers, ExportList(p) PROVE AllowlistInv'
  <2>1. /\ writer[p].step = "rest" /\ writer' \in [Writers -> Process]
        /\ writer'[p].step \in {"compare", "write"} /\ writer'[p].list = published
        /\ \A q \in Writers \ {p} : writer'[q] = writer[q]
        /\ UNCHANGED <<published, allowlist, temps, highest>>
    BY <1>0, <1>2 DEF ExportList, WriterAt, SameFiles, AllowlistTyped, WriterSteps
  <2>2. overlapped' = (overlapped \/ \E q \in Writers : writer[q] # AtRest)
    BY <1>2 DEF ExportList
  <2>3. ~overlapped' => ~overlapped /\ \A q \in Writers : ~Working(q)
    BY <1>1, <2>2 DEF Working
  <2>4. AllowlistTyped'
    BY <1>0, <2>1, <2>2 DEF AllowlistTyped
  <2>5. ListsWhole'
    BY SMTT(30), <1>0, <2>1 DEF AllowlistTyped, ListsWhole, Working
  <2>6. OneAtATime'
    BY <1>0, <2>1, <2>3 DEF AllowlistTyped, ListsWhole, OneAtATime, Working
  <2>7. QED BY <2>4, <2>5, <2>6 DEF AllowlistInv
<1>3. ASSUME NEW p \in Writers, writer[p].step # "rest",
             UNCHANGED <<published, allowlist, highest, overlapped>>,
             temps' = temps, writer' = [writer EXCEPT ![p] = AtRest]
      PROVE  AllowlistInv'
  BY <1>0, <1>1, <1>3
     DEF AllowlistInv, AllowlistTyped, ListsWhole, OneAtATime, Working
<1>4. ASSUME NEW p \in Writers, CompareFile(p) PROVE AllowlistInv'
  <2>1. writer[p].step = "compare" /\ UNCHANGED <<published, allowlist, temps, highest, overlapped>>
    BY <1>4 DEF CompareFile, WriterAt, SameFiles
  <2>2. CASE writer' = [writer EXCEPT ![p] = AtRest]
    BY <1>3, <2>1, <2>2
  <2>3. CASE writer' = [writer EXCEPT ![p].step = "write"]
    <3>1. /\ writer' \in [Writers -> Process]
          /\ writer'[p].step = "write" /\ writer'[p].list = writer[p].list
          /\ \A q \in Writers \ {p} : writer'[q] = writer[q]
      BY <1>0, <2>3 DEF AllowlistTyped, WriterSteps
    <3>2. QED BY SMTT(30), <1>0, <2>1, <3>1
         DEF AllowlistInv, AllowlistTyped, ListsWhole, OneAtATime, Working
  <2>4. QED BY <1>4, <2>2, <2>3 DEF CompareFile, Rests, ToStep
<1>5. ASSUME NEW p \in Writers, BeginTemp(p) \/ FinishTemp(p) PROVE AllowlistInv'
  <2>1. /\ writer[p].step \in {"write", "half"}
        /\ writer' \in [Writers -> Process]
        /\ writer'[p].step = IF writer[p].step = "write" THEN "half" ELSE "rename"
        /\ writer'[p].list = writer[p].list
        /\ \A q \in Writers \ {p} : writer'[q] = writer[q]
        /\ UNCHANGED <<published, allowlist, highest, overlapped>>
    BY SMTT(30), <1>0, <1>5 DEF BeginTemp, FinishTemp, WriterAt, ToStep, AllowlistTyped,
       WriterSteps
  <2>2. /\ temps' \in [Writers -> Int]
        /\ writer'[p].step = "rename" => temps'[p] = writer[p].list
        /\ \A q \in Writers \ {p} : temps'[q] = temps[q]
    BY <1>0, <1>5, <2>1 DEF BeginTemp, FinishTemp, WriterAt, TempName, TornFile,
       AllowlistTyped
  <2>3. QED BY <1>0, <2>1, <2>2 DEF AllowlistInv, AllowlistTyped, ListsWhole, OneAtATime, Working
<1>6. ASSUME NEW p \in Writers, RenameTemp(p) PROVE AllowlistInv'
  <2>1. /\ writer[p].step = "rename" /\ temps[p] = writer[p].list /\ writer[p].list \in Nat
        /\ UNCHANGED <<published, overlapped>>
    BY <1>0, <1>6 DEF RenameTemp, WriterAt, AllowlistTyped, ListsWhole
  <2>2. /\ allowlist' = writer[p].list
        /\ highest' = IF writer[p].list > highest THEN writer[p].list ELSE highest
        /\ writer' = [writer EXCEPT ![p] = AtRest]
        /\ temps' = [temps EXCEPT ![p] = NoFile]
    BY <1>6, <2>1 DEF RenameTemp, TempName, Rests
  <2>3. /\ writer' \in [Writers -> Process] /\ writer'[p] = AtRest
        /\ \A q \in Writers \ {p} : writer'[q] = writer[q] /\ temps'[q] = temps[q]
        /\ temps' \in [Writers -> Int]
    BY <1>0, <1>1, <2>2 DEF AllowlistTyped, NoFile
  <2>4. Working(p) /\ writer[p].list <= published
    BY <1>0, <2>1 DEF ListsWhole, Working
  <2>5. ~overlapped => highest <= writer[p].list /\ \A q \in Writers \ {p} : ~Working(q)
    BY <1>0, <2>4 DEF OneAtATime
  <2>6. AllowlistTyped'
    BY <1>0, <2>1, <2>2, <2>3 DEF AllowlistTyped
  <2>7. ListsWhole'
    BY <1>0, <1>1, <2>1, <2>2, <2>3, <2>4 DEF AllowlistTyped, ListsWhole, Working, TornFile
  <2>8. OneAtATime'
    BY <1>0, <1>1, <2>1, <2>2, <2>3, <2>5 DEF AllowlistTyped, OneAtATime, Working
  <2>9. QED BY <2>6, <2>7, <2>8 DEF AllowlistInv
<1>7. ASSUME NEW p \in Writers, StopWriter(p) PROVE AllowlistInv'
  <2>1. writer[p].step # "rest"
    BY <1>0, <1>7 DEF StopWriter, ListsWhole
  <2>2. QED BY <1>3, <1>7, <2>1 DEF StopWriter, Rests, SameFiles
<1>8. CASE PublishList
  BY <1>0, <1>8
     DEF PublishList, SameFiles, AllowlistInv, AllowlistTyped, ListsWhole, OneAtATime, Working
<1>9. CASE UNCHANGED allowlistVars
  BY <1>0, <1>9 DEF allowlistVars, AllowlistInv, AllowlistTyped, ListsWhole, OneAtATime,
     Working
<1>10. QED BY <1>2, <1>4, <1>5, <1>6, <1>7, <1>8, <1>9 DEF AllowlistNext

--------------------------------------------------------------------------------
(* The configuration of the command line. *)
CommandNames == {"none", "set", "alias", "offchain", "onchain", "task"}
ProcessSteps == {"idle", "client", "fetch", "work", "inspect", "load", "save", "fill"}
Processes ==
    [command : CommandNames, step : ProcessSteps, next : {"idle", "work", "inspect"},
     conf : SUBSET Items, kept : SUBSET Items, adds : SUBSET Items, removes : SUBSET Items,
     left : SUBSET NewTools]
Windows == SUBSET (SUBSET Items)

CliTyped ==
    /\ file = Torn \/ file \in SUBSET Items
    /\ process \in [Commands -> Processes] /\ window \in [Commands -> Windows]

(* Only the command for aliases removes anything, and nothing is added before
   the client is there, by a tool on chain not before its registration. *)
Shaped(c) ==
    /\ c.adds = {} \/ c.removes = {}
    /\ c.command # "alias" => c.removes = {}
    /\ c.command = "task" => c.adds = {}
    /\ c.command = "onchain" /\ c.adds # {} => c.step # "work" /\ c.next # "work"
    /\ c.step \in {"client", "fetch"} => c.adds = {} /\ c.removes = {}
    /\ c.step = "load" => c.next # "work"
    /\ c.step = "idle" => c.adds = {} /\ c.command = "none"

(* A process holds what it found in its window, or keeps what it writes later. *)
Found(c, w) ==
    /\ c.step = "fetch" => \E found \in w : c.conf = found \cup {"objects"}
    /\ c.step \in {"save", "fill"} =>
         \E found \in w : c.conf = (found \cup Contributes(c)) \ c.removes
    /\ c.command = "task" => c.kept \in w

(* The window is open. *)
Watches(c, w) == c.step \notin {"idle", "fill"} => Load \in w

(* A capability that is not saved yet is with a process that has yet to save. *)
AreHeld == \A t \in unsaved : \E p \in Commands : t \in process[p].adds /\ ~In(p, "inspect")

CliInv ==
    /\ CliTyped /\ AreHeld
    /\ \A p \in Commands :
         Shaped(process[p]) /\ Found(process[p], window[p]) /\ Watches(process[p], window[p])

LEMMA TornIsNoConfiguration == Torn \notin SUBSET Items
BY CliAssumption DEF Torn, Items

LEMMA NoCommandFits ==
    /\ NoCommand \in Processes /\ Shaped(NoCommand)
    /\ NoCommand.step = "idle" /\ NoCommand.command = "none" /\ NoCommand.adds = {}
    /\ \A w : Found(NoCommand, w) /\ Watches(NoCommand, w)
BY DEF NoCommand, Processes, CommandNames, ProcessSteps, Default, Shaped, Found, Watches

LEMMA LoadTyped == CliTyped => Load \in SUBSET Items
BY DEF CliTyped, Load, Default

LEMMA CliStarts == CliInit \/ CliStill => CliInv
<1>1. SUFFICES ASSUME CliInit \/ CliStill PROVE CliInv
  OBVIOUS
<1>2. /\ file \in SUBSET Items /\ unsaved = {}
      /\ process = [p \in Commands |-> NoCommand] /\ window = [p \in Commands |-> {}]
  BY <1>1 DEF CliInit, CliStill, Default, Items
<1>3. QED BY <1>2, NoCommandFits DEF CliInv, CliTyped, Windows, AreHeld

(* A step of p that leaves the file alone. *)
LEMMA CliStepKeeps ==
    ASSUME CliInv, NEW p \in Commands, NEW c \in Processes, NEW w \in Windows, CliStep(p, c, w),
           Shaped(c), Found(c, w), Watches(c, w),
           \A t \in unsaved' : \/ t \in c.adds /\ c.step # "inspect"
                               \/ t \in unsaved /\ (t \notin process[p].adds \/ In(p, "inspect"))
    PROVE  CliInv'
<1>1. /\ file' = file /\ process' \in [Commands -> Processes] /\ window' \in [Commands -> Windows]
      /\ process'[p] = c /\ window'[p] = w
      /\ \A q \in Commands \ {p} : process'[q] = process[q] /\ window'[q] = window[q]
  BY DEF CliInv, CliTyped, CliStep
<1>2. CliTyped'
  BY <1>1 DEF CliInv, CliTyped, Torn
<1>3. AreHeld'
  <2>1. SUFFICES ASSUME NEW t \in unsaved'
                 PROVE  \E q \in Commands : t \in process'[q].adds /\ process'[q].step # "inspect"
    BY DEF AreHeld, In
  <2>2. CASE t \in c.adds /\ c.step # "inspect"
    BY <1>1, <2>2
  <2>3. CASE t \in unsaved /\ (t \notin process[p].adds \/ In(p, "inspect"))
    <3>1. PICK q \in Commands : t \in process[q].adds /\ ~In(q, "inspect")
      BY <2>3 DEF CliInv, AreHeld
    <3>2. q # p
      BY <2>3, <3>1
    <3>3. QED BY <1>1, <3>1, <3>2 DEF In
  <2>4. QED BY <2>2, <2>3
<1>4. Load' = Load
  BY <1>1 DEF Load, Torn, Default
<1>5. \A q \in Commands :
        Shaped(process'[q]) /\ Found(process'[q], window'[q]) /\ Watches(process'[q], window'[q])
  BY <1>1 DEF CliInv
<1>6. QED BY <1>2, <1>3, <1>4, <1>5 DEF CliInv, Shaped, Found, Watches, Contributes

LEMMA CliKept ==
    ASSUME CliInv, [CliNext]_cliVars
    PROVE  CliInv'
<1>0. /\ CliTyped /\ AreHeld /\ Load \in SUBSET Items /\ {Load} \in Windows /\ {} \in Windows
      /\ \A p \in Commands : /\ process[p] \in Processes /\ window[p] \in Windows
                             /\ Shaped(process[p]) /\ Found(process[p], window[p])
                             /\ Watches(process[p], window[p])
  BY LoadTyped DEF CliInv, CliTyped, Windows
<1>1. ASSUME NEW p \in Commands, NEW c \in Processes, Run_(p, c),
             Shaped(c), c.step \in {"load", "client"}, c.command = "task" => c.kept = Load
      PROVE  CliInv'
  <2>1. Found(c, {Load}) /\ Watches(c, {Load}) /\ process[p].adds = {}
    BY <1>0, <1>1 DEF Run_, In, Found, Watches, Shaped
  <2>2. QED BY <1>0, <1>1, <2>1, CliStepKeeps DEF Run_
<1>2. ASSUME NEW p \in Commands, NEW c \in Processes, Becomes(p, c), Shaped(c),
             Found(c, window[p]), Watches(c, window[p]), c.adds = process[p].adds, c.step # "inspect"
      PROVE  CliInv'
  BY <1>0, <1>2, CliStepKeeps DEF Becomes
<1>3. ASSUME NEW p \in Commands, CliStep(p, NoCommand, {}), unsaved' \subseteq unsaved,
             In(p, "inspect") \/ process[p].adds \cap unsaved' = {}
      PROVE  CliInv'
  BY <1>0, <1>3, NoCommandFits, CliStepKeeps
<1>4. ASSUME NEW p \in Commands, NEW items \in SUBSET {"settings", "objects"}, SetConf(p, items)
      PROVE  CliInv'
  <2> DEFINE c == [NoCommand EXCEPT !.command = "set", !.step = "load", !.next = "idle", !.adds = items]
  <2>1. c \in Processes /\ Shaped(c) /\ c.step = "load" /\ c.command = "set"
    BY DEF NoCommand, Processes, CommandNames, ProcessSteps, Default, Items, Shaped
  <2>2. QED BY <1>1, <1>4, <2>1 DEF SetConf
<1>5. ASSUME NEW p \in Commands, SaveAlias(p) \/ RemoveAlias(p)
      PROVE  CliInv'
  <2> DEFINE c == [NoCommand EXCEPT !.command = "alias", !.step = "load", !.next = "idle", !.adds = {"alias"}]
             d == [NoCommand EXCEPT !.command = "alias", !.step = "load", !.next = "idle", !.removes = {"alias"}]
  <2>1. c \in Processes /\ Shaped(c) /\ c.step = "load" /\ c.command = "alias"
    BY DEF NoCommand, Processes, CommandNames, ProcessSteps, Default, Items, Shaped
  <2>2. d \in Processes /\ Shaped(d) /\ d.step = "load" /\ d.command = "alias"
    BY DEF NoCommand, Processes, CommandNames, ProcessSteps, Default, Items, Shaped
  <2>3. QED BY <1>1, <1>5, <2>1, <2>2 DEF SaveAlias, RemoveAlias
<1>6. ASSUME NEW p \in Commands, NEW ts \in SUBSET NewTools, RegisterOffChainTools(p, ts)
      PROVE  CliInv'
  <2> DEFINE c == [NoCommand EXCEPT !.command = "offchain", !.step = "client", !.left = ts]
  <2>1. c \in Processes /\ Shaped(c) /\ c.step = "client" /\ c.command = "offchain"
    BY DEF NoCommand, Processes, CommandNames, ProcessSteps, Default, Shaped
  <2>2. QED BY <1>1, <1>6, <2>1 DEF RegisterOffChainTools
<1>7. ASSUME NEW p \in Commands, NEW t \in NewTools, RegisterOnChainWithCaps(p, t)
      PROVE  CliInv'
  <2> DEFINE c == [NoCommand EXCEPT !.command = "onchain", !.step = "client", !.left = {t}]
  <2>1. c \in Processes /\ Shaped(c) /\ c.step = "client" /\ c.command = "onchain"
    BY DEF NoCommand, Processes, CommandNames, ProcessSteps, Default, Shaped
  <2>2. QED BY <1>1, <1>7, <2>1 DEF RegisterOnChainWithCaps
<1>8. ASSUME NEW p \in Commands, CreateTaskCommand(p) PROVE CliInv'
  <2> DEFINE c == [NoCommand EXCEPT !.command = "task", !.step = "client", !.kept = Load]
  <2>1. c \in Processes /\ Shaped(c) /\ c.step = "client" /\ c.kept = Load
    BY <1>0 DEF NoCommand, Processes, CommandNames, ProcessSteps, Default, Shaped
  <2>2. QED BY <1>1, <1>8, <2>1 DEF CreateTaskCommand
<1>9. ASSUME NEW p \in Commands, GetNexusClient(p) PROVE CliInv'
  <2>1. In(p, "client") /\ process[p].adds = {} /\ process[p].removes = {} /\ Load \in window[p]
    BY <1>0, <1>9 DEF GetNexusClient, Shaped, Watches, In
  <2> DEFINE c == [Continue(p, "work") EXCEPT !.conf = Load]
             d == [Continue(p, "fetch") EXCEPT !.conf = Load \cup {"objects"}]
  <2>2. /\ c \in Processes /\ c.step = "work" /\ c.command = process[p].command
        /\ c.adds = {} /\ c.removes = {} /\ c.kept = process[p].kept
    BY <1>0, <2>1 DEF Continue, Processes, ProcessSteps
  <2>3. /\ d \in Processes /\ d.step = "fetch" /\ d.command = process[p].command
        /\ d.adds = {} /\ d.removes = {} /\ d.kept = process[p].kept
        /\ d.conf = Load \cup {"objects"}
    BY <1>0, <2>1 DEF Continue, Processes, ProcessSteps, Items
  <2> HIDE DEF c, d
  <2>4. Becomes(p, c) \/ Becomes(p, d)
    BY <1>9 DEF GetNexusClient, c, d
  <2>5. /\ Shaped(c) /\ Found(c, window[p]) /\ Watches(c, window[p])
        /\ Shaped(d) /\ Found(d, window[p]) /\ Watches(d, window[p])
    BY <1>0, <2>1, <2>2, <2>3 DEF Shaped, Found, Watches
  <2>6. QED BY <1>2, <2>1, <2>2, <2>3, <2>4, <2>5
<1>10. ASSUME NEW p \in Commands, SaveFetchedObjects(p) PROVE CliInv'
  <2> DEFINE c == [Continue(p, "save") EXCEPT !.next = "work"]
  <2>1. In(p, "fetch") /\ Becomes(p, c) /\ process[p].adds = {} /\ process[p].removes = {}
    BY <1>0, <1>10 DEF SaveFetchedObjects, Shaped, In
  <2>2. /\ c \in Processes /\ c.step = "save" /\ c.next = "work" /\ c.command = process[p].command
        /\ c.adds = {} /\ c.removes = {} /\ c.kept = process[p].kept /\ c.conf = process[p].conf
    BY <1>0, <2>1 DEF Continue, Processes, ProcessSteps
  <2> HIDE DEF c
  <2>3. Shaped(c) /\ Found(c, window[p]) /\ Watches(c, window[p])
    BY <1>0, <2>1, <2>2 DEF Shaped, Found, Watches, Contributes, In
  <2>4. QED BY <1>2, <2>1, <2>2, <2>3
<1>11. ASSUME NEW p \in Commands, NEW t \in NewTools, RegisterNext(p, t) PROVE CliInv'
  <2>1. PICK got \in {{}, {t}} :
          /\ CliStep(p, [process[p] EXCEPT !.left = @ \ {t}, !.adds = @ \cup got], window[p])
          /\ unsaved' = unsaved \cup got
    BY <1>11 DEF RegisterNext
  <2>2. In(p, "work") /\ process[p].command = "offchain"
    BY <1>11 DEF RegisterNext
  <2> DEFINE c == [process[p] EXCEPT !.left = @ \ {t}, !.adds = @ \cup got]
  <2>3. /\ c \in Processes /\ c.step = "work" /\ c.command = "offchain"
        /\ c.removes = process[p].removes /\ c.adds = process[p].adds \cup got
    BY <1>0, <2>2 DEF Processes, Items, In
  <2>4. CliStep(p, c, window[p])
    BY <2>1
  <2> HIDE DEF c
  <2>5. Shaped(c) /\ Found(c, window[p]) /\ Watches(c, window[p])
    BY <1>0, <2>2, <2>3 DEF Shaped, Found, Watches, In
  <2>6. QED BY <1>0, <2>1, <2>3, <2>4, <2>5, CliStepKeeps
<1>12. ASSUME NEW p \in Commands, SaveAllCaps(p) PROVE CliInv'
  <2> DEFINE c == [Continue(p, "load") EXCEPT !.next = "idle"]
  <2>1. /\ process[p].command = "offchain" /\ unsaved' = unsaved
        /\ CliStep(p, c, {Load}) \/ (process[p].adds = {} /\ CliStep(p, NoCommand, {}))
    BY <1>12 DEF SaveAllCaps
  <2>2. /\ c \in Processes /\ c.step = "load" /\ c.command = "offchain" /\ c.next = "idle"
        /\ c.removes = process[p].removes /\ c.adds = process[p].adds
    BY <1>0, <2>1 DEF Continue, Processes, ProcessSteps
  <2> HIDE DEF c
  <2>3. Shaped(c) /\ Found(c, {Load}) /\ Watches(c, {Load})
    BY <1>0, <2>1, <2>2 DEF Shaped, Found, Watches
  <2>4. QED BY <1>0, <1>3, <2>1, <2>2, <2>3, CliStepKeeps
<1>13. ASSUME NEW p \in Commands, RegisterAndSave(p) PROVE CliInv'
  <2> DEFINE c == [Continue(p, "load") EXCEPT !.adds = process[p].left, !.next = "inspect"]
  <2>1. /\ process[p].command = "onchain" /\ In(p, "work") /\ CliStep(p, c, {Load})
        /\ unsaved' = unsaved \cup process[p].left
    BY <1>13 DEF RegisterAndSave
  <2>2. /\ c \in Processes /\ c.step = "load" /\ c.command = "onchain" /\ c.next = "inspect"
        /\ c.removes = process[p].removes /\ c.adds = process[p].left
    BY <1>0, <2>1 DEF Continue, Processes, ProcessSteps, Items
  <2> HIDE DEF c
  <2>3. Shaped(c) /\ Found(c, {Load}) /\ Watches(c, {Load}) /\ process[p].adds = {}
    BY <1>0, <2>1, <2>2 DEF Shaped, Found, Watches, In
  <2>4. QED BY <1>0, <2>1, <2>2, <2>3, CliStepKeeps
<1>14. ASSUME NEW p \in Commands, Inspect(p) PROVE CliInv'
  BY <1>3, <1>14 DEF Inspect
<1>15. ASSUME NEW p \in Commands, SubmitAndSaveKept(p) PROVE CliInv'
  <2> DEFINE c == [Continue(p, "save") EXCEPT !.conf = process[p].kept, !.next = "idle"]
  <2>1. process[p].command = "task" /\ Becomes(p, c) /\ process[p].adds = {} /\ process[p].removes = {}
        /\ In(p, "work")
    BY <1>0, <1>15 DEF SubmitAndSaveKept, Shaped
  <2>2. /\ c \in Processes /\ c.step = "save" /\ c.command = "task" /\ c.next = "idle"
        /\ c.adds = {} /\ c.removes = {} /\ c.kept = process[p].kept /\ c.conf = process[p].kept
    BY <1>0, <2>1 DEF Continue, Processes, ProcessSteps
  <2> HIDE DEF c
  <2>3. Shaped(c) /\ Found(c, window[p]) /\ Watches(c, window[p])
    BY <1>0, <2>1, <2>2 DEF Shaped, Found, Watches, Contributes, In
  <2>4. QED BY <1>2, <2>1, <2>2, <2>3
<1>16. ASSUME NEW p \in Commands, LoadAgain(p) PROVE CliInv'
  <2> DEFINE c == [Continue(p, "save") EXCEPT !.conf = LoadToSave(p)]
  <2>1. In(p, "load") /\ Becomes(p, c) /\ Load \in window[p] /\ process[p].next # "work"
    BY <1>0, <1>16 DEF LoadAgain, In, Watches, Shaped
  <2>2. /\ c \in Processes /\ c.step = "save" /\ c.command = process[p].command
        /\ c.next = process[p].next /\ c.adds = process[p].adds /\ c.removes = process[p].removes
        /\ c.kept = process[p].kept /\ c.conf = (Load \cup c.adds) \ c.removes
    BY <1>0 DEF LoadToSave, Continue, Processes, ProcessSteps
  <2> HIDE DEF c
  <2>3. Shaped(c) /\ Found(c, window[p]) /\ Watches(c, window[p])
    BY <1>0, <2>1, <2>2 DEF Shaped, Found, Watches, Contributes, In
  <2>4. QED BY <1>2, <2>1, <2>2, <2>3
<1>17. ASSUME NEW p \in Commands, Stop(p) PROVE CliInv'
  BY <1>3, <1>17 DEF Stop
<1>18. ASSUME NEW p \in Commands, Empty(p) PROVE CliInv'
  <2>1. /\ In(p, "save") /\ file' = Torn /\ unsaved' = unsaved
        /\ process' = [process EXCEPT ![p] = Continue(p, "fill")]
        /\ window' = [q \in Commands |->
              IF In(q, "idle") \/ q = p THEN window[q] ELSE window[q] \cup {Default}]
    BY <1>18 DEF Empty
  <2>2. PICK c \in Processes : c = Continue(p, "fill")
    BY <1>0 DEF Continue, Processes, ProcessSteps
  <2>3. /\ c.step = "fill" /\ c.command = process[p].command /\ c.next = process[p].next
        /\ c.adds = process[p].adds /\ c.removes = process[p].removes
        /\ c.kept = process[p].kept /\ c.conf = process[p].conf /\ process[p].step = "save"
    BY <1>0, <2>1, <2>2 DEF Continue, Processes, In
  <2>4. /\ process'[p] = c /\ window'[p] = window[p] /\ process' \in [Commands -> Processes]
        /\ \A q \in Commands \ {p} : process'[q] = process[q]
        /\ \A q \in Commands \ {p} : process[q].step # "idle" => window'[q] = window[q] \cup {Default}
        /\ \A q \in Commands \ {p} : process[q].step = "idle" => window'[q] = window[q]
    BY <1>0, <2>1, <2>2 DEF CliTyped, In
  <2>5. CliTyped'
    BY <1>0, <2>1, <2>4 DEF CliTyped, Torn, Windows, Default
  <2>6. Load' = Default
    BY <2>1 DEF Load, Torn, Default
  <2>7. Shaped(c) /\ Found(c, window'[p]) /\ (c.step \notin {"idle", "fill"} => Load' \in window'[p])
    BY <1>0, <2>3, <2>4 DEF Shaped, Found, Contributes
  <2>8. ASSUME NEW q \in Commands \ {p}
        PROVE  /\ Shaped(process[q]) /\ Found(process[q], window'[q])
               /\ process[q].step \notin {"idle", "fill"} => Load' \in window'[q]
    BY <1>0, <2>4, <2>6 DEF Found
  <2>9. AreHeld'
    BY <1>0, <2>1, <2>3, <2>4 DEF AreHeld, In
  <2>10. QED BY <2>4, <2>5, <2>7, <2>8, <2>9 DEF CliInv, Shaped, Found, Watches, Contributes
<1>19. ASSUME NEW p \in Commands, Fill(p) PROVE CliInv'
  <2>1. PICK c : c = process[p]
    OBVIOUS
  <2>2. /\ c.step = "fill" /\ file' = c.conf /\ unsaved' = unsaved \ (c.adds \cap c.conf)
        /\ process' = [process EXCEPT ![p] = IF c.next = "idle" THEN NoCommand
                                             ELSE [c EXCEPT !.step = c.next]]
        /\ window' = [q \in Commands |->
              IF In(q, "idle") \/ (q = p /\ c.next = "idle") THEN {} ELSE window[q] \cup {c.conf}]
    BY <1>19, <2>1 DEF Fill, In
  <2>3. c \in Processes /\ Shaped(c) /\ c.next \in {"idle", "work", "inspect"} /\ c.conf \in SUBSET Items
    BY <1>0, <2>1 DEF Processes
  <2>4. PICK d : d = [c EXCEPT !.step = c.next]
    OBVIOUS
  <2>5. c.next # "idle" =>
          /\ d \in Processes /\ d.step = c.next /\ d.next = c.next /\ d.command = c.command
          /\ d.adds = c.adds /\ d.removes = c.removes /\ d.kept = c.kept
    BY <2>3, <2>4 DEF Processes, ProcessSteps
  <2>6. /\ \A q \in Commands \ {p} : process'[q] = process[q]
        /\ process'[p] = IF c.next = "idle" THEN NoCommand ELSE d
        /\ process' \in [Commands -> Processes]
    BY <1>0, <2>2, <2>4, <2>5, NoCommandFits DEF CliTyped
  <2>7. /\ \A q \in Commands \ {p} : process[q].step # "idle" => window'[q] = window[q] \cup {c.conf}
        /\ c.next # "idle" => window'[p] = window[p] \cup {c.conf}
    BY <2>1, <2>2 DEF In
  <2>8. CliTyped'
    BY <1>0, <2>2, <2>3, <2>6 DEF CliTyped, Torn, Windows
  <2>9. Load' = c.conf
    BY <2>2, <2>3, TornIsNoConfiguration DEF Load, Torn
  <2>10. /\ Shaped(process'[p]) /\ Found(process'[p], window'[p])
         /\ process'[p].step \notin {"idle", "fill"} => Load' \in window'[p]
    <3>1. CASE c.next = "idle"
      BY <2>6, <3>1, NoCommandFits
    <3>2. CASE c.next # "idle"
      <4>1. Shaped(d)
        BY <2>2, <2>3, <2>5, <3>2 DEF Shaped
      <4>2. Found(d, window'[p])
        BY <1>0, <2>1, <2>3, <2>5, <2>7, <3>2 DEF Found
      <4>3. QED BY <2>6, <2>7, <2>9, <3>2, <4>1, <4>2
    <3>3. QED BY <3>1, <3>2
  <2>11. ASSUME NEW q \in Commands \ {p}
         PROVE  /\ Shaped(process[q]) /\ Found(process[q], window'[q])
                /\ process[q].step \notin {"idle", "fill"} => Load' \in window'[q]
    BY <1>0, <2>7, <2>9 DEF Found, Shaped
  <2>12. AreHeld'
    <3>1. SUFFICES ASSUME NEW t \in unsaved'
                   PROVE  \E q \in Commands : t \in process'[q].adds /\ process'[q].step # "inspect"
      BY DEF AreHeld, In
    <3>2. PICK q \in Commands : t \in process[q].adds /\ process[q].step # "inspect"
      BY <1>0, <2>2, <3>1 DEF AreHeld, In
    <3>3. ASSUME q = p PROVE c.next = "work"
      <4>1. t \in c.adds /\ t \notin c.conf
        BY <2>1, <2>2, <3>1, <3>2, <3>3
      <4>2. c.next # "work" => c.adds \subseteq c.conf
        BY <1>0, <2>1, <2>2, <2>3 DEF Found, Contributes, Shaped
      <4>3. QED BY <4>1, <4>2
    <3>4. QED BY <2>1, <2>5, <2>6, <3>2, <3>3
  <2>13. QED BY <2>6, <2>8, <2>10, <2>11, <2>12 DEF CliInv, Shaped, Found, Watches, Contributes
<1>20. CASE UNCHANGED cliVars
  BY <1>20 DEF cliVars, CliInv, CliTyped, AreHeld, Shaped, Found, Watches, Contributes, Load, In, Torn,
     Default
<1>21. ASSUME NEW p \in Commands, GetConf(p) PROVE CliInv'
  BY <1>20, <1>21 DEF GetConf
<1>22. QED BY <1>4, <1>5, <1>6, <1>7, <1>8, <1>9, <1>10, <1>11, <1>12, <1>13, <1>14, <1>15, <1>16,
     <1>17, <1>18, <1>19, <1>20, <1>21 DEF CliNext

(* Whatever commands run at the same time, fail or are killed: each writes back
   what the configuration held at a moment of its window, with its own changes
   (cli_conf.rs), so that nothing others saved before is undone; the
   capability of a registered tool is in the file or on its way when no step
   of its command fails; and a tool always finds a whole list of leaders, an
   earlier one only after two processes overlapped (tool_auth.rs). *)
THEOREM FilesStaySound == Spec => []FilesSound
<1>1. Init => CliInv /\ AllowlistInv
  BY CliStarts, AllowlistStarts DEF Init
<1>2. CliInv /\ AllowlistInv /\ [Next]_vars => CliInv' /\ AllowlistInv'
  BY EachPartMoves, CliKept, AllowlistKept
<1>3. CliInv /\ AllowlistInv => FilesSound
  <2>1. CliInv => WritesWhatItFound /\ CapabilitiesKept
    BY DEF CliInv, Found, AreHeld, WritesWhatItFound, CapabilitiesKept
  <2>2. AllowlistInv => AllowlistWhole
    BY DEF AllowlistInv, AllowlistTyped, ListsWhole, OneAtATime, AllowlistWhole
  <2>3. QED BY <2>1, <2>2 DEF FilesSound
<1>4. QED BY <1>1, <1>2, <1>3, PTL DEF Spec

--------------------------------------------------------------------------------
(* Expired walks. *)
AttemptSteps ==
    {"idle", "walks", "clock", "committed", "marker", "result", "settle", "settle_onchain",
     "payment", "walks_again", "submit", "answer"}
AttemptAnswers ==
    {"none", "skipped", "blocked", "ineligible", "settled", "refused", "aborted", "failed"}
Attempts ==
    [step : AttemptSteps, call : {"none", "resolve", "abort", "abort_with_tool_gas"},
     target : Walks \cup {NoWalk}, w : Walks \cup {NoWalk},
     clock : SUBSET Walks, walks : {<<>>} \cup [Walks -> Walk],
     committed : BOOLEAN, marked : BOOLEAN, left : SUBSET Walks, cleanups : SUBSET Walks,
     answer : AttemptAnswers]

WalksTyped == walk \in [Walks -> Walk] /\ clock \in SUBSET Walks

(* The results that an abort destroys without harm, and for good. *)
Harmless(w) == walk[w].state # "active" \/ walk[w].result = "unstamped"

(* Resolving looks at its target and no other walk, and settles only that; an
   abort cleans up only what is still harmless. *)
AttemptSound(a) ==
    /\ a \in Attempts
    /\ a.step \in {"walks", "committed", "marker", "result", "settle", "settle_onchain"} =>
          a.w \in Walks
    /\ a.call = "resolve" => a.w = a.target
    /\ a.step \in {"settle", "settle_onchain"} => a.call = "resolve"
    /\ a.step \in {"clock", "walks_again"} => a.call # "resolve"
    /\ a.step # "answer" => a.answer = "none"
    /\ a.answer = "settled" => a.target \in Walks /\ walk[a.target].state = "done"
    /\ \A w \in a.cleanups : Harmless(w)

WalkInv == WalksTyped /\ AttemptSound(attempt) /\ lost = {}

LEMMA NoAttemptSound == AttemptSound(NoAttempt)
BY DEF NoAttempt, AttemptSound, Attempts, AttemptSteps, AttemptAnswers

LEMMA WalksStart == WalkInit => WalkInv
<1>1. SUFFICES ASSUME WalkInit PROVE WalkInv
  OBVIOUS
<1>2. WalksTyped
  BY <1>1 DEF WalkInit, WalksTyped, Walk
<1>3. QED BY <1>1, <1>2, NoAttemptSound DEF WalkInit, WalkInv

(* What the chain does to walks leaves a call that is sound sound: what is
   settled stays so, what is harmless stays harmless. *)
LEMMA WalksMove ==
    ASSUME NEW a, AttemptSound(a), WalksTyped, walk' \in [Walks -> Walk],
           \A w \in Walks :
              /\ walk[w].state = "done" => walk'[w].state = "done"
              /\ walk[w].state # "active" => walk'[w].state # "active"
              /\ walk[w].result = "unstamped" =>
                    walk'[w].result = "unstamped" \/ walk'[w].state # "active"
    PROVE  AttemptSound(a)'
<1>1. \A w \in a.cleanups : w \in Walks
  BY DEF AttemptSound, Attempts
<1>2. \A w \in a.cleanups : Harmless(w)'
  BY <1>1 DEF AttemptSound, Harmless
<1>3. QED BY <1>2 DEF AttemptSound

LEMMA AttemptMoves ==
    ASSUME WalkInv, NEW a, Now(a), AttemptSound(a)
    PROVE  WalkInv'
BY DEF Now, WalkInv, WalksTyped, AttemptSound, Harmless

LEMMA WalkMoves ==
    ASSUME WalkInv, NEW w \in Walks, NEW v \in Walk, Moved(w, v),
           walk[w].state = "done" => v.state = "done",
           walk[w].state # "active" => v.state # "active",
           walk[w].result = "unstamped" => v.result = "unstamped" \/ v.state # "active"
    PROVE  WalkInv'
<1>1. /\ walk' \in [Walks -> Walk] /\ walk'[w] = v
      /\ \A u \in Walks \ {w} : walk'[u] = walk[u]
      /\ UNCHANGED <<clock, attempt, lost>>
  BY DEF Moved, WalkInv, WalksTyped
<1>2. AttemptSound(attempt)'
  <2>1. PICK a : a = attempt
    OBVIOUS
  <2>2. AttemptSound(a)'
    BY <1>1, <2>1, WalksMove DEF WalkInv
  <2>3. QED BY <1>1, <2>1, <2>2 DEF AttemptSound, Harmless
<1>3. QED BY <1>1, <1>2 DEF WalkInv, WalksTyped

LEMMA LookAtSound ==
    ASSUME NEW a \in Attempts, a.call # "resolve", a.answer = "none",
           NEW left \in SUBSET Walks, NEW cleanups \in SUBSET Walks, \A w \in cleanups : Harmless(w)
    PROVE  AttemptSound(LookAt(a, left, cleanups))
<1>1. CASE left = {}
  BY <1>1 DEF LookAt, AttemptSound, Attempts, AttemptSteps
<1>2. CASE left # {}
  <2>1. PICK w : w = CHOOSE v \in left : TRUE
    OBVIOUS
  <2>2. w \in left
    BY <1>2, <2>1
  <2>3. LookAt(a, left, cleanups) =
            [a EXCEPT !.step = "committed", !.w = w, !.left = left \ {w}, !.cleanups = cleanups]
    BY <1>2, <2>1 DEF LookAt
  <2> DEFINE b == [a EXCEPT !.step = "committed", !.w = w, !.left = left \ {w}, !.cleanups = cleanups]
  <2>4. /\ b \in Attempts /\ b.step = "committed" /\ b.w \in Walks /\ b.call = a.call
        /\ b.cleanups = cleanups /\ b.answer = "none"
    BY <2>2 DEF Attempts, AttemptSteps
  <2> HIDE DEF b
  <2>5. AttemptSound(b)
    BY <2>4 DEF AttemptSound
  <2>6. QED BY <2>3, <2>5 DEF b
<1>3. QED BY <1>1, <1>2

LEMMA WalksKept ==
    ASSUME WalkInv, [WalkNext]_walkVars
    PROVE  WalkInv'
<1>0. /\ WalksTyped /\ AttemptSound(attempt) /\ attempt \in Attempts
      /\ lost = {} /\ NoWalk \notin Walks
  BY WalkAssumption DEF WalkInv, AttemptSound
<1>1. /\ attempt.step \in AttemptSteps /\ attempt.w \in Walks \cup {NoWalk}
      /\ attempt.target \in Walks \cup {NoWalk}
      /\ attempt.left \in SUBSET Walks /\ attempt.cleanups \in SUBSET Walks
      /\ \A w \in attempt.cleanups : Harmless(w)
  BY <1>0 DEF Attempts, AttemptSound
<1>2. NoAttempt.step = "idle" /\ AttemptSound(NoAttempt) /\ NoAttempt \in Attempts
  BY NoAttemptSound DEF NoAttempt, AttemptSound
<1>3. ASSUME attempt.answer = "none", NEW answer \in AttemptAnswers \ {"settled"}
      PROVE  AttemptSound(Answer(answer))
  BY <1>0, <1>3 DEF Answer, To, AttemptSound, Attempts, AttemptSteps
<1>4. attempt.step # "answer" => attempt.answer = "none"
  BY <1>0 DEF AttemptSound
<1>5. ASSUME NEW w \in Walks, Resolve(w) PROVE WalkInv'
  <2> DEFINE a == [To("walks") EXCEPT !.call = "resolve", !.target = w, !.w = w, !.clock = clock]
  <2>1. AttemptSound(a)
    BY <1>0, <1>4, <1>5 DEF Resolve, At, To, AttemptSound, Attempts, AttemptSteps,
       WalksTyped
  <2>2. QED BY <1>5, <2>1, AttemptMoves DEF Resolve
<1>6. CASE ReadWalks
  <2> DEFINE a == [To("committed") EXCEPT !.walks = walk]
  <2>1. At("walks") /\ (Now(a) \/ Now(Answer("skipped")))
    BY <1>6 DEF ReadWalks
  <2>2. AttemptSound(a)
    BY <1>0, <1>4, <2>1 DEF At, To, AttemptSound, Attempts, AttemptSteps, WalksTyped
  <2>3. AttemptSound(Answer("skipped"))
    BY <1>3, <1>4, <2>1 DEF At, AttemptAnswers
  <2>4. QED BY <2>1, <2>2, <2>3, AttemptMoves
<1>7. ASSUME NEW by \in {"abort", "abort_with_tool_gas"}, Abort(by) PROVE WalkInv'
  <2> DEFINE a == [To("clock") EXCEPT !.call = by, !.walks = walk]
  <2>1. AttemptSound(a)
    BY <1>0, <1>4, <1>7 DEF Abort, At, To, AttemptSound, Attempts, AttemptSteps, WalksTyped
  <2>2. QED BY <1>7, <2>1, AttemptMoves DEF Abort
<1>8. CASE ReadClock
  <2> DEFINE a == [attempt EXCEPT !.clock = clock]
             expired == {w \in Walks : Abortable(a, w)}
             b == [a EXCEPT !.step = "payment", !.left = expired]
  <2>1. /\ At("clock") /\ attempt.call # "resolve" /\ attempt.answer = "none"
        /\ Now(LookAt(a, expired, {})) \/ Now(b)
    BY <1>0, <1>8 DEF ReadClock, At, AttemptSound
  <2>2. a \in Attempts /\ a.call = attempt.call /\ a.answer = "none" /\ expired \in SUBSET Walks
    BY <1>0, <2>1 DEF Attempts, WalksTyped
  <2>3. AttemptSound(b)
    BY Zenon, <1>0, <2>1 DEF AttemptSound, Attempts, AttemptSteps, WalksTyped
  <2> HIDE DEF a, b, expired
  <2>4. AttemptSound(LookAt(a, expired, {}))
    BY <2>1, <2>2, LookAtSound
  <2>5. QED BY <2>1, <2>3, <2>4, AttemptMoves
<1>9. CASE ReadCommitted
  <2> DEFINE a == [To("marker") EXCEPT !.committed = Committed(attempt.w)]
  <2>1. AttemptSound(a)
    BY <1>0, <1>4, <1>9 DEF ReadCommitted, Committed, At, To, AttemptSound, Attempts,
       AttemptSteps
  <2>2. QED BY <1>9, <2>1, AttemptMoves DEF ReadCommitted
<1>10. CASE ReadMarker
  <2> DEFINE a == [To("result") EXCEPT !.marked = walk[attempt.w].marked]
  <2>1. walk[attempt.w].marked \in BOOLEAN
    BY <1>0, <1>10 DEF ReadMarker, At, AttemptSound, WalksTyped, Walk
  <2>2. AttemptSound(a)
    BY <1>0, <1>4, <1>10, <2>1 DEF ReadMarker, At, To, AttemptSound, Attempts, AttemptSteps
  <2>3. QED BY <1>10, <2>2, AttemptMoves DEF ReadMarker
<1>11. CASE PlanResolution
  <2>1. /\ At("result") /\ attempt.call = "resolve" /\ attempt.answer = "none"
    BY <1>4, <1>11 DEF PlanResolution, At
  <2>2. ResultState \in {"insufficient", "committed", "none", "empty", "stamped", "unstamped"}
    <3>1. walk[attempt.w].result \in {"none", "empty", "stamped", "unstamped"}
      BY <1>0, <2>1 DEF At, AttemptSound, WalksTyped, Walk
    <3>2. attempt.marked \in BOOLEAN /\ attempt.committed \in BOOLEAN
      BY <1>0 DEF Attempts
    <3>3. QED BY <3>1, <3>2 DEF ResultState
  <2>3. \/ Now(To("settle")) \/ Now(To("settle_onchain")) \/ Now(To("payment"))
        \/ Now(Answer("skipped"))
    BY <1>11, <2>2 DEF PlanResolution, Finalized
  <2>4. \A step \in {"settle", "settle_onchain", "payment"} : AttemptSound(To(step))
    BY <1>0, <2>1 DEF At, To, AttemptSound, Attempts, AttemptSteps
  <2>5. AttemptSound(Answer("skipped"))
    BY <1>3, <2>1 DEF AttemptAnswers
  <2>6. QED BY <2>3, <2>4, <2>5, AttemptMoves
<1>12. CASE PlanCleanup
  <2>1. /\ At("result") /\ attempt.call # "resolve" /\ attempt.answer = "none" /\ attempt.w \in Walks
    BY <1>0, <1>4, <1>12 DEF PlanCleanup, At, AttemptSound
  <2>2. attempt.marked \in BOOLEAN /\ attempt.committed \in BOOLEAN
    BY <1>0 DEF Attempts
  <2>3. Finalized(ResultState) /\ ~RequiredStamps(ResultState) => Harmless(attempt.w)
    BY <2>2 DEF Finalized, RequiredStamps, ResultState, Harmless
  <2>4. \/ Now(Answer("blocked"))
        \/ /\ Finalized(ResultState) /\ ~RequiredStamps(ResultState)
           /\ Now(LookAt(attempt, attempt.left, attempt.cleanups \cup {attempt.w}))
        \/ Now(LookAt(attempt, attempt.left, attempt.cleanups))
    BY <1>12 DEF PlanCleanup
  <2>5. AttemptSound(Answer("blocked"))
    BY <1>3, <2>1 DEF AttemptAnswers
  <2>6. AttemptSound(LookAt(attempt, attempt.left, attempt.cleanups))
    BY <1>0, <1>1, <2>1, LookAtSound
  <2>7. Harmless(attempt.w) =>
            AttemptSound(LookAt(attempt, attempt.left, attempt.cleanups \cup {attempt.w}))
    BY <1>0, <1>1, <2>1, LookAtSound
  <2>8. QED BY <2>3, <2>4, <2>5, <2>6, <2>7, AttemptMoves
<1>13. CASE ReadPayment
  <2>1. At("payment") /\ attempt.answer = "none"
    BY <1>4, <1>13 DEF ReadPayment, At
  <2>2. CASE attempt.call = "resolve"
    <3>1. PICK by \in {"abort", "abort_with_tool_gas"} :
            Now([NoAttempt EXCEPT !.step = "walks_again", !.target = attempt.target, !.call = by])
      BY <1>13, <2>2 DEF ReadPayment
    <3> DEFINE a == [NoAttempt EXCEPT !.step = "walks_again", !.target = attempt.target, !.call = by]
    <3>2. /\ a \in Attempts /\ a.step = "walks_again" /\ a.call = by
          /\ a.cleanups = {} /\ a.answer = "none"
      BY <1>1, <1>2 DEF NoAttempt, Attempts, AttemptSteps
    <3> HIDE DEF a
    <3>3. AttemptSound(a)
      BY <3>2 DEF AttemptSound
    <3>4. QED BY <3>1, <3>3, AttemptMoves DEF a
  <2>3. CASE attempt.call # "resolve"
    <3>1. Now(Answer("ineligible")) \/ \E w \in attempt.left : Now([To("submit") EXCEPT !.w = w])
      BY <1>13, <2>3 DEF ReadPayment
    <3>2. \A w \in attempt.left : AttemptSound([To("submit") EXCEPT !.w = w])
      BY <1>0, <1>1, <2>1, <2>3 DEF To, AttemptSound, Attempts, AttemptSteps
    <3>3. AttemptSound(Answer("ineligible"))
      BY <1>3, <2>1 DEF AttemptAnswers
    <3>4. QED BY <3>1, <3>2, <3>3, AttemptMoves
  <2>4. QED BY <2>2, <2>3
<1>14. CASE ReadWalksAgain
  <2> DEFINE a == [To("clock") EXCEPT !.walks = walk]
  <2>1. AttemptSound(a)
    BY <1>0, <1>4, <1>14 DEF ReadWalksAgain, At, To, AttemptSound, Attempts, AttemptSteps,
       WalksTyped
  <2>2. QED BY <1>14, <2>1, AttemptMoves DEF ReadWalksAgain
<1>15. AttemptSound(Answer("refused")) \/ attempt.answer # "none"
  BY <1>3 DEF AttemptAnswers
<1>16. CASE SubmitSettlement
  <2>1. /\ attempt.step \in {"settle", "settle_onchain"} /\ attempt.answer = "none"
        /\ attempt.w \in Walks /\ attempt.w = attempt.target
    BY <1>0, <1>4, <1>16 DEF SubmitSettlement, At, AttemptSound
  <2>2. CASE Now(Answer("refused"))
    BY <1>15, <2>1, <2>2, AttemptMoves
  <2>3. CASE /\ Settle(attempt.w) /\ attempt' = Answer("settled") /\ UNCHANGED <<clock, moves, lost>>
             /\ walk[attempt.w].result # "unstamped" \/ walk[attempt.w].state = "pending"
    <3>1. /\ walk' \in [Walks -> Walk] /\ walk'[attempt.w].state = "done"
          /\ \A u \in Walks \ {attempt.w} : walk'[u] = walk[u]
      BY <1>0, <2>1, <2>3 DEF Settle, WalksTyped, Walk
    <3>2. PICK a : a = attempt
      OBVIOUS
    <3>3. AttemptSound(a)'
      BY <1>0, <2>1, <3>1, <3>2, WalksMove
    <3>4. AttemptSound(attempt)'
      BY <2>1, <2>3, <3>1, <3>2, <3>3
         DEF Answer, To, AttemptSound, Attempts, AttemptSteps, AttemptAnswers, Harmless
    <3>5. QED BY <1>0, <2>3, <3>1, <3>4 DEF WalkInv, WalksTyped
  <2>4. QED BY <1>16, <2>2, <2>3 DEF SubmitSettlement, Committed
<1>17. CASE SubmitAbort
  <2>1. attempt.step = "submit" /\ attempt.answer = "none"
    BY Zenon, <1>4, <1>17 DEF SubmitAbort, At
  <2>2. CASE Now(Answer("refused"))
    BY <1>15, <2>1, <2>2, AttemptMoves
  <2>3. CASE AbortAccepted /\ ~Now(Answer("refused"))
    <3>1. /\ walk' = [w \in Walks |->
                IF w \in Expired
                THEN [walk[w] EXCEPT !.state = "aborted", !.result = "none", !.locked = FALSE]
                ELSE walk[w]]
          /\ lost' = lost \cup {w \in Expired : walk[w].result = "stamped"}
          /\ attempt' = Answer("aborted") /\ clock' = clock
      BY Zenon, <1>17, <2>3 DEF SubmitAbort
    <3>2. \A w \in Expired : w \in Walks /\ walk[w].state = "active"
      BY <1>0 DEF Expired, WalksTyped
    <3>3. \A w \in Expired : walk[w].result # "stamped"
      BY <1>1, <2>3, <3>2 DEF AbortAccepted, Harmless
    <3>4. /\ walk' \in [Walks -> Walk]
          /\ \A w \in Expired : walk'[w].state = "aborted"
          /\ \A w \in Walks \ Expired : walk'[w] = walk[w]
      BY Zenon, <1>0, <3>1, <3>2 DEF WalksTyped, Walk
    <3>5. PICK a : a = attempt
      OBVIOUS
    <3>6. AttemptSound(a)'
      BY <1>0, <3>2, <3>4, <3>5, WalksMove
    <3>7. AttemptSound(attempt)'
      BY ZenonT(40), <2>1, <3>1, <3>5, <3>6
         DEF Answer, To, AttemptSound, Attempts, AttemptSteps, AttemptAnswers, Harmless
    <3>8. lost' = {}
      BY Zenon, <1>0, <3>1, <3>3
    <3>9. QED BY Zenon, <1>0, <3>1, <3>4, <3>7, <3>8 DEF WalkInv, WalksTyped
  <2>4. QED BY Zenon, <1>17, <2>2, <2>3 DEF SubmitAbort
<1>18. CASE FailAttempt
  <2>1. attempt.answer = "none"
    BY <1>4, <1>18 DEF FailAttempt
  <2>2. QED BY <1>3, <1>18, <2>1, AttemptMoves DEF FailAttempt, AttemptAnswers
<1>19. CASE Finish
  BY <1>2, <1>19, AttemptMoves DEF Finish
<1>20. ASSUME NEW w \in Walks, Lock(w) \/ Refill(w) \/ LeaderSettles(w) PROVE WalkInv'
  <2>1. CASE Lock(w)
    BY <1>0, <2>1, WalkMoves DEF Lock, WalksTyped, Walk
  <2>2. CASE Refill(w)
    BY <1>0, <2>2, WalkMoves DEF Refill, WalksTyped, Walk
  <2>3. CASE LeaderSettles(w)
    BY <1>0, <2>3, WalkMoves DEF LeaderSettles, Committed, WalksTyped, Walk
  <2>4. QED BY <1>20, <2>1, <2>2, <2>3
<1>21. ASSUME NEW w \in Walks, Commit(w) PROVE WalkInv'
  <2>1. PICK marked \in BOOLEAN :
            Moved(w, [walk[w] EXCEPT !.state = "pending", !.result = "none", !.marked = marked])
    BY Zenon, <1>21 DEF Commit
  <2>2. walk[w].state = "active"
    BY <1>21 DEF Commit
  <2>3. QED BY <1>0, <2>1, <2>2, WalkMoves DEF WalksTyped, Walk
<1>22. ASSUME NEW w \in Walks, NEW result \in {"empty", "stamped", "unstamped"}, RunTool(w, result)
       PROVE  WalkInv'
  BY <1>0, <1>22, WalkMoves DEF RunTool, WalksTyped, Walk
<1>23. ASSUME NEW w \in Walks, Expire(w) PROVE WalkInv'
  BY <1>0, <1>23 DEF Expire, WalkInv, WalksTyped, AttemptSound, Harmless
<1>24. CASE UNCHANGED walkVars
  BY <1>24 DEF walkVars, WalkInv, WalksTyped, AttemptSound, Harmless
<1>25. QED BY <1>5, <1>6, <1>7, <1>8, <1>9, <1>10, <1>11, <1>12, <1>13, <1>14, <1>16, <1>17, <1>18,
     <1>19, <1>20, <1>21, <1>22, <1>23, <1>24 DEF WalkNext

(* No call destroys a result that could still be consumed, however old what it
   read is, and a settlement that is reported stands (workflow.rs). *)
THEOREM NoResultIsLost == Spec => []NoResultLost
<1>1. Init => WalkInv
  BY WalksStart DEF Init
<1>2. WalkInv /\ [Next]_vars => WalkInv'
  BY EachPartMoves, WalksKept
<1>3. WalkInv => NoResultLost
  BY DEF WalkInv, AttemptSound, NoResultLost
<1>4. QED BY <1>1, <1>2, <1>3, PTL DEF Spec

--------------------------------------------------------------------------------
(* Message keys. *)
KeyRecords == [key : {OwnKey, OtherKey}, revoked : BOOLEAN]
Bindings == [keys : Seq(KeyRecords), active : Int]

(* Keys are only added and revoked: c is what became of b. *)
Follows(c, b) ==
    /\ NextKeyId(b) <= NextKeyId(c)
    /\ \A kid \in 0 .. NextKeyId(b) - 1 :
          /\ Record(c, kid).key = Record(b, kid).key
          /\ Record(b, kid).revoked => Record(c, kid).revoked

BindingsOk ==
    /\ chain \in [Identities -> Bindings] /\ replica \in [Identities -> Bindings]
    /\ \A id \in Identities :
          /\ BindingOk(chain[id]) /\ BindingOk(replica[id])
          /\ Follows(chain[id], replica[id])

(* What a call has seen of the fullnode. *)
Calling(j) == j.kind \in {"register", "unless_active", "list", "export"}
Witnessed == Calling(job) => Active(replica) \subseteq seen /\ Keyless(replica) \subseteq keyless

(* A key that the fullnode showed as active, and that is known to be revoked
   only if it was then. *)
SeenActive(id, kid, mayBeRevoked) ==
    \E revoked \in BOOLEAN : <<id, kid, revoked>> \in seen /\ (revoked => mayBeRevoked)

KeyEntries == [id : Leaders, kid : Nat, key : {OwnKey, OtherKey}]
EntrySound(e, by) ==
    /\ e \in KeyEntries
    /\ e.kid < NextKeyId(replica[e.id]) /\ e.key = Record(replica[e.id], e.kid).key
    /\ SeenActive(e.id, e.kid, by # "reader")

(* The leaders that an export of all has not come to, and those it wrote out,
   are all that had an active key all the time. *)
Covers(j, others) ==
    /\ \A e \in j.out : EntrySound(e, j.by)
    /\ j.all => \A id \in Leaders \ keyless : id \in others \/ \E e \in j.out : e.id = id

RegisterJobs == [kind : {"register"}, id : Tools, new : BOOLEAN, kid : Nat]
UnlessJobs == [kind : {"unless_active"}, id : Tools]
KeyReports == [kind : {"registered", "skipped"}, id : Tools, kid : Nat]
KeyLists == [kind : {"listed"}, id : Tools, active : Int, next : Nat, kids : SUBSET Nat]
LeaderJobs ==
    [kind : {"export"}, by : {"actions", "cli", "reader"}, all : BOOLEAN, left : SUBSET Leaders,
     out : SUBSET KeyEntries, step : {"binding"}]
KeyExports ==
    [kind : {"exported"}, by : {"actions", "cli", "reader"}, all : BOOLEAN,
     out : SUBSET KeyEntries]
KeyTables ==
    [kind : {"list", "export"}, id : Identities, active : Int, next : Nat,
     by : {"actions", "cli", "reader"}, all : BOOLEAN, left : SUBSET Leaders,
     out : SUBSET KeyEntries, step : {"table"}, kids : SUBSET Nat, more : BOOLEAN]

ReportSound(j) ==
    /\ j.kid < NextKeyId(chain[j.id]) /\ Record(chain[j.id], j.kid).key = OwnKey
    /\ j.kind = "skipped" => SeenActive(j.id, j.kid, TRUE)
ListSound(j) == (0 .. j.next - 1) \cup ({j.active} \ {NoKey}) \subseteq j.kids

(* A table is read up to some ID, and no less than there were when it began. *)
TableSound(j) ==
    /\ j.next <= NextKeyId(replica[j.id])
    /\ j.active # NoKey =>
          /\ j.active \in 0 .. j.next - 1
          /\ SeenActive(j.id, j.active, Record(replica[j.id], j.active).revoked)
    /\ \E n \in Nat : j.kids = 0 .. n - 1 /\ (~j.more => j.next <= n)
    /\ j.kind = "list" => j.id \in Tools
    /\ j.kind = "export" => j.id \in Leaders /\ j.active # NoKey /\ Covers(j, j.left \cup {j.id})

JobSound(j) ==
    \/ j = Idle \/ j = Failed
    \/ j \in RegisterJobs \/ j \in UnlessJobs
    \/ j \in KeyReports /\ ReportSound(j)
    \/ j \in KeyLists /\ ListSound(j)
    \/ j \in KeyTables /\ TableSound(j)
    \/ j \in LeaderJobs /\ Covers(j, j.left)
    \/ j \in KeyExports /\ Covers(j, {})

KeyInv == BindingsOk /\ Witnessed /\ JobSound(job)

LEMMA KeyIds ==
    ASSUME NEW b \in Bindings
    PROVE  /\ NextKeyId(b) \in Nat /\ Follows(b, b)
           /\ \A kid \in 0 .. NextKeyId(b) - 1 : Record(b, kid) \in KeyRecords
<1>1. NextKeyId(b) \in Nat /\ \A i \in 1 .. Len(b.keys) : b.keys[i] \in KeyRecords
  BY DEF Bindings, NextKeyId
<1>2. QED BY <1>1 DEF Follows, Record, NextKeyId

LEMMA FollowsOn ==
    ASSUME NEW b \in Bindings, NEW c \in Bindings, NEW d \in Bindings, Follows(c, b), Follows(d, c)
    PROVE  Follows(d, b)
BY KeyIds DEF Follows

(* What becomes of a binding. *)
LEMMA KeyAdded ==
    ASSUME NEW b \in Bindings, BindingOk(b), NEW k \in {OwnKey, OtherKey}
    PROVE  LET c == AddKey(b, k)
           IN /\ c \in Bindings /\ BindingOk(c) /\ Follows(c, b)
              /\ NextKeyId(c) = NextKeyId(b) + 1 /\ Record(c, NextKeyId(b)).key = k
<1> DEFINE r == [key |-> k, revoked |-> FALSE]
           c == AddKey(b, k)
<1>1. r \in KeyRecords /\ r.key = k
  BY DEF KeyRecords
<1>2. b.keys \in Seq(KeyRecords) /\ Len(b.keys) \in Nat
  BY DEF Bindings
<1> HIDE DEF r
<1>3. c = [keys |-> Append(b.keys, r), active |-> Len(b.keys)]
  BY DEF AddKey, NextKeyId, r
<1>4. /\ c.keys \in Seq(KeyRecords) /\ Len(c.keys) = Len(b.keys) + 1
      /\ c.keys[Len(b.keys) + 1] = r /\ \A i \in 1 .. Len(b.keys) : c.keys[i] = b.keys[i]
      /\ c.active = Len(b.keys)
  BY <1>1, <1>2, <1>3
<1>5. c \in Bindings
  BY <1>1, <1>2, <1>3 DEF Bindings
<1> HIDE DEF c
<1>6. BindingOk(c)
  BY <1>2, <1>4 DEF BindingOk, NextKeyId, KeyRecords
<1>7. Follows(c, b) /\ NextKeyId(c) = NextKeyId(b) + 1 /\ Record(c, NextKeyId(b)).key = k
  BY <1>1, <1>2, <1>4 DEF Follows, NextKeyId, Record
<1>8. QED BY <1>5, <1>6, <1>7 DEF c

LEMMA KeyRevoked ==
    ASSUME NEW b \in Bindings, BindingOk(b), NEW kid \in 0 .. NextKeyId(b) - 1
    PROVE  LET c == [b EXCEPT !.keys[kid + 1].revoked = TRUE]
           IN c \in Bindings /\ BindingOk(c) /\ Follows(c, b)
<1> DEFINE c == [b EXCEPT !.keys[kid + 1].revoked = TRUE]
           ks == [b.keys EXCEPT ![kid + 1].revoked = TRUE]
<1>1. b.keys \in Seq(KeyRecords) /\ Len(b.keys) \in Nat /\ kid + 1 \in 1 .. Len(b.keys)
  BY DEF Bindings, NextKeyId
<1>2. b.keys[kid + 1] \in KeyRecords
  BY <1>1
<1>3. [b.keys[kid + 1] EXCEPT !.revoked = TRUE] \in KeyRecords
  BY <1>2 DEF KeyRecords
<1>4. /\ ks \in Seq(KeyRecords) /\ Len(ks) = Len(b.keys)
      /\ \A i \in 1 .. Len(b.keys) : i # kid + 1 => ks[i] = b.keys[i]
      /\ ks[kid + 1] = [b.keys[kid + 1] EXCEPT !.revoked = TRUE]
  BY <1>1, <1>3
<1>5. /\ ks[kid + 1].key = b.keys[kid + 1].key /\ ks[kid + 1].revoked
  BY <1>2, <1>4 DEF KeyRecords
<1>6. c = [b EXCEPT !.keys = ks]
  OBVIOUS
<1> HIDE DEF ks
<1>7. c \in Bindings /\ c.keys = ks /\ c.active = b.active
  BY <1>4, <1>6 DEF Bindings
<1> HIDE DEF c
<1>8. BindingOk(c)
  BY <1>4, <1>7 DEF BindingOk, NextKeyId, KeyRecords
<1>9. Follows(c, b)
  <2>1. \A i \in 1 .. Len(b.keys) :
            c.keys[i].key = b.keys[i].key /\ (b.keys[i].revoked => c.keys[i].revoked)
    BY <1>4, <1>5, <1>7
  <2>2. Len(c.keys) = Len(b.keys)
    BY <1>4, <1>7
  <2>3. ASSUME NEW i \in 0 .. Len(b.keys) - 1 PROVE i + 1 \in 1 .. Len(b.keys)
    BY <1>1
  <2>4. QED BY <1>1, <2>1, <2>2, <2>3 DEF Follows, NextKeyId, Record
<1>10. QED BY <1>7, <1>8, <1>9 DEF c

LEMMA KeyActivated ==
    ASSUME NEW b \in Bindings, BindingOk(b), NEW kid \in {NoKey} \cup 0 .. NextKeyId(b) - 1
    PROVE  LET c == [b EXCEPT !.active = kid]
           IN c \in Bindings /\ BindingOk(c) /\ Follows(c, b)
<1> DEFINE c == [b EXCEPT !.active = kid]
<1>1. c \in Bindings /\ c.keys = b.keys /\ c.active = kid
  BY KeyIds DEF Bindings, NoKey
<1> HIDE DEF c
<1>2. BindingOk(c) /\ Follows(c, b)
  BY <1>1, KeyIds DEF BindingOk, Follows, NextKeyId, Record
<1>3. QED BY <1>1, <1>2 DEF c

LEMMA AbsentOk == Absent \in Bindings /\ BindingOk(Absent) /\ NextKeyId(Absent) = 0
BY DEF Absent, Bindings, BindingOk, NextKeyId, NoKey, KeyRecords

(* What a call has is true of later bindings too. *)
LEMMA JobStays ==
    ASSUME BindingsOk, BindingsOk', NEW j, JobSound(j),
           \A id \in Identities : Follows(chain'[id], chain[id]) /\ Follows(replica'[id], replica[id]),
           seen \subseteq seen', keyless \subseteq keyless'
    PROVE  JobSound(j)'
<1>1. \A id \in Identities :
          /\ NextKeyId(chain[id]) \in Nat /\ NextKeyId(chain'[id]) \in Nat
          /\ NextKeyId(replica[id]) \in Nat /\ NextKeyId(replica'[id]) \in Nat
  BY KeyIds DEF BindingsOk
<1>2. ASSUME NEW id, NEW kid, NEW m, NEW n, m => n, SeenActive(id, kid, m)
      PROVE  SeenActive(id, kid, n)'
  BY <1>2 DEF SeenActive
<1>3. ASSUME NEW e, NEW by, EntrySound(e, by) PROVE EntrySound(e, by)'
  <2>1. e \in KeyEntries /\ e.id \in Identities /\ e.kid \in 0 .. NextKeyId(replica[e.id]) - 1
    BY <1>1, <1>3 DEF EntrySound, KeyEntries, Identities
  <2>2. SeenActive(e.id, e.kid, by # "reader")'
    BY <1>2, <1>3 DEF EntrySound
  <2>3. QED BY <1>1, <1>3, <2>1, <2>2 DEF EntrySound, Follows
<1>4. ASSUME NEW i, NEW others, Covers(i, others) PROVE Covers(i, others)'
  BY <1>3, <1>4 DEF Covers
<1>5. ASSUME j \in KeyReports, ReportSound(j) PROVE ReportSound(j)'
  <2>1. j.id \in Identities /\ j.kid \in 0 .. NextKeyId(chain[j.id]) - 1
    BY <1>1, <1>5 DEF ReportSound, KeyReports, Identities
  <2>2. j.kind = "skipped" => SeenActive(j.id, j.kid, TRUE)'
    BY <1>2, <1>5 DEF ReportSound
  <2>3. j.kid < NextKeyId(chain'[j.id]) /\ Record(chain'[j.id], j.kid).key = OwnKey
    BY <1>1, <1>5, <2>1 DEF ReportSound, Follows
  <2>4. QED BY <2>2, <2>3 DEF ReportSound
<1>6. ASSUME j \in KeyTables, TableSound(j) PROVE TableSound(j)'
  <2>1. j.id \in Identities /\ j.next \in Nat /\ j.next <= NextKeyId(replica[j.id])
    BY <1>6 DEF TableSound, KeyTables
  <2>2. ASSUME j.active # NoKey
        PROVE  SeenActive(j.id, j.active, Record(replica[j.id], j.active).revoked)'
    <3>1. j.active \in 0 .. NextKeyId(replica[j.id]) - 1
      BY <1>1, <1>6, <2>1, <2>2 DEF TableSound
    <3>2. Record(replica[j.id], j.active).revoked => Record(replica'[j.id], j.active).revoked
      BY <2>1, <3>1 DEF Follows
    <3>3. SeenActive(j.id, j.active, Record(replica[j.id], j.active).revoked)
      BY <1>6, <2>2 DEF TableSound
    <3>4. PICK was \in BOOLEAN : was <=> Record(replica[j.id], j.active).revoked
      OBVIOUS
    <3>5. QED BY <3>2, <3>3, <3>4 DEF SeenActive
  <2>3. NextKeyId(replica[j.id]) <= NextKeyId(replica'[j.id])
    BY <2>1 DEF Follows
  <2>4. j.next <= NextKeyId(replica'[j.id])
    BY <1>1, <2>1, <2>3
  <2>5. j.kind = "export" => Covers(j, j.left \cup {j.id})'
    BY <1>4, <1>6 DEF TableSound
  <2>6. QED BY <1>6, <2>2, <2>4, <2>5 DEF TableSound
<1>7. QED BY <1>4, <1>5, <1>6 DEF JobSound, ListSound

LEMMA JobKinds ==
    ASSUME NEW j, JobSound(j)
    PROVE  /\ j.kind = "register" => j \in RegisterJobs
           /\ j.kind = "unless_active" => j \in UnlessJobs
           /\ j.kind \in {"registered", "skipped"} => j \in KeyReports /\ ReportSound(j)
           /\ j.kind = "listed" => j \in KeyLists /\ ListSound(j)
           /\ j.kind \in {"list", "export"} /\ j.step = "table" => j \in KeyTables /\ TableSound(j)
           /\ j.kind = "export" /\ j.step = "binding" => j \in LeaderJobs /\ Covers(j, j.left)
           /\ j.kind = "exported" => j \in KeyExports /\ Covers(j, {})
BY DEF JobSound, Idle, Failed, RegisterJobs, UnlessJobs, KeyReports, KeyLists, KeyTables,
       LeaderJobs, KeyExports

LEMMA KeyGoes ==
    ASSUME KeyInv, NEW j, Go(j), Calling(j) => Calling(job), JobSound(j)
    PROVE  KeyInv'
<1>1. job' = j /\ UNCHANGED <<chain, replica, seen, keyless>>
  BY DEF Go
<1>2. BindingsOk' /\ Witnessed'
  BY <1>1 DEF KeyInv, BindingsOk, BindingOk, Follows, Witnessed, Calling, Active, Keyless
<1>3. JobSound(j)'
  BY Zenon, <1>1 DEF JobSound, ReportSound, TableSound, ListSound, Covers, EntrySound,
     SeenActive
<1>4. QED BY Zenon, <1>1, <1>2, <1>3
     DEF KeyInv, JobSound, ReportSound, TableSound, ListSound, Covers, EntrySound, SeenActive

LEMMA KeyBegins ==
    ASSUME KeyInv, NEW j, BeginCall(j), JobSound(j)'
    PROVE  KeyInv'
<1>1. job' = j /\ seen' = Active(replica) /\ keyless' = Keyless(replica) /\ UNCHANGED <<chain, replica>>
  BY DEF BeginCall
<1>2. BindingsOk' /\ Witnessed'
  BY <1>1 DEF KeyInv, BindingsOk, BindingOk, Follows, Witnessed, Calling, Active, Keyless
<1>3. QED BY <1>1, <1>2
     DEF KeyInv, JobSound, ReportSound, TableSound, ListSound, Covers, EntrySound, SeenActive

LEMMA FailedSound == JobSound(Failed) /\ JobSound(Failed)' /\ ~Calling(Failed) /\ JobSound(Idle) /\ ~Calling(Idle)
BY DEF JobSound, Failed, Idle, Calling

(* The active key of a binding that is read, and one of the entries it had. *)
LEMMA ActiveKnown ==
    ASSUME BindingsOk, NEW id \in Identities, replica[id].active # NoKey
    PROVE  /\ replica[id].active \in 0 .. NextKeyId(replica[id]) - 1
           /\ Record(replica[id], replica[id].active) \in KeyRecords
           /\ <<id, replica[id].active, Record(replica[id], replica[id].active).revoked>>
                \in Active(replica)
<1>1. replica[id].active \in 0 .. NextKeyId(replica[id]) - 1
  BY DEF BindingsOk, BindingOk
<1>2. QED BY <1>1, KeyIds DEF BindingsOk, Active

(* A table that begins to be read. *)
LEMMA TableStarts ==
    ASSUME BindingsOk, NEW id \in Identities, NEW j, j.kind \in {"list", "export"},
           j.by \in {"actions", "cli", "reader"}, j.all \in BOOLEAN, j.left \in SUBSET Leaders,
           j.out \in SUBSET KeyEntries
    PROVE  LET t == Table(j, id)
           IN /\ t \in KeyTables /\ t.kind = j.kind /\ t.id = id
              /\ t.active = replica[id].active /\ t.next = NextKeyId(replica[id])
              /\ t.by = j.by /\ t.all = j.all /\ t.left = j.left /\ t.out = j.out
              /\ t.kids = 0 .. 0 - 1 /\ t.more
<1>1. replica[id].active \in Int /\ NextKeyId(replica[id]) \in Nat
  BY KeyIds DEF BindingsOk, Bindings
<1>2. 0 .. 0 - 1 = {}
  OBVIOUS
<1>3. QED BY <1>1, <1>2 DEF Table, KeyTables

LEMMA KeysStart == KeyInit \/ KeysStill => KeyInv
<1>1. SUFFICES ASSUME KeyInit \/ KeysStill PROVE KeyInv
  OBVIOUS
<1>2. AddKey(Absent, OtherKey) \in Bindings /\ BindingOk(AddKey(Absent, OtherKey))
  BY AbsentOk, KeyAdded
<1>3. chain \in [Identities -> {Absent, AddKey(Absent, OtherKey)}] /\ replica = chain /\ job = Idle
  BY <1>1 DEF KeyInit, KeysStill
<1>4. \A id \in Identities : chain[id] \in Bindings /\ BindingOk(chain[id])
  BY <1>2, <1>3, AbsentOk
<1>5. BindingsOk
  BY <1>3, <1>4, KeyIds DEF BindingsOk
<1>6. QED BY <1>3, <1>5, FailedSound DEF KeyInv, Witnessed

(* One binding on the chain changes. *)
LEMMA ChainGrows ==
    ASSUME BindingsOk, NEW id \in Identities, NEW c \in Bindings, BindingOk(c), Follows(c, chain[id]),
           chain' = [chain EXCEPT ![id] = c], replica' = replica
    PROVE  /\ BindingsOk' /\ chain'[id] = c
           /\ \A i \in Identities : Follows(chain'[i], chain[i]) /\ Follows(replica'[i], replica[i])
<1>1. /\ chain' \in [Identities -> Bindings] /\ chain'[id] = c
      /\ \A i \in Identities : i # id => chain'[i] = chain[i]
  BY DEF BindingsOk
<1>2. \A i \in Identities : BindingOk(chain'[i]) /\ Follows(chain'[i], chain[i])
  BY <1>1, KeyIds DEF BindingsOk
<1>3. \A i \in Identities : Follows(chain'[i], replica[i])
  BY <1>1, <1>2, FollowsOn DEF BindingsOk
<1>4. QED BY <1>1, <1>2, <1>3, KeyIds DEF BindingsOk, BindingOk

LEMMA OthersChange ==
    ASSUME KeyInv, NEW id \in Identities, NEW c \in Bindings, BindingOk(c), Follows(c, chain[id]),
           Changed(id, c)
    PROVE  KeyInv'
<1>1. chain' = [chain EXCEPT ![id] = c] /\ UNCHANGED <<replica, job, seen, keyless>>
  BY DEF Changed
<1>2. /\ BindingsOk'
      /\ \A i \in Identities : Follows(chain'[i], chain[i]) /\ Follows(replica'[i], replica[i])
  BY <1>1, ChainGrows DEF KeyInv
<1>3. PICK j : j = job
  OBVIOUS
<1>4. JobSound(j)'
  BY <1>1, <1>2, <1>3, JobStays DEF KeyInv
<1>5. JobSound(job)'
  BY ZenonT(40), <1>1, <1>3, <1>4
     DEF JobSound, ReportSound, TableSound, ListSound, Covers, EntrySound, SeenActive
<1>6. Witnessed'
  BY <1>1 DEF KeyInv, Witnessed, Calling, Active, Keyless
<1>7. QED BY <1>2, <1>5, <1>6 DEF KeyInv

LEMMA KeysKept ==
    ASSUME KeyInv, [KeyNext]_keyVars
    PROVE  KeyInv'
<1>0. /\ BindingsOk /\ Witnessed /\ JobSound(job)
      /\ \A id \in Identities :
            /\ chain[id] \in Bindings /\ replica[id] \in Bindings
            /\ NextKeyId(chain[id]) \in Nat /\ NextKeyId(replica[id]) \in Nat
            /\ Follows(chain[id], replica[id])
  BY KeyIds DEF KeyInv, BindingsOk
<1>1. Tools \subseteq Identities /\ Leaders \subseteq Identities
  BY DEF Identities
<1>2. ASSUME NEW t \in Tools PROVE ReadBinding(t) \in RegisterJobs /\ Calling(ReadBinding(t))
  BY <1>0, <1>1 DEF ReadBinding, RegisterJobs, Calling
<1>3. ASSUME NEW t \in Tools, BeginRegister(t) PROVE KeyInv'
  BY <1>2, <1>3, KeyBegins DEF BeginRegister, JobSound
<1>4. ASSUME NEW id \in Identities, seen' = Active(replica), replica' = replica,
             replica[id].active # NoKey
      PROVE  SeenActive(id, replica[id].active, Record(replica[id], replica[id].active).revoked)'
  BY <1>0, <1>4, ActiveKnown DEF SeenActive, KeyRecords
<1>5. ASSUME NEW t \in Tools, NEW by \in {"actions", "cli"}, BeginCall(ListOf(t, by)) PROVE KeyInv'
  <2> DEFINE j == [kind |-> "list", by |-> by, all |-> FALSE, left |-> {}, out |-> {}]
  <2>0. PICK k : k = Table(j, t)
    OBVIOUS
  <2>1. seen' = Active(replica) /\ UNCHANGED <<replica, chain>> /\ ListOf(t, by) = k
    BY <1>5, <2>0 DEF BeginCall, ListOf
  <2>2. /\ k \in KeyTables /\ k.kind = "list" /\ k.id = t /\ k.active = replica[t].active
        /\ k.next = NextKeyId(replica[t]) /\ k.kids = 0 .. 0 - 1 /\ k.more
    <3>1. /\ j.kind = "list" /\ j.by \in {"actions", "cli", "reader"} /\ j.all \in BOOLEAN
          /\ j.left \in SUBSET Leaders /\ j.out \in SUBSET KeyEntries
      OBVIOUS
    <3> HIDE DEF j
    <3>2. QED BY <1>0, <1>1, <2>0, <3>1, TableStarts
  <2>3. TableSound(k)'
    <3>1. replica[t].active # NoKey => replica[t].active \in 0 .. NextKeyId(replica[t]) - 1
      BY <1>0, <1>1, ActiveKnown
    <3>2. k.active # NoKey => SeenActive(k.id, k.active, Record(replica[k.id], k.active).revoked)'
      BY <1>1, <1>4, <2>1, <2>2
    <3>3. \E n \in Nat : k.kids = 0 .. n - 1 /\ (~k.more => k.next <= n)
      BY <2>2
    <3>4. k.next <= NextKeyId(replica'[k.id])
      BY <1>0, <1>1, <2>1, <2>2
    <3>5. QED BY <2>2, <3>1, <3>2, <3>3, <3>4 DEF TableSound
  <2>4. JobSound(k)'
    BY <2>2, <2>3 DEF JobSound
  <2>5. QED BY <1>5, <2>1, <2>4, KeyBegins
<1>6. ASSUME NEW t \in Tools, BeginList(t) PROVE KeyInv'
  <2>1. CASE BeginCall(ListOf(t, "actions"))
    BY <1>5, <2>1
  <2>2. CASE BeginCall(ToolKeyList(t, NoKey, 0, {}))
    <3> DEFINE j == ToolKeyList(t, NoKey, 0, {})
    <3>1. j \in KeyLists /\ j.active = NoKey /\ j.next = 0 /\ j.kids = {}
      BY DEF ToolKeyList, KeyLists, NoKey
    <3> HIDE DEF j
    <3>2. JobSound(j)'
      BY <3>1 DEF JobSound, ListSound
    <3>3. QED BY <2>2, <3>2, KeyBegins DEF j
  <2>3. QED BY <1>6, <2>1, <2>2 DEF BeginList
<1>7. ASSUME NEW t \in Tools, BeginUnlessActive(t) PROVE KeyInv'
  <2> DEFINE j == [kind |-> "unless_active", id |-> t]
  <2>1. JobSound(j)'
    BY DEF JobSound, UnlessJobs
  <2>2. QED BY <1>5, <1>7, <2>1, KeyBegins DEF BeginUnlessActive
<1>8. CASE SubmitKey
  <2>1. /\ job \in RegisterJobs /\ job.id \in Tools /\ job.kid = NextKeyId(chain[job.id])
        /\ chain' = [chain EXCEPT ![job.id] = AddKey(@, OwnKey)]
        /\ UNCHANGED <<replica, seen, keyless>>
        /\ job' = RegisteredToolKey(job) \/ job' = Failed
    BY <1>0, <1>8, JobKinds DEF SubmitKey, ProofAccepted, RegisterJobs
  <2> DEFINE c == AddKey(chain[job.id], OwnKey)
  <2>2. /\ c \in Bindings /\ BindingOk(c) /\ Follows(c, chain[job.id])
        /\ NextKeyId(c) = job.kid + 1 /\ Record(c, job.kid).key = OwnKey
    <3>1. chain[job.id] \in Bindings /\ BindingOk(chain[job.id])
      BY <1>0, <1>1, <2>1 DEF BindingsOk
    <3>2. LET d == AddKey(chain[job.id], OwnKey)
          IN /\ d \in Bindings /\ BindingOk(d) /\ Follows(d, chain[job.id])
             /\ NextKeyId(d) = NextKeyId(chain[job.id]) + 1
             /\ Record(d, NextKeyId(chain[job.id])).key = OwnKey
      BY <3>1, KeyAdded
    <3>3. QED BY <2>1, <3>2
  <2>3. BindingsOk' /\ chain'[job.id] = c
    BY <1>0, <1>1, <2>1, <2>2, ChainGrows
  <2> HIDE DEF c
  <2>4. PICK j : j = RegisteredToolKey(job)
    OBVIOUS
  <2>5. j \in KeyReports /\ j.kid = job.kid /\ j.id = job.id /\ j.kind = "registered"
    BY <1>0, <1>1, <2>1, <2>4 DEF RegisteredToolKey, KeyReports
  <2>6. job.kid \in Nat
    BY <1>0, <1>1, <2>1
  <2>7. ReportSound(j)'
    <3>1. j.kid < NextKeyId(chain'[j.id]) /\ Record(chain'[j.id], j.kid).key = OwnKey
      BY <2>2, <2>3, <2>5, <2>6
    <3>2. QED BY <2>5, <3>1 DEF ReportSound
  <2>8. JobSound(j)' /\ ~Calling(j)
    BY <2>5, <2>7 DEF JobSound, Calling
  <2>9. CASE job' = Failed
    BY <2>3, <2>9, FailedSound DEF KeyInv, Witnessed, Calling, JobSound
  <2>10. CASE job' = j
    BY <2>3, <2>8, <2>10
       DEF KeyInv, Witnessed, Calling, JobSound, ReportSound, TableSound, ListSound, Covers,
           EntrySound, SeenActive
  <2>11. QED BY <2>1, <2>4, <2>9, <2>10
<1>9. CASE RefuseKey \/ FailCall
  BY <1>9, FailedSound, KeyGoes DEF RefuseKey, FailCall
<1>10. CASE Return
  BY <1>10, FailedSound, KeyGoes DEF Return
<1>11. CASE ListPage
  <2>1. job \in KeyTables /\ TableSound(job) /\ ReadingTable
    BY <1>0, <1>11, JobKinds DEF ListPage, ReadingTable
  <2>2. PICK n \in Nat : job.kids = 0 .. n - 1
    BY <2>1 DEF TableSound
  <2>3. Cardinality(job.kids) = n
    <3>1. Cardinality(0 .. n - 1) = (n - 1) - 0 + 1
      BY FS_Interval
    <3>2. QED BY <2>2, <3>1
  <2> DEFINE more == n + 1 < NextKeyId(replica[job.id])
             j == [job EXCEPT !.kids = @ \cup {n}, !.more = more]
  <2>4. Go(j) /\ Calling(job)
    BY <1>11, <2>1, <2>3 DEF ListPage, ReadingTable, Calling
  <2>a. more \in BOOLEAN
    OBVIOUS
  <2> HIDE DEF more
  <2>5. /\ j \in KeyTables /\ j.kind = job.kind /\ j.id = job.id /\ j.active = job.active
        /\ j.next = job.next /\ j.by = job.by /\ j.all = job.all /\ j.left = job.left
        /\ j.out = job.out /\ j.kids = job.kids \cup {n}
        /\ j.more = more
    BY <2>1, <2>a DEF KeyTables
  <2> HIDE DEF j
  <2>6. job.next \in Nat /\ job.id \in Identities /\ NextKeyId(replica[job.id]) \in Nat
    BY <1>0, <2>1 DEF KeyTables
  <2>7. j.kids = 0 .. (n + 1) - 1 /\ (~j.more => j.next <= n + 1)
    <3>1. job.kids \cup {n} = 0 .. (n + 1) - 1
      BY <2>2
    <3>2. ~more => job.next <= n + 1
      BY <2>1, <2>6 DEF TableSound, more
    <3>3. QED BY <2>5, <3>1, <3>2
  <2>8. j.kind = "export" => Covers(j, j.left \cup {j.id})
    BY <2>1, <2>5 DEF TableSound, Covers
  <2>9. TableSound(j)
    BY <2>1, <2>2, <2>5, <2>7, <2>8 DEF TableSound
  <2>10. QED BY <2>4, <2>5, <2>9, KeyGoes DEF JobSound
<1>12. ASSUME TableRead
       PROVE  /\ job \in KeyTables /\ TableSound(job) /\ job.id \in Identities
              /\ 0 .. job.next - 1 \subseteq job.kids /\ job.next \in Nat /\ job.active \in Int
              /\ job.active \in job.kids => job.active # NoKey
              /\ job.active # NoKey =>
                    /\ job.active \in 0 .. job.next - 1
                    /\ job.active \in 0 .. NextKeyId(replica[job.id]) - 1
                    /\ SeenActive(job.id, job.active, Record(replica[job.id], job.active).revoked)
  <2>1. job \in KeyTables /\ TableSound(job) /\ ~job.more
    BY <1>0, <1>12, JobKinds DEF TableRead, ReadingTable
  <2>2. job.next \in Nat /\ job.active \in Int /\ job.id \in Identities /\ job.kids \in SUBSET Nat
    BY <2>1 DEF KeyTables
  <2>3. NextKeyId(replica[job.id]) \in Nat
    BY <1>0, <2>2
  <2>4. QED BY <2>1, <2>2, <2>3 DEF TableSound, NoKey
<1>13. CASE ListToolKeys
  <2> DEFINE j == ToolKeyList(job.id, job.active, job.next, job.kids)
  <2>1. TableRead /\ Go(j) /\ job.id \in Tools
    BY <1>12, <1>13 DEF ListToolKeys, TableSound
  <2>2. j \in KeyLists /\ j.active = job.active /\ j.next = job.next /\ j.kids = job.kids
    BY <1>12, <2>1 DEF ToolKeyList, KeyLists, KeyTables
  <2>3. ListSound(j) /\ ~Calling(j)
    BY <1>12, <2>1, <2>2 DEF ListSound, Calling, KeyLists
  <2>4. QED BY <2>1, <2>2, <2>3, KeyGoes DEF JobSound
<1>14. CASE SkipIfActive
  <2>1. TableRead /\ job.id \in Tools /\ Calling(job)
    BY <1>12, <1>14 DEF SkipIfActive, TableSound, Calling
  <2>2. CASE job.active \in job.kids /\ Record(replica[job.id], job.active).key = OwnKey
    <3> DEFINE j == [kind |-> "skipped", id |-> job.id, kid |-> job.active]
    <3>1. Go(j)
      BY <1>14, <2>2 DEF SkipIfActive
    <3>2. job.active \in Nat /\ job.active \in 0 .. NextKeyId(replica[job.id]) - 1
      BY <1>12, <2>1, <2>2
    <3>3. j \in KeyReports /\ j.id = job.id /\ j.kid = job.active /\ ~Calling(j)
      BY <2>1, <3>2 DEF KeyReports, Calling
    <3> HIDE DEF j
    <3>4. j.kid < NextKeyId(chain[j.id]) /\ Record(chain[j.id], j.kid).key = OwnKey
      BY <1>0, <1>12, <2>1, <2>2, <3>2, <3>3 DEF Follows
    <3>5. SeenActive(j.id, j.kid, TRUE)
      BY <1>12, <2>1, <2>2, <3>3 DEF SeenActive
    <3>6. ReportSound(j)
      BY <3>4, <3>5 DEF ReportSound
    <3>7. QED BY <3>1, <3>3, <3>6, KeyGoes DEF JobSound
  <2>3. CASE Go([kind |-> "unless_active", id |-> job.id])
    BY <2>1, <2>3, KeyGoes DEF JobSound, UnlessJobs
  <2>4. QED BY <1>14, <2>2, <2>3 DEF SkipIfActive
<1>15. CASE RegisterAfterAll
  <2>1. job.id \in Tools /\ Calling(job) /\ Go(ReadBinding(job.id))
    BY <1>0, <1>15, JobKinds DEF RegisterAfterAll, UnlessJobs, Calling
  <2>2. QED BY <1>2, <2>1, KeyGoes DEF JobSound
<1>16. ASSUME NEW by \in {"actions", "reader"}, BeginExportAll(by) PROVE KeyInv'
  <2>0. PICK j : j = Binding(by, TRUE, ListedLeaders, {})
    OBVIOUS
  <2>1. j \in LeaderJobs /\ j.left = ListedLeaders /\ j.out = {}
    BY <2>0 DEF Binding, LeaderJobs, ListedLeaders
  <2>2. CASE BeginCall(j)
    <3>1. keyless' = Keyless(replica)
      BY <2>2 DEF BeginCall
    <3>2. \A id \in Leaders \ keyless' : id \in ListedLeaders
      BY <1>1, <3>1 DEF Keyless, ListedLeaders, Absent
    <3>3. Covers(j, j.left)'
      BY <2>1, <3>2 DEF Covers
    <3>4. QED BY <2>1, <2>2, <3>3, KeyBegins DEF JobSound
  <2>3. CASE BeginCall(Failed)
    BY <2>3, FailedSound, KeyBegins
  <2>4. QED BY <1>16, <2>0, <2>2, <2>3 DEF BeginExportAll
<1>17. ASSUME NEW ids \in SUBSET Leaders, BeginExport(ids) PROVE KeyInv'
  <2> DEFINE j == Binding("actions", FALSE, ids, {})
  <2>1. j \in LeaderJobs /\ Covers(j, j.left)'
    BY DEF Binding, LeaderJobs, Covers
  <2>2. QED BY <1>17, <2>1, KeyBegins DEF BeginExport, JobSound
<1>18. ASSUME NEW id \in Leaders, ReadLeader(id) PROVE KeyInv'
  <2>1. /\ job \in LeaderJobs /\ Covers(job, job.left) /\ Calling(job) /\ id \in Identities
        /\ job.left \in SUBSET Leaders /\ job.out \in SUBSET KeyEntries /\ job.all \in BOOLEAN
        /\ job.by \in {"actions", "cli", "reader"} /\ job.kind = "export"
        /\ Active(replica) \subseteq seen /\ Keyless(replica) \subseteq keyless
    BY <1>0, <1>1, <1>18, JobKinds DEF ReadLeader, LeaderJobs, Calling, Witnessed
  <2> DEFINE j == [job EXCEPT !.left = @ \ {id}]
  <2>2. /\ j \in LeaderJobs /\ j.left = job.left \ {id} /\ j.out = job.out /\ j.all = job.all
        /\ j.by = job.by /\ j.kind = "export"
    BY <2>1 DEF LeaderJobs
  <2>3. \/ Go(Failed)
        \/ replica[id].active = NoKey /\ Go(NextLeader(j, {}))
        \/ replica[id].active # NoKey /\ Go(Table(j, id))
    BY <1>18 DEF ReadLeader
  <2> HIDE DEF j
  <2>4. CASE replica[id].active = NoKey /\ Go(NextLeader(j, {}))
    <3> DEFINE k == NextLeader(j, {})
    <3>1. /\ k \in LeaderJobs /\ k.left = j.left /\ k.out = job.out /\ k.all = job.all
          /\ k.by = job.by
      BY <2>1, <2>2 DEF NextLeader, Binding, LeaderJobs
    <3> HIDE DEF k
    <3>2. id \in keyless
      BY <2>1, <2>4 DEF Keyless
    <3>3. Covers(k, k.left)
      BY <2>1, <2>2, <3>1, <3>2 DEF Covers
    <3>4. QED BY <2>1, <2>4, <3>1, <3>3, KeyGoes DEF JobSound, k
  <2>5. CASE replica[id].active # NoKey /\ Go(Table(j, id))
    <3> DEFINE k == Table(j, id)
    <3>1. /\ k \in KeyTables /\ k.kind = "export" /\ k.id = id
          /\ k.active = replica[id].active /\ k.next = NextKeyId(replica[id])
          /\ k.by = job.by /\ k.all = job.all /\ k.left = j.left /\ k.out = job.out
          /\ k.kids = 0 .. 0 - 1 /\ k.more
      BY <1>0, <2>1, <2>2, TableStarts
    <3> HIDE DEF k
    <3>2. Covers(k, k.left \cup {k.id})
      BY <2>1, <2>2, <3>1 DEF Covers
    <3>3. /\ k.active \in 0 .. k.next - 1
          /\ SeenActive(k.id, k.active, Record(replica[k.id], k.active).revoked)
      BY <1>0, <2>1, <2>5, <3>1, ActiveKnown DEF SeenActive, KeyRecords
    <3>4. \E n \in Nat : k.kids = 0 .. n - 1 /\ (~k.more => k.next <= n)
      BY <3>1
    <3>5. k.next <= NextKeyId(replica[k.id])
      BY <1>0, <2>1, <3>1
    <3>6. TableSound(k)
      BY <2>5, <3>1, <3>2, <3>3, <3>4, <3>5 DEF TableSound
    <3>7. QED BY <2>1, <2>5, <3>1, <3>6, KeyGoes DEF JobSound, k
  <2>6. CASE Go(Failed)
    BY <2>6, FailedSound, KeyGoes
  <2>7. QED BY <2>3, <2>4, <2>5, <2>6
<1>19. CASE ResolveActive
  <2>1. TableRead /\ job.kind = "export" /\ Calling(job)
    BY <1>19 DEF ResolveActive, Calling
  <2> DEFINE record == Record(replica[job.id], job.active)
             e == [id |-> job.id, kid |-> job.active, key |-> record.key]
             k == NextLeader(job, {e})
  <2>2. CASE job.active \in job.kids /\ ActiveKeyUsable(job, record) /\ Go(k)
    <3>1. /\ job.active \in 0 .. NextKeyId(replica[job.id]) - 1 /\ job.active \in Nat
          /\ SeenActive(job.id, job.active, record.revoked)
          /\ job.id \in Leaders /\ Covers(job, job.left \cup {job.id})
      BY <1>12, <2>1, <2>2 DEF TableSound
    <3>2. record.key \in {OwnKey, OtherKey} /\ record.revoked \in BOOLEAN
      BY <1>0, <1>1, <3>1, KeyIds DEF KeyRecords
    <3>3. e \in KeyEntries /\ e.id = job.id /\ e.kid = job.active /\ e.key = record.key
      BY <3>1, <3>2 DEF KeyEntries
    <3>4. SeenActive(job.id, job.active, job.by # "reader")
      BY <2>2, <3>1 DEF ActiveKeyUsable, SeenActive
    <3>5. e.kid < NextKeyId(replica[e.id]) /\ e.key = Record(replica[e.id], e.kid).key
      BY <1>0, <1>1, <3>1, <3>3
    <3> HIDE DEF e
    <3>6. EntrySound(e, job.by)
      BY <3>3, <3>4, <3>5 DEF EntrySound
    <3>7. /\ job.left \in SUBSET Leaders /\ job.out \in SUBSET KeyEntries /\ job.all \in BOOLEAN
          /\ job.by \in {"actions", "cli", "reader"}
      BY <1>12, <2>1 DEF KeyTables
    <3>8. /\ k \in LeaderJobs /\ k.left = job.left /\ k.out = job.out \cup {e} /\ k.all = job.all
          /\ k.by = job.by
      BY <3>3, <3>7 DEF NextLeader, Binding, LeaderJobs
    <3> HIDE DEF k
    <3>9. Covers(k, k.left)
      BY <3>1, <3>3, <3>6, <3>8 DEF Covers
    <3>10. QED BY <2>1, <2>2, <3>8, <3>9, KeyGoes DEF JobSound
  <2>3. CASE Go(Failed)
    BY <2>3, FailedSound, KeyGoes
  <2>4. QED BY <1>19, <2>2, <2>3 DEF ResolveActive
<1>20. CASE FinishExport
  <2> DEFINE j == [kind |-> "exported", by |-> job.by, all |-> job.all, out |-> job.out]
  <2>1. job \in LeaderJobs /\ Covers(job, {}) /\ (Go(j) \/ Go(Failed))
    BY <1>0, <1>20, JobKinds DEF FinishExport
  <2>2. j \in KeyExports /\ j.out = job.out /\ j.all = job.all /\ j.by = job.by /\ ~Calling(j)
    BY <2>1 DEF LeaderJobs, KeyExports, Calling
  <2> HIDE DEF j
  <2>3. Covers(j, {})
    BY <2>1, <2>2 DEF Covers
  <2>4. JobSound(j)
    BY <2>2, <2>3 DEF JobSound
  <2>5. QED BY <2>1, <2>2, <2>4, FailedSound, KeyGoes
<1>21. ASSUME NEW id \in Identities, OthersRegister(id) PROVE KeyInv'
  BY <1>0, <1>21, KeyAdded, OthersChange DEF OthersRegister, BindingsOk
<1>22. ASSUME NEW id \in Identities, OthersRevoke(id) PROVE KeyInv'
  <2>1. PICK kid \in 0 .. NextKeyId(chain[id]) - 1 :
            \/ Changed(id, [chain[id] EXCEPT !.keys[kid + 1].revoked = TRUE])
            \/ Changed(id, [[chain[id] EXCEPT !.keys[kid + 1].revoked = TRUE] EXCEPT !.active = NoKey])
    BY Zenon, <1>22 DEF OthersRevoke
  <2> DEFINE b == [chain[id] EXCEPT !.keys[kid + 1].revoked = TRUE]
             c == [b EXCEPT !.active = NoKey]
  <2>2. b \in Bindings /\ BindingOk(b) /\ Follows(b, chain[id])
    BY <1>0, KeyRevoked DEF BindingsOk
  <2> HIDE DEF b
  <2>3. c \in Bindings /\ BindingOk(c) /\ Follows(c, b)
    BY <2>2, KeyActivated
  <2> HIDE DEF c
  <2>4. Follows(c, chain[id])
    BY <1>0, <2>2, <2>3, FollowsOn
  <2>5. Changed(id, b) \/ Changed(id, c)
    BY <2>1 DEF b, c
  <2>6. QED BY <2>2, <2>3, <2>4, <2>5, OthersChange
<1>23. ASSUME NEW id \in Identities, OthersActivate(id) PROVE KeyInv'
  <2>1. PICK kid \in 0 .. NextKeyId(chain[id]) - 1 : Changed(id, [chain[id] EXCEPT !.active = kid])
    BY <1>23 DEF OthersActivate
  <2>2. QED BY <1>0, <2>1, KeyActivated, OthersChange DEF BindingsOk
<1>24. CASE CatchUp
  <2>1. /\ replica' = chain /\ UNCHANGED <<chain, job>>
        /\ seen \subseteq seen' /\ keyless \subseteq keyless'
        /\ Calling(job) => Active(chain) \subseteq seen' /\ Keyless(chain) \subseteq keyless'
    BY <1>24 DEF CatchUp, InCall, Calling
  <2>2. BindingsOk'
    BY <1>0, <2>1, KeyIds DEF BindingsOk, BindingOk
  <2>3. \A i \in Identities : Follows(chain'[i], chain[i]) /\ Follows(replica'[i], replica[i])
    BY <1>0, <2>1, KeyIds
  <2>4. PICK j : j = job
    OBVIOUS
  <2>5. JobSound(j)'
    BY <1>0, <2>1, <2>2, <2>3, <2>4, JobStays
  <2>6. JobSound(job)'
    BY <2>1, <2>4, <2>5
       DEF JobSound, ReportSound, TableSound, ListSound, Covers, EntrySound, SeenActive
  <2>7. Witnessed'
    BY <2>1 DEF Witnessed, Calling, Active, Keyless
  <2>8. QED BY <2>2, <2>6, <2>7 DEF KeyInv
<1>25. CASE UNCHANGED keyVars
  <2>1. UNCHANGED <<chain, replica, job, seen, keyless>>
    BY <1>25 DEF keyVars
  <2>2. BindingsOk' /\ Witnessed'
    BY <1>0, <2>1 DEF BindingsOk, BindingOk, Follows, Witnessed, Calling, Active, Keyless
  <2>3. JobSound(job)'
    BY ZenonT(40), <1>0, <2>1
       DEF JobSound, ReportSound, TableSound, ListSound, Covers, EntrySound, SeenActive
  <2>4. QED BY <2>2, <2>3 DEF KeyInv
<1>26. QED BY <1>1, <1>3, <1>6, <1>7, <1>8, <1>9, <1>10, <1>11, <1>13, <1>14, <1>15, <1>16, <1>17,
     <1>18,
     <1>19, <1>20, <1>21, <1>22, <1>23, <1>24, <1>25 DEF KeyNext

(* What is reported of message keys stands on chain, a list misses none, and
   tools are given keys that were active, of every leader that had one all the
   time (network_auth.rs). *)
THEOREM KeysAreTrue == Spec => []KeysTrue
<1>1. Init => KeyInv
  BY KeysStart DEF Init
<1>2. KeyInv /\ [Next]_vars => KeyInv'
  BY EachPartMoves, KeysKept
<1>3. ASSUME KeyInv PROVE KeysTrue
  <2>1. BindingsOk /\ JobSound(job)
    BY <1>3 DEF KeyInv
  <2>2. KeyReportsTrue
    <3>1. ASSUME job.kind \in {"registered", "skipped"}
          PROVE  /\ job.kid \in 0 .. NextKeyId(chain[job.id]) - 1
                 /\ Record(chain[job.id], job.kid).key = OwnKey
                 /\ job.kind = "skipped" => \E revoked \in BOOLEAN : <<job.id, job.kid, revoked>> \in seen
      <4>1. job.id \in Identities /\ job.kid \in Nat /\ ReportSound(job)
        BY <2>1, <3>1, JobKinds DEF KeyReports, Identities
      <4>2. NextKeyId(chain[job.id]) \in Nat
        BY <2>1, <4>1, KeyIds DEF BindingsOk
      <4>3. QED BY <4>1, <4>2 DEF ReportSound, SeenActive
    <3>2. QED BY <2>1, <3>1, JobKinds DEF KeyReportsTrue, ListSound
  <2>3. ASSUME job.kind = "exported", NEW e \in job.out
        PROVE  /\ \E revoked \in BOOLEAN :
                    /\ <<e.id, e.kid, revoked>> \in seen
                    /\ job.by = "reader" => ~revoked
               /\ e.key = Record(chain[e.id], e.kid).key
    <3>1. EntrySound(e, job.by)
      BY <2>1, <2>3, JobKinds DEF Covers
    <3>2. e.id \in Identities /\ e.kid \in Nat
      BY <3>1 DEF EntrySound, KeyEntries, Identities
    <3>3. NextKeyId(replica[e.id]) \in Nat /\ Follows(chain[e.id], replica[e.id])
      BY <2>1, <3>2, KeyIds DEF BindingsOk
    <3>4. QED BY <3>1, <3>2, <3>3 DEF EntrySound, SeenActive, Follows
  <2>4. ExportTrue
    BY <2>1, <2>3, JobKinds DEF ExportTrue, Covers
  <2>5. QED BY <2>2, <2>4 DEF KeysTrue
<1>4. QED BY <1>1, <1>2, <1>3, PTL DEF Spec

--------------------------------------------------------------------------------
(* What is answered about a registered tool. *)
InspectionSteps ==
    {"tool", "gas", "fetch", "registry", "registered", "support", "verifiers", "record",
     "objects", "answer"}
InspectionReads ==
    [step : InspectionSteps, by : {"inspect_tool", "leader"}, tool : BOOLEAN, sized : BOOLEAN,
     support : Supports, record : Supports, since : Nat, broken : BOOLEAN,
     answer : {"none", "exists", "missing", "inconsistent", "failed"}]

RegistrationTyped ==
    /\ toolKind \in {"http", "sui"} /\ turns \in Nat
    /\ registration \in Registrations /\ past \in SUBSET Registrations
    /\ \A r \in past \cup {registration} : Sound(r) /\ (toolKind = "sui" => r.support = "none")

(* The history of a call. *)
PastWhole ==
    inspection # NoInspection =>
        /\ registration \in past /\ inspection.since <= turns
        /\ inspection.since = turns => past = {registration}

(* The registration had this at one moment of the call, the objects and all. *)
Supported(support) == \E r \in past : r.objects /\ r.support = support
Recorded(record) == \E r \in past : RecordOf(r) = record

(* What the call has read up to a step. *)
InspectionRead(c) ==
    /\ c \in InspectionReads
    /\ c.by = "leader" => c.step \in {"verifiers", "record", "objects", "answer"}
    /\ c.step = "gas" /\ ~c.broken => \E r \in past : r.objects = c.tool
    /\ c.step \in {"tool", "gas", "fetch", "registry", "registered", "support"} => c.support = "none"
    /\ c.step \notin {"objects", "answer"} => c.record = "none"
    /\ c.by = "inspect_tool" /\ c.step \notin {"tool", "gas", "answer"} => registration.objects
    /\ c.step = "registered" /\ ~c.sized => Supported("none")
    /\ c.by = "inspect_tool" /\ c.step \in {"verifiers", "record"} => Supported(c.support)
    /\ c.step = "objects" => c.by = "leader" /\ c.record # "none" /\ Recorded(c.record)

(* What it answers. *)
InspectionAnswer(c) ==
    c.step = "answer" =>
        /\ c.answer = "inconsistent" => c.broken \/ c.since < turns
        /\ c.answer = "missing" /\ c.by = "inspect_tool" => c.broken \/ \E r \in past : ~r.objects
        /\ c.answer = "missing" /\ c.by = "leader" => Recorded("none")
        /\ c.answer = "exists" =>
              \E r \in past :
                 /\ c.by = "inspect_tool" => r.objects /\ r.support = c.support
                 /\ c.record # "none" => RecordOf(r) = c.record

InspectionInv ==
    /\ RegistrationTyped /\ PastWhole
    /\ inspection = NoInspection \/ (InspectionRead(inspection) /\ InspectionAnswer(inspection))

LEMMA InspectionStarts == InspectionInit \/ InspectionStill => InspectionInv
<1>1. SUFFICES ASSUME InspectionInit \/ InspectionStill PROVE InspectionInv
  OBVIOUS
<1>2. /\ toolKind \in {"http", "sui"} /\ registration \in Registrations /\ Sound(registration)
      /\ toolKind = "sui" => registration.support = "none"
      /\ past = {} /\ inspection = NoInspection
  <2>1. Unknown \in Registrations /\ Sound(Unknown) /\ Unknown.support = "none"
    BY DEF Unknown, Registrations, Supports, Sound
  <2>2. CASE InspectionInit
    BY <2>2 DEF InspectionInit
  <2>3. CASE InspectionStill
    BY <2>1, <2>3 DEF InspectionStill
  <2>4. QED BY <1>1, <2>2, <2>3
<1>3. turns = 0
  BY <1>1 DEF InspectionInit, InspectionStill
<1>4. QED BY <1>2, <1>3 DEF InspectionInv, RegistrationTyped, PastWhole

(* A step of the call itself. *)
LEMMA InspectionProceeds ==
    ASSUME InspectionInv, inspection # NoInspection, NEW c, Proceed(c), c.since = inspection.since,
           InspectionRead(c), InspectionAnswer(c)
    PROVE  InspectionInv'
<1>1. inspection' = c /\ UNCHANGED <<toolKind, registration, past, turns>>
  BY DEF Proceed
<1>2. RegistrationTyped' /\ PastWhole'
  BY <1>1 DEF InspectionInv, RegistrationTyped, PastWhole
<1>3. InspectionRead(c)' /\ InspectionAnswer(c)'
  BY <1>1 DEF InspectionRead, InspectionAnswer, Supported, Recorded
<1>4. QED BY <1>1, <1>2, <1>3 DEF InspectionInv, InspectionRead, InspectionAnswer, Supported,
     Recorded

LEMMA InspectionFields ==
    ASSUME NEW c \in InspectionReads, NEW step \in InspectionSteps
    PROVE  LET d == [c EXCEPT !.step = step]
           IN /\ d \in InspectionReads /\ d.step = step /\ d.by = c.by /\ d.tool = c.tool
              /\ d.sized = c.sized /\ d.support = c.support /\ d.record = c.record
              /\ d.since = c.since /\ d.broken = c.broken /\ d.answer = c.answer
BY DEF InspectionReads

(* The registration changes. *)
LEMMA RegistrationTurns ==
    ASSUME InspectionInv, NEW r \in Registrations, Sound(r), toolKind = "sui" => r.support = "none",
           registration.objects => r.objects, TurnTo(r)
    PROVE  InspectionInv'
<1>1. /\ registration' = r /\ past' = past \cup {r} /\ turns' = turns + 1
      /\ UNCHANGED <<toolKind, inspection>> /\ inspection.step # "answer"
  BY DEF TurnTo
<1>2. RegistrationTyped'
  BY <1>1 DEF InspectionInv, RegistrationTyped
<1>3. inspection # NoInspection => inspection.since \in Nat
  BY DEF InspectionInv, InspectionRead, InspectionReads
<1>4. PastWhole'
  BY <1>1, <1>3 DEF InspectionInv, RegistrationTyped, PastWhole
<1>5. InspectionRead(inspection) => InspectionRead(inspection)'
  BY <1>1 DEF InspectionRead, Supported, Recorded
<1>6. InspectionAnswer(inspection)'
  BY <1>1 DEF InspectionAnswer
<1>7. QED BY <1>1, <1>2, <1>4, <1>5, <1>6 DEF InspectionInv

LEMMA InspectionsKept ==
    ASSUME InspectionInv, [InspectionNext]_inspectionVars
    PROVE  InspectionInv'
<1>0. /\ RegistrationTyped /\ PastWhole
      /\ registration \in Registrations /\ Sound(registration)
      /\ toolKind = "sui" => registration.support = "none"
      /\ VerifierMethods \cap {"none", "key"} = {} /\ NoInspection.step = "idle"
  BY InspectionAssumption DEF InspectionInv, RegistrationTyped, NoInspection
<1>1. registration.support \in Supports /\ registration.objects \in BOOLEAN /\ registration.live \in BOOLEAN
  BY <1>0 DEF Registrations
<1>2. inspection.step # "idle" =>
          /\ inspection # NoInspection /\ InspectionRead(inspection)
          /\ inspection \in InspectionReads /\ registration \in past
          /\ inspection.since = turns => past = {registration}
          /\ inspection.since <= turns /\ inspection.since \in Nat /\ turns \in Nat
  BY <1>0 DEF InspectionInv, PastWhole, InspectionRead, InspectionReads, RegistrationTyped
<1>3. RecordOf(registration) \in Supports
  BY <1>1 DEF RecordOf, Supports
<1>4. ASSUME NEW by \in {"inspect_tool", "leader"}, BeginInspection(by) PROVE InspectionInv'
  <2> DEFINE c == [step |-> IF by = "inspect_tool" THEN "tool" ELSE "verifiers", by |-> by,
                   tool |-> FALSE, sized |-> FALSE, support |-> "none", record |-> "none",
                   since |-> turns, broken |-> FALSE, answer |-> "none"]
  <2>1. /\ inspection' = c /\ past' = {registration} /\ UNCHANGED <<toolKind, registration, turns>>
    BY <1>4 DEF BeginInspection
  <2>2. turns \in Nat
    BY <1>0 DEF RegistrationTyped
  <2>3. /\ c \in InspectionReads /\ c.by = by /\ c.support = "none" /\ c.record = "none"
        /\ c.step = IF by = "inspect_tool" THEN "tool" ELSE "verifiers"
        /\ c.since = turns
    BY <2>2 DEF InspectionReads, InspectionSteps, Supports
  <2> HIDE DEF c
  <2>4. RegistrationTyped' /\ PastWhole'
    BY <1>0, <2>1, <2>2, <2>3 DEF RegistrationTyped, PastWhole
  <2>5. InspectionRead(inspection)' /\ InspectionAnswer(inspection)'
    BY <2>1, <2>3 DEF InspectionRead, InspectionAnswer
  <2>6. QED BY <2>4, <2>5 DEF InspectionInv
<1>5. ASSUME NEW fails \in BOOLEAN, ProbeTool(fails) PROVE InspectionInv'
  <2>1. inspection.step = "tool"
    BY <1>5 DEF ProbeTool, InspectionAt
  <2>2. PICK c : c = [GoOn("gas") EXCEPT !.tool = registration.objects /\ ~fails, !.broken = fails]
    OBVIOUS
  <2>3. /\ c \in InspectionReads /\ c.step = "gas" /\ c.by = inspection.by
        /\ c.tool = (registration.objects /\ ~fails) /\ c.broken = fails
        /\ c.support = inspection.support /\ c.record = inspection.record
        /\ c.since = inspection.since
    BY <1>1, <1>2, <2>1, <2>2 DEF GoOn, InspectionReads, InspectionSteps
  <2>4. /\ inspection.by = "inspect_tool"
        /\ inspection.support = "none" /\ inspection.record = "none"
    BY <1>2, <2>1 DEF InspectionRead, InspectionReads
  <2>5. ~fails => registration \in past /\ registration.objects = c.tool
    BY <1>1, <1>2, <2>1, <2>3
  <2>6. InspectionRead(c)
    BY <2>3, <2>4, <2>5 DEF InspectionRead
  <2>7. InspectionAnswer(c)
    BY <2>3 DEF InspectionAnswer
  <2>8. QED BY <1>2, <1>5, <2>1, <2>2, <2>3, <2>6, <2>7, InspectionProceeds DEF ProbeTool
<1>6. ASSUME NEW fails \in BOOLEAN, ProbeGas(fails) PROVE InspectionInv'
  <2> DEFINE gas == registration.objects /\ ~fails
             probed == [inspection EXCEPT !.broken = @ \/ fails]
  <2>1. inspection.step = "gas" /\ inspection.tool \in BOOLEAN /\ inspection.broken \in BOOLEAN
    BY <1>2, <1>6 DEF ProbeGas, InspectionAt, InspectionReads
  <2> DEFINE chosen == IF inspection.tool # gas THEN [probed EXCEPT !.step = "answer", !.answer = "inconsistent"]
                       ELSE IF gas THEN [probed EXCEPT !.step = "fetch"]
                       ELSE [probed EXCEPT !.step = "answer", !.answer = "missing"]
  <2>2. PICK c : c = chosen
    OBVIOUS
  <2>3. /\ Proceed(c)
        /\ \/ /\ inspection.tool # gas
              /\ c = [probed EXCEPT !.step = "answer", !.answer = "inconsistent"]
           \/ /\ inspection.tool = gas /\ ~gas
              /\ c = [probed EXCEPT !.step = "answer", !.answer = "missing"]
           \/ /\ inspection.tool = gas /\ gas
              /\ c = [probed EXCEPT !.step = "fetch"]
    <3>1. Proceed(chosen)
      BY <1>6 DEF ProbeGas
    <3>2. inspection' = chosen /\ UNCHANGED <<toolKind, crowd, registration, past, turns>>
      BY <3>1 DEF Proceed
    <3>3. Proceed(c)
      BY <2>2, <3>2 DEF Proceed
    <3>4. gas \in BOOLEAN
      BY <1>1
    <3> HIDE DEF gas, probed
    <3>5. CASE inspection.tool # gas
      <4>1. c = [probed EXCEPT !.step = "answer", !.answer = "inconsistent"]
        BY <2>2, <3>5
      <4>2. QED BY <3>3, <3>5, <4>1
    <3>6. CASE inspection.tool = gas /\ ~gas
      <4>1. c = [probed EXCEPT !.step = "answer", !.answer = "missing"]
        BY <2>2, <3>6
      <4>2. QED BY <3>3, <3>6, <4>1
    <3>7. CASE inspection.tool = gas /\ gas
      <4>1. c = [probed EXCEPT !.step = "fetch"]
        BY <2>2, <3>7
      <4>2. QED BY <3>3, <3>7, <4>1
    <3>8. QED BY <2>1, <3>4, <3>5, <3>6, <3>7
  <2>4. /\ c \in InspectionReads /\ c.by = inspection.by
        /\ c.broken = (inspection.broken \/ fails)
        /\ c.support = inspection.support /\ c.record = inspection.record
        /\ c.since = inspection.since
        /\ \/ inspection.tool # gas /\ c.step = "answer" /\ c.answer = "inconsistent"
           \/ inspection.tool = gas /\ ~gas /\ c.step = "answer" /\ c.answer = "missing"
           \/ inspection.tool = gas /\ gas /\ c.step = "fetch"
    <3> HIDE DEF gas
    <3>1. CASE c = [probed EXCEPT !.step = "answer", !.answer = "inconsistent"] /\ inspection.tool # gas
      BY <1>2, <2>1, <3>1 DEF InspectionReads, InspectionSteps
    <3>2. CASE c = [probed EXCEPT !.step = "answer", !.answer = "missing"] /\ inspection.tool = gas /\ ~gas
      BY <1>2, <2>1, <3>2 DEF InspectionReads, InspectionSteps
    <3>3. CASE c = [probed EXCEPT !.step = "fetch"] /\ inspection.tool = gas /\ gas
      BY <1>2, <2>1, <3>3 DEF InspectionReads, InspectionSteps
    <3>4. QED BY <2>3, <3>1, <3>2, <3>3
  <2>5. inspection.by = "inspect_tool"
    BY <1>2, <2>1 DEF InspectionRead, InspectionReads
  <2>6. InspectionRead(c)
    BY <1>2, <2>1, <2>4, <2>5 DEF InspectionRead
  <2>7. c.answer = "inconsistent" /\ c.step = "answer" => c.broken \/ c.since < turns
    <3>1. SUFFICES ASSUME inspection.tool # gas, ~c.broken, c.since = turns PROVE FALSE
      <4>1. c.since <= turns /\ c.since \in Nat /\ turns \in Nat
        BY <1>2, <2>1, <2>4
      <4>2. c.since < turns \/ c.since = turns
        BY <4>1
      <4>3. c.answer = "inconsistent" /\ c.step = "answer" => inspection.tool # gas
        <5>1. CASE inspection.tool = gas
          BY <2>4, <5>1
        <5>2. QED BY <5>1
      <4>4. QED BY <4>2, <4>3
    <3>2. ~fails /\ ~inspection.broken /\ past = {registration}
      BY <1>2, <2>1, <2>4, <3>1
    <3>3. \E r \in past : r.objects = inspection.tool
      BY <1>2, <2>1, <3>2 DEF InspectionRead
    <3>4. inspection.tool = registration.objects
      BY <3>2, <3>3
    <3>5. gas = registration.objects
      BY <1>1, <3>2
    <3>6. QED BY <3>1, <3>4, <3>5
  <2>8. c.answer = "missing" /\ c.step = "answer" => c.broken \/ \E r \in past : ~r.objects
    BY <1>2, <2>1, <2>4
  <2>9. InspectionAnswer(c)
    BY <2>4, <2>5, <2>7, <2>8 DEF InspectionAnswer
  <2>10. QED BY <1>2, <2>1, <2>3, <2>4, <2>6, <2>9, InspectionProceeds
<1>7. ASSUME NEW step \in InspectionSteps, Proceed(GoOn(step)), inspection.step # "idle",
             step \in {"registry", "verifiers", "support", "record"},
             inspection.by = "leader" => step \in {"verifiers", "record"},
             inspection.by = "inspect_tool" => registration.objects,
             inspection.record = "none",
             step \in {"registry", "support"} => inspection.support = "none",
             step \in {"verifiers", "record"} /\ inspection.by = "inspect_tool" => Supported(inspection.support)
      PROVE  InspectionInv'
  <2>1. PICK c : c = GoOn(step)
    OBVIOUS
  <2>2. /\ c \in InspectionReads /\ c.step = step /\ c.by = inspection.by
        /\ c.support = inspection.support /\ c.record = inspection.record /\ c.since = inspection.since
    BY <1>2, <1>7, <2>1, InspectionFields DEF GoOn
  <2>3. InspectionRead(c) /\ InspectionAnswer(c)
    BY <1>7, <2>2 DEF InspectionRead, InspectionAnswer
  <2>4. QED BY <1>2, <1>7, <2>1, <2>2, <2>3, InspectionProceeds
<1>8. CASE FetchToolObject
  <2>1. inspection.step = "fetch"
    BY <1>8 DEF FetchToolObject, InspectionAt
  <2>2. /\ inspection.by = "inspect_tool" /\ registration.objects
        /\ inspection.support = "none" /\ inspection.record = "none"
    BY <1>2, <2>1 DEF InspectionRead, InspectionReads
  <2>3. CASE toolKind = "sui"
    <3>1. PICK c : c = Answers_("exists")
      OBVIOUS
    <3>2. /\ c \in InspectionReads /\ c.step = "answer" /\ c.by = inspection.by /\ c.answer = "exists"
          /\ c.support = inspection.support /\ c.record = inspection.record
          /\ c.since = inspection.since
      BY <1>2, <2>1, <3>1 DEF Answers_, InspectionReads, InspectionSteps
    <3>3. InspectionRead(c) /\ InspectionAnswer(c)
      BY <1>0, <1>2, <2>1, <2>2, <2>3, <3>2 DEF InspectionRead, InspectionAnswer
    <3>4. QED BY <1>2, <1>8, <2>1, <2>3, <3>1, <3>2, <3>3, InspectionProceeds DEF FetchToolObject
  <2>4. CASE toolKind # "sui"
    BY <1>7, <1>8, <2>1, <2>2, <2>4 DEF FetchToolObject, InspectionSteps
  <2>5. QED BY <2>3, <2>4
<1>9. CASE ReadToolRegistry
  <2>1. inspection.step = "registry"
    BY <1>9 DEF ReadToolRegistry, InspectionAt
  <2>2. /\ inspection.by = "inspect_tool" /\ registration.objects
        /\ inspection.support = "none" /\ inspection.record = "none"
    BY <1>2, <2>1 DEF InspectionRead, InspectionReads
  <2>3. CASE ~TableUsed("registered")
    <3>1. registration.support = "none"
      BY <1>0, <2>3 DEF TableUsed, Sound
    <3>2. Supported("none")
      BY <1>2, <2>1, <2>2, <3>1 DEF Supported
    <3>3. QED BY <1>7, <1>9, <2>1, <2>2, <2>3, <3>2 DEF ReadToolRegistry, InspectionSteps
  <2>4. CASE TableUsed("registered")
    <3>1. PICK c : c = [GoOn("registered") EXCEPT !.sized = TableUsed("supported")]
      OBVIOUS
    <3>2. TableUsed("supported") \in BOOLEAN /\ (~TableUsed("supported") => registration.support = "none")
      BY DEF TableUsed
    <3>3. /\ c \in InspectionReads /\ c.step = "registered" /\ c.by = inspection.by
          /\ c.sized = TableUsed("supported")
          /\ c.support = inspection.support /\ c.record = inspection.record
          /\ c.since = inspection.since
      BY <1>2, <2>1, <3>1, <3>2 DEF GoOn, InspectionReads, InspectionSteps
    <3>4. ~c.sized => Supported("none")
      BY <1>2, <2>1, <2>2, <3>2, <3>3 DEF Supported
    <3>5. InspectionRead(c) /\ InspectionAnswer(c)
      BY <2>2, <3>3, <3>4 DEF InspectionRead, InspectionAnswer
    <3>6. QED BY <1>2, <1>9, <2>1, <2>4, <3>1, <3>3, <3>5, InspectionProceeds DEF ReadToolRegistry
  <2>5. QED BY <2>3, <2>4
<1>10. CASE ReadRegistered
  <2>1. inspection.step = "registered"
    BY <1>10 DEF ReadRegistered, InspectionAt
  <2>2. /\ inspection.by = "inspect_tool" /\ registration.objects
        /\ inspection.support = "none" /\ inspection.record = "none"
        /\ ~inspection.sized => Supported("none")
    BY <1>2, <2>1 DEF InspectionRead, InspectionReads
  <2>3. ~registration.live => Supported("none")
    BY <1>0, <1>2, <2>1, <2>2 DEF Sound, Supported
  <2>4. \/ Proceed(GoOn("support"))
        \/ Proceed(GoOn("verifiers")) /\ (~registration.live \/ ~inspection.sized)
    BY <1>10 DEF ReadRegistered
  <2>5. QED BY <1>7, <2>1, <2>2, <2>3, <2>4 DEF InspectionSteps
<1>11. CASE ReadSupport
  <2>1. inspection.step = "support"
    BY <1>11 DEF ReadSupport, InspectionAt
  <2>2. /\ inspection.by = "inspect_tool" /\ registration.objects /\ inspection.record = "none"
    BY <1>2, <2>1 DEF InspectionRead, InspectionReads
  <2>3. PICK c : c = [GoOn("verifiers") EXCEPT !.support = registration.support]
    OBVIOUS
  <2>4. /\ c \in InspectionReads /\ c.step = "verifiers" /\ c.by = inspection.by
        /\ c.support = registration.support /\ c.record = inspection.record
        /\ c.since = inspection.since
    BY <1>1, <1>2, <2>1, <2>3 DEF GoOn, InspectionReads, InspectionSteps
  <2>5. Supported(c.support)
    BY <1>2, <2>1, <2>2, <2>4 DEF Supported
  <2>6. InspectionRead(c) /\ InspectionAnswer(c)
    BY <2>2, <2>4, <2>5 DEF InspectionRead, InspectionAnswer
  <2>7. QED BY <1>2, <1>11, <2>1, <2>3, <2>4, <2>6, InspectionProceeds DEF ReadSupport
<1>12. ASSUME inspection.step \in {"verifiers", "record"}, Proceed(Conclude(RecordOf(registration)))
       PROVE  InspectionInv'
  <2> DEFINE record == RecordOf(registration)
             read == [inspection EXCEPT !.step = "answer", !.record = record]
  <2>1. /\ InspectionRead(inspection) /\ inspection \in InspectionReads
        /\ inspection.by = "inspect_tool" => Supported(inspection.support)
        /\ registration \in past
    BY <1>2, <1>12 DEF InspectionRead
  <2>2. PICK c : c = Conclude(record)
    OBVIOUS
  <2>3. /\ c \in InspectionReads /\ c.by = inspection.by /\ c.record = record
        /\ c.support = inspection.support /\ c.since = inspection.since
        /\ \/ /\ c.step = "answer" /\ c.by = "inspect_tool"
              /\ c.answer = IF Agree(c.support, record) THEN "exists" ELSE "inconsistent"
           \/ c.step = "answer" /\ c.by = "leader" /\ c.answer = "missing" /\ record = "none"
           \/ c.step = "objects" /\ c.by = "leader" /\ record # "none"
    <3>1. read \in InspectionReads
      BY <1>3, <2>1 DEF InspectionReads, InspectionSteps
    <3> HIDE DEF record
    <3>2. CASE inspection.by = "inspect_tool"
      <4>1. c = [read EXCEPT !.answer = IF Agree(inspection.support, record) THEN "exists"
                                        ELSE "inconsistent"]
        BY <2>2, <3>2 DEF Conclude
      <4>2. QED BY <1>3, <2>1, <3>1, <3>2, <4>1 DEF InspectionReads, InspectionSteps
    <3>3. CASE inspection.by = "leader" /\ record = "none"
      <4>1. c = [read EXCEPT !.answer = "missing"]
        BY <2>2, <3>3 DEF Conclude
      <4>2. QED BY <1>3, <2>1, <3>1, <3>3, <4>1 DEF InspectionReads, InspectionSteps
    <3>4. CASE inspection.by = "leader" /\ record # "none"
      <4>1. c = [read EXCEPT !.step = "objects"]
        BY <2>2, <3>4 DEF Conclude
      <4>2. QED BY <1>3, <2>1, <3>1, <3>4, <4>1 DEF InspectionReads, InspectionSteps
    <3>5. QED BY <2>1, <3>2, <3>3, <3>4 DEF InspectionReads
  <2>4. Recorded(record)
    BY <2>1 DEF Recorded
  <2>5. InspectionRead(c)
    BY <2>3, <2>4 DEF InspectionRead
  <2>6. c.answer = "exists" /\ c.by = "inspect_tool" =>
            \E r \in past :
               /\ r.objects /\ r.support = c.support
               /\ c.record # "none" => RecordOf(r) = c.record
    <3>1. SUFFICES ASSUME Agree(c.support, c.record), Supported(c.support)
                   PROVE  \E r \in past :
                             /\ r.objects /\ r.support = c.support
                             /\ c.record # "none" => RecordOf(r) = c.record
      BY <2>1, <2>3
    <3>2. PICK r \in past : r.objects /\ r.support = c.support
      BY <3>1 DEF Supported
    <3>3. c.record # "none" => RecordOf(r) = c.record
      BY <3>1, <3>2 DEF Agree, RecordOf
    <3>4. QED BY <3>2, <3>3
  <2>7. c.answer = "inconsistent" /\ c.by = "inspect_tool" => c.since < turns
    <3>1. SUFFICES ASSUME ~Agree(c.support, record), Supported(c.support), c.since = turns
                   PROVE  FALSE
      BY <1>2, <1>12, <2>1, <2>3
    <3>2. past = {registration}
      BY <1>2, <1>12, <2>3, <3>1
    <3>3. c.support = registration.support
      BY <3>1, <3>2 DEF Supported
    <3>4. QED BY <3>1, <3>3 DEF Agree, RecordOf
  <2>8. InspectionAnswer(c)
    BY <2>3, <2>4, <2>6, <2>7 DEF InspectionAnswer
  <2>9. QED BY <1>2, <1>12, <2>2, <2>3, <2>5, <2>8, InspectionProceeds
<1>13. CASE ReadVerifierRegistry
  <2>1. inspection.step = "verifiers"
    BY <1>13 DEF ReadVerifierRegistry, InspectionAt
  <2>2. CASE TableUsed("external")
    <3>1. /\ inspection.record = "none"
          /\ inspection.by = "inspect_tool" => registration.objects /\ Supported(inspection.support)
      BY <1>2, <2>1 DEF InspectionRead
    <3>2. QED BY <1>7, <1>13, <2>1, <2>2, <3>1 DEF ReadVerifierRegistry, InspectionSteps
  <2>3. CASE ~TableUsed("external")
    <3>1. RecordOf(registration) = "none"
      BY <2>3 DEF TableUsed
    <3>2. QED BY <1>12, <1>13, <2>1, <2>3, <3>1 DEF ReadVerifierRegistry
  <2>4. QED BY <2>2, <2>3
<1>14. CASE ReadRecord
  BY <1>12, <1>14 DEF ReadRecord, InspectionAt
<1>15. ASSUME NEW answer \in {"exists", "failed"}, NEW c, Proceed(c), inspection.step \notin {"idle", "answer"},
              c \in InspectionReads, c.step = "answer", c.answer = answer, c.by = inspection.by,
              c.support = inspection.support, c.record = inspection.record,
              c.since = inspection.since,
              answer = "exists" => c.by = "leader" /\ Recorded(c.record)
       PROVE  InspectionInv'
  <2>1. InspectionRead(c) /\ InspectionAnswer(c)
    BY <1>15 DEF InspectionRead, InspectionAnswer, Recorded
  <2>2. QED BY <1>2, <1>15, <2>1, InspectionProceeds
<1>16. CASE ReadVerifierObjects
  <2>1. inspection.step = "objects" /\ Proceed(Answers_("exists"))
    BY <1>16 DEF ReadVerifierObjects, InspectionAt
  <2>2. inspection.by = "leader" /\ Recorded(inspection.record)
    BY <1>2, <2>1 DEF InspectionRead
  <2>3. PICK c : c = Answers_("exists")
    OBVIOUS
  <2>4. /\ c \in InspectionReads /\ c.step = "answer" /\ c.by = inspection.by /\ c.answer = "exists"
        /\ c.support = inspection.support /\ c.record = inspection.record
        /\ c.since = inspection.since
    BY <1>2, <2>1, <2>3 DEF Answers_, InspectionReads, InspectionSteps
  <2>5. QED BY <1>15, <2>1, <2>2, <2>3, <2>4
<1>17. CASE InspectionFails
  <2>1. inspection.step \notin {"idle", "answer"}
    BY <1>17 DEF InspectionFails
  <2>2. PICK c : c = [Answers_("failed") EXCEPT !.broken = TRUE]
    OBVIOUS
  <2>3. /\ c \in InspectionReads /\ c.step = "answer" /\ c.by = inspection.by /\ c.answer = "failed"
        /\ c.support = inspection.support /\ c.record = inspection.record
        /\ c.since = inspection.since
    BY <1>2, <2>1, <2>2 DEF Answers_, InspectionReads, InspectionSteps
  <2>4. QED BY <1>15, <1>17, <2>1, <2>2, <2>3 DEF InspectionFails
<1>18. CASE TakeInspection
  BY <1>0, <1>18 DEF TakeInspection, InspectionInv, RegistrationTyped, PastWhole
<1>19. ASSUME NEW support \in Supports, RegisterThisTool(support) PROVE InspectionInv'
  <2> DEFINE r == [objects |-> TRUE, live |-> TRUE, support |-> support]
  <2>1. r \in Registrations /\ Sound(r) /\ r.support = support /\ r.objects
    BY DEF Registrations, Sound
  <2> HIDE DEF r
  <2>2. TurnTo(r) /\ (toolKind = "sui" => support = "none")
    BY <1>19 DEF RegisterThisTool, r
  <2>3. QED BY <2>1, <2>2, RegistrationTurns
<1>20. ASSUME NEW support \in Supports, ConfigureVerifier(support) PROVE InspectionInv'
  <2>1. PICK r : r = [registration EXCEPT !.support = support]
    OBVIOUS
  <2>2. registration.live /\ toolKind = "http" /\ TurnTo(r)
    BY <1>20, <2>1 DEF ConfigureVerifier
  <2>3. r \in Registrations /\ Sound(r) /\ r.objects
    BY <1>0, <2>1, <2>2 DEF Registrations, Sound
  <2>4. QED BY <2>2, <2>3, RegistrationTurns
<1>21. CASE UnregisterThisTool
  <2>1. PICK r : r = [registration EXCEPT !.live = FALSE, !.support = "none"]
    OBVIOUS
  <2>2. r \in Registrations /\ Sound(r) /\ r.objects = registration.objects /\ r.support = "none"
    BY <1>0, <2>1 DEF Registrations, Sound, Supports
  <2>3. QED BY <1>21, <2>1, <2>2, RegistrationTurns DEF UnregisterThisTool
<1>22. CASE UNCHANGED inspectionVars
  BY <1>22 DEF inspectionVars, InspectionInv, RegistrationTyped, PastWhole, InspectionRead,
               InspectionAnswer, Supported, Recorded
<1>23. QED BY <1>4, <1>5, <1>6, <1>8, <1>9, <1>10, <1>11, <1>13, <1>14, <1>16, <1>17, <1>18, <1>19,
     <1>20,
     <1>21, <1>22 DEF InspectionNext

LEMMA InspectionsTrue == InspectionInv => InspectionTrue
BY DEF InspectionInv, InspectionAnswer, InspectionTrue, InspectionAt, NoInspection, Recorded
--------------------------------------------------------------------------------
(* The skill that an execution goes to. *)
Snapshots == UNION {[S -> SkillRecords] : S \in SUBSET TapSkills}
FoundTargets == [ok : {TRUE}, skill : TapSkills, record : SkillRecords]
Resolutions_ ==
    [step : {"tables", "default", "answer"},
     by : {"revision", "active", "target", "default", "execute"},
     wanted : TapSkills, revision : Nat, snapshot : Snapshots,
     target : {NoTarget} \cup FoundTargets, since : Nat, broken : BOOLEAN]

RegistryTyped ==
    /\ skillRecords \in [TapSkills -> SkillRecords]
    /\ defaultSkill \in TapSkills \cup {NoSkill}
    /\ sinceSkills \in [TapSkills -> SUBSET SkillRecords]
    /\ shifts \in Nat

(* The history of the call holds what is there now. *)
RegistrySeen ==
    /\ \A s \in TapSkills : skillRecords[s] \in sinceSkills[s]
    /\ defaultSkill \in sinceDefaults
    /\ resolution.since <= shifts

(* Each record of the snapshot was one of the skill's since the call began,
   and is the one it has if nothing has changed. *)
SnapshotSeen ==
    /\ \A s \in DOMAIN resolution.snapshot :
         /\ resolution.snapshot[s] \in sinceSkills[s]
         /\ resolution.since = shifts => resolution.snapshot[s] = skillRecords[s]
    /\ resolution.step = "default" => DOMAIN resolution.snapshot = TapSkills

TargetsInv ==
    /\ RegistryTyped
    /\ \/ resolution = NoResolution
       \/ resolution \in Resolutions_ /\ RegistrySeen /\ SnapshotSeen /\ TargetsTrue

LEMMA SnapshotShape ==
    ASSUME NEW snapshot
    PROVE  snapshot \in Snapshots <=>
             /\ snapshot = [s \in DOMAIN snapshot |-> snapshot[s]]
             /\ DOMAIN snapshot \in SUBSET TapSkills
             /\ \A s \in DOMAIN snapshot : snapshot[s] \in SkillRecords
<1>1. ASSUME snapshot \in Snapshots
      PROVE  /\ snapshot = [s \in DOMAIN snapshot |-> snapshot[s]]
             /\ DOMAIN snapshot \in SUBSET TapSkills
             /\ \A s \in DOMAIN snapshot : snapshot[s] \in SkillRecords
  <2>1. PICK S \in SUBSET TapSkills : snapshot \in [S -> SkillRecords]
    BY <1>1 DEF Snapshots
  <2>2. QED BY <2>1
<1>2. ASSUME snapshot = [s \in DOMAIN snapshot |-> snapshot[s]],
             DOMAIN snapshot \in SUBSET TapSkills,
             \A s \in DOMAIN snapshot : snapshot[s] \in SkillRecords
      PROVE  snapshot \in Snapshots
  <2>1. snapshot \in [DOMAIN snapshot -> SkillRecords]
    BY <1>2
  <2>2. QED BY <1>2, <2>1 DEF Snapshots
<1>3. QED BY <1>1, <1>2

LEMMA TargetsStart == AgentReadInit \/ TargetsStill => TargetsInv
<1>1. SUFFICES ASSUME AgentReadInit \/ TargetsStill PROVE TargetsInv
  OBVIOUS
<1>2. /\ defaultSkill \in TapSkills \cup {NoSkill} /\ resolution = NoResolution /\ shifts = 0
      /\ sinceSkills = [s \in TapSkills |-> {}]
  BY <1>1 DEF AgentReadInit, TargetsStill
<1>3. skillRecords \in [TapSkills -> SkillRecords]
  <2>1. CASE AgentReadInit
    BY <2>1 DEF AgentReadInit, FirstRecords
  <2>2. CASE TargetsStill
    BY <2>2, AgentReadsAssumption DEF TargetsStill, SkillRecords
  <2>3. QED BY <1>1, <2>1, <2>2
<1>4. QED BY <1>2, <1>3 DEF TargetsInv, RegistryTyped

(* What is resolved from a whole snapshot. *)
LEMMA ResolvedSound ==
    ASSUME TargetsInv, resolution # NoResolution, DOMAIN resolution.snapshot = TapSkills,
           NEW d, ReadsDefault(resolution.by) => d = defaultSkill,
           NEW target, target = Resolved(resolution, d)
    PROVE  /\ target \in {NoTarget} \cup FoundTargets
           /\ IF target.ok THEN FitsQuestion(target) ELSE NoneForCause
<1> DEFINE now == resolution.since = shifts
           shot == resolution.snapshot
<1>1. /\ RegistryTyped /\ RegistrySeen /\ SnapshotSeen /\ resolution \in Resolutions_
      /\ resolution.wanted \in TapSkills /\ Configured \in TapSkills /\ NoSkill \notin TapSkills
      /\ resolution.by \in {"revision", "active", "target", "default", "execute"}
      /\ ~NoTarget.ok /\ NoTarget.ok \in BOOLEAN
  BY AgentReadsAssumption DEF TargetsInv, Resolutions_, NoTarget
<1>2. \A s \in TapSkills :
         /\ shot[s] \in SkillRecords /\ shot[s] \in sinceSkills[s]
         /\ now => shot[s] = skillRecords[s]
  BY <1>1, SnapshotShape DEF SnapshotSeen, Resolutions_
<1>3. \A s \in TapSkills :
         /\ TargetOf(s, shot) \in FoundTargets /\ TargetOf(s, shot).ok
         /\ TargetOf(s, shot).skill = s /\ TargetOf(s, shot).record = shot[s]
  BY <1>2 DEF TargetOf, FoundTargets
<1>4. resolution.since < shifts \/ now
  BY <1>1 DEF RegistrySeen, RegistryTyped, Resolutions_
<1>5. \A s \in TapSkills : shot[s].active \in BOOLEAN /\ shot[s].sound \in BOOLEAN /\ shot[s].runtime \in BOOLEAN
  BY <1>2 DEF SkillRecords
<1>6. ASSUME NEW s \in TapSkills \cup {NoSkill}
      PROVE  \/ /\ s \in TapSkills /\ shot[s].active /\ shot[s].sound
                /\ resolve_active_tap_skill_execution_target(s, shot) = TargetOf(s, shot)
             \/ /\ ~(s \in TapSkills /\ shot[s].active /\ shot[s].sound)
                /\ resolve_active_tap_skill_execution_target(s, shot) = NoTarget
  BY <1>1, <1>6
     DEF resolve_active_tap_skill_execution_target, active_skill_revision_record, ActiveIn
<1>7. ASSUME NEW s \in TapSkills \cup {NoSkill}
      PROVE  \/ /\ s \in TapSkills /\ Executor(shot[s])
                /\ resolve_default_tap_dag_executor(s, shot) = TargetOf(s, shot)
             \/ /\ ~(s \in TapSkills /\ Executor(shot[s]))
                /\ resolve_default_tap_dag_executor(s, shot) = NoTarget
  BY <1>1, <1>3, <1>6 DEF resolve_default_tap_dag_executor, Executor
<1> HIDE DEF shot
<1>8. CASE resolution.by = "revision"
  <2>1. target = skill_revision_record(resolution.wanted, resolution.revision, shot)
    BY <1>8 DEF Resolved, shot
  <2>2. CASE (\A s \in TapSkills : shot[s].sound) /\ shot[resolution.wanted].revision = resolution.revision
    <3>1. target = TargetOf(resolution.wanted, shot)
      BY <2>1, <2>2 DEF skill_revision_record, shot
    <3>2. QED BY <1>1, <1>2, <1>3, <1>8, <2>2, <3>1 DEF FitsQuestion
  <2>3. CASE ~((\A s \in TapSkills : shot[s].sound) /\ shot[resolution.wanted].revision = resolution.revision)
    <3>1. target = NoTarget
      BY <2>1, <2>3 DEF skill_revision_record, shot
    <3>2. NoneForCause
      BY <1>1, <1>2, <1>4, <1>8, <2>3 DEF NoneForCause
    <3>3. QED BY <1>1, <3>1, <3>2
  <2>4. QED BY <2>2, <2>3
<1>9. CASE resolution.by \in {"active", "target"}
  <2>1. target = resolve_active_tap_skill_execution_target(resolution.wanted, shot)
    BY <1>9 DEF Resolved, resolve_active_tap_skill_execution_target, shot
  <2>2. CASE shot[resolution.wanted].active /\ shot[resolution.wanted].sound
    <3>1. target = TargetOf(resolution.wanted, shot)
      BY <1>1, <1>6, <2>1, <2>2
    <3>2. /\ target.ok /\ target \in FoundTargets /\ target.skill = resolution.wanted
          /\ target.record = shot[resolution.wanted]
      BY <1>1, <1>3, <3>1
    <3>3. FitsQuestion(target)
      BY <1>1, <1>2, <1>9, <2>2, <3>2 DEF FitsQuestion
    <3>4. QED BY <3>2, <3>3
  <2>3. CASE ~(shot[resolution.wanted].active /\ shot[resolution.wanted].sound)
    <3>1. NoneForCause
      BY <1>1, <1>2, <1>4, <1>9, <2>3 DEF NoneForCause
    <3>2. target = NoTarget
      BY <1>1, <1>6, <2>1, <2>3
    <3>3. QED BY <1>1, <3>1, <3>2
  <2>4. QED BY <2>2, <2>3
<1>10. resolution.by \in {"default", "execute"} =>
           d = defaultSkill /\ d \in TapSkills \cup {NoSkill} /\ d \in sinceDefaults
  BY <1>1 DEF ReadsDefault, RegistryTyped, RegistrySeen
<1>11. CASE resolution.by = "default"
  <2>1. target = resolve_default_tap_dag_executor(d, shot)
    BY <1>11 DEF Resolved, shot
  <2>2. CASE d \in TapSkills /\ Executor(shot[d])
    <3>1. target = TargetOf(d, shot)
      BY <1>7, <2>1, <2>2
    <3>2. target.ok /\ target \in FoundTargets /\ target.skill = d /\ target.record = shot[d]
      BY <1>3, <2>2, <3>1
    <3>3. FitsQuestion(target)
      BY <1>2, <1>10, <1>11, <2>2, <3>2 DEF FitsQuestion, Executor
    <3>4. QED BY <3>2, <3>3
  <2>3. CASE ~(d \in TapSkills /\ Executor(shot[d]))
    <3>1. NoneForCause
      BY <1>2, <1>4, <1>10, <1>11, <2>3 DEF NoneForCause
    <3>2. target = NoTarget
      BY <1>7, <1>10, <1>11, <2>1, <2>3
    <3>3. QED BY <1>1, <3>1, <3>2
  <2>4. QED BY <2>2, <2>3
<1>12. CASE resolution.by = "execute"
  <2>1. target = resolve_default_agent_dag_executor(d, shot)
    BY <1>12 DEF Resolved, shot
  <2>2. CASE Executor(shot[Configured])
    <3>1. target = TargetOf(Configured, shot)
      BY <1>1, <1>3, <1>6, <2>1, <2>2 DEF resolve_default_agent_dag_executor, Executor
    <3>2. QED BY <1>1, <1>2, <1>3, <1>12, <2>2, <3>1 DEF FitsQuestion, Executor
  <2>3. CASE ~Executor(shot[Configured])
    <3>1. target = resolve_default_tap_dag_executor(d, shot)
      BY <1>1, <1>3, <1>6, <2>1, <2>3 DEF resolve_default_agent_dag_executor, Executor
    <3>2. CASE d \in TapSkills /\ Executor(shot[d])
      <4>1. target = TargetOf(d, shot)
        BY <1>7, <3>1, <3>2
      <4>2. \E r \in sinceSkills[Configured] : ~Executor(r)
        BY <1>1, <1>2, <2>3
      <4>3. QED BY <1>2, <1>3, <1>10, <1>12, <3>2, <4>1, <4>2 DEF FitsQuestion, Executor
    <3>3. CASE ~(d \in TapSkills /\ Executor(shot[d]))
      <4>1. NoneForCause
        BY <1>1, <1>2, <1>4, <1>10, <1>12, <2>3, <3>3 DEF NoneForCause
      <4>2. target = NoTarget
        BY <1>7, <1>10, <1>12, <3>1, <3>3
      <4>3. QED BY <1>1, <4>1, <4>2
    <3>4. QED BY <3>2, <3>3
  <2>4. QED BY <2>2, <2>3
<1>13. QED BY <1>1, <1>8, <1>9, <1>11, <1>12

LEMMA TargetsKept ==
    ASSUME TargetsInv, [AgentReadNext]_agentReadVars
    PROVE  TargetsInv'
<1>0. RegistryTyped /\ Configured \in TapSkills /\ NoSkill \notin TapSkills /\ MaxShifts \in Nat
  BY AgentReadsAssumption DEF TargetsInv
<1>1. resolution.step # "idle" =>
          /\ resolution # NoResolution /\ resolution \in Resolutions_
          /\ RegistrySeen /\ SnapshotSeen /\ TargetsTrue
  BY DEF TargetsInv, NoResolution
<1>2. ASSUME NEW by \in {"revision", "active", "target", "default", "execute"},
             NEW revision \in 0..1, BeginResolution(by, Configured, revision)
      PROVE  TargetsInv'
  <2>1. PICK snapshot : snapshot = [t \in {} |-> NoSkill]
    OBVIOUS
  <2>2. snapshot \in Snapshots /\ DOMAIN snapshot = {}
    BY <2>1, SnapshotShape
  <2>3. PICK c : c = [step |-> "tables", by |-> by, wanted |-> Configured, revision |-> revision,
                      snapshot |-> snapshot, target |-> NoTarget, since |-> shifts, broken |-> FALSE]
    OBVIOUS
  <2>4. /\ c \in Resolutions_ /\ c.step = "tables" /\ c.since = shifts /\ DOMAIN c.snapshot = {}
    BY <1>0, <2>2, <2>3 DEF Resolutions_, RegistryTyped
  <2>5. /\ resolution' = c /\ UNCHANGED <<skillRecords, defaultSkill, shifts>>
        /\ sinceSkills' = [t \in TapSkills |-> {skillRecords[t]}] /\ sinceDefaults' = {defaultSkill}
    BY <1>2, <2>1, <2>3 DEF BeginResolution
  <2>6. RegistryTyped'
    BY <1>0, <2>5 DEF RegistryTyped
  <2>7. RegistrySeen' /\ SnapshotSeen' /\ TargetsTrue'
    BY <1>0, <2>4, <2>5 DEF RegistrySeen, SnapshotSeen, TargetsTrue, ResolutionAt,
       RegistryTyped
  <2>8. QED BY <2>4, <2>5, <2>6, <2>7 DEF TargetsInv
<1>3. ASSUME NEW c \in Resolutions_, Keeps(c), resolution.step # "idle",
             c.since = resolution.since,
             \A s \in DOMAIN c.snapshot :
                /\ c.snapshot[s] \in sinceSkills[s]
                /\ c.since = shifts => c.snapshot[s] = skillRecords[s],
             c.step = "default" => DOMAIN c.snapshot = TapSkills,
             TargetsTrue'
      PROVE  TargetsInv'
  <2>1. resolution' = c /\ UNCHANGED <<skillRecords, defaultSkill, sinceSkills, sinceDefaults, shifts>>
    BY <1>3 DEF Keeps
  <2>2. RegistryTyped' /\ RegistrySeen' /\ SnapshotSeen'
    BY <1>1, <1>3, <2>1 DEF TargetsInv, RegistryTyped, RegistrySeen, SnapshotSeen
  <2>3. QED BY <1>3, <2>1, <2>2 DEF TargetsInv
<1>4. ASSUME NEW s \in TapSkills, ReadSkills(s) PROVE TargetsInv'
  <2>1. resolution.step = "tables" /\ resolution.step # "idle"
    BY <1>4 DEF ReadSkills, ResolutionAt
  <2> DEFINE shot == resolution.snapshot
  <2>2. /\ shot = [t \in DOMAIN shot |-> shot[t]]
        /\ DOMAIN shot \in SUBSET TapSkills /\ \A t \in DOMAIN shot : shot[t] \in SkillRecords
    BY <1>1, <2>1, SnapshotShape DEF Resolutions_
  <2>3. PICK snapshot : snapshot = [t \in DOMAIN shot \cup {s} |-> IF t = s THEN skillRecords[s] ELSE shot[t]]
    OBVIOUS
  <2>4. snapshot \in Snapshots
    <3>1. /\ DOMAIN snapshot = DOMAIN shot \cup {s}
          /\ \A t \in DOMAIN snapshot : snapshot[t] = IF t = s THEN skillRecords[s] ELSE shot[t]
          /\ snapshot = [t \in DOMAIN snapshot |-> snapshot[t]]
      BY <2>3
    <3>2. skillRecords[s] \in SkillRecords
      BY <1>0 DEF RegistryTyped
    <3>3. QED BY <2>2, <3>1, <3>2, SnapshotShape
  <2>5. PICK c : c = [resolution EXCEPT !.snapshot = snapshot]
    OBVIOUS
  <2>6. Keeps(c)
    BY <1>4, <2>3, <2>5 DEF ReadSkills
  <2>7. /\ c \in Resolutions_ /\ c.snapshot = snapshot /\ c.since = resolution.since
        /\ c.step = "tables" /\ c.broken = resolution.broken
    BY <1>1, <2>1, <2>4, <2>5 DEF Resolutions_
  <2>8. \A t \in DOMAIN c.snapshot :
          /\ c.snapshot[t] \in sinceSkills[t]
          /\ c.since = shifts => c.snapshot[t] = skillRecords[t]
    <3>1. /\ \A t \in DOMAIN shot : /\ shot[t] \in sinceSkills[t]
                                    /\ resolution.since = shifts => shot[t] = skillRecords[t]
          /\ skillRecords[s] \in sinceSkills[s]
      BY <1>1, <2>1 DEF SnapshotSeen, RegistrySeen
    <3>2. QED BY <2>3, <2>7, <3>1
  <2>9. TargetsTrue'
    BY <2>6, <2>7 DEF Keeps, TargetsTrue, ResolutionAt
  <2>10. QED BY <1>3, <2>1, <2>6, <2>7, <2>8, <2>9
<1>5. ASSUME resolution.step # "idle", DOMAIN resolution.snapshot = TapSkills, NEW d,
             ReadsDefault(resolution.by) => d = defaultSkill,
             Keeps(Answer_(Resolved(resolution, d)))
      PROVE  TargetsInv'
  <2>1. PICK target : target = Resolved(resolution, d)
    OBVIOUS
  <2>2. /\ target \in {NoTarget} \cup FoundTargets
        /\ IF target.ok THEN FitsQuestion(target) ELSE NoneForCause
    BY <1>1, <1>5, <2>1, ResolvedSound
  <2>3. PICK c : c = Answer_(target)
    OBVIOUS
  <2>4. /\ c \in Resolutions_ /\ c.step = "answer" /\ c.target = target
        /\ c.by = resolution.by /\ c.wanted = resolution.wanted /\ c.revision = resolution.revision
        /\ c.snapshot = resolution.snapshot /\ c.since = resolution.since /\ c.broken = resolution.broken
    BY <1>1, <1>5, <2>2, <2>3 DEF Answer_, Resolutions_
  <2>5. Keeps(c)
    BY <1>5, <2>1, <2>3
  <2>6. resolution' = c /\ UNCHANGED <<skillRecords, defaultSkill, sinceSkills, sinceDefaults, shifts>>
    BY <2>5 DEF Keeps
  <2>7. FitsQuestion(target) => FitsQuestion(target)'
    BY <2>4, <2>6 DEF FitsQuestion
  <2>8. NoneForCause => NoneForCause'
    BY <2>4, <2>6 DEF NoneForCause
  <2>9. TargetsTrue'
    BY <2>2, <2>4, <2>6, <2>7, <2>8 DEF TargetsTrue
  <2>10. QED BY <1>1, <1>3, <1>5, <2>4, <2>5, <2>9 DEF SnapshotSeen
<1>6. CASE TablesRead
  <2>1. resolution.step = "tables" /\ DOMAIN resolution.snapshot = TapSkills
    BY <1>6 DEF TablesRead, ResolutionAt
  <2>2. CASE ~ReadsDefault(resolution.by)
    BY <1>5, <1>6, <2>1, <2>2 DEF TablesRead
  <2>3. CASE ReadsDefault(resolution.by)
    <3>1. PICK c : c = [resolution EXCEPT !.step = "default"]
      OBVIOUS
    <3>2. Keeps(c)
      BY <1>6, <2>3, <3>1 DEF TablesRead
    <3>3. /\ c \in Resolutions_ /\ c.step = "default" /\ c.since = resolution.since
          /\ c.snapshot = resolution.snapshot
      BY <1>1, <2>1, <3>1 DEF Resolutions_
    <3>4. TargetsTrue'
      BY <3>2, <3>3 DEF Keeps, TargetsTrue, ResolutionAt
    <3>5. QED BY <1>1, <1>3, <2>1, <3>2, <3>3, <3>4 DEF SnapshotSeen
  <2>4. QED BY <2>2, <2>3
<1>7. CASE ReadDefault
  <2>1. resolution.step = "default" /\ Keeps(Answer_(Resolved(resolution, defaultSkill)))
    BY <1>7 DEF ReadDefault, ResolutionAt
  <2>2. DOMAIN resolution.snapshot = TapSkills
    BY <1>1, <2>1 DEF SnapshotSeen
  <2>3. QED BY <1>5, <2>1, <2>2
<1>8. CASE ResolutionFails
  <2>1. resolution.step \in {"tables", "default"}
    BY <1>8 DEF ResolutionFails
  <2>2. PICK c : c = [Answer_(NoTarget) EXCEPT !.broken = TRUE]
    OBVIOUS
  <2>3. Keeps(c)
    BY <1>8, <2>2 DEF ResolutionFails
  <2>4. /\ c \in Resolutions_ /\ c.step = "answer" /\ c.target = NoTarget /\ c.broken
        /\ c.snapshot = resolution.snapshot /\ c.since = resolution.since
    BY <1>1, <2>1, <2>2 DEF Answer_, Resolutions_
  <2>5. TargetsTrue'
    BY <2>3, <2>4 DEF Keeps, TargetsTrue, ResolutionAt, NoneForCause, NoTarget
  <2>6. QED BY <1>1, <1>3, <2>1, <2>3, <2>4, <2>5 DEF SnapshotSeen
<1>9. CASE TakeTarget
  BY <1>0, <1>9 DEF TakeTarget, TargetsInv, RegistryTyped
<1>10. ASSUME Shift, resolution' = resolution, RegistryTyped',
              \A s \in TapSkills : sinceSkills[s] \subseteq sinceSkills'[s] /\ skillRecords'[s] \in sinceSkills'[s],
              defaultSkill' \in sinceDefaults'
       PROVE  TargetsInv'
  <2>1. /\ resolution.step \in {"tables", "default"} /\ shifts' = shifts + 1
        /\ resolution.since <= shifts /\ resolution.since \in Nat /\ shifts \in Nat
    BY <1>0, <1>1, <1>10 DEF Shift, RegistrySeen, Resolutions_, RegistryTyped
  <2>2. RegistrySeen' /\ TargetsTrue'
    BY <1>10, <2>1 DEF RegistrySeen, TargetsTrue, ResolutionAt
  <2>3. DOMAIN resolution.snapshot \subseteq TapSkills
    BY <1>1, <2>1, SnapshotShape DEF Resolutions_
  <2>4. SnapshotSeen'
    BY <1>1, <1>10, <2>1, <2>3 DEF SnapshotSeen
  <2>5. QED BY <1>1, <1>10, <2>1, <2>2, <2>4 DEF TargetsInv
<1>11. ASSUME NEW s \in TapSkills, ChangeDefault(s) PROVE TargetsInv'
  <2>1. /\ Shift /\ resolution' = resolution /\ defaultSkill' = s /\ sinceDefaults' = sinceDefaults \cup {s}
        /\ UNCHANGED <<skillRecords, sinceSkills>> /\ shifts' = shifts + 1 /\ resolution.step # "idle"
    BY <1>11 DEF ChangeDefault, Shift
  <2>2. RegistryTyped'
    BY <1>0, <2>1 DEF RegistryTyped
  <2>3. QED BY <1>1, <1>10, <2>1, <2>2 DEF RegistrySeen
<1>12. ASSUME NEW s \in TapSkills, NEW active \in BOOLEAN, NEW runtime \in BOOLEAN,
              NEW d \in {defaultSkill} \cup TapSkills, ChangeSkill(s, active, runtime, d)
       PROVE  TargetsInv'
  <2>1. PICK r : r = [skillRecords[s] EXCEPT !.active = active, !.runtime = runtime, !.revision = shifts']
    OBVIOUS
  <2>2. /\ Shift /\ resolution' = resolution
        /\ defaultSkill' = d /\ sinceDefaults' = sinceDefaults \cup {d}
        /\ skillRecords' = [skillRecords EXCEPT ![s] = r]
        /\ sinceSkills' = [sinceSkills EXCEPT ![s] = @ \cup {skillRecords'[s]}]
        /\ shifts < MaxShifts /\ shifts' = shifts + 1 /\ resolution.step # "idle"
    BY <1>12, <2>1 DEF ChangeSkill, Shift
  <2>3. r \in SkillRecords
    <3>1. skillRecords[s] \in SkillRecords /\ shifts' \in 0 .. MaxShifts
      BY <1>0, <2>2 DEF RegistryTyped
    <3>2. QED BY <2>1, <3>1 DEF SkillRecords
  <2>4. /\ skillRecords' \in [TapSkills -> SkillRecords] /\ skillRecords'[s] = r
        /\ \A t \in TapSkills : t # s => skillRecords'[t] = skillRecords[t] /\ sinceSkills'[t] = sinceSkills[t]
        /\ sinceSkills'[s] = sinceSkills[s] \cup {r}
        /\ sinceSkills' \in [TapSkills -> SUBSET SkillRecords]
    BY <1>0, <2>2, <2>3 DEF RegistryTyped
  <2>5. RegistryTyped'
    BY <1>0, <2>2, <2>4 DEF RegistryTyped
  <2>6. \A t \in TapSkills : sinceSkills[t] \subseteq sinceSkills'[t] /\ skillRecords'[t] \in sinceSkills'[t]
    BY <1>1, <2>2, <2>4 DEF RegistrySeen
  <2>7. QED BY <1>1, <1>10, <2>2, <2>5, <2>6 DEF RegistrySeen
<1>13. CASE UNCHANGED agentReadVars
  BY <1>13 DEF agentReadVars, TargetsInv, RegistryTyped, RegistrySeen, SnapshotSeen,
     TargetsTrue,
               ResolutionAt, FitsQuestion, NoneForCause
<1>14. QED BY <1>2, <1>4, <1>6, <1>7, <1>8, <1>9, <1>11, <1>12, <1>13 DEF AgentReadNext
--------------------------------------------------------------------------------
(* What the crawler answers. *)
FieldContents == [child : Nat \ {0}, val : Nat]
Listed == [id : Ids, entry : FieldContents]
Listings ==
    [phase : {"list", "fetch"}, method : CrawlMethods, token : Nat, refs : Seq(Listed),
     before : SUBSET Ids, since : Nat]

TableTyped ==
    /\ fieldKind \in [Ids -> {"ours", "alien", "twin"}] /\ fieldKind[Wanted] = "ours"
    /\ fieldTable \in [Ids -> FieldContents \cup {NoField}]
    /\ edits \in Nat /\ edits <= MaxEdits

(* The history of a call holds what is there now, and what is still around. *)
TableSeen ==
    /\ \A i \in Present(fieldTable) : <<i, fieldTable[i]>> \in wasThere
    /\ strays \subseteq wasThere /\ strays \subseteq Ids \X FieldContents
    /\ stayed \subseteq Present(fieldTable)

(* What was listed was there, and is if nothing has changed. *)
RefsSeen(c) ==
    \A n \in DOMAIN c.refs :
        /\ <<c.refs[n].id, c.refs[n].entry>> \in wasThere
        /\ c.since = edits => c.refs[n].entry = fieldTable[c.refs[n].id]

(* No entry that stayed was passed over, up to an ID. *)
SeenUpTo(c, limit) ==
    IF c.method.fetch = "found" THEN Wanted \in stayed => limit < Wanted
    ELSE \A i \in stayed \cap Ours : i <= limit => \E n \in DOMAIN c.refs : c.refs[n].id = i

(* What is fetched. *)
ToFetch(c) ==
    /\ c.method.fetch # "nothing"
    /\ c.method.fetch = "found" =>
         /\ \E n \in DOMAIN c.refs : TRUE
         /\ \A n \in DOMAIN c.refs :
              c.refs[n].id = Wanted \/ (fieldKind[c.refs[n].id] = "twin" /\ ~c.method.suffix)
    /\ c.method.fetch # "found" => SeenUpTo(c, Fields)
    /\ c.method.sized => \A n \in DOMAIN c.refs : c.refs[n].id \in c.before

(* A call that began with the table as it is now, or before the last edit. *)
Underway(c) ==
    /\ c \in Listings
    /\ c.since <= edits /\ (c.since = edits => stayed = Present(fieldTable) /\ c.before = stayed)
    /\ c.method.sized => Ours = Ids /\ \E size \in Ids : c.before = 1..size
    /\ RefsSeen(c)

ListingSound(c) ==
    /\ Underway(c)
    /\ c.phase = "list" => c.token < Fields /\ SeenUpTo(c, c.token)
    /\ c.phase = "fetch" => ToFetch(c)

CrawlInv ==
    /\ TableTyped
    /\ \/ crawl = NoCrawl /\ strays = {}
       \/ /\ TableSeen
          /\ \/ ListingSound(crawl)
             \/ crawl.phase = "failed" /\ FailsForCause
             \/ crawl.phase = "ok" /\ NothingInvented /\ NothingMissed

(* The methods are those of the crawler: only one for several keys skips what
   it does not know without looking for one, only one reads a vector. *)
LEMMA MethodShapes ==
    ASSUME NEW m \in CrawlMethods
    PROVE  /\ m.fetch \in {"fields", "nothing", "children", "found"}
           /\ m.alien \in {"fail", "keep", "skip"} /\ m.lists \in {"names", "ids", "values"}
           /\ m.one \in BOOLEAN /\ m.suffix \in BOOLEAN /\ m.sized \in BOOLEAN
           /\ m.alien = "skip" => m.fetch \in {"found", "nothing"}
           /\ m.fetch = "found" => ~m.one /\ ~m.sized
           /\ m.sized => m.fetch = "fields" /\ ~m.one
           /\ m.one => m.fetch = "children"
<1>1. /\ get_dynamic_fields \in CrawlMethods
      /\ \A lists, alien, fetch :
            LET w == Way(lists, alien, fetch)
            IN /\ w.lists = lists /\ w.alien = alien /\ w.fetch = fetch
               /\ ~w.one /\ w.one \in BOOLEAN /\ ~w.suffix /\ w.suffix \in BOOLEAN
               /\ ~w.sized /\ w.sized \in BOOLEAN
  BY DEF CrawlMethods, Way
<1>2. CASE m \in {get_dynamic_fields, get_dynamic_field_refs_matching_key, get_dynamic_field_object_values,
                  get_dynamic_field_values, get_dynamic_object_fields,
                  get_dynamic_object_field_refs_matching_key, get_dynamic_object_field_child_ids,
                  get_owned_objects, fetch_coins_for_address_by_type}
  BY <1>1, <1>2
     DEF get_dynamic_fields, get_dynamic_field_refs_matching_key, get_dynamic_field_object_values,
         get_dynamic_field_values, get_dynamic_object_fields,
         get_dynamic_object_field_refs_matching_key, get_dynamic_object_field_child_ids,
         get_owned_objects, fetch_coins_for_address_by_type
<1>3. CASE m = get_dynamic_object_field
  BY <1>3 DEF get_dynamic_object_field, get_dynamic_object_fields, Way
<1>4. CASE m = get_table_vec
  BY <1>4 DEF get_table_vec, Way
<1>5. CASE m = get_optional_dynamic_field_matching_value_type
  BY <1>5 DEF get_optional_dynamic_field_matching_value_type, Way
<1>6. CASE m = get_optional_dynamic_field
  BY <1>6 DEF get_optional_dynamic_field, get_optional_dynamic_field_matching_value_type,
     Way
<1>7. QED BY <1>2, <1>3, <1>4, <1>5, <1>6 DEF CrawlMethods

(* Those that should skip what they fail on. *)
LEMMA SkipsAlike ==
    ASSUME NEW m \in FailsThoughDocumentedToSkip
    PROVE  m.alien = "fail" /\ m.lists = "names" /\ m.fetch = "nothing"
BY DEF FailsThoughDocumentedToSkip, get_dynamic_field_refs_matching_key,
   get_dynamic_object_field_refs_matching_key, Way

LEMMA CrawlsStart == CrawlInit \/ CrawlStill => CrawlInv
<1>1. SUFFICES ASSUME CrawlInit \/ CrawlStill PROVE CrawlInv
  OBVIOUS
<1>2. Fields \in Nat /\ Wanted \in Ids /\ MaxEdits \in Nat
  BY CrawlerAssumption DEF Ids
<1>3. crawl = NoCrawl /\ strays = {} /\ edits = 0
  BY <1>1 DEF CrawlInit, CrawlStill
<1>4. fieldKind \in [Ids -> {"ours", "alien", "twin"}] /\ fieldKind[Wanted] = "ours"
  <2>1. CASE fieldKind = [i \in Ids |-> "ours"]
    BY <1>2, <2>1
  <2>2. ASSUME NEW j \in Ids \ {Wanted}, NEW k \in {"alien", "twin"},
               fieldKind = [[i \in Ids |-> "ours"] EXCEPT ![j] = k]
        PROVE  fieldKind \in [Ids -> {"ours", "alien", "twin"}] /\ fieldKind[Wanted] = "ours"
    BY <1>2, <2>2
  <2>3. QED BY <1>1, <2>1, <2>2 DEF CrawlInit, CrawlStill, FieldKinds
<1>5. fieldTable \in [Ids -> FieldContents \cup {NoField}]
  <2>1. [child |-> 1, val |-> 1] \in FieldContents
    BY DEF FieldContents
  <2>2. QED BY <1>1, <2>1 DEF CrawlInit, CrawlStill
<1>6. QED BY <1>2, <1>3, <1>4, <1>5 DEF CrawlInv, TableTyped

(* The two ends of a call. *)
LEMMA CrawlFails ==
    ASSUME CrawlInv, crawl.phase \in {"list", "fetch"}, crawl \in Listings, Turn(CrawlFailed),
           \/ crawl.since < edits \/ \E i \in Present(fieldTable) : Disturbs(i)
           \/ crawl.method.one /\ Wanted \notin stayed
    PROVE  CrawlInv'
<1>1. PICK c : c = CrawlFailed
  OBVIOUS
<1>2. /\ crawl' = c /\ UNCHANGED <<fieldKind, fieldTable, strays, wasThere, stayed, edits>>
      /\ c.phase = "failed" /\ c.method = crawl.method /\ c.since = crawl.since
  BY <1>1 DEF Turn, CrawlFailed, Listings
<1>3. TableTyped' /\ TableSeen'
  BY <1>2 DEF CrawlInv, NoCrawl, TableTyped, TableSeen, Present, Ids
<1>4. \A i \in Present(fieldTable) : Disturbs(i) => Disturbs(i)'
  BY <1>2 DEF Disturbs, Matches
<1>5. FailsForCause'
  BY <1>2, <1>4 DEF FailsForCause, Present, Ids
<1>6. QED BY <1>2, <1>3, <1>5 DEF CrawlInv

LEMMA CrawlAnswers ==
    ASSUME CrawlInv, crawl.phase \in {"list", "fetch"}, NEW out, Turn(Ok(out)),
           \A i \in DOMAIN out : <<i, out[i]>> \in wasThere,
           stayed \cap Sought(crawl.method) \subseteq DOMAIN out,
           crawl.method.sized => DOMAIN out = crawl.before
    PROVE  CrawlInv'
<1>1. PICK c : c = Ok(out)
  OBVIOUS
<1>2. /\ crawl' = c /\ UNCHANGED <<fieldKind, fieldTable, strays, wasThere, stayed, edits>>
      /\ c.phase = "ok" /\ c.method = crawl.method /\ c.out = out /\ c.before = crawl.before
  BY <1>1 DEF Turn, Ok
<1>3. TableTyped' /\ TableSeen'
  BY <1>2 DEF CrawlInv, NoCrawl, TableTyped, TableSeen, Present, Ids
<1>4. NothingInvented'
  BY <1>2 DEF NothingInvented
<1>5. NothingMissed'
  BY <1>2 DEF NothingMissed, Sought, Ours
<1>6. QED BY <1>2, <1>3, <1>4, <1>5 DEF CrawlInv

(* A call goes on. *)
LEMMA CrawlGoesOn ==
    ASSUME CrawlInv, crawl.phase \in {"list", "fetch"}, NEW c, Turn(c), ListingSound(c)
    PROVE  CrawlInv'
<1>1. crawl' = c /\ UNCHANGED <<fieldKind, fieldTable, strays, wasThere, stayed, edits>>
  BY DEF Turn
<1>2. TableTyped' /\ TableSeen'
  BY <1>1 DEF CrawlInv, NoCrawl, TableTyped, TableSeen, Present, Ids
<1>3. ListingSound(c)'
  BY <1>1 DEF ListingSound, Underway, RefsSeen, SeenUpTo, ToFetch, Ours, Present, Ids
<1>4. ListingSound(crawl)'
  BY <1>1, <1>3 DEF ListingSound, Underway, RefsSeen, SeenUpTo, ToFetch
<1>5. QED BY <1>2, <1>4 DEF CrawlInv

LEMMA ByIdFacts ==
    ASSUME NEW refs
    PROVE  /\ DOMAIN ById(refs) = {refs[n].id : n \in DOMAIN refs}
           /\ \A i \in DOMAIN ById(refs) :
                \E n \in DOMAIN refs : refs[n].id = i /\ ById(refs)[i] = refs[n].entry
<1>1. DOMAIN ById(refs) = {refs[n].id : n \in DOMAIN refs}
  BY DEF ById
<1>2. ASSUME NEW i \in DOMAIN ById(refs)
      PROVE  \E n \in DOMAIN refs : refs[n].id = i /\ ById(refs)[i] = refs[n].entry
  <2>1. \E n \in DOMAIN refs : refs[n].id = i
    BY <1>1, <1>2
  <2>2. PICK n : n = CHOOSE k \in DOMAIN refs : refs[k].id = i
    OBVIOUS
  <2>3. n \in DOMAIN refs /\ refs[n].id = i
    BY <2>1, <2>2
  <2>4. ById(refs)[i] = refs[n].entry
    BY <1>1, <1>2, <2>2 DEF ById
  <2>5. QED BY <2>3, <2>4
<1>3. QED BY <1>1, <1>2

(* The references to what is on a page. *)
LEMMA FieldRefsFacts ==
    ASSUME TableTyped, NEW S \in SUBSET Ids, S \subseteq Present(fieldTable), NEW ids \in InOrder(S)
    PROVE  /\ FieldRefs(ids) \in Seq(Listed)
           /\ \A n \in DOMAIN FieldRefs(ids) :
                 /\ FieldRefs(ids)[n].id \in S
                 /\ FieldRefs(ids)[n].entry = fieldTable[FieldRefs(ids)[n].id]
           /\ \A i \in S : \E n \in DOMAIN FieldRefs(ids) : FieldRefs(ids)[n].id = i
<1>1. Cardinality(S) \in Nat
  <2>1. IsFiniteSet(Ids)
    BY CrawlerAssumption, FS_Interval DEF Ids
  <2>2. QED BY <2>1, FS_Subset, FS_CardinalityType
<1>2. ids \in [1 .. Cardinality(S) -> S] /\ {ids[n] : n \in DOMAIN ids} = S
  BY DEF InOrder
<1>3. \A n \in 1 .. Cardinality(S) : ids[n] \in S /\ fieldTable[ids[n]] \in FieldContents
  BY <1>2 DEF TableTyped, Present
<1>4. /\ DOMAIN FieldRefs(ids) = 1 .. Cardinality(S)
      /\ \A n \in 1 .. Cardinality(S) :
            /\ FieldRefs(ids)[n] = [id |-> ids[n], entry |-> fieldTable[ids[n]]]
            /\ FieldRefs(ids)[n] \in Listed
  BY <1>2, <1>3 DEF FieldRefs, Listed
<1>5. FieldRefs(ids) \in [1 .. Cardinality(S) -> Listed]
  BY <1>2, <1>4 DEF FieldRefs
<1>6. FieldRefs(ids) \in Seq(Listed)
  BY <1>1, <1>5
<1>7. QED BY <1>2, <1>4, <1>6

LEMMA JoinedFacts ==
    ASSUME NEW S, NEW s \in Seq(S), NEW t \in Seq(S)
    PROVE  /\ s \o t \in Seq(S)
           /\ \A n \in DOMAIN (s \o t) :
                 \/ n \in DOMAIN s /\ (s \o t)[n] = s[n]
                 \/ \E k \in DOMAIN t : (s \o t)[n] = t[k]
           /\ \A n \in DOMAIN s : n \in DOMAIN (s \o t) /\ (s \o t)[n] = s[n]
           /\ \A k \in DOMAIN t : \E n \in DOMAIN (s \o t) : (s \o t)[n] = t[k]
<1>1. /\ s \o t \in Seq(S) /\ Len(s) \in Nat /\ Len(t) \in Nat
      /\ DOMAIN s = 1 .. Len(s) /\ DOMAIN t = 1 .. Len(t)
      /\ DOMAIN (s \o t) = 1 .. Len(s) + Len(t)
      /\ \A n \in 1 .. Len(s) + Len(t) : (s \o t)[n] = IF n <= Len(s) THEN s[n] ELSE t[n - Len(s)]
  OBVIOUS
<1>2. ASSUME NEW k \in DOMAIN t PROVE Len(s) + k \in DOMAIN (s \o t) /\ (s \o t)[Len(s) + k] = t[k]
  BY <1>1, <1>2
<1>3. ASSUME NEW n \in DOMAIN (s \o t)
      PROVE  \/ n \in DOMAIN s /\ (s \o t)[n] = s[n]
             \/ \E k \in DOMAIN t : (s \o t)[n] = t[k]
  <2>1. CASE n \in DOMAIN s
    BY <1>1, <1>3, <2>1
  <2>2. CASE n \notin DOMAIN s
    <3>1. n - Len(s) \in DOMAIN t /\ (s \o t)[n] = t[n - Len(s)]
      BY <1>1, <1>3, <2>2
    <3>2. QED BY <3>1
  <2>3. QED BY <2>1, <2>2
<1>4. \A n \in DOMAIN s : n \in DOMAIN (s \o t) /\ (s \o t)[n] = s[n]
  BY <1>1
<1>5. \A k \in DOMAIN t : \E n \in DOMAIN (s \o t) : (s \o t)[n] = t[k]
  BY <1>2
<1>6. s \o t \in Seq(S)
  BY <1>1
<1>7. QED BY <1>3, <1>4, <1>5, <1>6

(* Reading a page. *)
LEMMA PageKept ==
    ASSUME CrawlInv, ReadPage
    PROVE  CrawlInv'
<1>0. /\ Fields \in Nat /\ Wanted \in Ids /\ Ids = 1 .. Fields /\ TableTyped /\ TableSeen
      /\ crawl.phase = "list" /\ ListingSound(crawl) /\ Underway(crawl) /\ crawl \in Listings
      /\ crawl.method \in CrawlMethods /\ crawl.token \in Nat /\ crawl.token < Fields
      /\ SeenUpTo(crawl, crawl.token) /\ crawl.refs \in Seq(Listed)
  BY CrawlerAssumption DEF ReadPage, CrawlLists, CrawlInv, NoCrawl, ListingSound, Underway,
     Listings, Ids
<1>1. PICK to \in crawl.token + 1 .. Fields : PageRead(PageOf(crawl.token, to), to)
  BY DEF ReadPage
<1>2. PICK page : page = PageOf(crawl.token, to)
  OBVIOUS
<1>3. /\ page \in SUBSET Ids /\ page \subseteq Present(fieldTable) /\ PageRead(page, to)
      /\ to \in Nat /\ crawl.token < to /\ to <= Fields
      /\ \A i \in Present(fieldTable) : crawl.token < i /\ i <= to => i \in page
      /\ \A i \in page : <<i, fieldTable[i]>> \in wasThere
  BY <1>0, <1>1, <1>2 DEF PageOf, Present, TableSeen
<1>4. /\ crawl.method.fetch = "found" => ~crawl.method.sized
      /\ crawl.method.fetch \in {"fields", "nothing", "children", "found"}
      /\ crawl.method.sized => crawl.method.fetch = "fields" /\ ~crawl.method.one
      /\ crawl.method.one => crawl.method.fetch = "children"
  BY <1>0, MethodShapes
<1>5. CASE crawl.method.alien = "fail" /\ \E i \in page : ~Decodes(i)
  <2>1. Turn(CrawlFailed)
    BY Zenon, <1>3, <1>5 DEF PageRead
  <2>2. \E i \in Present(fieldTable) : Disturbs(i)
    BY <1>0, <1>3, <1>5, SkipsAlike DEF Decodes, Disturbs, TableTyped, Present
  <2>3. QED BY <1>0, <2>1, <2>2, CrawlFails
<1>6. CASE ~(crawl.method.alien = "fail" /\ \E i \in page : ~Decodes(i)) /\ \E i \in page : Matches(i)
  <2>1. PICK i \in page : Matches(i) /\ Turn([crawl EXCEPT !.refs = FieldRefs(<<i>>), !.phase = "fetch"])
    BY Zenon, <1>3, <1>6 DEF PageRead, FirstMatch
  <2>2. PICK refs : refs = FieldRefs(<<i>>)
    OBVIOUS
  <2>3. i \in Ids /\ fieldTable[i] \in FieldContents /\ <<i, fieldTable[i]>> \in wasThere
    BY <1>0, <1>3, <2>1 DEF TableTyped, Present
  <2>4. DOMAIN refs = {1} /\ refs[1] = [id |-> i, entry |-> fieldTable[i]]
    BY <2>2 DEF FieldRefs
  <2>5. refs \in Seq(Listed)
    <3>1. refs = << [id |-> i, entry |-> fieldTable[i]] >>
      BY <2>2 DEF FieldRefs
    <3>2. QED BY <2>3, <3>1 DEF Listed
  <2>6. PICK c : c = [crawl EXCEPT !.refs = refs, !.phase = "fetch"]
    OBVIOUS
  <2>7. /\ c \in Listings /\ c.refs = refs /\ c.phase = "fetch" /\ c.method = crawl.method
        /\ c.since = crawl.since /\ c.before = crawl.before
    BY <1>0, <2>5, <2>6 DEF Listings
  <2>8. crawl.method.fetch = "found" /\ (i = Wanted \/ (fieldKind[i] = "twin" /\ ~crawl.method.suffix))
    BY <2>1 DEF Matches
  <2>9. Underway(c)
    BY <1>0, <2>3, <2>4, <2>7 DEF Underway, RefsSeen
  <2>10. ToFetch(c)
    BY <1>4, <2>4, <2>7, <2>8 DEF ToFetch
  <2>11. QED BY <1>0, <2>1, <2>2, <2>6, <2>7, <2>9, <2>10, CrawlGoesOn DEF ListingSound
<1>7. CASE ~(crawl.method.alien = "fail" /\ \E i \in page : ~Decodes(i)) /\ ~\E i \in page : Matches(i)
  <2>1. PICK ids \in InOrder(Kept(page)) :
            Turn(IF to = Fields THEN AfterListing(NextPage(ids, to)) ELSE NextPage(ids, to))
    BY <1>3, <1>7 DEF PageRead
  <2>2. Kept(page) \in SUBSET Ids /\ Kept(page) \subseteq page /\ \A i \in page \cap Ours : i \in Kept(page)
    BY <1>3 DEF Kept, Ours, Decodes
  <2>3. PICK new : new = FieldRefs(ids)
    OBVIOUS
  <2>4. /\ new \in Seq(Listed)
        /\ \A n \in DOMAIN new : new[n].id \in page /\ new[n].entry = fieldTable[new[n].id]
        /\ \A i \in page \cap Ours : \E n \in DOMAIN new : new[n].id = i
    BY <1>0, <1>3, <2>1, <2>2, <2>3, FieldRefsFacts
  <2>5. PICK refs : refs = crawl.refs \o new
    OBVIOUS
  <2>6. PICK c : c = NextPage(ids, to)
    OBVIOUS
  <2>7. /\ refs \in Seq(Listed)
        /\ \A n \in DOMAIN refs :
              \/ n \in DOMAIN crawl.refs /\ refs[n] = crawl.refs[n]
              \/ \E k \in DOMAIN new : refs[n] = new[k]
        /\ \A n \in DOMAIN crawl.refs : n \in DOMAIN refs /\ refs[n] = crawl.refs[n]
        /\ \A k \in DOMAIN new : \E n \in DOMAIN refs : refs[n] = new[k]
    <3>1. PICK old : old = crawl.refs
      OBVIOUS
    <3>2. old \in Seq(Listed) /\ new \in Seq(Listed)
      BY <1>0, <2>4, <3>1
    <3>3. /\ old \o new \in Seq(Listed)
          /\ \A n \in DOMAIN (old \o new) :
                \/ n \in DOMAIN old /\ (old \o new)[n] = old[n]
                \/ \E k \in DOMAIN new : (old \o new)[n] = new[k]
          /\ \A n \in DOMAIN old : n \in DOMAIN (old \o new) /\ (old \o new)[n] = old[n]
          /\ \A k \in DOMAIN new : \E n \in DOMAIN (old \o new) : (old \o new)[n] = new[k]
      BY ONLY <3>2, JoinedFacts
    <3>4. refs = old \o new
      BY <2>5, <3>1
    <3>5. QED BY <3>1, <3>3, <3>4
  <2>8. /\ c \in Listings /\ c.refs = refs /\ c.phase = "list" /\ c.method = crawl.method
        /\ c.token = to /\ c.since = crawl.since /\ c.before = crawl.before
    BY <1>0, <1>3, <2>3, <2>5, <2>6, <2>7 DEF NextPage, Listings
  <2>9. RefsSeen(c)
    <3>1. ASSUME NEW n \in DOMAIN c.refs
          PROVE  /\ <<c.refs[n].id, c.refs[n].entry>> \in wasThere
                 /\ c.since = edits => c.refs[n].entry = fieldTable[c.refs[n].id]
      <4>1. CASE n \in DOMAIN crawl.refs /\ refs[n] = crawl.refs[n]
        BY <1>0, <2>8, <4>1 DEF Underway, RefsSeen
      <4>2. ASSUME NEW k \in DOMAIN new, refs[n] = new[k]
            PROVE  /\ <<c.refs[n].id, c.refs[n].entry>> \in wasThere
                   /\ c.since = edits => c.refs[n].entry = fieldTable[c.refs[n].id]
        BY <1>3, <2>4, <2>8, <4>2
      <4>3. QED BY <2>7, <2>8, <3>1, <4>1, <4>2
    <3>2. QED BY <3>1 DEF RefsSeen
  <2>10. Underway(c)
    BY <1>0, <2>8, <2>9 DEF Underway
  <2>11. SeenUpTo(c, to)
    <3>1. CASE c.method.fetch = "found"
      <4>1. Wanted \notin page
        BY <1>7, <2>8, <3>1 DEF Matches
      <4>2. Wanted \in stayed => crawl.token < Wanted /\ Wanted \in Present(fieldTable)
        BY <1>0, <2>8, <3>1 DEF SeenUpTo, TableSeen
      <4>3. QED BY <1>0, <1>3, <3>1, <4>1, <4>2 DEF SeenUpTo
    <3>2. ASSUME c.method.fetch # "found", NEW i \in stayed \cap Ours, i <= to
          PROVE  \E n \in DOMAIN refs : refs[n].id = i
      <4>1. i \in Ids /\ i \in Present(fieldTable)
        BY <1>0, <3>2 DEF TableSeen, Ours
      <4>2. CASE i <= crawl.token
        <5>1. PICK n \in DOMAIN crawl.refs : crawl.refs[n].id = i
          BY <1>0, <2>8, <3>2, <4>2 DEF SeenUpTo
        <5>2. QED BY <2>7, <5>1
      <4>3. CASE ~(i <= crawl.token)
        <5>1. i \in page \cap Ours
          BY <1>0, <1>3, <3>2, <4>1, <4>3
        <5>2. PICK k \in DOMAIN new : new[k].id = i
          BY <2>4, <5>1
        <5>3. QED BY <2>7, <5>2
      <4>4. QED BY <4>2, <4>3
    <3>3. QED BY <2>8, <3>1, <3>2 DEF SeenUpTo
  <2>12. CASE to # Fields
    <3>1. Turn(c) /\ ListingSound(c)
      BY <1>3, <2>1, <2>6, <2>8, <2>10, <2>11, <2>12, <1>0 DEF ListingSound
    <3>2. QED BY <1>0, <3>1, CrawlGoesOn
  <2>13. CASE to = Fields
    <3>1. Turn(AfterListing(c))
      BY <2>1, <2>6, <2>13
    <3>2. CASE c.method.sized /\ OutOfBounds(c)
      <4>1. Turn(CrawlFailed)
        BY <3>1, <3>2 DEF AfterListing
      <4>2. SUFFICES ASSUME ~(crawl.since < edits) PROVE FALSE
        BY <1>0, <4>1, CrawlFails
      <4>3. crawl.since = edits /\ c.before = Present(fieldTable)
        BY <1>0, <2>8, <4>2 DEF Underway, Listings, TableTyped
      <4>4. PICK size \in Ids : c.before = 1 .. size
        BY <1>0, <2>8, <3>2 DEF Underway
      <4>5. ASSUME NEW n \in DOMAIN c.refs PROVE c.refs[n].id <= size
        <5>1. c.refs[n].id \in Ids /\ c.refs[n].entry \in FieldContents
          <6>1. c.refs[n] \in Listed
            BY <2>7, <2>8, <4>5
          <6>2. QED BY <6>1 DEF Listed
        <5>2. c.refs[n].entry # NoField
          BY <5>1 DEF FieldContents, NoField
        <5>3. c.refs[n].id \in Present(fieldTable)
          BY <2>8, <2>9, <4>3, <4>5, <5>1, <5>2 DEF RefsSeen, Present
        <5>4. QED BY <1>0, <4>3, <4>4, <5>1, <5>3
      <4>6. QED BY <3>2, <4>4, <4>5 DEF OutOfBounds
    <3>3. CASE ~(c.method.sized /\ OutOfBounds(c)) /\ c.method.fetch = "found"
      <4>1. PICK out : out = <<>>
        OBVIOUS
      <4>2. Turn(Ok(out)) /\ DOMAIN out = {}
        BY <3>1, <3>3, <4>1 DEF AfterListing
      <4>3. stayed \cap Sought(crawl.method) \subseteq {}
        BY <1>0, <2>8, <2>11, <2>13, <3>3 DEF SeenUpTo, Sought
      <4>4. QED BY <1>0, <1>4, <2>8, <3>3, <4>2, <4>3, CrawlAnswers
    <3>4. CASE ~(c.method.sized /\ OutOfBounds(c)) /\ c.method.fetch = "nothing"
      <4>1. PICK out : out = ById(refs)
        OBVIOUS
      <4>2. Turn(Ok(out))
        BY <2>8, <3>1, <3>4, <4>1 DEF AfterListing
      <4>3. /\ DOMAIN out = {refs[n].id : n \in DOMAIN refs}
            /\ \A i \in DOMAIN out : \E n \in DOMAIN refs : refs[n].id = i /\ out[i] = refs[n].entry
        BY <4>1, ByIdFacts
      <4>4. \A i \in DOMAIN out : <<i, out[i]>> \in wasThere
        BY <2>8, <2>9, <4>3 DEF RefsSeen
      <4>5. stayed \cap Sought(crawl.method) \subseteq DOMAIN out
        BY <1>0, <1>4, <2>8, <2>11, <2>13, <3>4, <4>3 DEF SeenUpTo, Sought, Ours
      <4>6. QED BY <1>0, <1>4, <2>8, <3>4, <4>2, <4>4, <4>5, CrawlAnswers
    <3>5. CASE /\ ~(c.method.sized /\ OutOfBounds(c))
               /\ c.method.fetch # "found" /\ c.method.fetch # "nothing"
      <4>1. PICK d : d = [c EXCEPT !.phase = "fetch"]
        OBVIOUS
      <4>2. Turn(d)
        BY <3>1, <3>5, <4>1 DEF AfterListing
      <4>3. /\ d \in Listings /\ d.phase = "fetch" /\ d.refs = refs /\ d.method = c.method
            /\ d.since = c.since /\ d.before = c.before
        BY <2>8, <4>1 DEF Listings
      <4>4. Underway(d)
        BY <2>8, <2>10, <4>3 DEF Underway, RefsSeen
      <4>5. c.method.sized => \A n \in DOMAIN refs : refs[n].id \in c.before
        <5>1. \A n \in DOMAIN refs : refs[n].id \in Ids
          <6>1. \A n \in DOMAIN refs : refs[n] \in Listed
            BY <2>7
          <6>2. QED BY <6>1 DEF Listed
        <5>2. c.method.sized =>
                 \A n \in DOMAIN refs : \E size \in Ids : c.before = 1 .. size /\ refs[n].id <= size
          BY <2>8, <3>5 DEF OutOfBounds
        <5>3. QED BY <1>0, <5>1, <5>2
      <4>6. SeenUpTo(d, Fields)
        BY <2>8, <2>11, <2>13, <4>3 DEF SeenUpTo
      <4>7. ToFetch(d)
        BY <3>5, <4>3, <4>5, <4>6 DEF ToFetch
      <4>8. QED BY <1>0, <4>2, <4>3, <4>4, <4>7, CrawlGoesOn DEF ListingSound
    <3>6. QED BY <3>2, <3>3, <3>4, <3>5
  <2>14. QED BY <2>12, <2>13
<1>8. QED BY <1>5, <1>6, <1>7

(* Fetching what was listed. *)
LEMMA FetchKept ==
    ASSUME CrawlInv, FetchListed
    PROVE  CrawlInv'
<1> DEFINE refs == crawl.refs
           objects == Objects(refs)
<1>0. /\ Fields \in Nat /\ Wanted \in Ids /\ Ids = 1 .. Fields /\ TableTyped /\ TableSeen
      /\ crawl.phase = "fetch" /\ ListingSound(crawl) /\ Underway(crawl) /\ crawl \in Listings
      /\ crawl.method \in CrawlMethods /\ refs \in Seq(Listed) /\ ToFetch(crawl) /\ RefsSeen(crawl)
      /\ crawl.since < edits \/ crawl.since = edits
  BY CrawlerAssumption
     DEF FetchListed, CrawlFetches, CrawlInv, NoCrawl, ListingSound, Underway, Listings, Ids, TableTyped
<1>1. /\ crawl.method.alien = "skip" => crawl.method.fetch \in {"found", "nothing"}
      /\ crawl.method.fetch = "found" => ~crawl.method.one /\ ~crawl.method.sized
      /\ crawl.method.sized => crawl.method.fetch = "fields" /\ ~crawl.method.one
      /\ crawl.method.one => crawl.method.fetch = "children"
  BY <1>0, MethodShapes
<1>2. DOMAIN refs = 1 .. Len(refs) /\ Len(refs) \in Nat /\ \A n \in DOMAIN refs : refs[n] \in Listed
  BY <1>0
<1>3. \A n \in DOMAIN refs :
         /\ refs[n].id \in Ids /\ refs[n].entry \in FieldContents /\ refs[n].entry # NoField
         /\ refs[n].entry.child # 0
  BY <1>2 DEF Listed, FieldContents, NoField
<1>4. \A n \in DOMAIN refs :
         crawl.since = edits => refs[n].entry = fieldTable[refs[n].id] /\ refs[n].id \in Present(fieldTable)
  BY <1>0, <1>3 DEF RefsSeen, Present
<1>5. \A n \in DOMAIN refs : crawl.since = edits => ~Missing(refs[n])
  BY <1>3, <1>4 DEF Missing, FoundUnder
<1>6. Turn(IF \/ \E n \in DOMAIN objects : objects[n] = NoField
              \/ \E n \in DOMAIN refs : fieldKind[refs[n].id] # "ours"
           THEN CrawlFailed ELSE Answered(ZipNames(refs, objects)))
  BY DEF FetchListed
<1>7. CASE \E n \in DOMAIN refs : Missing(refs[n])
  <2>1. objects = <<NoField>>
    BY <1>7 DEF Objects
  <2>2. 1 \in DOMAIN objects /\ objects[1] = NoField
    BY <2>1
  <2>3. Turn(CrawlFailed)
    BY <1>6, <2>2
  <2>4. crawl.since < edits
    BY <1>0, <1>5, <1>7
  <2>5. QED BY <1>0, <2>3, <2>4, CrawlFails
<1>8. CASE ~\E n \in DOMAIN refs : Missing(refs[n])
  <2>1. objects = [n \in DOMAIN refs |-> FoundObject(refs[n])]
    BY <1>8 DEF Objects
  <2>2. ASSUME NEW n \in DOMAIN refs
        PROVE  objects[n] # NoField /\ <<refs[n].id, objects[n]>> \in wasThere
    <3>1. PICK e : e = FoundObject(refs[n])
      OBVIOUS
    <3>2. e \in FoundUnder(refs[n])
      BY <1>8, <2>2, <3>1 DEF Missing, FoundObject
    <3>3. objects[n] = e
      BY <2>1, <2>2, <3>1
    <3>4. CASE crawl.method.fetch = "children"
      <4>1. e.child = refs[n].entry.child
        BY <3>2, <3>4 DEF FoundUnder
      <4>2. e # NoField
        BY <1>3, <2>2, <4>1 DEF NoField
      <4>3. e = fieldTable[refs[n].id] \/ \E s \in strays : s[1] = refs[n].id /\ e = s[2]
        BY <3>2, <3>4 DEF FoundUnder
      <4>4. CASE e = fieldTable[refs[n].id]
        BY <1>0, <1>3, <2>2, <3>3, <4>2, <4>4 DEF TableSeen, Present
      <4>5. CASE \E s \in strays : s[1] = refs[n].id /\ e = s[2]
        <5>1. PICK s \in strays : s[1] = refs[n].id /\ e = s[2]
          BY <4>5
        <5>2. s = <<refs[n].id, e>> /\ s \in wasThere
          BY <1>0, <5>1 DEF TableSeen
        <5>3. QED BY <3>3, <4>2, <5>2
      <4>6. QED BY <4>3, <4>4, <4>5
    <3>5. CASE crawl.method.fetch # "children"
      BY <1>0, <1>3, <2>2, <3>2, <3>3, <3>5 DEF FoundUnder, TableSeen, Present
    <3>6. QED BY <3>4, <3>5
  <2>3. DOMAIN objects = DOMAIN refs
    BY <2>1
  <2>4. CASE \E n \in DOMAIN refs : fieldKind[refs[n].id] # "ours"
    <3>1. Turn(CrawlFailed)
      BY <1>6, <2>4
    <3>2. PICK n \in DOMAIN refs : fieldKind[refs[n].id] # "ours"
      BY <2>4
    <3>3. Disturbs(refs[n].id)
      BY <1>0, <1>1, <3>2, SkipsAlike DEF Disturbs, Matches, ToFetch, TableTyped
    <3>4. crawl.since < edits \/ \E i \in Present(fieldTable) : Disturbs(i)
      BY <1>0, <1>4, <3>2, <3>3
    <3>5. QED BY <1>0, <3>1, <3>4, CrawlFails
  <2>5. CASE ~\E n \in DOMAIN refs : fieldKind[refs[n].id] # "ours"
    <3>1. PICK out : out = ZipNames(refs, objects)
      OBVIOUS
    <3>2. Turn(Answered(out))
      <4>1. ~\E n \in DOMAIN objects : objects[n] = NoField
        BY <2>2, <2>3
      <4>2. QED BY <1>6, <2>5, <3>1, <4>1
    <3>3. PICK zip : zip = [n \in DOMAIN refs |-> [id |-> refs[n].id, entry |-> objects[n]]]
      OBVIOUS
    <3>4. out = ById(zip)
      <4>1. Len(objects) = Len(refs)
        BY <1>2, <2>1
      <4>2. QED BY <1>2, <3>1, <3>3, <4>1 DEF ZipNames
    <3>5. DOMAIN zip = DOMAIN refs /\ \A n \in DOMAIN refs : zip[n].id = refs[n].id /\ zip[n].entry = objects[n]
      BY <3>3
    <3>6. /\ DOMAIN out = {refs[n].id : n \in DOMAIN refs}
          /\ \A i \in DOMAIN out : \E n \in DOMAIN refs : refs[n].id = i /\ out[i] = objects[n]
      <4>1. /\ DOMAIN out = {zip[n].id : n \in DOMAIN zip}
            /\ \A i \in DOMAIN out : \E n \in DOMAIN zip : zip[n].id = i /\ out[i] = zip[n].entry
        BY ONLY <3>4, ByIdFacts
      <4> HIDE DEF objects, refs
      <4>2. {zip[n].id : n \in DOMAIN zip} = {refs[n].id : n \in DOMAIN refs}
        BY <3>5
      <4>3. QED BY <3>5, <4>1, <4>2
    <3> HIDE DEF objects
    <3>7. \A i \in DOMAIN out : <<i, out[i]>> \in wasThere
      BY <2>2, <3>6
    <3>8. crawl.method.fetch # "found" => stayed \cap Ours \subseteq DOMAIN out
      BY <1>0, <3>6 DEF ToFetch, SeenUpTo, Ours
    <3>9. crawl.method.fetch = "found" => Wanted \in DOMAIN out
      BY <1>0, <2>5, <3>6 DEF ToFetch
    <3>10. Wanted \in Ours
      BY <1>0 DEF Ours, TableTyped
    <3>11. CASE \/ crawl.method.sized /\ DOMAIN out # crawl.before
                \/ crawl.method.one /\ Wanted \notin DOMAIN out
      <4>1. Turn(CrawlFailed)
        BY <3>2, <3>11 DEF Answered
      <4>2. crawl.method.sized /\ DOMAIN out # crawl.before => crawl.since < edits
        <5>1. SUFFICES ASSUME crawl.method.sized, crawl.since = edits PROVE DOMAIN out = crawl.before
          BY <1>0
        <5>2. DOMAIN out \subseteq crawl.before
          BY <1>0, <3>6, <5>1 DEF ToFetch
        <5>3. stayed = crawl.before /\ Ours = Ids /\ stayed \subseteq Ids
          BY <1>0, <5>1 DEF Underway, Present
        <5>4. QED BY <1>1, <3>8, <5>1, <5>2, <5>3
      <4>3. crawl.method.one /\ Wanted \notin DOMAIN out => Wanted \notin stayed
        BY <1>1, <3>8, <3>10
      <4>4. QED BY <1>0, <3>11, <4>1, <4>2, <4>3, CrawlFails
    <3>12. CASE ~(\/ crawl.method.sized /\ DOMAIN out # crawl.before
                  \/ crawl.method.one /\ Wanted \notin DOMAIN out)
      <4>1. PICK answer : answer = IF crawl.method.one THEN [i \in {Wanted} |-> out[i]] ELSE out
        OBVIOUS
      <4>2. Turn(Ok(answer))
        BY <3>2, <3>12, <4>1 DEF Answered
      <4>3. CASE crawl.method.one
        <5>1. DOMAIN answer = {Wanted} /\ answer[Wanted] = out[Wanted] /\ Wanted \in DOMAIN out
          BY <3>12, <4>1, <4>3
        <5>2. QED BY <1>0, <1>1, <3>7, <4>2, <4>3, <5>1, CrawlAnswers DEF Sought
      <4>4. CASE ~crawl.method.one
        <5>1. answer = out
          BY <4>1, <4>4
        <5>2. stayed \cap Sought(crawl.method) \subseteq DOMAIN out
          BY <3>8, <3>9, <4>4 DEF Sought
        <5>3. QED BY <1>0, <3>7, <3>12, <4>2, <5>1, <5>2, CrawlAnswers
      <4>5. QED BY <4>3, <4>4
    <3>13. QED BY <3>11, <3>12
  <2>6. QED BY <2>4, <2>5
<1>9. QED BY <1>7, <1>8

LEMMA CrawlsKept ==
    ASSUME CrawlInv, [CrawlNext]_crawlVars
    PROVE  CrawlInv'
<1>0. /\ Fields \in Nat /\ Wanted \in Ids /\ Ids = 1 .. Fields /\ TableTyped
      /\ MaxEdits \in Nat /\ edits \in Nat /\ edits <= MaxEdits
  BY CrawlerAssumption DEF CrawlInv, TableTyped, Ids
<1>1. ASSUME NEW m \in CrawlMethods, BeginCrawl(m) PROVE CrawlInv'
  <2>1. /\ crawl = NoCrawl /\ strays = {} /\ UNCHANGED <<fieldKind, fieldTable, strays, edits>>
        /\ wasThere' = TableEntries(fieldTable) /\ stayed' = Present(fieldTable)
        /\ m.sized => Ours = Ids /\ \E n \in 0 .. Fields : Present(fieldTable) = 1 .. n
    BY <1>1 DEF BeginCrawl, CrawlInv, NoCrawl, ListingSound, Underway, Listings
  <2>2. TableTyped'
    BY <1>0, <2>1 DEF TableTyped, Ids
  <2>3. TableSeen'
    BY <1>0, <2>1 DEF TableSeen, TableEntries, Present, Ids
  <2>4. CASE m.sized /\ Present(fieldTable) = {}
    <3>1. PICK c : c = [phase |-> "ok", method |-> m, out |-> <<>>, before |-> {}]
      OBVIOUS
    <3>2. c.phase = "ok" /\ c.out = <<>> /\ DOMAIN c.out = {} /\ c.before = {} /\ c.method = m
      BY <3>1
    <3>3. crawl' = c
      BY <1>1, <2>4, <3>1 DEF BeginCrawl
    <3>4. NothingInvented' /\ NothingMissed'
      BY <2>1, <2>4, <3>2, <3>3 DEF NothingInvented, NothingMissed
    <3>5. QED BY <2>2, <2>3, <3>2, <3>3, <3>4 DEF CrawlInv
  <2>5. CASE ~(m.sized /\ Present(fieldTable) = {})
    <3>1. PICK c : c = [phase |-> "list", method |-> m, token |-> 0, refs |-> <<>>,
                        before |-> Present(fieldTable), since |-> edits]
      OBVIOUS
    <3>2. /\ c \in Listings /\ c.phase = "list" /\ c.refs = <<>> /\ c.before = Present(fieldTable)
          /\ c.method = m /\ c.token = 0 /\ c.since = edits
      BY <1>0, <3>1 DEF Listings, Present
    <3>3. crawl' = c
      BY <1>1, <2>5, <3>1 DEF BeginCrawl
    <3>4. m.sized => Ours = Ids /\ \E size \in Ids : c.before = 1 .. size
      BY <1>0, <2>1, <2>5, <3>2
    <3>5. DOMAIN c.refs = {}
      BY <3>2
    <3>6. Underway(crawl)'
      <4>1. (c \in Listings)'
        BY <3>2 DEF Listings, Ids, Listed, FieldContents
      <4>2. (c.method.sized => Ours = Ids /\ \E size \in Ids : c.before = 1 .. size)'
        BY <2>1, <3>2, <3>4 DEF Ours, Ids
      <4>3. stayed' = Present(fieldTable)' /\ c.before = stayed' /\ c.since = edits'
        BY <2>1, <3>2 DEF Present, Ids
      <4>4. RefsSeen(c)'
        BY <3>5 DEF RefsSeen
      <4>5. QED BY <1>0, <2>1, <3>3, <4>1, <4>2, <4>3, <4>4 DEF Underway, RefsSeen
    <3>7. SeenUpTo(c, 0)'
      BY <1>0, <2>1, <3>2, <3>5 DEF SeenUpTo, Ours, Ids
    <3>8. ListingSound(crawl)'
      BY <1>0, <3>2, <3>3, <3>6, <3>7 DEF ListingSound, SeenUpTo, Ours, Ids
    <3>9. QED BY <2>2, <2>3, <3>8 DEF CrawlInv
  <2>6. QED BY <2>4, <2>5
<1>2. CASE CrawlRequestFails
  <2>1. /\ crawl \in Listings /\ TableSeen /\ Turn([CrawlFailed EXCEPT !.since = MaxEdits + 1])
    BY <1>2 DEF CrawlRequestFails, CrawlLists, CrawlFetches, CrawlInv, NoCrawl,
       ListingSound, Underway
  <2>2. PICK c : c = [CrawlFailed EXCEPT !.since = MaxEdits + 1]
    OBVIOUS
  <2>3. /\ crawl' = c /\ UNCHANGED <<fieldKind, fieldTable, strays, wasThere, stayed, edits>>
        /\ c.phase = "failed" /\ c.since = MaxEdits + 1
    BY <2>1, <2>2 DEF Turn, CrawlFailed, Listings
  <2>4. TableTyped' /\ TableSeen' /\ FailsForCause'
    BY <1>0, <2>1, <2>3 DEF TableTyped, TableSeen, Present, Ids, FailsForCause
  <2>5. QED BY <2>3, <2>4 DEF CrawlInv
<1>3. CASE CrawlReturns
  BY <1>0, <1>3 DEF CrawlReturns, CrawlInv, TableTyped, Ids
<1>4. ASSUME NEW i \in Ids, NEW entry \in FieldContents \cup {NoField}, Change(i, entry),
             stayed' \subseteq stayed, i \in stayed' => entry # NoField,
             strays' \subseteq strays \cup ({<<i, fieldTable[i]>>} \cap (Ids \X FieldContents)),
             strays' # strays => fieldTable[i] # NoField
      PROVE  CrawlInv'
  <2>1. /\ fieldTable' = [fieldTable EXCEPT ![i] = entry]
        /\ wasThere' = wasThere \cup TableEntries(fieldTable') /\ edits' = edits + 1
        /\ UNCHANGED <<fieldKind, crawl>> /\ edits < MaxEdits
    BY <1>4 DEF Change
  <2>2. /\ TableSeen /\ ListingSound(crawl) /\ Underway(crawl) /\ crawl \in Listings
        /\ crawl.phase \in {"list", "fetch"} /\ crawl.since \in Nat
    BY <1>4 DEF Change, CrawlLists, CrawlFetches, CrawlInv, NoCrawl, ListingSound,
       Underway, Listings
  <2>3. /\ fieldTable' \in [Ids -> FieldContents \cup {NoField}] /\ fieldTable'[i] = entry
        /\ \A j \in Ids : j # i => fieldTable'[j] = fieldTable[j]
    BY <1>0, <1>4, <2>1 DEF TableTyped
  <2>4. TableTyped'
    BY <1>0, <2>1, <2>3 DEF TableTyped, Ids
  <2>5. \A j \in Ids : fieldTable'[j] # NoField => <<j, fieldTable'[j]>> \in wasThere'
    BY <2>1 DEF TableEntries, Ids
  <2>6. TableSeen'
    <3>1. strays' \subseteq wasThere' /\ strays' \subseteq Ids \X FieldContents
      BY <1>4, <2>1, <2>2 DEF TableSeen, Present
    <3>2. stayed' \subseteq {j \in Ids : fieldTable'[j] # NoField}
      BY <1>4, <2>2, <2>3 DEF TableSeen, Present
    <3>3. QED BY <2>5, <3>1, <3>2 DEF TableSeen, Present, Ids
  <2>7. crawl.since <= edits' /\ crawl.since # edits'
    BY <1>0, <2>1, <2>2 DEF Underway
  <2>8. Underway(crawl)'
    BY <2>1, <2>2, <2>7 DEF Underway, RefsSeen, Ours, Ids, Listings
  <2>9. ListingSound(crawl)'
    BY <1>4, <2>1, <2>2, <2>8 DEF ListingSound, SeenUpTo, ToFetch, Ours, Ids
  <2>10. QED BY <2>4, <2>6, <2>9 DEF CrawlInv
<1>5. \A i \in Ids : fieldTable[i] \in FieldContents \cup {NoField}
  BY <1>0 DEF TableTyped
<1>6. (CrawlLists \/ CrawlFetches) => TableSeen
  BY DEF CrawlLists, CrawlFetches, CrawlInv, NoCrawl
<1>7. ASSUME NEW i \in Ids, AddField(i) PROVE CrawlInv'
  <2>1. PICK entry : entry = [child |-> edits + 2, val |-> edits + 2]
    OBVIOUS
  <2>2. entry \in FieldContents /\ entry # NoField
    BY <1>0, <2>1 DEF FieldContents, NoField
  <2>3. Change(i, entry) /\ UNCHANGED <<strays, stayed>>
    BY <1>7, <2>1 DEF AddField
  <2>4. QED BY <1>4, <2>2, <2>3
<1>8. ASSUME NEW i \in Ids, SetField(i) PROVE CrawlInv'
  <2>1. PICK entry : entry = [fieldTable[i] EXCEPT !.val = edits + 2]
    OBVIOUS
  <2>2. entry \in FieldContents /\ entry # NoField
    BY <1>0, <1>5, <1>8, <2>1 DEF SetField, FieldContents, NoField
  <2>3. Change(i, entry) /\ UNCHANGED <<strays, stayed>>
    BY <1>8, <2>1 DEF SetField
  <2>4. QED BY <1>4, <2>2, <2>3
<1>9. ASSUME NEW i \in Ids, RemoveField(i) PROVE CrawlInv'
  <2>1. /\ fieldTable[i] # NoField /\ Change(i, NoField) /\ stayed' = stayed \ {i}
        /\ strays' \in {strays, strays \cup {<<i, fieldTable[i]>>}}
    BY <1>9 DEF RemoveField
  <2>2. <<i, fieldTable[i]>> \in Ids \X FieldContents
    BY <1>5, <2>1
  <2>3. QED BY <1>4, <2>1, <2>2
<1>10. CASE UNCHANGED crawlVars
  <2>1. UNCHANGED <<fieldKind, fieldTable, strays, crawl, wasThere, stayed, edits>>
    BY <1>10 DEF crawlVars
  <2>2. TableTyped' /\ (TableSeen => TableSeen')
    BY <2>1 DEF CrawlInv, TableTyped, TableSeen, Present
  <2>3. Underway(crawl) => Underway(crawl)'
    BY <2>1 DEF Underway, RefsSeen, Present, Ours, Listings
  <2>4. SeenUpTo(crawl, crawl.token) => SeenUpTo(crawl, crawl.token)'
    BY <2>1 DEF SeenUpTo, Ours
  <2>5. ToFetch(crawl) => ToFetch(crawl)'
    BY <2>1 DEF ToFetch, SeenUpTo, Ours
  <2>6. FailsForCause => FailsForCause'
    <3>1. \A i \in Ids : Disturbs(i) <=> Disturbs(i)'
      BY <2>1 DEF Disturbs, Matches
    <3>2. QED BY <2>1, <3>1 DEF FailsForCause, Present
  <2>7. NothingInvented /\ NothingMissed => NothingInvented' /\ NothingMissed'
    BY <2>1 DEF NothingInvented, NothingMissed, Sought, Ours
  <2>8. QED BY <2>1, <2>2, <2>3, <2>4, <2>5, <2>6, <2>7 DEF CrawlInv, ListingSound
<1>11. QED BY <1>1, <1>2, <1>3, <1>7, <1>8, <1>9, <1>10, PageKept, FetchKept DEF CrawlNext, Others

(* Every entry that a crawl answers was in the table, every record that a skill
   is resolved to was that skill's, and what is reported of a tool's verifier
   held, at a moment of the call (of the parts of one crawl or resolution each
   at its own); nothing that stayed is missing; and where nothing is answered
   there is a cause (crawler.rs, tool.rs, tap.rs). *)
THEOREM ReadsAreTrue == Spec => []ReadsTrue
<1>1. Init => CrawlInv /\ InspectionInv /\ TargetsInv
  BY CrawlsStart, InspectionStarts, TargetsStart DEF Init
<1>2. CrawlInv /\ InspectionInv /\ TargetsInv /\ [Next]_vars =>
          CrawlInv' /\ InspectionInv' /\ TargetsInv'
  BY EachPartMoves, CrawlsKept, InspectionsKept, TargetsKept
<1>3. ASSUME CrawlInv, InspectionInv, TargetsInv PROVE ReadsTrue
  <2>1. CrawlsTrue
    BY <1>3 DEF CrawlInv, CrawlsTrue, NoCrawl, ListingSound, Underway, Listings
  <2>2. TargetsTrue
    BY <1>3 DEF TargetsInv, TargetsTrue, ResolutionAt, NoResolution
  <2>3. QED BY <1>3, <2>1, <2>2, InspectionsTrue DEF ReadsTrue
<1>4. QED BY <1>1, <1>2, <1>3, PTL DEF Spec
--------------------------------------------------------------------------------
(* The input data of an execution. *)
PayloadKeys == UNION {[S -> Seq(Payloads)] : S \in SUBSET InputPorts}
PortData == [InputPorts -> [remote : BOOLEAN, data : Seq(Payloads)]]
Placements == [data : PortData, input : [InputPorts -> Values], since : Nat]
Commits ==
    [step : {"commit"}, input : [InputPorts -> Values], remote : SUBSET InputPorts,
     vertexOf : [InputPorts -> {1, 2}], configured : BOOLEAN, keys : PayloadKeys, since : Nat]
Fetches ==
    [step : {"fetch"}, input : [InputPorts -> Values], data : PortData,
     read : [InputPorts -> Seq(Payloads)]]

Beginning(s, t) == s \in Seq(Payloads) /\ Len(s) <= Len(t) /\ \A i \in 1 .. Len(s) : s[i] = t[i]
Stored(s, since) == \A i \in DOMAIN s : blobs[s[i]] >= since + SaveFor

(* What is on the chain is what was given to the command, and stored. *)
PlacedWhole(d) ==
    \A p \in InputPorts :
        /\ d.data[p].data = d.input[p].payloads
        /\ d.data[p].remote => Stored(d.data[p].data, d.since)

(* The keys so far are those of the first payloads, and these are stored. *)
CommitSound(c) ==
    /\ c.since <= storageEpoch /\ DOMAIN c.keys = c.remote
    /\ \A p \in c.remote : Beginning(c.keys[p], c.input[p].payloads) /\ Stored(c.keys[p], c.since)

FetchSound(c) ==
    \A p \in InputPorts :
        c.data[p].data = c.input[p].payloads /\ Beginning(c.read[p], c.data[p].data)

DataInv ==
    /\ blobs \in [Payloads -> Nat] /\ storageEpoch \in Nat
    /\ placed \subseteq Placements /\ \A d \in placed : PlacedWhole(d)
    /\ \/ transfer = NoTransfer
       \/ transfer \in Commits /\ CommitSound(transfer)
       \/ transfer \in Fetches /\ FetchSound(transfer)

LEMMA BeginningGrows ==
    ASSUME NEW s, NEW t \in Seq(Payloads), Beginning(s, t), Len(s) < Len(t)
    PROVE  /\ t[Len(s) + 1] \in Payloads
           /\ Beginning(Append(s, t[Len(s) + 1]), t)
           /\ \A i \in DOMAIN Append(s, t[Len(s) + 1]) :
                 \/ i \in DOMAIN s /\ Append(s, t[Len(s) + 1])[i] = s[i]
                 \/ Append(s, t[Len(s) + 1])[i] = t[Len(s) + 1]
<1>1. s \in Seq(Payloads) /\ Len(s) \in Nat /\ Len(t) \in Nat /\ DOMAIN t = 1 .. Len(t)
  BY DEF Beginning
<1>2. t[Len(s) + 1] \in Payloads
  BY <1>1
<1>3. PICK x : x = t[Len(s) + 1]
  OBVIOUS
<1>4. /\ Append(s, x) \in Seq(Payloads) /\ Len(Append(s, x)) = Len(s) + 1
      /\ DOMAIN Append(s, x) = 1 .. Len(s) + 1
      /\ \A i \in 1 .. Len(s) : Append(s, x)[i] = s[i]
      /\ Append(s, x)[Len(s) + 1] = x
  BY <1>1, <1>2, <1>3
<1>5. \A i \in 1 .. Len(s) + 1 : Append(s, x)[i] = t[i]
  BY <1>1, <1>3, <1>4 DEF Beginning
<1>6. Beginning(Append(s, x), t)
  BY <1>1, <1>4, <1>5 DEF Beginning
<1>7. \A i \in DOMAIN Append(s, x) : (i \in DOMAIN s /\ Append(s, x)[i] = s[i]) \/ Append(s, x)[i] = x
  BY <1>1, <1>4
<1>8. QED BY <1>2, <1>3, <1>6, <1>7

LEMMA BeginningEnds ==
    ASSUME NEW s, NEW t \in Seq(Payloads), Beginning(s, t), ~(Len(s) < Len(t))
    PROVE  s = t
<1>1. /\ s \in Seq(Payloads) /\ Len(s) = Len(t) /\ Len(t) \in Nat
      /\ DOMAIN s = 1 .. Len(t) /\ DOMAIN t = 1 .. Len(t)
      /\ \A i \in 1 .. Len(t) : s[i] = t[i]
  BY DEF Beginning
<1>2. s = [i \in 1 .. Len(t) |-> s[i]] /\ t = [i \in 1 .. Len(t) |-> t[i]]
  BY <1>1
<1>3. QED BY <1>1, <1>2

(* Blobs are kept at least as long as before, those that are stored now long
   enough. *)
LEMMA BlobsLast ==
    ASSUME blobs \in [Payloads -> Nat], storageEpoch \in Nat, NEW S, StoreBlobs(S)
    PROVE  /\ blobs' \in [Payloads -> Nat]
           /\ \A x \in Payloads : blobs'[x] >= blobs[x] /\ (x \in S => blobs'[x] >= storageEpoch + SaveFor)
<1>1. SaveFor \in Nat
  BY RemoteDataAssumption
<1>2. \A x \in Payloads :
         /\ blobs'[x] = IF x \in S /\ ~Certified(x) THEN storageEpoch + SaveFor ELSE blobs[x]
         /\ blobs[x] \in Nat
  BY DEF StoreBlobs
<1>3. \A x \in Payloads : Certified(x) <=> blobs[x] >= storageEpoch + SaveFor
  BY DEF Certified
<1>4. \A x \in Payloads : blobs'[x] \in Nat
  BY <1>1, <1>2
<1>5. blobs' = [x \in Payloads |-> blobs'[x]]
  BY DEF StoreBlobs
<1>6. blobs' \in [Payloads -> Nat]
  BY <1>4, <1>5
<1>7. QED BY <1>1, <1>2, <1>3, <1>6

LEMMA DataStarts == DataInit => DataInv
BY DEF DataInit, DataInv

(* What was stored stays so. *)
LEMMA PlacedStays ==
    ASSUME DataInv, \A x \in Payloads : blobs'[x] >= blobs[x], blobs' \in [Payloads -> Nat]
    PROVE  /\ \A s \in Seq(Payloads), since \in Nat : Stored(s, since) => Stored(s, since)'
           /\ \A d \in placed : PlacedWhole(d)'
<1>1. SaveFor \in Nat /\ blobs \in [Payloads -> Nat]
  BY RemoteDataAssumption DEF DataInv
<1>2. ASSUME NEW s \in Seq(Payloads), NEW since \in Nat, Stored(s, since)
      PROVE  Stored(s, since)'
  <2>1. ASSUME NEW i \in DOMAIN s PROVE blobs'[s[i]] >= since + SaveFor
    <3>1. s[i] \in Payloads
      BY <1>2, <2>1
    <3>2. blobs'[s[i]] >= blobs[s[i]] /\ blobs[s[i]] >= since + SaveFor
      BY <1>2, <2>1, <3>1 DEF Stored
    <3>3. QED BY <1>1, <3>1, <3>2
  <2>2. QED BY <2>1 DEF Stored
<1>3. ASSUME NEW d \in placed PROVE PlacedWhole(d)'
  <2>1. d \in Placements /\ PlacedWhole(d) /\ d.since \in Nat
    BY <1>3 DEF DataInv, Placements
  <2>2. \A p \in InputPorts : d.data[p].data \in Seq(Payloads)
    BY <2>1 DEF Placements, PortData
  <2>3. QED BY <1>2, <2>1, <2>2 DEF PlacedWhole
<1>4. QED BY <1>2, <1>3

LEMMA DataKept ==
    ASSUME DataInv, [DataNext]_dataVars
    PROVE  DataInv'
<1>0. /\ blobs \in [Payloads -> Nat] /\ storageEpoch \in Nat /\ SaveFor \in Nat
      /\ placed \subseteq Placements /\ \A d \in placed : PlacedWhole(d)
      /\ \A v \in Values : v.payloads \in Seq(Payloads)
  BY RemoteDataAssumption DEF DataInv
<1>1. /\ transfer.step = "commit" => transfer \in Commits /\ CommitSound(transfer)
      /\ transfer.step = "fetch" => transfer \in Fetches /\ FetchSound(transfer)
  BY DEF DataInv, NoTransfer, Commits, Fetches
<1>2. ASSUME TransferEnds, UNCHANGED <<storageEpoch, placed>>,
             blobs' = blobs \/ \E S : StoreBlobs(S)
      PROVE  DataInv'
  <2>1. blobs' \in [Payloads -> Nat] /\ \A x \in Payloads : blobs'[x] >= blobs[x]
    <3>1. CASE blobs' = blobs
      BY <1>0, <3>1
    <3>2. CASE \E S : StoreBlobs(S)
      BY <1>0, <3>2, BlobsLast
    <3>3. QED BY <1>2, <3>1, <3>2
  <2>2. \A d \in placed : PlacedWhole(d)'
    BY <2>1, PlacedStays
  <2>3. QED BY <1>0, <1>2, <2>1, <2>2 DEF DataInv, TransferEnds, NoTransfer
<1>3. ASSUME NEW input \in [InputPorts -> Values], NEW remote \in SUBSET InputPorts,
             NEW preferred, NEW vertexOf \in [InputPorts -> {1, 2}], NEW configured \in BOOLEAN,
             BeginExecute(input, remote, preferred, vertexOf, configured)
      PROVE  DataInv'
  <2>1. PICK keys : keys = [p \in remote |-> <<>>]
    OBVIOUS
  <2>2. keys \in [remote -> Seq(Payloads)] /\ DOMAIN keys = remote /\ \A p \in remote : keys[p] = <<>>
    BY <2>1
  <2>3. keys \in PayloadKeys
    BY <2>2 DEF PayloadKeys
  <2>4. PICK c : c = [step |-> "commit", input |-> input, remote |-> remote, vertexOf |-> vertexOf,
                      configured |-> configured, keys |-> keys, since |-> storageEpoch]
    OBVIOUS
  <2>5. c \in Commits /\ c.keys = keys /\ c.remote = remote /\ c.since = storageEpoch /\ c.input = input
    BY <1>0, <2>3, <2>4 DEF Commits
  <2>6. transfer' = c /\ UNCHANGED <<blobs, storageEpoch, placed>>
    BY <1>3, <2>1, <2>4 DEF BeginExecute, SameStore
  <2>7. ASSUME NEW p \in remote
        PROVE  Beginning(c.keys[p], c.input[p].payloads) /\ Stored(c.keys[p], c.since)
    <3>1. input[p].payloads \in Seq(Payloads) /\ c.keys[p] = <<>> /\ c.input[p] = input[p]
      BY <1>0, <2>2, <2>5, <2>7
    <3>2. QED BY <3>1 DEF Beginning, Stored
  <2>8. CommitSound(c)
    BY <1>0, <2>2, <2>5, <2>7 DEF CommitSound
  <2>9. CommitSound(c)' /\ \A d \in placed : PlacedWhole(d)'
    BY <1>0, <2>6, <2>8 DEF CommitSound, Stored, PlacedWhole
  <2>10. QED BY <1>0, <2>5, <2>6, <2>9 DEF DataInv
<1>4. ASSUME NEW p \in InputPorts, upload_bytes(p) PROVE DataInv'
  <2> DEFINE t == transfer.input[p].payloads
             s == transfer.keys[p]
             x == NextPayload(p)
  <2>1. /\ transfer.step = "commit" /\ p \in transfer.remote /\ Len(s) < Len(t)
        /\ StoreBlobs({x}) /\ UNCHANGED <<storageEpoch, placed>>
    BY <1>4 DEF upload_bytes, TransferAt, Uploading, Unsent
  <2>2. CASE Certified(x)
    BY <1>2, <1>4, <2>1, <2>2 DEF upload_bytes
  <2>3. CASE ~Certified(x)
    <3>1. /\ transfer \in Commits /\ CommitSound(transfer) /\ transfer.since \in Nat
          /\ transfer.since <= storageEpoch /\ transfer.remote \in SUBSET InputPorts
          /\ transfer.input \in [InputPorts -> Values] /\ DOMAIN transfer.keys = transfer.remote
          /\ transfer.keys \in PayloadKeys
      BY <1>1, <2>1 DEF Commits, CommitSound
    <3>2. t \in Seq(Payloads) /\ Beginning(s, t) /\ Stored(s, transfer.since)
      BY <1>0, <1>4, <2>1, <3>1 DEF CommitSound
    <3>3. PICK new : new = Append(s, x)
      OBVIOUS
    <3>4. /\ x \in Payloads /\ Beginning(new, t) /\ new \in Seq(Payloads)
          /\ \A i \in DOMAIN new : (i \in DOMAIN s /\ new[i] = s[i]) \/ new[i] = x
      <4>1. PICK r : r = s
        OBVIOUS
      <4>2. PICK u : u = t
        OBVIOUS
      <4>3. PICK y : y = x
        OBVIOUS
      <4>4. y = u[Len(r) + 1]
        BY <4>1, <4>2, <4>3 DEF NextPayload
      <4>5. u \in Seq(Payloads) /\ Beginning(r, u) /\ Len(r) < Len(u)
        BY <2>1, <3>2, <4>1, <4>2
      <4>6. /\ y \in Payloads /\ Beginning(Append(r, y), u)
            /\ \A i \in DOMAIN Append(r, y) :
                  (i \in DOMAIN r /\ Append(r, y)[i] = r[i]) \/ Append(r, y)[i] = y
        BY ONLY <4>4, <4>5, BeginningGrows
      <4>7. new = Append(r, y)
        BY <3>3, <4>1, <4>3
      <4>8. QED BY <4>1, <4>2, <4>3, <4>6, <4>7 DEF Beginning
    <3>5. PICK keys : keys = [transfer.keys EXCEPT ![p] = new]
      OBVIOUS
    <3>6. transfer.keys \in [transfer.remote -> Seq(Payloads)]
      <4>1. PICK S \in SUBSET InputPorts : transfer.keys \in [S -> Seq(Payloads)]
        BY <3>1 DEF PayloadKeys
      <4>2. S = transfer.remote
        BY <3>1, <4>1
      <4>3. QED BY <4>1, <4>2
    <3>7. /\ keys \in [transfer.remote -> Seq(Payloads)] /\ DOMAIN keys = transfer.remote
          /\ keys[p] = new /\ \A q \in transfer.remote : q # p => keys[q] = transfer.keys[q]
      BY <2>1, <3>4, <3>5, <3>6
    <3>8. keys \in PayloadKeys
      BY <3>1, <3>7 DEF PayloadKeys
    <3>9. PICK c : c = [transfer EXCEPT !.keys = keys]
      OBVIOUS
    <3>10. /\ c \in Commits /\ c.keys = keys /\ c.remote = transfer.remote /\ c.since = transfer.since
           /\ c.input = transfer.input
      BY <3>1, <3>8, <3>9 DEF Commits
    <3>11. transfer' = c
      <4>1. transfer' = [transfer EXCEPT !.keys[p] = Append(@, x)]
        BY <1>4, <2>3 DEF upload_bytes
      <4>2. QED BY <3>3, <3>5, <3>9, <4>1
    <3>12. /\ blobs' \in [Payloads -> Nat] /\ blobs'[x] >= storageEpoch + SaveFor
           /\ \A y \in Payloads : blobs'[y] >= blobs[y]
      BY <1>0, <2>1, <3>4, BlobsLast
    <3>13. /\ \A r \in Seq(Payloads), since \in Nat : Stored(r, since) => Stored(r, since)'
           /\ \A d \in placed : PlacedWhole(d)'
      BY <3>12, PlacedStays
    <3>14. blobs'[x] >= transfer.since + SaveFor
      BY <1>0, <3>1, <3>4, <3>12
    <3>15. Stored(new, transfer.since)'
      <4>1. PICK since : since = transfer.since
        OBVIOUS
      <4>2. s \in Seq(Payloads) /\ since \in Nat
        BY <3>1, <3>2, <4>1 DEF Beginning
      <4>3. PICK old : old = s
        OBVIOUS
      <4>4. Stored(old, since)'
        BY <3>2, <3>13, <4>1, <4>2, <4>3
      <4>5. PICK y : y = x
        OBVIOUS
      <4>6. \A i \in DOMAIN new : blobs'[new[i]] >= since + SaveFor
        BY <3>4, <3>14, <4>1, <4>3, <4>4, <4>5 DEF Stored
      <4>7. \A i \in DOMAIN new : blobs'[new[i]] >= transfer'.since + SaveFor
        BY <3>10, <3>11, <4>1, <4>6
      <4>8. QED BY <4>7 DEF Stored
    <3>16. ASSUME NEW q \in c.remote
           PROVE  Beginning(c.keys[q], c.input[q].payloads) /\ Stored(c.keys[q], c.since)'
      <4>1. CASE q = p
        <5>1. c.keys[q] = new /\ c.input[q].payloads = t
          BY <3>7, <3>10, <4>1
        <5>2. Stored(new, c.since)'
          BY <3>10, <3>11, <3>15 DEF Stored
        <5>3. QED BY <3>4, <5>1, <5>2 DEF Stored
      <4>2. CASE q # p
        <5>1. c.keys[q] = transfer.keys[q] /\ c.input[q].payloads = transfer.input[q].payloads
          BY <3>7, <3>10, <3>16, <4>2
        <5>2. /\ Beginning(transfer.keys[q], transfer.input[q].payloads)
              /\ Stored(transfer.keys[q], transfer.since)
          BY <3>1, <3>10, <3>16 DEF CommitSound
        <5>3. c.keys[q] \in Seq(Payloads) /\ Stored(c.keys[q], c.since) /\ c.since \in Nat
          BY <3>1, <3>10, <5>1, <5>2 DEF Beginning
        <5>4. PICK k : k = c.keys[q]
          OBVIOUS
        <5>5. PICK since : since = c.since
          OBVIOUS
        <5>6. Stored(k, since)'
          BY <3>13, <5>3, <5>4, <5>5
        <5>7. QED BY <5>1, <5>2, <5>4, <5>5, <5>6 DEF Stored
      <4>3. QED BY <4>1, <4>2
    <3>17. CommitSound(c)'
      BY <1>0, <2>1, <3>1, <3>7, <3>10, <3>16 DEF CommitSound, Beginning
    <3>18. QED BY <1>0, <2>1, <3>10, <3>11, <3>12, <3>13, <3>17 DEF DataInv
  <2>4. QED BY <2>2, <2>3
<1>5. CASE NotConfigured
  BY <1>2, <1>5 DEF NotConfigured, SameStore
<1>6. ASSUME NEW S \in SUBSET InputPorts, UploadFails(S) PROVE DataInv'
  BY <1>2, <1>6 DEF UploadFails
<1>7. ASSUME NEW accepted \in BOOLEAN, SubmitData(accepted) PROVE DataInv'
  <2>1. /\ transfer.step = "commit" /\ \A p \in transfer.remote : ~Unsent(p)
        /\ TransferEnds /\ UNCHANGED <<blobs, storageEpoch>>
        /\ placed' = IF accepted
                     THEN {[data |-> DataOnChain, input |-> transfer.input, since |-> transfer.since]}
                     ELSE placed
    BY <1>7 DEF SubmitData, TransferAt
  <2>2. CASE ~accepted
    BY <1>2, <2>1, <2>2
  <2>3. CASE accepted
    <3>1. /\ transfer \in Commits /\ CommitSound(transfer) /\ transfer.since \in Nat
          /\ transfer.input \in [InputPorts -> Values]
      BY <1>1, <2>1 DEF Commits
    <3>2. PICK data : data = DataOnChain
      OBVIOUS
    <3>3. ASSUME NEW p \in InputPorts
          PROVE  /\ data[p] = [remote |-> p \in transfer.remote, data |-> transfer.input[p].payloads]
                 /\ data[p] \in [remote : BOOLEAN, data : Seq(Payloads)]
                 /\ p \in transfer.remote => Stored(transfer.input[p].payloads, transfer.since)
      <4>1. transfer.input[p].payloads \in Seq(Payloads)
        BY <1>0, <3>1, <3>3
      <4>2. p \in transfer.remote =>
               transfer.keys[p] = transfer.input[p].payloads /\ Stored(transfer.keys[p], transfer.since)
        BY <2>1, <3>1, <4>1, BeginningEnds DEF CommitSound, Unsent
      <4>3. data[p] = [remote |-> p \in transfer.remote, data |-> transfer.input[p].payloads]
        BY <3>2, <3>3, <4>2 DEF DataOnChain
      <4>4. QED BY <4>1, <4>2, <4>3
    <3>4. data \in PortData
      BY <3>2, <3>3 DEF PortData, DataOnChain
    <3>5. PICK d : d = [data |-> data, input |-> transfer.input, since |-> transfer.since]
      OBVIOUS
    <3>6. d \in Placements /\ d.data = data /\ d.input = transfer.input /\ d.since = transfer.since
      BY <3>1, <3>4, <3>5 DEF Placements
    <3>7. PlacedWhole(d)
      <4>1. ASSUME NEW p \in InputPorts
            PROVE  /\ d.data[p].data = d.input[p].payloads
                   /\ d.data[p].remote => Stored(d.data[p].data, d.since)
        <5>1. /\ d.data[p].data = transfer.input[p].payloads /\ d.input[p] = transfer.input[p]
              /\ d.data[p].remote <=> p \in transfer.remote
          <6>1. d.data[p] = [remote |-> p \in transfer.remote, data |-> transfer.input[p].payloads]
            BY <3>3, <3>6, <4>1
          <6>2. d.data[p].data = transfer.input[p].payloads
            BY <6>1
          <6>3. d.data[p].remote <=> p \in transfer.remote
            <7>1. d.data[p].remote = (p \in transfer.remote)
              BY <6>1
            <7>2. QED BY <7>1, Zenon
          <6>4. d.input[p] = transfer.input[p]
            BY <3>6
          <6>5. QED BY <6>2, <6>3, <6>4
        <5>2. QED BY <3>3, <3>6, <4>1, <5>1
      <4>2. QED BY <4>1 DEF PlacedWhole
    <3>8. PlacedWhole(d)'
      BY <2>1, <3>7 DEF PlacedWhole, Stored
    <3>9. placed' = {d}
      BY <2>1, <2>3, <3>2, <3>5
    <3>10. QED BY <1>0, <2>1, <3>6, <3>8, <3>9 DEF DataInv, TransferEnds
  <2>4. QED BY <2>2, <2>3
<1>8. ASSUME NEW c \in Fetches, transfer' = c, FetchSound(c), SameStore PROVE DataInv'
  BY <1>0, <1>8 DEF SameStore, DataInv, FetchSound, PlacedWhole, Stored
<1>9. ASSUME NEW d \in placed, BeginFetch(d) PROVE DataInv'
  <2>1. PICK read : read = [p \in InputPorts |-> IF d.data[p].remote THEN <<>> ELSE d.data[p].data]
    OBVIOUS
  <2>2. PICK c : c = [step |-> "fetch", input |-> d.input, data |-> d.data, read |-> read]
    OBVIOUS
  <2>3. d \in Placements /\ PlacedWhole(d)
    BY <1>0, <1>9
  <2>4. /\ d.data \in PortData /\ d.input \in [InputPorts -> Values]
        /\ \A p \in InputPorts : d.data[p].data \in Seq(Payloads)
    BY <2>3 DEF Placements, PortData
  <2>5. read \in [InputPorts -> Seq(Payloads)] /\ \A p \in InputPorts : Beginning(read[p], d.data[p].data)
    BY <2>1, <2>4 DEF Beginning
  <2>6. c \in Fetches /\ c.read = read /\ c.data = d.data /\ c.input = d.input
    BY <2>2, <2>4, <2>5 DEF Fetches
  <2>7. FetchSound(c)
    BY <2>3, <2>5, <2>6 DEF FetchSound, PlacedWhole
  <2>8. transfer' = c /\ SameStore
    BY <1>9, <2>1, <2>2 DEF BeginFetch
  <2>9. QED BY <1>8, <2>6, <2>7, <2>8
<1>10. ASSUME NEW p \in InputPorts, read_file(p) PROVE DataInv'
  <2> DEFINE key == transfer.data[p].data[Len(transfer.read[p]) + 1]
  <2>1. transfer.step = "fetch" /\ Unread(p) /\ SameStore
    BY <1>10 DEF read_file, TransferAt
  <2>2. CASE ~(blobs[key] >= storageEpoch)
    BY <1>2, <1>10, <2>1, <2>2 DEF read_file, SameStore
  <2>3. CASE blobs[key] >= storageEpoch
    <3>1. /\ transfer \in Fetches /\ FetchSound(transfer) /\ transfer.data \in PortData
          /\ transfer.read \in [InputPorts -> Seq(Payloads)]
      BY <1>1, <2>1 DEF Fetches
    <3>2. PICK new : new = Append(transfer.read[p], key)
      OBVIOUS
    <3>3. Beginning(new, transfer.data[p].data) /\ new \in Seq(Payloads)
      <4>1. /\ transfer.data[p].data \in Seq(Payloads)
            /\ Beginning(transfer.read[p], transfer.data[p].data)
        BY <1>10, <3>1 DEF FetchSound, PortData
      <4>2. Len(transfer.read[p]) < Len(transfer.data[p].data)
        BY <2>1 DEF Unread
      <4>3. QED BY <3>2, <4>1, <4>2, BeginningGrows DEF Beginning
    <3>4. PICK read : read = [transfer.read EXCEPT ![p] = new]
      OBVIOUS
    <3>5. /\ read \in [InputPorts -> Seq(Payloads)] /\ read[p] = new
          /\ \A q \in InputPorts : q # p => read[q] = transfer.read[q]
      BY <1>10, <3>1, <3>3, <3>4
    <3>6. PICK c : c = [transfer EXCEPT !.read = read]
      OBVIOUS
    <3>7. c \in Fetches /\ c.read = read /\ c.data = transfer.data /\ c.input = transfer.input
      BY <3>1, <3>5, <3>6 DEF Fetches
    <3>8. transfer' = c
      <4>1. transfer' = [transfer EXCEPT !.read[p] = Append(@, key)]
        BY <1>10, <2>3 DEF read_file
      <4>2. QED BY <3>2, <3>4, <3>6, <4>1
    <3>9. FetchSound(c)
      BY <3>1, <3>3, <3>5, <3>7 DEF FetchSound
    <3>10. QED BY <1>8, <2>1, <3>7, <3>8, <3>9
  <2>4. QED BY <2>2, <2>3
<1>11. CASE EndFetch
  BY <1>2, <1>11 DEF EndFetch, SameStore
<1>12. CASE StorageEpochEnds
  <2>1. storageEpoch' = storageEpoch + 1 /\ UNCHANGED <<blobs, transfer, placed>>
    BY <1>12 DEF StorageEpochEnds
  <2>2. CommitSound(transfer) /\ transfer \in Commits => CommitSound(transfer)'
    BY <1>0, <2>1 DEF CommitSound, Stored, Commits
  <2>3. QED BY <1>0, <2>1, <2>2 DEF DataInv, PlacedWhole, Stored, FetchSound
<1>13. CASE UNCHANGED dataVars
  BY <1>13 DEF dataVars, DataInv, PlacedWhole, Stored, FetchSound, CommitSound
<1>14. QED BY <1>3, <1>4, <1>5, <1>6, <1>7, <1>9, <1>10, <1>11, <1>12, <1>13 DEF DataNext

(* Data arrives as it was given, port by port and in its order, and stays
   stored for as long as it was stored for (nexus_data.rs, client.rs of
   Walrus). *)
THEOREM DataArrivesWhole == Spec => []DataArrives
<1>1. Init => DataInv
  BY DataStarts DEF Init
<1>2. DataInv /\ [Next]_vars => DataInv'
  BY EachPartMoves, DataKept
<1>3. ASSUME DataInv PROVE DataArrives
  <2>1. ASSUME Fetched, NEW p \in InputPorts PROVE transfer.read[p] = transfer.input[p].payloads
    <3>1. transfer \in Fetches /\ FetchSound(transfer) /\ ~Unread(p)
      BY <1>3, <2>1 DEF Fetched, TransferAt, DataInv, NoTransfer, Commits
    <3>2. transfer.data[p].data \in Seq(Payloads)
      BY <2>1, <3>1 DEF Fetches, PortData
    <3>3. QED BY <2>1, <3>1, <3>2, BeginningEnds DEF FetchSound, Unread
  <2>2. QED BY <1>3, <2>1 DEF DataArrives, DataInv, PlacedWhole, Stored
<1>4. QED BY <1>1, <1>2, <1>3, PTL DEF Spec

--------------------------------------------------------------------------------
(* The quotes of budgets and withdrawals, for every width of the numbers. *)

(* What a rounded quotient is: the two bounds that the proofs below use. *)
LEMMA Quotient ==
    ASSUME NEW n \in Nat, NEW d \in Nat, d > 0
    PROVE  /\ n \div d \in Nat
           /\ d * (n \div d) <= n
           /\ n < d * (n \div d) + d
  BY SMT

(* The part of a priority that is refused or taken is a number. *)
LEMMA PercentageIsNat ==
    ASSUME NEW p \in {Omitted} \cup Nat
    PROVE  /\ effective_priority_fee_percentage(p) \in Nat
           /\ Valid(p) => effective_priority_fee_percentage(p) >= 10
  BY SMT DEF effective_priority_fee_percentage, Valid, Omitted,
     DEFAULT_PRIORITY_FEE_PERCENTAGE,
             MIN_PRIORITY_FEE_PERCENTAGE, MAX_PRIORITY_FEE_PERCENTAGE

(* The reserve of a gas budget, in terms of products. *)
LEMMA ReserveBounds ==
    ASSUME NEW gas \in Nat, NEW p \in Nat
    PROVE  /\ priority_fee_mist_for_gas_budget(gas, p) \in Nat
           /\ Reserve(gas, p) \in Nat
           /\ 100 * Reserve(gas, p) <= 100 * gas + gas * p
           /\ 100 * gas + gas * p < 100 * Reserve(gas, p) + 100
  <1> DEFINE fee == (gas * p) \div 100
  <1>1. gas * p \in Nat
    BY SMT
  <1>2. fee \in Nat /\ 100 * fee <= gas * p /\ gas * p < 100 * fee + 100
    BY <1>1, Quotient
  <1>3. Reserve(gas, p) = gas + fee /\ priority_fee_mist_for_gas_budget(gas, p) = fee
    BY DEF Reserve, priority_fee_mist_for_gas_budget
  <1> HIDE DEF fee
  <1> DEFINE prod == gas * p
  <1>4. prod \in Nat /\ 100 * fee <= prod /\ prod < 100 * fee + 100
    BY <1>1, <1>2
  <1> HIDE DEF prod
  <1>5. /\ 100 * (gas + fee) <= 100 * gas + prod
        /\ 100 * gas + prod < 100 * (gas + fee) + 100
    BY <1>2, <1>4, SMT
  <1>6. gas + fee \in Nat
    BY <1>2, SMT
  <1> QED BY <1>2, <1>3, <1>5, <1>6 DEF prod

(* The derived budget fits the payment, and one more MIST of gas does not. *)
LEMMA DerivedBudget ==
    ASSUME NEW max \in Nat, NEW p \in Nat
    PROVE  LET gas == gas_budget_mist_for_max_budget_mist(max, p)
           IN /\ gas \in Nat
              /\ Reserve(gas, p) <= max
              /\ Reserve(gas + 1, p) > max
  <1> DEFINE gas == (100 * max + 99) \div (100 + p)
  <1>1. /\ gas \in Nat
        /\ (100 + p) * gas <= 100 * max + 99
        /\ 100 * max + 99 < (100 + p) * gas + (100 + p)
    <2>1. 100 * max + 99 \in Nat /\ 100 + p \in Nat /\ 100 + p > 0
      BY SMT
    <2> QED BY <2>1, Quotient
  <1> HIDE DEF gas
  <1> DEFINE prod == gas * p
  <1>2. /\ prod \in Nat
        /\ (100 + p) * gas = 100 * gas + prod
        /\ (gas + 1) * p = prod + p
        /\ gas + 1 \in Nat
    BY <1>1, SMT
  <1>3. /\ Reserve(gas, p) \in Nat
        /\ 100 * Reserve(gas, p) <= 100 * gas + prod
    BY <1>1, ReserveBounds
  <1>4. /\ Reserve(gas + 1, p) \in Nat
        /\ 100 * (gas + 1) + (prod + p) < 100 * Reserve(gas + 1, p) + 100
    <2>1. /\ Reserve(gas + 1, p) \in Nat
          /\ 100 * (gas + 1) + (gas + 1) * p < 100 * Reserve(gas + 1, p) + 100
      BY <1>2, ReserveBounds
    <2> QED BY <1>2, <2>1
  <1> HIDE DEF prod
  <1>5. Reserve(gas, p) <= max
    BY <1>1, <1>2, <1>3, SMT
  <1>6. Reserve(gas + 1, p) > max
    BY <1>1, <1>2, <1>4, SMT
  <1>7. gas_budget_mist_for_max_budget_mist(max, p) = gas
    BY DEF gas_budget_mist_for_max_budget_mist, gas
  <1> QED BY <1>1, <1>5, <1>6, <1>7
-----------------------------------------------------------------------------
(* The question is one of those offered, and the answer is the answer to it. *)
QuoteGiven == IF asked = NoQuestion THEN quote = Error ELSE asked \in Questions /\ quote = AnswerTo(asked)

LEMMA AlwaysGiven == Spec => []QuoteGiven
  <1>1. Init => QuoteGiven
    BY DEF Init, QuoteInit, QuoteGiven
  <1>2. QuoteGiven /\ [QuoteNext]_quoteVars => QuoteGiven'
    <2> SUFFICES ASSUME QuoteGiven, [QuoteNext]_quoteVars PROVE QuoteGiven'
      OBVIOUS
    <2>1. CASE AskBudget
      <3>1. asked' \in Questions /\ asked' # NoQuestion
        BY <2>1 DEF AskBudget, Questions, BudgetQuestions, PaymentQuestions, NoQuestion
      <3> QED BY <2>1, <3>1 DEF AskBudget, QuoteGiven
    <2>2. CASE AskVault
      <3>1. asked' \in Questions /\ asked' # NoQuestion
        BY <2>2 DEF AskVault, Questions, VaultQuestions, NoQuestion
      <3> QED BY <2>2, <3>1 DEF AskVault, QuoteGiven
    <2>3. CASE TakeQuote
      BY <2>3 DEF TakeQuote, QuoteGiven
    <2>4. CASE UNCHANGED quoteVars
      BY <2>4 DEF quoteVars, QuoteGiven
    <2> QED BY <2>1, <2>2, <2>3, <2>4 DEF QuoteNext
  <1> QED BY <1>1, <1>2, EachPartMoves, PTL DEF Spec

(* A question about a budget, with the bounds of its parts. *)
LEMMA BudgetParts ==
    ASSUME QuoteGiven, asked.about \in {"budget", "payment"}
    PROVE  /\ asked # NoQuestion
           /\ asked.max \in Nat /\ asked.max <= MaxWord
           /\ asked.percentage \in {Omitted} \cup Nat
           /\ asked.gas \in {Omitted} \cup Nat
           /\ asked.gas <= MaxWord
           /\ asked.about = "payment" => asked.gas = Omitted
           /\ asked.about = "budget" => quote = quote_priority_payment_budget(asked)
           /\ asked.about = "payment" => quote = resolve_agent_dag_payment_budget(asked)
  <1>1. asked # NoQuestion
    BY DEF NoQuestion
  <1>2. asked \in BudgetQuestions \cup PaymentQuestions /\ quote = AnswerTo(asked)
    BY <1>1 DEF QuoteGiven, Questions, VaultQuestions
  <1>3. /\ asked.max \in Budgets /\ asked.percentage \in Percentages
        /\ asked.gas \in {Omitted} \cup Budgets
        /\ asked.about = "payment" => asked.gas = Omitted
    BY <1>2 DEF BudgetQuestions, PaymentQuestions
  <1>4. /\ asked.max \in Nat /\ asked.max <= MaxWord
        /\ asked.percentage \in {Omitted} \cup Nat
        /\ asked.gas \in {Omitted} \cup Nat /\ asked.gas <= MaxWord
    <2>1. /\ MaxWord \in Nat /\ Budgets \subseteq 0..MaxWord
          /\ Percentages \subseteq {Omitted} \cup 0..MaxWord
      BY QuotesAssumption
    <2>2. asked.max \in 0..MaxWord
      BY <1>3, <2>1
    <2>3. asked.percentage = Omitted \/ asked.percentage \in 0..MaxWord
      BY <1>3, <2>1
    <2>4. asked.gas = Omitted \/ asked.gas \in 0..MaxWord
      BY <1>3, <2>1
    <2>5. Omitted <= MaxWord
      BY <2>1, SMT DEF Omitted
    <2>6. /\ asked.percentage \in {Omitted} \cup Nat
          /\ asked.gas \in {Omitted} \cup Nat
          /\ asked.gas <= MaxWord
      <3>1. \A x \in 0..MaxWord : x \in Nat /\ x <= MaxWord
        BY <2>1, SMT
      <3> QED BY <2>3, <2>4, <2>5, <3>1
    <2> QED BY <2>1, <2>2, <2>6, SMT
  <1>5. /\ asked.about = "budget" => quote = quote_priority_payment_budget(asked)
        /\ asked.about = "payment" => quote = resolve_agent_dag_payment_budget(asked)
    BY <1>2 DEF AnswerTo
  <1> QED BY <1>1, <1>3, <1>4, <1>5

(* The quote of a budget in words of its reserve. *)
LEMMA QuoteOfBudget ==
    ASSUME NEW q, q.max \in Nat, q.max <= MaxWord, q.percentage \in {Omitted} \cup Nat,
           q.gas \in {Omitted} \cup Nat, q.gas <= MaxWord
    PROVE  LET p == effective_priority_fee_percentage(q.percentage)
           IN /\ GasOf(q) \in Nat /\ Reserve(GasOf(q), p) \in Nat
              /\ q.gas # Omitted => GasOf(q) = q.gas
              /\ q.gas = Omitted => /\ Reserve(GasOf(q), p) <= q.max
                                    /\ Reserve(GasOf(q) + 1, p) > q.max
              /\ quote_priority_payment_budget(q) =
                    IF ~Valid(q.percentage) \/ Reserve(GasOf(q), p) > q.max THEN Error
                    ELSE [ok |-> TRUE, gas |-> GasOf(q), reserved |-> Reserve(GasOf(q), p)]
  <1> DEFINE p == effective_priority_fee_percentage(q.percentage)
  <1>1. p \in Nat
    BY PercentageIsNat
  <1> HIDE DEF p
  <1> DEFINE derived == gas_budget_mist_for_max_budget_mist(q.max, p)
  <1>2. /\ derived \in Nat /\ Reserve(derived, p) <= q.max /\ Reserve(derived + 1, p) > q.max
    BY <1>1, DerivedBudget
  <1>3. GasOf(q) = IF q.gas # Omitted THEN q.gas ELSE derived
    BY DEF GasOf, p
  <1> HIDE DEF derived
  <1> DEFINE gas == GasOf(q)
             fee == priority_fee_mist_for_gas_budget(gas, p)
  <1>4. gas \in Nat
    BY <1>2, <1>3
  <1> HIDE DEF gas
  <1>5. fee \in Nat /\ Reserve(gas, p) = gas + fee
    BY <1>1, <1>4, ReserveBounds DEF Reserve
  <1>6. quote_priority_payment_budget(q) =
          IF ~Valid(q.percentage) \/ gas > MaxWord \/ fee > MaxWord \/ gas + fee > MaxWord
             \/ gas + fee > q.max
          THEN Error ELSE [ok |-> TRUE, gas |-> gas, reserved |-> gas + fee]
    BY DEF quote_priority_payment_budget, gas, p
  <1> HIDE DEF fee
  <1>7. (gas > MaxWord \/ fee > MaxWord \/ gas + fee > MaxWord \/ gas + fee > q.max)
            <=> Reserve(gas, p) > q.max
    BY <1>4, <1>5, QuotesAssumption, SMT
  <1>8. quote_priority_payment_budget(q) =
          IF ~Valid(q.percentage) \/ Reserve(gas, p) > q.max THEN Error
          ELSE [ok |-> TRUE, gas |-> gas, reserved |-> Reserve(gas, p)]
    BY <1>5, <1>6, <1>7, Zenon
  <1>9. gas + fee \in Nat
    BY <1>4, <1>5, SMT
  <1> QED BY <1>2, <1>3, <1>4, <1>5, <1>8, <1>9 DEF gas, p

(* Budgets are exact. *)
LEMMA BudgetsExact == QuoteGiven => BudgetMaximal
  <1> SUFFICES ASSUME QuoteGiven, asked.about \in {"budget", "payment"}
               PROVE  LET p == effective_priority_fee_percentage(asked.percentage)
                      IN IF quote.ok
                         THEN /\ Valid(asked.percentage)
                              /\ quote.reserved = Reserve(quote.gas, p)
                              /\ quote.reserved <= asked.max
                              /\ asked.gas # Omitted => quote.gas = asked.gas
                              /\ asked.gas = Omitted => Reserve(quote.gas + 1, p) > asked.max
                         ELSE \/ ~Valid(asked.percentage)
                              \/ asked.gas # Omitted /\ Reserve(asked.gas, p) > asked.max
                              \/ asked.about = "payment" /\ Reserve(1, p) > asked.max
    BY DEF BudgetMaximal
  <1> DEFINE p == effective_priority_fee_percentage(asked.percentage)
             gas == GasOf(asked)
             priced == quote_priority_payment_budget(asked)
  <1>1. /\ gas \in Nat /\ Reserve(gas, p) \in Nat /\ asked.max \in Nat
        /\ asked.gas # Omitted => gas = asked.gas
        /\ asked.gas = Omitted => Reserve(gas, p) <= asked.max /\ Reserve(gas + 1, p) > asked.max
        /\ priced = IF ~Valid(asked.percentage) \/ Reserve(gas, p) > asked.max THEN Error
                    ELSE [ok |-> TRUE, gas |-> gas, reserved |-> Reserve(gas, p)]
        /\ asked.about = "payment" => asked.gas = Omitted
        /\ asked.about = "budget" => quote = priced
        /\ asked.about = "payment" =>
              quote = IF priced.ok /\ priced.gas = 0 THEN Error ELSE priced
    BY BudgetParts, QuoteOfBudget DEF resolve_agent_dag_payment_budget
  <1> HIDE DEF p, gas, priced
  <1>2. CASE ~Valid(asked.percentage) \/ Reserve(gas, p) > asked.max
    <2>1. priced = Error /\ ~priced.ok
      BY <1>1, <1>2 DEF Error
    <2>2. ~quote.ok
      BY <1>1, <2>1
    <2>3. asked.gas = Omitted => ~(Reserve(gas, p) > asked.max)
      BY <1>1, SMT
    <2> QED BY <1>1, <1>2, <2>2, <2>3 DEF p
  <1>3. CASE Valid(asked.percentage) /\ ~(Reserve(gas, p) > asked.max)
    <2>1. priced.ok /\ priced.gas = gas /\ priced.reserved = Reserve(gas, p)
      BY <1>1, <1>3
    <2>2. Reserve(gas, p) <= asked.max
      BY <1>1, <1>3, SMT
    <2>3. CASE asked.about = "payment" /\ gas = 0
      <3>1. quote = Error /\ ~quote.ok
        BY <1>1, <2>1, <2>3 DEF Error
      <3>2. Reserve(1, p) > asked.max
        BY <1>1, <2>3, SMT
      <3> QED BY <2>3, <3>1, <3>2 DEF p
    <2>4. CASE ~(asked.about = "payment" /\ gas = 0)
      <3>1. quote = priced
        BY <1>1, <2>1, <2>4
      <3> QED BY <1>1, <1>3, <2>1, <2>2, <3>1 DEF p
    <2> QED BY <2>3, <2>4
  <1> QED BY <1>2, <1>3 DEF p
-----------------------------------------------------------------------------
(* A proper part of the shares is worth a proper part of the vault. *)
LEMMA ProperPart ==
    ASSUME NEW us \in Nat, NEW share \in Nat, NEW total \in Nat, us > 0, share < total
    PROVE  LET part == (us * share) \div total
           IN part \in Nat /\ part * total <= us * share /\ part < us
  <1> DEFINE part == (us * share) \div total
             prod == us * share
  <1>1. /\ part \in Nat /\ total * part <= prod /\ prod \in Nat
    <2>1. prod \in Nat /\ total > 0
      BY SMT
    <2> QED BY <2>1, Quotient
  <1>2. prod < us * total
    BY SMT
  <1> HIDE DEF part, prod
  <1>3. part * total = total * part
    BY <1>1, SMT
  <1>4. total * part < total * us
    BY <1>1, <1>2, SMT
  <1>5. part < us
    <2> SUFFICES ASSUME part >= us PROVE FALSE
      BY <1>1, SMT
    <2>1. total * part >= total * us
      BY <1>1, SMT
    <2> QED BY <1>1, <1>4, <2>1, SMT
  <1> QED BY <1>1, <1>3, <1>5 DEF part, prod

(* Withdrawals are fair. *)
LEMMA WithdrawalsFair == QuoteGiven => WithdrawalFair
  <1> SUFFICES ASSUME QuoteGiven, asked.about = "withdrawal", quote.ok
               PROVE  /\ asked.share <= asked.held
                      /\ quote.out + quote.refunded = asked.us
                      /\ quote.out * asked.total <= asked.us * asked.share
                      /\ quote.refunded > 0 <=> asked.share < asked.total
    BY DEF WithdrawalFair
  <1> DEFINE part == IF asked.share = asked.total THEN asked.us
                     ELSE (asked.us * asked.share) \div asked.total
  <1>1. asked \in VaultQuestions /\ quote = quote_leader_withdrawal(asked)
    BY DEF QuoteGiven, NoQuestion, Questions, BudgetQuestions, PaymentQuestions, AnswerTo
  <1>2. /\ asked.us \in Nat /\ asked.total \in Nat /\ asked.share \in Nat /\ asked.held \in Nat
    <2>1. \A x \in Amounts : x \in Nat
      BY QuotesAssumption, SMT
    <2> QED BY <1>1, <2>1 DEF VaultQuestions
  <1>3. /\ asked.share <= asked.held
        /\ asked.us # 0 /\ asked.share <= asked.total
        /\ quote.out = part /\ quote.refunded = asked.us - part
    <2>1. ~(asked.share > asked.held) /\ quote = quote_withdrawal(asked)
      BY <1>1 DEF quote_leader_withdrawal, Error
    <2>2. /\ ~(asked.us = 0) /\ ~(asked.share > asked.total)
          /\ quote = [ok |-> TRUE, out |-> part, refunded |-> asked.us - part]
      BY <2>1 DEF quote_withdrawal, Error
    <2> QED BY <1>2, <2>1, <2>2, SMT
  <1>4. CASE asked.share = asked.total
    <2>1. part = asked.us
      BY <1>4
    <2> HIDE DEF part
    <2> QED BY <1>2, <1>3, <1>4, <2>1, SMT
  <1>5. CASE asked.share < asked.total
    <2>1. part \in Nat /\ part * asked.total <= asked.us * asked.share /\ part < asked.us
      <3>1. asked.us > 0 /\ asked.share # asked.total
        BY <1>2, <1>3, <1>5, SMT
      <3> QED BY <1>2, <1>5, <3>1, ProperPart
    <2> HIDE DEF part
    <2>2. asked.us - part > 0 /\ part + (asked.us - part) = asked.us
      BY <1>2, <2>1, SMT
    <2> QED BY <1>3, <1>5, <2>1, <2>2
  <1> QED BY <1>2, <1>3, <1>4, <1>5, SMT

(* Quotes of budgets are the largest that fit and are refused for a reason,
   and withdrawals are fair (src/sdk/src/types/tap.rs:73-133 and
   src/sdk/src/move_bindings/extensions/priority_fee_vault.rs:16-55). *)
THEOREM QuotesAreExact == Spec => []QuotesExact
  <1>1. QuoteGiven => QuotesExact
    BY BudgetsExact, WithdrawalsFair DEF QuotesExact
  <1> QED BY <1>1, AlwaysGiven, PTL

--------------------------------------------------------------------------------
(* Gas from the balance of an address. *)
Sent(c) == SubmissionAt(c, "sent")

Calls ==
    {NoSubmission}
    \cup [step : {"context"}, counter : Counters, content : Contents]
    \cup [step : {"nonce"}, counter : Counters, content : Contents, epoch : Nat]
    \cup [step : {"sent"}, counter : Counters,
          tx : [content : Contents, epoch : Nat, nonce : Nat]]

CallsTyped == nonces \in [Counters -> Nat] /\ balanceCall \in [Submitters -> Calls]

(* What a counter gave away lies below it, sent or answered. *)
SentBelow == \A c \in Submitters :
    Sent(c) => balanceCall[c].tx.nonce < nonces[balanceCall[c].counter]
CreditedBelow == \A a \in Counters : \A tx \in credited[a] : tx.nonce < nonces[a]

(* A transaction that waits for its answer is nobody else's of that counter. *)
SentOnce == \A c, d \in Submitters :
    Sent(c) /\ Sent(d) /\ balanceCall[c].counter = balanceCall[d].counter
      /\ balanceCall[c].tx = balanceCall[d].tx => c = d
SentUncredited == \A c \in Submitters :
    Sent(c) => balanceCall[c].tx \notin credited[balanceCall[c].counter]

NonceInv ==
    /\ CallsTyped /\ credited \in [Counters -> SUBSET [content : Contents, epoch : Nat, nonce : Nat]]
    /\ SentBelow /\ CreditedBelow /\ SentOnce /\ SentUncredited
    /\ OneEffectEach

LEMMA NonceInit == BalanceInit => NonceInv
  BY DEF BalanceInit, NonceInv, CallsTyped, Calls, NoSubmission, Sent, SubmissionAt,
         SentBelow, CreditedBelow, SentOnce, SentUncredited, OneEffectEach

(* A step that gives no nonce away and credits nothing only has to leave what
   is sent as it was, or drop it. *)
LEMMA QuietStep ==
    ASSUME NonceInv, CallsTyped', UNCHANGED <<nonces, credited, doubled>>,
           \A c \in Submitters : Sent(c)' => Sent(c) /\ balanceCall'[c] = balanceCall[c]
    PROVE  NonceInv'
  BY DEF NonceInv, SentBelow, CreditedBelow, SentOnce, SentUncredited, OneEffectEach

(* Only the entry of the submitter that moves changes. *)
LEMMA OneMoves ==
    ASSUME NonceInv, NEW c \in Submitters, NEW now \in Calls, Sets(c, now)
    PROVE  /\ balanceCall' \in [Submitters -> Calls] /\ balanceCall'[c] = now
           /\ \A d \in Submitters \ {c} : balanceCall'[d] = balanceCall[d]
  BY DEF NonceInv, CallsTyped, Sets

LEMMA NonceNext == NonceInv /\ [BalanceNext]_balanceVars => NonceInv'
<1> SUFFICES ASSUME NonceInv, [BalanceNext]_balanceVars PROVE NonceInv'
  OBVIOUS
<1>t. CallsTyped
  BY DEF NonceInv
<1>n. NoSubmission \in Calls /\ NoSubmission.step # "sent"
  BY DEF Calls, NoSubmission
<1>1. ASSUME NEW c \in Submitters, NEW counter \in Counters, NEW content \in Contents,
             NEW parts \in ClientParts, BeginSubmission(c, counter, content, parts)
      PROVE  NonceInv'
  <2> DEFINE now == [step |-> "context", counter |-> counter, content |-> content]
  <2>1. now \in Calls /\ now.step # "sent"
    BY DEF Calls
  <2>2. Sets(c, now) /\ UNCHANGED <<nonces, credited, doubled>>
    BY <1>1 DEF BeginSubmission, SameHistory
  <2>3. QED BY <1>t, <2>1, <2>2, OneMoves, QuietStep DEF CallsTyped, Sent, SubmissionAt
<1>2. ASSUME NEW c \in Submitters, NEW epoch \in 0..MaxEpoch, FetchContext(c, epoch)
      PROVE  NonceInv'
  <2> DEFINE now == [step |-> "nonce", counter |-> balanceCall[c].counter,
                      content |-> balanceCall[c].content, epoch |-> epoch]
  <2>1. balanceCall[c].counter \in Counters /\ balanceCall[c].content \in Contents /\ epoch \in Nat
    BY <1>t, <1>2 DEF FetchContext, CallsTyped, Calls, NoSubmission, SubmissionAt
  <2>2. now \in Calls /\ now.step # "sent"
    BY <2>1 DEF Calls
  <2>3. Sets(c, now) /\ UNCHANGED <<nonces, credited, doubled>>
    BY <1>2 DEF FetchContext, SameHistory
  <2>4. QED BY <1>t, <2>2, <2>3, OneMoves, QuietStep DEF CallsTyped, Sent, SubmissionAt
<1>3. ASSUME NEW c \in Submitters, AllocateNonce(c) PROVE NonceInv'
  <2> DEFINE a == balanceCall[c].counter
             now == [step |-> "sent", counter |-> a, tx |-> TransactionOf(c)]
  <2>1. a \in Counters /\ balanceCall[c].content \in Contents /\ balanceCall[c].epoch \in Nat
    BY <1>t, <1>3 DEF AllocateNonce, CallsTyped, Calls, NoSubmission, SubmissionAt
  <2>2. nonces[a] \in Nat /\ UNCHANGED <<credited, doubled>>
    BY <1>3, <1>t, <2>1 DEF AllocateNonce, CallsTyped, SameHistory
  <2>3. CASE nonces[a] = MaxNonce
    <3>1. Sets(c, NoSubmission) /\ UNCHANGED nonces
      BY <1>3, <2>3 DEF AllocateNonce, SubmissionEnds
    <3>2. QED BY <1>t, <1>n, <2>2, <3>1, OneMoves, QuietStep DEF CallsTyped, Sent, SubmissionAt
  <2>4. CASE nonces[a] # MaxNonce
    <3>1. nonces' = [nonces EXCEPT ![a] = nonces[a] + 1] /\ Sets(c, now)
      BY <1>3, <2>4 DEF AllocateNonce, AfterNonce
    <3>2. TransactionOf(c) \in [content : Contents, epoch : Nat, nonce : Nat]
          /\ TransactionOf(c).nonce = nonces[a]
      BY <2>1, <2>2 DEF TransactionOf
    <3>3. now \in Calls
      BY <2>1, <3>2 DEF Calls
    <3>4. /\ balanceCall' \in [Submitters -> Calls] /\ balanceCall'[c] = now
          /\ \A d \in Submitters \ {c} : balanceCall'[d] = balanceCall[d]
      BY <3>1, <3>3, OneMoves
    <3>5. /\ nonces' \in [Counters -> Nat] /\ nonces'[a] = nonces[a] + 1
          /\ \A b \in Counters : nonces[b] <= nonces'[b] /\ nonces[b] \in Nat
      BY <1>t, <2>1, <2>2, <3>1 DEF CallsTyped
    <3> DEFINE new == TransactionOf(c)
    <3>6. balanceCall'[c].tx = new /\ balanceCall'[c].counter = a /\ new.nonce = nonces[a]
      BY <3>2, <3>4
    <3> HIDE DEF new, now, a
    <3>7. \A d \in Submitters \ {c} : Sent(d)' =>
             /\ Sent(d) /\ balanceCall'[d] = balanceCall[d]
             /\ balanceCall[d].counter \in Counters /\ balanceCall[d].tx.nonce \in Nat
             /\ balanceCall[d].tx.nonce < nonces[balanceCall[d].counter]
      BY <1>t, <3>4 DEF NonceInv, SentBelow, Sent, SubmissionAt, CallsTyped, Calls,
         NoSubmission
    <3>8. SentBelow'
      BY <2>1, <2>2, <3>5, <3>6, <3>7 DEF SentBelow
    <3>9. CreditedBelow'
      <4> SUFFICES ASSUME NEW b \in Counters, NEW tx \in credited[b] PROVE tx.nonce < nonces'[b]
        BY <2>2 DEF CreditedBelow
      <4>1. tx.nonce < nonces[b] /\ tx.nonce \in Nat
        BY DEF NonceInv, CreditedBelow
      <4>2. QED BY <3>5, <4>1
    <3>10. SentOnce'
      BY <2>1, <2>2, <3>6, <3>7 DEF SentOnce, NonceInv
    <3>11. SentUncredited'
      <4>1. new \notin credited[a]
        BY <2>1, <2>2, <3>6 DEF NonceInv, CreditedBelow
      <4>2. \A d \in Submitters \ {c} : Sent(d)' =>
              balanceCall'[d].tx \notin credited[balanceCall'[d].counter]
        BY <3>7 DEF NonceInv, SentUncredited
      <4>3. QED BY <2>2, <3>6, <4>1, <4>2 DEF SentUncredited
    <3>12. QED BY <2>2, <3>4, <3>5, <3>8, <3>9, <3>10, <3>11 DEF NonceInv, CallsTyped, OneEffectEach
  <2>5. QED BY <2>3, <2>4
<1>4. ASSUME NEW c \in Submitters, AnswerEffects(c) PROVE NonceInv'
  <2> DEFINE a == balanceCall[c].counter
             tx == balanceCall[c].tx
  <2>1. Sent(c) /\ UNCHANGED nonces /\ Sets(c, NoSubmission)
    BY <1>4 DEF AnswerEffects, SubmissionEnds, Sent
  <2>2. a \in Counters /\ tx \in [content : Contents, epoch : Nat, nonce : Nat]
    BY <1>t, <2>1 DEF Sent, CallsTyped, Calls, NoSubmission, SubmissionAt
  <2>3. OneEffectEach'
    <3>1. tx \notin credited[a] /\ ~doubled
      BY <2>1 DEF NonceInv, SentUncredited, OneEffectEach
    <3>2. doubled' = (doubled \/ tx \in credited[a])
      BY <1>4 DEF AnswerEffects
    <3>3. QED BY <3>1, <3>2, Zenon DEF OneEffectEach
  <2>4. credited' = [credited EXCEPT ![a] = credited[a] \cup {tx}]
    BY <1>4 DEF AnswerEffects
  <2>5. /\ balanceCall' \in [Submitters -> Calls] /\ balanceCall'[c] = NoSubmission
        /\ \A d \in Submitters \ {c} : balanceCall'[d] = balanceCall[d]
    BY <1>n, <2>1, OneMoves
  <2>6. \A d \in Submitters : Sent(d)' => d # c /\ Sent(d) /\ balanceCall'[d] = balanceCall[d]
    BY <1>n, <2>5 DEF Sent, SubmissionAt
  <2>7. credited' \in [Counters -> SUBSET [content : Contents, epoch : Nat, nonce : Nat]]
        /\ credited'[a] = credited[a] \cup {tx}
        /\ \A b \in Counters \ {a} : credited'[b] = credited[b]
    BY <2>2, <2>4 DEF NonceInv
  <2>8. tx.nonce < nonces[a]
    BY <2>1 DEF NonceInv, SentBelow
  <2> HIDE DEF a, tx
  <2>9. CreditedBelow'
    BY <2>1, <2>7, <2>8 DEF NonceInv, CreditedBelow
  <2>10. SentBelow' /\ SentOnce'
    BY <2>1, <2>6 DEF NonceInv, SentBelow, SentOnce
  <2>11. SentUncredited'
    <3> SUFFICES ASSUME NEW d \in Submitters, Sent(d)'
                 PROVE  balanceCall[d].tx \notin credited'[balanceCall[d].counter]
      BY <2>6 DEF SentUncredited
    <3>1. d # c /\ Sent(d) /\ balanceCall[d].tx \notin credited[balanceCall[d].counter]
      BY <2>6 DEF NonceInv, SentUncredited
    <3>2. balanceCall[d].counter \in Counters
      BY <1>t, <3>1 DEF Sent, CallsTyped, Calls, NoSubmission, SubmissionAt
    <3>3. balanceCall[d].counter = a => balanceCall[d].tx # tx
      BY <2>1, <3>1 DEF NonceInv, SentOnce, a, tx
    <3>4. QED BY <2>7, <3>1, <3>2, <3>3
  <2>12. QED BY <1>t, <2>1, <2>3, <2>5, <2>7, <2>9, <2>10, <2>11 DEF NonceInv, CallsTyped
<1>5. ASSUME NEW c \in Submitters, SubmissionFails(c) PROVE NonceInv'
  <2>1. Sets(c, NoSubmission) /\ UNCHANGED <<nonces, credited, doubled>>
    BY <1>5 DEF SubmissionFails, SubmissionEnds, SameHistory
  <2>2. QED BY <1>t, <1>n, <2>1, OneMoves, QuietStep DEF CallsTyped, Sent, SubmissionAt
<1>6. CASE (\E tx \in pending : ChainExecutes(tx)) \/ NextEpoch \/ UNCHANGED balanceVars
  <2>1. UNCHANGED <<nonces, balanceCall, credited, doubled>>
    BY <1>6 DEF ChainExecutes, NextEpoch, SameHistory, balanceVars
  <2>2. QED BY <1>t, <2>1, QuietStep DEF CallsTyped, Sent, SubmissionAt
<1>7. QED BY <1>1, <1>2, <1>3, <1>4, <1>5, <1>6 DEF BalanceNext

(* No two submissions of a counter are told the effects of one transaction,
   however many clones share it, whatever fails and whenever the epoch changes
   (address_balance.rs). *)
THEOREM EffectsAreOwn == Spec => []OneEffectEach
<1>1. NonceInv => OneEffectEach
  BY DEF NonceInv
<1>2. Init => NonceInv
  BY NonceInit DEF Init
<1>3. NonceInv /\ [Next]_vars => NonceInv'
  BY EachPartMoves, NonceNext
<1>4. QED BY <1>1, <1>2, <1>3, PTL DEF Spec

--------------------------------------------------------------------------------
(* What is known at a step of a command, whatever happens: nothing was
   executed, written or saved so far, nothing stored, nothing printed; the gas
   coin is chosen, and is not the payment coin; the payment coin is chosen. *)
Facts == {"clean", "unstored", "silent", "gas", "payment"}

\* What nothing makes true again.
Lasting == {"clean", "unstored", "silent"}

Refusing == {"check", "never", "access", "choose", "find", "apart"}
Nesting == {"try", "maybe", "repeat"}
Busy == {"effect", "keep", "submit", "attempt"} \cup Nesting

\* What must be known for a step to do no harm.
Needs(s) ==
    (IF s.kind \in Refusing THEN {"clean", "unstored"} ELSE {})
        \cup (IF s.kind \in Busy THEN {"silent"} ELSE {})
        \cup (IF s.kind \in {"find", "apart", "submit"} THEN {"gas"} ELSE {})
        \cup (IF s.kind = "submit" /\ "payment" \in s.what THEN {"payment"} ELSE {})

\* c is the command: the gas coin it names, the coins it pays with, and the facts
\* that are not claimed of it.
ChoosesGas(s) == s.kind = "choose" /\ s.what = "gas"
KeepsApart(c, s) == s.named # NoCoin \/ c.pays \subseteq s.apart

Loses(c, s) ==
    ((IF s.kind \in {"submit", "try", "keep", "attempt"} THEN {"clean"} ELSE {})
        \cup (IF s.kind = "effect" /\ s.what \in {"written", "saved"} THEN {"clean"} ELSE {})
        \cup (IF s.kind = "effect" /\ s.what = "stored" THEN {"unstored"} ELSE {})
        \cup (IF s.kind = "effect" /\ s.what = "printed" THEN {"silent"} ELSE {})
        \cup (IF ChoosesGas(s) /\ ~KeepsApart(c, s) THEN {"gas"} ELSE {})) \ c.free

Gives(c, s) ==
    (IF ChoosesGas(s) /\ KeepsApart(c, s) THEN {"gas"} ELSE {})
        \cup (IF s.kind = "choose" /\ s.what = "payment" THEN {"payment"} ELSE {})

Effectful == {"cached", "stored", "written", "saved", "printed"}

WellFormed(c, s) ==
    /\ s.kind \in Refusing \cup Busy \cup {"query"}
    /\ s.kind = "effect" => s.what \in Effectful
    /\ s.kind = "attempt" => s.what = "written"
    /\ s.kind = "find" => s.what = "gas"
    /\ s.kind = "apart" => c.pays # {}
    /\ s.kind = "choose" =>
          \/ s.what = "gas" /\ s.named \in {c.gas, NoCoin} /\ s.apart \subseteq c.pays
          \/ s.what = "payment" /\ s.named \in c.pays

\* A sequence, of whatever.
IsProgram(p) == p \in Seq({p[i] : i \in DOMAIN p})

\* The step s, taken where F is known, leaves F known.
StepKeeps(c, F, s) == WellFormed(c, s) /\ Needs(s) \subseteq F /\ F \cap Loses(c, s) = {}

Inner(s) == IF s.kind = "try" THEN s.what.accepted ELSE s.what

\* So do the steps that it consists of, and those that they consist of.
KeepsPlainly(c, F, s) == s.kind \notin Nesting /\ StepKeeps(c, F, s)
KeepsOnce(c, F, s) ==
    \/ KeepsPlainly(c, F, s)
    \/ /\ s.kind \in Nesting /\ StepKeeps(c, F, s) /\ IsProgram(Inner(s))
       /\ \A i \in DOMAIN Inner(s) : KeepsPlainly(c, F, Inner(s)[i])
KeepsDeep(c, F, s) ==
    /\ s.kind \in Nesting /\ StepKeeps(c, F, s) /\ IsProgram(Inner(s))
    /\ \A i \in DOMAIN Inner(s) : KeepsOnce(c, F, Inner(s)[i])

\* The step s may be taken where F is known, and G is known after it.
Legal(c, F, s, G) ==
    \/ /\ s.kind \notin Nesting /\ WellFormed(c, s)
       /\ Needs(s) \subseteq F /\ G \subseteq (F \ Loses(c, s)) \cup Gives(c, s)
    \/ \E H \in SUBSET Facts : G \subseteq H /\ H \subseteq F /\ KeepsDeep(c, H, s)

\* The program p may be run where a is known, and b is known after it.
Leads(c, p, a, b) ==
    /\ IsProgram(p)
    /\ \E f \in [0..Len(p) -> SUBSET Facts] :
          /\ f[0] \subseteq a /\ b \subseteq f[Len(p)]
          /\ \A i \in 1..Len(p) : Legal(c, f[i - 1], p[i], f[i])
          /\ \A i, j \in 0..Len(p) : i <= j => f[j] \cap Lasting \subseteq f[i]

--------------------------------------------------------------------------------
(* A program after another is one. *)
LEMMA ProgramConcat ==
    ASSUME NEW p, NEW q, IsProgram(p), IsProgram(q)
    PROVE  /\ IsProgram(p \o q) /\ Len(p) \in Nat /\ Len(q) \in Nat
           /\ DOMAIN p = 1..Len(p) /\ DOMAIN q = 1..Len(q) /\ DOMAIN (p \o q) = 1..(Len(p) + Len(q))
           /\ Len(p \o q) = Len(p) + Len(q)
           /\ \A i \in 1..Len(p) : (p \o q)[i] = p[i]
           /\ \A i \in 1..Len(q) : (p \o q)[Len(p) + i] = q[i]
<1> DEFINE S == {p[i] : i \in DOMAIN p} \cup {q[i] : i \in DOMAIN q}
           r == p \o q
<1>1. p \in Seq(S) /\ q \in Seq(S)
  BY DEF IsProgram
<1>2. /\ DOMAIN p = 1..Len(p) /\ DOMAIN q = 1..Len(q) /\ Len(p) \in Nat /\ Len(q) \in Nat
      /\ r \in Seq(S) /\ DOMAIN r = 1..Len(r) /\ Len(r) = Len(p) + Len(q)
      /\ \A i \in 1..Len(p) : r[i] = p[i]
      /\ \A i \in 1..Len(q) : r[Len(p) + i] = q[i]
  <2> HIDE DEF S
  <2>1. QED BY <1>1
<1>3. r \in Seq({r[i] : i \in DOMAIN r})
  <2> HIDE DEF r, S
  <2>1. r = [i \in 1..Len(r) |-> r[i]] /\ Len(r) \in Nat
    BY <1>2
  <2>2. QED BY <1>2, <2>1
<1>4. QED BY <1>2, <1>3 DEF IsProgram

(* One step is a program, and so is none. *)
LEMMA ProgramOne ==
    ASSUME NEW s
    PROVE  /\ IsProgram(<<s>>) /\ Len(<<s>>) = 1 /\ <<s>>[1] = s /\ DOMAIN <<s>> = {1}
           /\ IsProgram(<<>>) /\ Len(<<>>) = 0
  BY DEF IsProgram

(* A program without its first step is one. *)
LEMMA ProgramTail ==
    ASSUME NEW p, IsProgram(p), p # <<>>
    PROVE  /\ IsProgram(Tail(p)) /\ Len(p) \in Nat \ {0} /\ Len(Tail(p)) = Len(p) - 1
           /\ DOMAIN p = 1..Len(p) /\ DOMAIN Tail(p) = 1..(Len(p) - 1) /\ Head(p) = p[1]
           /\ \A i \in 1..(Len(p) - 1) : Tail(p)[i] = p[i + 1]
<1> DEFINE S == {p[i] : i \in DOMAIN p}
           r == Tail(p)
<1>1. p \in Seq(S)
  BY DEF IsProgram
<1>2. /\ Len(p) \in Nat \ {0} /\ r \in Seq(S) /\ Len(r) = Len(p) - 1
      /\ DOMAIN p = 1..Len(p) /\ DOMAIN r = 1..Len(r) /\ Head(p) = p[1]
      /\ \A i \in 1..(Len(p) - 1) : r[i] = p[i + 1]
  <2> HIDE DEF S
  <2>1. QED BY <1>1
<1>3. r \in Seq({r[i] : i \in DOMAIN r})
  <2> HIDE DEF r, S
  <2>1. r = [i \in 1..Len(r) |-> r[i]] /\ Len(r) \in Nat
    BY <1>2
  <2>2. QED BY <1>2, <2>1
<1>4. QED BY <1>2, <1>3 DEF IsProgram

--------------------------------------------------------------------------------
(* What is legal where less is known is legal where more is known. *)
LEMMA LegalWeaker ==
    ASSUME NEW c, NEW s, NEW F, NEW G, NEW F2, NEW G2,
           Legal(c, F, s, G), F \subseteq F2, G2 \subseteq G
    PROVE  Legal(c, F2, s, G2)
<1>1. CASE \E H \in SUBSET Facts : G \subseteq H /\ H \subseteq F /\ KeepsDeep(c, H, s)
  <2>1. PICK H \in SUBSET Facts : G \subseteq H /\ H \subseteq F /\ KeepsDeep(c, H, s)
    BY <1>1
  <2>2. G2 \subseteq H /\ H \subseteq F2
    BY <2>1
  <2>3. QED BY <2>1, <2>2 DEF Legal
<1>2. CASE /\ s.kind \notin Nesting /\ WellFormed(c, s)
           /\ Needs(s) \subseteq F /\ G \subseteq (F \ Loses(c, s)) \cup Gives(c, s)
  <2>1. Needs(s) \subseteq F2 /\ G2 \subseteq (F2 \ Loses(c, s)) \cup Gives(c, s)
    BY <1>2
  <2>2. QED BY <1>2, <2>1 DEF Legal
<1>3. QED BY <1>1, <1>2 DEF Legal

(* What leads somewhere leads to less, from more. *)
LEMMA LeadsWeaker ==
    ASSUME NEW c, NEW p, NEW a, NEW b, NEW a2, NEW b2, Leads(c, p, a, b), a \subseteq a2, b2 \subseteq b
    PROVE  Leads(c, p, a2, b2)
<1>1. PICK f \in [0..Len(p) -> SUBSET Facts] :
          /\ f[0] \subseteq a /\ b \subseteq f[Len(p)]
          /\ \A i \in 1..Len(p) : Legal(c, f[i - 1], p[i], f[i])
          /\ \A i, j \in 0..Len(p) : i <= j => f[j] \cap Lasting \subseteq f[i]
  BY DEF Leads
<1>2. f[0] \subseteq a2 /\ b2 \subseteq f[Len(p)]
  BY <1>1
<1>3. QED BY <1>1, <1>2 DEF Leads

(* No step leads nowhere. *)
LEMMA LeadsNone ==
    ASSUME NEW c, NEW a \in SUBSET Facts, NEW b, b \subseteq a
    PROVE  Leads(c, <<>>, a, b)
<1> DEFINE f == [i \in 0..0 |-> a]
<1>1. f \in [0..0 -> SUBSET Facts] /\ f[0] = a /\ \A i \in 0..0 : i = 0
  OBVIOUS
<1>2. Len(<<>>) = 0 /\ IsProgram(<<>>)
  BY ProgramOne
<1>3. \A i, j \in 0..0 : i <= j => f[j] \cap Lasting \subseteq f[i]
  BY <1>1
<1>4. \A i \in 1..0 : Legal(c, f[i - 1], <<>>[i], f[i])
  OBVIOUS
<1> HIDE DEF f
<1>5. f \in [0..Len(<<>>) -> SUBSET Facts] /\ f[0] \subseteq a /\ b \subseteq f[Len(<<>>)]
  BY <1>1, <1>2
<1>6. QED BY <1>2, <1>3, <1>4, <1>5 DEF Leads

(* One legal step. *)
LEMMA LeadsOne ==
    ASSUME NEW c, NEW s, NEW a \in SUBSET Facts, NEW b \in SUBSET Facts,
           Legal(c, a, s, b), b \cap Lasting \subseteq a
    PROVE  Leads(c, <<s>>, a, b)
<1> DEFINE f == [i \in 0..1 |-> IF i = 0 THEN a ELSE b]
<1>1. f \in [0..1 -> SUBSET Facts] /\ f[0] = a /\ f[1] = b
  OBVIOUS
<1>2. IsProgram(<<s>>) /\ Len(<<s>>) = 1 /\ <<s>>[1] = s
  BY ProgramOne
<1>3. \A i, j \in 0..1 : i <= j => f[j] \cap Lasting \subseteq f[i]
  BY <1>1
<1> HIDE DEF f
<1>4. \A i \in 1..1 : Legal(c, f[i - 1], <<s>>[i], f[i])
  <2>1. \A i \in 1..1 : i = 1 /\ i - 1 = 0
    OBVIOUS
  <2>2. QED BY <1>1, <1>2, <2>1
<1>5. QED BY <1>1, <1>2, <1>3, <1>4 DEF Leads

(* One program after another. *)
LEMMA LeadsConcat ==
    ASSUME NEW c, NEW p, NEW q, NEW a, NEW b, NEW d, Leads(c, p, a, b), Leads(c, q, b, d)
    PROVE  Leads(c, p \o q, a, d)
<1>1. PICK r, m, n : r = p \o q /\ m = Len(p) /\ n = Len(q)
  OBVIOUS
<1>2. /\ IsProgram(r) /\ m \in Nat /\ n \in Nat /\ Len(r) = m + n
      /\ \A i \in 1..m : r[i] = p[i]
      /\ \A i \in 1..n : r[m + i] = q[i]
  BY <1>1, ProgramConcat DEF Leads
<1>3. PICK f \in [0..m -> SUBSET Facts] :
          /\ f[0] \subseteq a /\ b \subseteq f[m]
          /\ \A i \in 1..m : Legal(c, f[i - 1], p[i], f[i])
          /\ \A i, j \in 0..m : i <= j => f[j] \cap Lasting \subseteq f[i]
  BY <1>1 DEF Leads
<1>4. PICK g \in [0..n -> SUBSET Facts] :
          /\ g[0] \subseteq b /\ d \subseteq g[n]
          /\ \A i \in 1..n : Legal(c, g[i - 1], q[i], g[i])
          /\ \A i, j \in 0..n : i <= j => g[j] \cap Lasting \subseteq g[i]
  BY <1>1 DEF Leads
<1> DEFINE h == [i \in 0..(m + n) |-> IF i < m THEN f[i] ELSE g[i - m]]
<1>5. \A i \in 0..(m + n) : IF i < m THEN i \in 0..m ELSE i - m \in 0..n
  BY <1>2
<1>6. h \in [0..(m + n) -> SUBSET Facts]
  BY <1>5
<1>7. \A i \in 0..(m + n) : h[i] = IF i < m THEN f[i] ELSE g[i - m]
  OBVIOUS
<1> HIDE DEF h
<1>8. g[0] \subseteq f[m]
  BY <1>3, <1>4
<1>9. h[0] \subseteq a /\ d \subseteq h[m + n]
  <2>1. h[m + n] = g[n]
    <3>1. m + n \in 0..(m + n) /\ ~(m + n < m) /\ (m + n) - m = n
      BY <1>2
    <3>2. QED BY <3>1, <1>7
  <2>2. h[0] = IF 0 < m THEN f[0] ELSE g[0]
    <3>1. 0 \in 0..(m + n) /\ (~(0 < m) => 0 - m = 0)
      BY <1>2
    <3>2. QED BY <3>1, <1>7
  <2>3. ~(0 < m) => m = 0
    BY <1>2
  <2>4. QED BY <2>1, <2>2, <2>3, <1>3, <1>4, <1>8
<1>10. \A i \in 1..(m + n) : Legal(c, h[i - 1], r[i], h[i])
  <2> SUFFICES ASSUME NEW i \in 1..(m + n) PROVE Legal(c, h[i - 1], r[i], h[i])
    OBVIOUS
  <2>1. CASE i < m
    <3>1. i \in 1..m /\ i \in 0..(m + n) /\ i - 1 \in 0..(m + n) /\ i - 1 < m
      BY <2>1, <1>2
    <3>2. h[i - 1] = f[i - 1] /\ h[i] = f[i] /\ r[i] = p[i]
      BY <2>1, <3>1, <1>2, <1>7
    <3>3. QED BY <3>1, <3>2, <1>3
  <2>2. CASE i = m
    <3>1. m \in 1..m /\ m \in 0..(m + n) /\ m - 1 \in 0..(m + n) /\ m - 1 < m /\ ~(m < m) /\ m - m = 0
      BY <2>2, <1>2
    <3>2. h[m - 1] = f[m - 1] /\ h[m] = g[0] /\ r[m] = p[m]
      BY <3>1, <1>2, <1>7
    <3>3. Legal(c, f[m - 1], p[m], f[m])
      BY <3>1, <1>3
    <3>4. QED BY <2>2, <3>2, <3>3, <1>8, LegalWeaker
  <2>3. CASE i > m
    <3>1. PICK k : k = i - m
      OBVIOUS
    <3>2. /\ k \in 1..n /\ i = m + k /\ i \in 0..(m + n) /\ i - 1 \in 0..(m + n)
          /\ ~(i < m) /\ ~(i - 1 < m) /\ (i - 1) - m = k - 1
      BY <2>3, <3>1, <1>2
    <3>3. h[i - 1] = g[k - 1] /\ h[i] = g[k] /\ r[i] = q[k]
      BY <3>1, <3>2, <1>2, <1>7
    <3>4. QED BY <3>2, <3>3, <1>4
  <2>4. QED BY <2>1, <2>2, <2>3, <1>2
<1>11. \A i, j \in 0..(m + n) : i <= j => h[j] \cap Lasting \subseteq h[i]
  <2> SUFFICES ASSUME NEW i \in 0..(m + n), NEW j \in 0..(m + n), i <= j
               PROVE  h[j] \cap Lasting \subseteq h[i]
    OBVIOUS
  <2>1. CASE j < m
    <3>1. i \in 0..m /\ j \in 0..m /\ i < m
      BY <2>1, <1>2
    <3>2. QED BY <2>1, <3>1, <1>3, <1>7
  <2>2. CASE ~(i < m)
    <3>1. i - m \in 0..n /\ j - m \in 0..n /\ i - m <= j - m /\ ~(j < m)
      BY <2>2, <1>2
    <3>2. h[i] = g[i - m] /\ h[j] = g[j - m]
      BY <2>2, <3>1, <1>7
    <3>3. QED BY <3>1, <3>2, <1>4
  <2>3. CASE i < m /\ ~(j < m)
    <3>1. i \in 0..m /\ m \in 0..m /\ i <= m /\ j - m \in 0..n /\ 0 \in 0..n /\ 0 <= j - m
      BY <2>3, <1>2
    <3>2. h[i] = f[i] /\ h[j] = g[j - m]
      BY <2>3, <1>7
    <3>3. g[j - m] \cap Lasting \subseteq g[0]
      BY <3>1, <1>4
    <3>4. f[m] \cap Lasting \subseteq f[i]
      BY <3>1, <1>3
    <3>5. QED BY <3>2, <3>3, <3>4, <1>8
  <2>4. QED BY <2>1, <2>2, <2>3
<1>12. Leads(c, r, a, d)
  BY <1>2, <1>6, <1>9, <1>10, <1>11 DEF Leads
<1>13. QED BY <1>1, <1>12

(* The first step of a program, and the rest. *)
LEMMA LeadsHead ==
    ASSUME NEW c, NEW p, NEW a, NEW b, Leads(c, p, a, b), p # <<>>
    PROVE  \E F, G \in SUBSET Facts :
              /\ F \subseteq a /\ Legal(c, F, Head(p), G) /\ G \cap Lasting \subseteq F
              /\ Leads(c, Tail(p), G, b)
<1>1. PICK f \in [0..Len(p) -> SUBSET Facts] :
          /\ f[0] \subseteq a /\ b \subseteq f[Len(p)]
          /\ \A i \in 1..Len(p) : Legal(c, f[i - 1], p[i], f[i])
          /\ \A i, j \in 0..Len(p) : i <= j => f[j] \cap Lasting \subseteq f[i]
  BY DEF Leads
<1>2. PICK r, n : r = Tail(p) /\ n = Len(p)
  OBVIOUS
<1>3. /\ IsProgram(r) /\ n \in Nat \ {0} /\ Len(r) = n - 1 /\ Head(p) = p[1]
      /\ \A i \in 1..(n - 1) : r[i] = p[i + 1]
  BY <1>2, ProgramTail DEF Leads
<1> DEFINE h == [i \in 0..(n - 1) |-> f[i + 1]]
<1>4. h \in [0..(n - 1) -> SUBSET Facts] /\ \A i \in 0..(n - 1) : h[i] = f[i + 1]
  BY <1>1, <1>2, <1>3
<1> HIDE DEF h
<1>5. h[0] = f[1] /\ b \subseteq h[n - 1]
  BY <1>1, <1>2, <1>3, <1>4
<1>6. \A i \in 1..(n - 1) : Legal(c, h[i - 1], r[i], h[i])
  <2> SUFFICES ASSUME NEW i \in 1..(n - 1) PROVE Legal(c, h[i - 1], r[i], h[i])
    OBVIOUS
  <2>1. h[i - 1] = f[i] /\ h[i] = f[i + 1] /\ r[i] = p[i + 1] /\ i + 1 \in 1..n /\ (i + 1) - 1 = i
    BY <1>3, <1>4
  <2>2. Legal(c, f[(i + 1) - 1], p[i + 1], f[i + 1])
    BY <2>1, <1>1, <1>2
  <2>3. QED BY <2>1, <2>2
<1>7. \A i, j \in 0..(n - 1) : i <= j => h[j] \cap Lasting \subseteq h[i]
  <2> SUFFICES ASSUME NEW i \in 0..(n - 1), NEW j \in 0..(n - 1), i <= j
               PROVE  h[j] \cap Lasting \subseteq h[i]
    OBVIOUS
  <2>1. h[i] = f[i + 1] /\ h[j] = f[j + 1] /\ i + 1 \in 0..n /\ j + 1 \in 0..n /\ i + 1 <= j + 1
    BY <1>3, <1>4
  <2>2. QED BY <2>1, <1>1, <1>2
<1>8. Leads(c, r, f[1], b)
  BY <1>2, <1>3, <1>4, <1>5, <1>6, <1>7 DEF Leads
<1>9. f[0] \in SUBSET Facts /\ f[1] \in SUBSET Facts /\ Legal(c, f[0], p[1], f[1])
  <2>1. 0 \in 0..n /\ 1 \in 0..n /\ 1 \in 1..n /\ 1 - 1 = 0
    BY <1>3
  <2>2. QED BY <1>1, <1>2, <2>1
<1>10. f[1] \cap Lasting \subseteq f[0]
  BY <1>1, <1>2, <1>3
<1>11. QED BY <1>1, <1>2, <1>3, <1>8, <1>9, <1>10

(* A step that keeps what is known is legal. *)
LEMMA KeepsLegal ==
    ASSUME NEW c, NEW H \in SUBSET Facts, NEW s, KeepsOnce(c, H, s)
    PROVE  Legal(c, H, s, H)
<1>1. CASE KeepsPlainly(c, H, s)
  <2>1. H \subseteq (H \ Loses(c, s)) \cup Gives(c, s)
    BY <1>1 DEF KeepsPlainly, StepKeeps
  <2>2. QED BY <1>1, <2>1 DEF KeepsPlainly, StepKeeps, Legal
<1>2. CASE /\ s.kind \in Nesting /\ StepKeeps(c, H, s) /\ IsProgram(Inner(s))
           /\ \A i \in DOMAIN Inner(s) : KeepsPlainly(c, H, Inner(s)[i])
  <2>1. KeepsDeep(c, H, s)
    BY Zenon, <1>2 DEF KeepsDeep, KeepsOnce
  <2>2. QED BY <2>1 DEF Legal
<1>3. QED BY Zenon, <1>1, <1>2 DEF KeepsOnce

(* What is inside such a step keeps it too. *)
LEMMA LeadsInside ==
    ASSUME NEW c, NEW H \in SUBSET Facts, NEW p, IsProgram(p),
           \A i \in DOMAIN p : KeepsOnce(c, H, p[i])
    PROVE  Leads(c, p, H, H)
<1> DEFINE f == [i \in 0..Len(p) |-> H]
<1>1. Len(p) \in Nat /\ DOMAIN p = 1..Len(p)
  BY DEF IsProgram
<1>2. f \in [0..Len(p) -> SUBSET Facts] /\ \A i \in 0..Len(p) : f[i] = H
  OBVIOUS
<1> HIDE DEF f
<1>3. f[0] \subseteq H /\ H \subseteq f[Len(p)]
  BY <1>1, <1>2
<1>4. \A i \in 1..Len(p) : Legal(c, f[i - 1], p[i], f[i])
  <2> SUFFICES ASSUME NEW i \in 1..Len(p) PROVE Legal(c, f[i - 1], p[i], f[i])
    OBVIOUS
  <2>1. f[i - 1] = H /\ f[i] = H /\ i \in DOMAIN p
    BY <1>1, <1>2
  <2>2. Legal(c, H, p[i], H)
    BY <2>1, KeepsLegal
  <2>3. QED BY <2>1, <2>2
<1>5. \A i, j \in 0..Len(p) : i <= j => f[j] \cap Lasting \subseteq f[i]
  BY <1>2
<1>6. QED BY <1>2, <1>3, <1>4, <1>5 DEF Leads

(* A program is its first step and the rest. *)
LEMMA ProgramSplit ==
    ASSUME NEW p, IsProgram(p), p # <<>>
    PROVE  <<Head(p)>> \o Tail(p) = p
<1>1. PICK h, r, q : h = <<Head(p)>> /\ r = Tail(p) /\ q = h \o r
  OBVIOUS
<1>2. /\ IsProgram(r) /\ Len(p) \in Nat \ {0} /\ Len(r) = Len(p) - 1
      /\ \A i \in 1..(Len(p) - 1) : r[i] = p[i + 1]
  BY <1>1, ProgramTail
<1>3. IsProgram(h) /\ Len(h) = 1 /\ h[1] = p[1]
  BY <1>1, ProgramOne, ProgramTail
<1>4. /\ IsProgram(q) /\ Len(q) = 1 + Len(r) /\ q[1] = h[1]
      /\ \A i \in 1..Len(r) : q[1 + i] = r[i]
  BY <1>1, <1>2, <1>3, ProgramConcat
<1>5. Len(q) = Len(p) /\ \A i \in 1..Len(p) : q[i] = p[i]
  <2>1. Len(q) = Len(p) /\ q[1] = p[1]
    BY <1>2, <1>3, <1>4
  <2> SUFFICES ASSUME NEW i \in 1..Len(p), i # 1 PROVE q[i] = p[i]
    BY <2>1
  <2>2. PICK k : k = i - 1
    OBVIOUS
  <2>3. k \in 1..(Len(p) - 1) /\ i = 1 + k /\ i = k + 1
    BY <2>2, <1>2
  <2>4. QED BY <2>3, <1>2, <1>4
<1>6. q = [i \in 1..Len(q) |-> q[i]] /\ p = [i \in 1..Len(p) |-> p[i]]
  BY <1>4 DEF IsProgram
<1>7. QED BY <1>1, <1>5, <1>6

(* A step with a program inside keeps some of what is known, and may be
   followed by that program, and then by itself. *)
LEMMA LeadsUnfolded ==
    ASSUME NEW c, NEW p, NEW a, NEW b, Leads(c, p, a, b), p # <<>>, Head(p).kind \in Nesting
    PROVE  \E H \in SUBSET Facts :
              /\ H \subseteq a /\ StepKeeps(c, H, Head(p))
              /\ Leads(c, Tail(p), H, b)
              /\ Leads(c, Inner(Head(p)) \o Tail(p), H, b)
              /\ Leads(c, Inner(Head(p)) \o p, H, b)
<1>1. PICK F \in SUBSET Facts, G \in SUBSET Facts :
              /\ F \subseteq a /\ Legal(c, F, Head(p), G) /\ G \cap Lasting \subseteq F
              /\ Leads(c, Tail(p), G, b)
  BY LeadsHead
<1>2. PICK s : s = Head(p)
  OBVIOUS
<1>3. PICK H \in SUBSET Facts : G \subseteq H /\ H \subseteq F /\ KeepsDeep(c, H, s)
  BY <1>1, <1>2 DEF Legal
<1>4. Leads(c, Inner(s), H, H)
  BY <1>3, LeadsInside DEF KeepsDeep
<1>5. Leads(c, Tail(p), H, b)
  BY <1>1, <1>3, LeadsWeaker
<1>6. Leads(c, <<s>>, H, H)
  <2>1. Legal(c, H, s, H)
    BY <1>3 DEF Legal
  <2>2. QED BY <2>1, LeadsOne
<1>7. Leads(c, p, H, b)
  <2>1. Leads(c, <<s>> \o Tail(p), H, b)
    BY <1>5, <1>6, LeadsConcat
  <2>2. QED BY <2>1, <1>2, ProgramSplit DEF Leads
<1>8. Leads(c, Inner(s) \o Tail(p), H, b) /\ Leads(c, Inner(s) \o p, H, b)
  BY <1>4, <1>5, <1>7, LeadsConcat
<1>9. H \subseteq a /\ StepKeeps(c, H, s)
  BY <1>1, <1>3 DEF KeepsDeep
<1>10. QED BY <1>2, <1>5, <1>8, <1>9

--------------------------------------------------------------------------------
(* What is not claimed: of a batch of registrations and of an execution that
   is inspected at once, that nothing was done; of the commands that check the
   times of a task late, that nothing was stored; of four commands that report
   early, that nothing was printed; of who buys a ticket and names no gas coin,
   that the coins are apart. *)
Unclaimed(command, gas) ==
    (IF command \in {<<"register", "off_chain">>, <<"dag", "execute">>} THEN {"clean"} ELSE {})
        \cup (IF command \in {<<"task", "create">>, <<"tap", "schedule_task">>, <<"dag", "execute">>}
              THEN {"unstored"} ELSE {})
        \cup (IF command \in {<<"conf", "set">>, <<"tap", "dry_run">>, <<"tap", "publish_skill">>,
                              <<"auth", "sync_allowed_leaders">>}
              THEN {"silent"} ELSE {})
        \cup (IF command[2] = "buy_ticket" /\ gas = NoCoin THEN {"gas"} ELSE {})

Paying == {<<"dag", "execute">>, <<"expiry", "buy_ticket">>, <<"limited_invocations", "buy_ticket">>}

About(command, gas, coin) ==
    [gas |-> gas, pays |-> IF command \in Paying THEN {coin} ELSE {}, free |-> Unclaimed(command, gas)]
ThisCommand == About(commandRun.command, commandRun.gas, commandRun.coin)

\* Nothing stands in the way of the command.
Calm == ~meddled /\ holder \in {"signer", "shared"} /\ Suffices

\* What it means that a is known, of what was done and chosen.
Knows(a, done, chosen) ==
    /\ "clean" \in a \ ThisCommand.free => done \cap {"executed", "written", "saved"} = {}
    /\ "unstored" \in a \ ThisCommand.free => "stored" \notin done
    /\ "silent" \in a \ ThisCommand.free => "printed" \notin done
    /\ Calm /\ "gas" \in a \ ThisCommand.free => chosen["gas"] \in There \ ThisCommand.pays
    /\ Calm /\ "payment" \in a => chosen["payment"] \in ThisCommand.pays

\* A coin, or none, for each role.
IsChoice(chosen) == chosen = [role \in {"gas", "payment"} |-> chosen[role]]

CommandShaped ==
    \/ commandRun = NoCommandRuns
    \/ /\ commandRun = [status |-> commandRun.status, command |-> commandRun.command,
                        gas |-> commandRun.gas, coin |-> commandRun.coin, left |-> commandRun.left,
                        roles |-> commandRun.roles, chosen |-> commandRun.chosen,
                        done |-> commandRun.done]
       /\ IsChoice(commandRun.chosen)
       /\ commandRun.status # "idle"
       /\ commandRun.command \in Paying => "payment" \in commandRun.roles

ProgramFits ==
    Runs => \E a \in SUBSET Facts :
                /\ Knows(a, commandRun.done, commandRun.chosen)
                /\ Leads(ThisCommand, commandRun.left, a, {})

CommandInv == CommandsTypeOK /\ CommandShaped /\ ProgramFits /\ RefusedUnchanged /\ CommandsSucceed

(* A running command has all its parts. *)
LEMMA RunShape ==
    ASSUME CommandInv, Runs
    PROVE  /\ commandRun = [status |-> "running", command |-> commandRun.command,
                            gas |-> commandRun.gas, coin |-> commandRun.coin, left |-> commandRun.left,
                            roles |-> commandRun.roles, chosen |-> commandRun.chosen,
                            done |-> commandRun.done]
           /\ IsChoice(commandRun.chosen)
           /\ commandRun.command \in Paying => "payment" \in commandRun.roles
  BY DEF CommandInv, CommandShaped, Runs, NoCommandRuns

(* What the facts that are not claimed stand for. *)
LEMMA FreeFacts ==
    /\ ThisCommand.free = Unclaimed(commandRun.command, commandRun.gas)
    /\ ThisCommand.pays = (IF commandRun.command \in Paying THEN {commandRun.coin} ELSE {})
    /\ ThisCommand.gas = commandRun.gas
    /\ "clean" \in ThisCommand.free =>
          commandRun.command \in {<<"register", "off_chain">>, <<"dag", "execute">>}
    /\ "unstored" \in ThisCommand.free =>
          commandRun.command \in
              {<<"task", "create">>, <<"tap", "schedule_task">>, <<"dag", "execute">>}
    /\ "silent" \in ThisCommand.free =>
          commandRun.command \in {<<"conf", "set">>, <<"tap", "dry_run">>,
                <<"tap", "publish_skill">>, <<"auth", "sync_allowed_leaders">>}
    /\ "gas" \in ThisCommand.free => commandRun.command[2] = "buy_ticket" /\ commandRun.gas = NoCoin
<1>1. ThisCommand.free = Unclaimed(commandRun.command, commandRun.gas)
  BY DEF ThisCommand, About
<1>2. /\ ThisCommand.pays = (IF commandRun.command \in Paying THEN {commandRun.coin} ELSE {})
      /\ ThisCommand.gas = commandRun.gas
  BY DEF ThisCommand, About
<1>3. PICK cmd, g : cmd = commandRun.command /\ g = commandRun.gas
  OBVIOUS
<1>4. /\ "clean" \in Unclaimed(cmd, g) =>
            cmd \in {<<"register", "off_chain">>, <<"dag", "execute">>}
      /\ "unstored" \in Unclaimed(cmd, g) =>
            cmd \in {<<"task", "create">>, <<"tap", "schedule_task">>, <<"dag", "execute">>}
      /\ "silent" \in Unclaimed(cmd, g) =>
            cmd \in {<<"conf", "set">>, <<"tap", "dry_run">>,
                  <<"tap", "publish_skill">>, <<"auth", "sync_allowed_leaders">>}
      /\ "gas" \in Unclaimed(cmd, g) => cmd[2] = "buy_ticket" /\ g = NoCoin
  BY DEF Unclaimed
<1>5. QED BY <1>1, <1>2, <1>3, <1>4

(* Who knows less knows it still. *)
LEMMA KnowsLess ==
    ASSUME NEW a, NEW b, b \subseteq a, NEW done, NEW chosen, Knows(a, done, chosen)
    PROVE  Knows(b, done, chosen)
  BY DEF Knows

(* The first step of what is left. *)
LEMMA FirstStep ==
    ASSUME CommandInv, Runs, commandRun.left # <<>>, This.kind \notin Nesting
    PROVE  \E F, G \in SUBSET Facts :
              /\ Knows(F, commandRun.done, commandRun.chosen)
              /\ WellFormed(ThisCommand, This) /\ Needs(This) \subseteq F
              /\ G \subseteq (F \ Loses(ThisCommand, This)) \cup Gives(ThisCommand, This)
              /\ Leads(ThisCommand, Tail(commandRun.left), G, {})
<1>1. PICK a \in SUBSET Facts :
          /\ Knows(a, commandRun.done, commandRun.chosen)
          /\ Leads(ThisCommand, commandRun.left, a, {})
  BY DEF CommandInv, ProgramFits
<1>2. PICK F \in SUBSET Facts, G \in SUBSET Facts :
              /\ F \subseteq a /\ Legal(ThisCommand, F, Head(commandRun.left), G)
              /\ Leads(ThisCommand, Tail(commandRun.left), G, {})
  BY <1>1, LeadsHead
<1>3. /\ WellFormed(ThisCommand, This) /\ Needs(This) \subseteq F
      /\ G \subseteq (F \ Loses(ThisCommand, This)) \cup Gives(ThisCommand, This)
  BY <1>2 DEF Legal, KeepsDeep, This
<1>4. QED BY <1>1, <1>2, <1>3, KnowsLess

\* The command with other steps left, other coins chosen and other things done.
GoneOn(steps, chosen, done) ==
    [status |-> "running", command |-> commandRun.command, gas |-> commandRun.gas,
     coin |-> commandRun.coin, left |-> steps, roles |-> commandRun.roles, chosen |-> chosen,
     done |-> done]

(* A command that goes on. *)
LEMMA CommandGoesOn ==
    ASSUME CommandInv, Runs, NEW steps, NEW chosen, NEW done, NEW G \in SUBSET Facts, Outside,
           commandRun' = GoneOn(steps, chosen, done),
           IsChoice(chosen),
           Leads(ThisCommand, steps, G, {}), Knows(G, done, chosen)
    PROVE  CommandInv'
<1>1. commandRun' = [status |-> "running", command |-> commandRun.command,
                     gas |-> commandRun.gas, coin |-> commandRun.coin, left |-> steps,
                     roles |-> commandRun.roles, chosen |-> chosen, done |-> done]
  BY DEF GoneOn
<1>2. purse' = purse /\ holder' = holder /\ meddled' = meddled
  BY DEF Outside
<1>3. ThisCommand' = ThisCommand /\ Calm' = Calm /\ There' = There
  BY <1>1, <1>2 DEF ThisCommand, Calm, Suffices, There
<1>4. Knows(G, commandRun.done, commandRun.chosen)'
  BY <1>1, <1>3 DEF Knows
<1>5. ProgramFits'
  BY <1>1, <1>3, <1>4 DEF ProgramFits
<1>6. CommandShaped'
  <2>1. commandRun.command \in Paying => "payment" \in commandRun.roles
    BY RunShape
  <2>2. /\ commandRun'.status = "running" /\ commandRun'.command = commandRun.command
        /\ commandRun'.gas = commandRun.gas /\ commandRun'.coin = commandRun.coin
        /\ commandRun'.left = steps /\ commandRun'.roles = commandRun.roles
        /\ commandRun'.chosen = chosen /\ commandRun'.done = done
    BY <1>1
  <2>3. QED BY <1>1, <2>1, <2>2 DEF CommandShaped
<1>7. CommandsTypeOK' /\ RefusedUnchanged' /\ CommandsSucceed'
  <2>1. commandRun'.status = "running"
    BY <1>1
  <2>2. QED BY <1>2, <2>1 DEF CommandInv, CommandsTypeOK, RefusedUnchanged, CommandsSucceed
<1>8. QED BY <1>5, <1>6, <1>7 DEF CommandInv

EndedAs(status, done) ==
    [status |-> status, command |-> commandRun.command, gas |-> commandRun.gas,
     coin |-> commandRun.coin, left |-> <<>>, roles |-> commandRun.roles,
     chosen |-> commandRun.chosen, done |-> done]

(* A command that ends. *)
LEMMA CommandEnds ==
    ASSUME CommandInv, Runs, NEW status \in {"ok", "wrong", "refused", "rejected", "failed"},
           NEW done, Outside, commandRun' = EndedAs(status, done),
           status \in {"wrong", "refused"} =>
               done = commandRun.done /\ Knows({"clean", "unstored"}, done, commandRun.chosen),
           status \in {"refused", "rejected"} => ~Calm \/ "gas" \in ThisCommand.free
    PROVE  CommandInv'
<1>1. commandRun' = [status |-> status, command |-> commandRun.command,
                     gas |-> commandRun.gas, coin |-> commandRun.coin, left |-> <<>>,
                     roles |-> commandRun.roles, chosen |-> commandRun.chosen, done |-> done]
  BY DEF EndedAs
<1>2. purse' = purse /\ holder' = holder /\ meddled' = meddled
  BY DEF Outside
<1>3. CommandsTypeOK'
  BY <1>1, <1>2 DEF CommandInv, CommandsTypeOK
<1>4. CommandShaped'
  BY <1>1, RunShape DEF CommandShaped, NoCommandRuns
<1>5. ProgramFits'
  BY <1>1 DEF ProgramFits, Runs
<1>6. RefusedUnchanged'
  <2>1. CASE status \in {"wrong", "refused"}
    <3>1. /\ "clean" \notin ThisCommand.free =>
                commandRun.done \cap {"executed", "written", "saved"} = {}
          /\ "unstored" \notin ThisCommand.free => "stored" \notin commandRun.done
      BY <2>1 DEF Knows
    <3>2. QED BY <2>1, <3>1, <1>1, FreeFacts DEF RefusedUnchanged
  <2>2. QED BY <2>1, <1>1 DEF RefusedUnchanged
<1>7. CommandsSucceed'
  <2>1. There' = There /\ Suffices' = Suffices
    BY <1>1, <1>2 DEF There, Suffices
  <2>2. CASE status \in {"refused", "rejected"}
    <3>1. CASE "gas" \in ThisCommand.free
      BY <3>1, <1>1, FreeFacts DEF CommandsSucceed
    <3>2. CASE ~Calm
      BY <3>2, <1>1, <1>2, <2>1
         DEF Calm, CommandsSucceed, CommandInv, CommandsTypeOK, Holders
    <3>3. QED BY <2>2, <3>1, <3>2
  <2>3. QED BY <2>2, <1>1 DEF CommandsSucceed
<1>8. QED BY <1>3, <1>4, <1>5, <1>6, <1>7 DEF CommandInv

(* The record of a command, and what becomes of it if one part changes. *)
CommandRecord(status, command, gas, coin, left, roles, chosen, done) ==
    [status |-> status, command |-> command, gas |-> gas, coin |-> coin, left |-> left,
     roles |-> roles, chosen |-> chosen, done |-> done]

LEMMA RecordChanges ==
    ASSUME NEW st, NEW cm, NEW gs, NEW cn, NEW lf, NEW rl, NEW ch, NEW dn,
           NEW r, r = CommandRecord(st, cm, gs, cn, lf, rl, ch, dn), NEW x
    PROVE  /\ r.status = st /\ r.command = cm /\ r.gas = gs /\ r.coin = cn
           /\ r.left = lf /\ r.roles = rl /\ r.chosen = ch /\ r.done = dn
           /\ [r EXCEPT !.left = x] = CommandRecord(st, cm, gs, cn, x, rl, ch, dn)
           /\ [r EXCEPT !.status = x] = CommandRecord(x, cm, gs, cn, lf, rl, ch, dn)
           /\ [r EXCEPT !.chosen = x] = CommandRecord(st, cm, gs, cn, lf, rl, x, dn)
           /\ [r EXCEPT !.done = x] = CommandRecord(st, cm, gs, cn, lf, rl, ch, x)
<1>1. /\ r.status = st /\ r.command = cm /\ r.gas = gs /\ r.coin = cn
      /\ r.left = lf /\ r.roles = rl /\ r.chosen = ch /\ r.done = dn
  BY DEF CommandRecord
<1>2. [r EXCEPT !.left = x] = CommandRecord(st, cm, gs, cn, x, rl, ch, dn)
  BY DEF CommandRecord
<1>3. [r EXCEPT !.status = x] = CommandRecord(x, cm, gs, cn, lf, rl, ch, dn)
  BY DEF CommandRecord
<1>4. [r EXCEPT !.chosen = x] = CommandRecord(st, cm, gs, cn, lf, rl, x, dn)
  BY DEF CommandRecord
<1>5. [r EXCEPT !.done = x] = CommandRecord(st, cm, gs, cn, lf, rl, ch, x)
  BY DEF CommandRecord
<1>6. QED BY <1>1, <1>2, <1>3, <1>4, <1>5

IsRecord(r) ==
    r = [status |-> r.status, command |-> r.command, gas |-> r.gas, coin |-> r.coin,
         left |-> r.left, roles |-> r.roles, chosen |-> r.chosen, done |-> r.done]
Altered(r, status, left, chosen, done) ==
    [status |-> status, command |-> r.command, gas |-> r.gas, coin |-> r.coin, left |-> left,
     roles |-> r.roles, chosen |-> chosen, done |-> done]

(* An altered record is one, and may be altered again. *)
LEMMA AlteredRecord ==
    ASSUME NEW r, NEW st, NEW l, NEW c, NEW d, NEW q, q = Altered(r, st, l, c, d), NEW x
    PROVE  /\ IsRecord(q) /\ q.status = st /\ q.left = l /\ q.chosen = c /\ q.done = d
           /\ [q EXCEPT !.left = x] = Altered(r, st, x, c, d)
           /\ [q EXCEPT !.chosen = x] = Altered(r, st, l, x, d)
           /\ [q EXCEPT !.done = x] = Altered(r, st, l, c, x)
<1>1. IsRecord(q) /\ q.status = st /\ q.left = l /\ q.chosen = c /\ q.done = d
  BY DEF Altered, IsRecord
<1>2. [q EXCEPT !.left = x] = Altered(r, st, x, c, d)
  BY DEF Altered
<1>3. [q EXCEPT !.chosen = x] = Altered(r, st, l, x, d)
  BY DEF Altered
<1>4. [q EXCEPT !.done = x] = Altered(r, st, l, c, x)
  BY DEF Altered
<1>5. QED BY <1>1, <1>2, <1>3, <1>4

(* One part of a record changes. *)
LEMMA PartChanges ==
    ASSUME NEW r, IsRecord(r), NEW x
    PROVE  /\ [r EXCEPT !.left = x] = Altered(r, r.status, x, r.chosen, r.done)
           /\ [r EXCEPT !.status = x] = Altered(r, x, r.left, r.chosen, r.done)
           /\ [r EXCEPT !.chosen = x] = Altered(r, r.status, r.left, x, r.done)
           /\ [r EXCEPT !.done = x] = Altered(r, r.status, r.left, r.chosen, x)
<1>1. PICK st, cm, gs, cn, lf, rl, ch, dn :
          /\ st = r.status /\ cm = r.command /\ gs = r.gas /\ cn = r.coin
          /\ lf = r.left /\ rl = r.roles /\ ch = r.chosen /\ dn = r.done
  OBVIOUS
<1>2. r = CommandRecord(st, cm, gs, cn, lf, rl, ch, dn)
  BY Zenon, <1>1 DEF IsRecord, CommandRecord
<1>3. /\ [r EXCEPT !.left = x] = CommandRecord(st, cm, gs, cn, x, rl, ch, dn)
      /\ [r EXCEPT !.status = x] = CommandRecord(x, cm, gs, cn, lf, rl, ch, dn)
      /\ [r EXCEPT !.chosen = x] = CommandRecord(st, cm, gs, cn, lf, rl, x, dn)
      /\ [r EXCEPT !.done = x] = CommandRecord(st, cm, gs, cn, lf, rl, ch, x)
  BY <1>2, RecordChanges
<1>4. \A a, b, c, d : Altered(r, a, b, c, d) = CommandRecord(a, cm, gs, cn, b, rl, c, d)
  BY <1>1 DEF Altered, CommandRecord
<1>5. [r EXCEPT !.left = x] = Altered(r, r.status, x, r.chosen, r.done)
  <2>1. PICK y : y = [r EXCEPT !.left = x]
    OBVIOUS
  <2>2. y = CommandRecord(st, cm, gs, cn, x, rl, ch, dn)
    BY Zenon, <1>3, <2>1
  <2>3. y = Altered(r, r.status, x, r.chosen, r.done)
    BY <1>1, <1>4, <2>2
  <2>4. QED BY Zenon, <2>1, <2>3
<1>6. [r EXCEPT !.status = x] = Altered(r, x, r.left, r.chosen, r.done)
  <2>1. PICK y : y = [r EXCEPT !.status = x]
    OBVIOUS
  <2>2. y = CommandRecord(x, cm, gs, cn, lf, rl, ch, dn)
    BY Zenon, <1>3, <2>1
  <2>3. y = Altered(r, x, r.left, r.chosen, r.done)
    BY <1>1, <1>4, <2>2
  <2>4. QED BY Zenon, <2>1, <2>3
<1>7. [r EXCEPT !.chosen = x] = Altered(r, r.status, r.left, x, r.done)
  <2>1. PICK y : y = [r EXCEPT !.chosen = x]
    OBVIOUS
  <2>2. y = CommandRecord(st, cm, gs, cn, lf, rl, x, dn)
    BY Zenon, <1>3, <2>1
  <2>3. y = Altered(r, r.status, r.left, x, r.done)
    BY <1>1, <1>4, <2>2
  <2>4. QED BY Zenon, <2>1, <2>3
<1>8. [r EXCEPT !.done = x] = Altered(r, r.status, r.left, r.chosen, x)
  <2>1. PICK y : y = [r EXCEPT !.done = x]
    OBVIOUS
  <2>2. y = CommandRecord(st, cm, gs, cn, lf, rl, ch, x)
    BY Zenon, <1>3, <2>1
  <2>3. y = Altered(r, r.status, r.left, r.chosen, x)
    BY <1>1, <1>4, <2>2
  <2>4. QED BY Zenon, <2>1, <2>3
<1>9. QED BY Zenon, <1>5, <1>6, <1>7, <1>8

(* The first step is taken. *)
LEMMA RecordPasses ==
    ASSUME NEW r, IsRecord(r)
    PROVE  [r EXCEPT !.left = Tail(@)] = Altered(r, r.status, Tail(r.left), r.chosen, r.done)
<1>1. PICK y : y = Tail(r.left)
  OBVIOUS
<1>2. [r EXCEPT !.left = y] = Altered(r, r.status, y, r.chosen, r.done)
  BY Zenon, PartChanges
<1>3. QED BY Zenon, <1>1, <1>2

(* Steps are put in front. *)
LEMMA RecordLonger ==
    ASSUME NEW r, IsRecord(r), NEW p
    PROVE  [r EXCEPT !.left = p \o @] = Altered(r, r.status, p \o r.left, r.chosen, r.done)
<1>1. PICK y : y = p \o r.left
  OBVIOUS
<1>2. [r EXCEPT !.left = y] = Altered(r, r.status, y, r.chosen, r.done)
  BY Zenon, PartChanges
<1>3. QED BY Zenon, <1>1, <1>2

(* The command ends. *)
LEMMA RecordEnds ==
    ASSUME NEW r, IsRecord(r), NEW x
    PROVE  [r EXCEPT !.status = x, !.left = <<>>] = Altered(r, x, <<>>, r.chosen, r.done)
<1>1. PICK y : y = <<>>
  OBVIOUS
<1>2. PICK q : q = [r EXCEPT !.status = x]
  OBVIOUS
<1>3. q = Altered(r, x, r.left, r.chosen, r.done)
  BY Zenon, <1>2, PartChanges
<1>4. [q EXCEPT !.left = y] = Altered(r, x, y, r.chosen, r.done)
  BY <1>3, AlteredRecord
<1>5. QED BY Zenon, <1>1, <1>2, <1>4

(* What the steps make of the record of the command. *)
LEMMA StepRecords ==
    ASSUME CommandInv, Runs
    PROVE  /\ Passed = GoneOn(Tail(commandRun.left), commandRun.chosen, commandRun.done)
           /\ \A e : Done(e) =
                 GoneOn(Tail(commandRun.left), commandRun.chosen, commandRun.done \cup {e})
           /\ \A st : Ended(st) = EndedAs(st, commandRun.done)
           /\ \A st, e : [Ended(st) EXCEPT !.done = @ \cup {e}] = EndedAs(st, commandRun.done \cup {e})
           /\ \A p : [commandRun EXCEPT !.left = p \o @] =
                 GoneOn(p \o commandRun.left, commandRun.chosen, commandRun.done)
           /\ \A p : [Passed EXCEPT !.left = p \o @] =
                 GoneOn(p \o Tail(commandRun.left), commandRun.chosen, commandRun.done)
           /\ \A p, e : [Done(e) EXCEPT !.left = p \o @] =
                 GoneOn(p \o Tail(commandRun.left), commandRun.chosen, commandRun.done \cup {e})
           /\ \A role, x : [Passed EXCEPT !.chosen[role] = x] =
                 GoneOn(Tail(commandRun.left), [commandRun.chosen EXCEPT ![role] = x], commandRun.done)
<1>1. IsRecord(commandRun) /\ commandRun.status = "running"
  BY RunShape DEF IsRecord, Runs
<1>2. /\ \A l, c, d : GoneOn(l, c, d) = Altered(commandRun, commandRun.status, l, c, d)
      /\ \A x, d : EndedAs(x, d) = Altered(commandRun, x, <<>>, commandRun.chosen, d)
  <2>1. \A l, c, d : GoneOn(l, c, d) = Altered(commandRun, commandRun.status, l, c, d)
    BY <1>1 DEF GoneOn, Altered
  <2>2. \A x, d : EndedAs(x, d) = Altered(commandRun, x, <<>>, commandRun.chosen, d)
    BY DEF EndedAs, Altered
  <2>3. QED BY Zenon, <2>1, <2>2
<1>3. PICK r, st, lf, ch, dn :
          r = commandRun /\ st = r.status /\ lf = r.left /\ ch = r.chosen /\ dn = r.done
  OBVIOUS
<1>4. PICK q, tl : q = Passed /\ tl = Tail(lf)
  OBVIOUS
<1>5. q = Altered(r, st, tl, ch, dn)
  BY Zenon, <1>1, <1>3, <1>4, RecordPasses DEF Passed
<1>6. IsRecord(q) /\ q.left = tl /\ q.chosen = ch /\ q.done = dn
  BY <1>5, AlteredRecord
<1>7. ASSUME NEW e
      PROVE  /\ Done(e) = Altered(r, st, tl, ch, dn \cup {e})
             /\ \A p : [Done(e) EXCEPT !.left = p \o @] = Altered(r, st, p \o tl, ch, dn \cup {e})
  <2>1. PICK t, w : t = Done(e) /\ w = dn \cup {e}
    OBVIOUS
  <2>2. [q EXCEPT !.done = w] = Altered(r, st, tl, ch, w)
    BY <1>5, AlteredRecord
  <2>3. t = Altered(r, st, tl, ch, w)
    BY Zenon, <1>4, <1>6, <2>1, <2>2 DEF Done
  <2>4. t.left = tl /\ \A x : [t EXCEPT !.left = x] = Altered(r, st, x, ch, w)
    BY <2>3, AlteredRecord
  <2>5. QED BY Zenon, <2>1, <2>3, <2>4
<1>8. ASSUME NEW x
      PROVE  /\ Ended(x) = Altered(r, x, <<>>, ch, dn)
             /\ \A e : [Ended(x) EXCEPT !.done = @ \cup {e}] = Altered(r, x, <<>>, ch, dn \cup {e})
  <2>1. PICK t, nil : t = Ended(x) /\ nil = <<>>
    OBVIOUS
  <2>2. t = Altered(r, x, nil, ch, dn)
    BY Zenon, <1>1, <1>3, <2>1, RecordEnds DEF Ended
  <2>3. t.done = dn /\ \A w : [t EXCEPT !.done = w] = Altered(r, x, nil, ch, w)
    BY <2>2, AlteredRecord
  <2>4. QED BY Zenon, <2>1, <2>2, <2>3
<1>9. \A p : [r EXCEPT !.left = p \o @] = Altered(r, st, p \o lf, ch, dn)
  BY Zenon, <1>1, <1>3, RecordLonger
<1>10. \A x : /\ [q EXCEPT !.left = x] = Altered(r, st, x, ch, dn)
              /\ [q EXCEPT !.chosen = x] = Altered(r, st, tl, x, dn)
  BY <1>5, AlteredRecord
<1>11. \A p : [q EXCEPT !.left = p \o @] = Altered(r, st, p \o tl, ch, dn)
  BY Zenon, <1>6, <1>10
<1>12. \A role, x : [q EXCEPT !.chosen[role] = x] = Altered(r, st, tl, [ch EXCEPT ![role] = x], dn)
  BY Zenon, <1>6, <1>10
<1>13. /\ \A l, c, d : GoneOn(l, c, d) = Altered(r, st, l, c, d)
       /\ \A x, d : EndedAs(x, d) = Altered(r, x, <<>>, ch, d)
  BY Zenon, <1>2, <1>3
<1>14. /\ Passed = GoneOn(Tail(lf), ch, dn)
       /\ \A p : [Passed EXCEPT !.left = p \o @] = GoneOn(p \o Tail(lf), ch, dn)
       /\ \A role, x : [Passed EXCEPT !.chosen[role] = x] = GoneOn(Tail(lf), [ch EXCEPT ![role] = x], dn)
  <2>1. Passed = GoneOn(Tail(lf), ch, dn)
    BY Zenon, <1>4, <1>5, <1>13
  <2>2. \A p : [Passed EXCEPT !.left = p \o @] = GoneOn(p \o Tail(lf), ch, dn)
    BY Zenon, <1>4, <1>11, <1>13
  <2>3. \A role, x : [Passed EXCEPT !.chosen[role] = x] = GoneOn(Tail(lf), [ch EXCEPT ![role] = x], dn)
    BY Zenon, <1>4, <1>12, <1>13
  <2>4. QED BY Zenon, <2>1, <2>2, <2>3
<1>15. \A e : /\ Done(e) = GoneOn(Tail(lf), ch, dn \cup {e})
              /\ \A p : [Done(e) EXCEPT !.left = p \o @] = GoneOn(p \o Tail(lf), ch, dn \cup {e})
  BY Zenon, <1>4, <1>7, <1>13
<1>16. \A x : /\ Ended(x) = EndedAs(x, dn)
              /\ \A e : [Ended(x) EXCEPT !.done = @ \cup {e}] = EndedAs(x, dn \cup {e})
  BY Zenon, <1>8, <1>13
<1>17. \A p : [commandRun EXCEPT !.left = p \o @] = GoneOn(p \o lf, ch, dn)
  BY Zenon, <1>3, <1>9, <1>13
<1>18. lf = commandRun.left /\ ch = commandRun.chosen /\ dn = commandRun.done
  BY <1>3
<1>19. /\ Passed = GoneOn(Tail(commandRun.left), commandRun.chosen, commandRun.done)
       /\ \A e : Done(e) =
                 GoneOn(Tail(commandRun.left), commandRun.chosen, commandRun.done \cup {e})
  BY Zenon, <1>14, <1>15, <1>18
<1>20. /\ \A x : Ended(x) = EndedAs(x, commandRun.done)
       /\ \A x, e : [Ended(x) EXCEPT !.done = @ \cup {e}] = EndedAs(x, commandRun.done \cup {e})
  BY Zenon, <1>16, <1>18
<1>21. \A p : [commandRun EXCEPT !.left = p \o @] =
                 GoneOn(p \o commandRun.left, commandRun.chosen, commandRun.done)
  BY Zenon, <1>17, <1>18
<1>22. /\ \A p : [Passed EXCEPT !.left = p \o @] =
                 GoneOn(p \o Tail(commandRun.left), commandRun.chosen, commandRun.done)
       /\ \A role, x : [Passed EXCEPT !.chosen[role] = x] =
                 GoneOn(Tail(commandRun.left), [commandRun.chosen EXCEPT ![role] = x], commandRun.done)
  <2>1. \A p : [Passed EXCEPT !.left = p \o @] = GoneOn(p \o Tail(commandRun.left), ch, dn)
    BY Zenon, <1>14, <1>18
  <2>2. ASSUME NEW role, NEW x
        PROVE  [Passed EXCEPT !.chosen[role] = x] =
                 GoneOn(Tail(commandRun.left), [commandRun.chosen EXCEPT ![role] = x], commandRun.done)
    <3>1. PICK f : f = [ch EXCEPT ![role] = x]
      OBVIOUS
    <3>2. [Passed EXCEPT !.chosen[role] = x] = GoneOn(Tail(lf), f, dn)
      BY Zenon, <1>14, <3>1
    <3>3. [Passed EXCEPT !.chosen[role] = x] = GoneOn(Tail(commandRun.left), f, commandRun.done)
      BY Zenon, <1>18, <3>2
    <3>4. QED BY Zenon, <1>18, <3>1, <3>3
  <2>3. QED BY Zenon, <1>18, <2>1, <2>2
<1>23. \A p, e : [Done(e) EXCEPT !.left = p \o @] =
                 GoneOn(p \o Tail(commandRun.left), commandRun.chosen, commandRun.done \cup {e})
  BY Zenon, <1>15, <1>18
<1>24. QED BY Zenon, <1>19, <1>20, <1>21, <1>22, <1>23

(* Among any coins of the wallet there is the largest, or the first of these. *)
LEMMA FirstIsOne ==
    ASSUME purse \in [Coins -> 0..2], NEW S, S \subseteq Coins, S # {}
    PROVE  First(S) \in S
<1>1. \E v \in 0..2 : (\E c \in S : purse[c] = v) /\ \A c \in S : purse[c] <= v
  <2>1. \A c \in S : purse[c] \in {0, 1, 2}
    BY SMT
  <2>2. CASE \E c \in S : purse[c] = 2
    BY <2>1, <2>2
  <2>3. CASE ~(\E c \in S : purse[c] = 2) /\ \E c \in S : purse[c] = 1
    BY <2>1, <2>3
  <2>4. CASE ~(\E c \in S : purse[c] = 2) /\ ~(\E c \in S : purse[c] = 1)
    BY <2>1, <2>4
  <2>5. QED BY <2>2, <2>3, <2>4
<1>2. PICK v \in 0..2 : (\E c \in S : purse[c] = v) /\ \A c \in S : purse[c] <= v
  BY <1>1
<1> DEFINE N == {c \in S : purse[c] = v}
<1>3. N \subseteq Nat /\ N # {}
  BY <1>2, CommandRunsAssumption
<1>4. PICK k \in N : \A j \in N : ~(<<j, k>> \in OpToRel(<, Nat))
  BY Zenon, <1>3, NatLessThanWellFounded, WFMin
<1>5. \A j \in N : ~(j < k)
  <2>1. \A x, y : <<x, y>> \in OpToRel(<, Nat) <=> x \in Nat /\ y \in Nat /\ x < y
    BY Zenon DEF OpToRel
  <2>2. QED BY Zenon, <1>3, <1>4, <2>1
<1>6. \A d \in S \ {k} : Before(k, d)
  <2> SUFFICES ASSUME NEW d \in S \ {k} PROVE Before(k, d)
    OBVIOUS
  <2>1. purse[k] = v /\ purse[d] <= v /\ purse[d] \in 0..2 /\ d \in Nat /\ k \in Nat
    BY <1>2, <1>3, CommandRunsAssumption
  <2>2. purse[d] = v => ~(d < k)
    BY <1>5
  <2>3. QED BY <2>1, <2>2 DEF Before
<1>7. QED BY <1>6 DEF First

(* A step that may turn the command down finds nothing done. *)
LEMMA TurnsDown ==
    ASSUME CommandInv, Runs, commandRun.left # <<>>, This.kind \in Refusing
    PROVE  /\ Knows({"clean", "unstored"}, commandRun.done, commandRun.chosen)
           /\ WellFormed(ThisCommand, This)
           /\ This.kind \in {"find", "apart"} /\ Calm /\ "gas" \notin ThisCommand.free =>
                 commandRun.chosen["gas"] \in There \ ThisCommand.pays
<1>1. This.kind \notin Nesting
  BY DEF Refusing, Nesting
<1>2. PICK F \in SUBSET Facts :
              /\ Knows(F, commandRun.done, commandRun.chosen)
              /\ WellFormed(ThisCommand, This) /\ Needs(This) \subseteq F
  BY <1>1, FirstStep
<1>3. {"clean", "unstored"} \subseteq F
  BY <1>2 DEF Needs
<1>4. Knows({"clean", "unstored"}, commandRun.done, commandRun.chosen)
  BY <1>2, <1>3, KnowsLess
<1>5. ASSUME This.kind \in {"find", "apart"}, Calm, "gas" \notin ThisCommand.free
      PROVE  commandRun.chosen["gas"] \in There \ ThisCommand.pays
  <2>1. "gas" \in F
    BY <1>2, <1>5 DEF Needs
  <2>2. QED BY <1>2, <1>5, <2>1 DEF Knows
<1>6. QED BY <1>2, <1>4, <1>5

(* A step that chooses no coin is passed. *)
LEMMA PassedOn ==
    ASSUME CommandInv, Runs, commandRun.left # <<>>, This.kind \notin Nesting \cup {"choose"},
           Outside, NEW done,
           commandRun' = GoneOn(Tail(commandRun.left), commandRun.chosen, done),
           "clean" \notin Loses(ThisCommand, This) \cup ThisCommand.free =>
               done \cap {"executed", "written", "saved"} \subseteq commandRun.done,
           "unstored" \notin Loses(ThisCommand, This) \cup ThisCommand.free =>
               ("stored" \in done => "stored" \in commandRun.done),
           "silent" \notin Loses(ThisCommand, This) \cup ThisCommand.free =>
               ("printed" \in done => "printed" \in commandRun.done)
    PROVE  CommandInv'
<1>1. PICK F \in SUBSET Facts, G \in SUBSET Facts :
              /\ Knows(F, commandRun.done, commandRun.chosen)
              /\ G \subseteq (F \ Loses(ThisCommand, This)) \cup Gives(ThisCommand, This)
              /\ Leads(ThisCommand, Tail(commandRun.left), G, {})
  BY FirstStep
<1>2. Gives(ThisCommand, This) = {}
  BY DEF Gives, ChoosesGas
<1>3. G \subseteq F /\ G \cap Loses(ThisCommand, This) = {}
  BY <1>1, <1>2
<1>4. Knows(G, done, commandRun.chosen)
  <2>1. Knows(G, commandRun.done, commandRun.chosen)
    BY <1>1, <1>3, KnowsLess
  <2>2. "clean" \in G \ ThisCommand.free => done \cap {"executed", "written", "saved"} = {}
    BY <1>3, <2>1 DEF Knows
  <2>3. "unstored" \in G \ ThisCommand.free => "stored" \notin done
    BY <1>3, <2>1 DEF Knows
  <2>4. "silent" \in G \ ThisCommand.free => "printed" \notin done
    BY <1>3, <2>1 DEF Knows
  <2>5. QED BY <2>1, <2>2, <2>3, <2>4 DEF Knows
<1>5. IsChoice(commandRun.chosen)
  BY RunShape
<1>6. PICK rest : rest = Tail(commandRun.left)
  OBVIOUS
<1>7. QED BY <1>1, <1>4, <1>5, <1>6, CommandGoesOn

(* What is checked, asked, done or sent. *)
LEMMA PlainStepsKept ==
    ASSUME CommandInv, Checks \/ Contradiction \/ Queries \/ Effects \/ KeepsCaps \/ BestEffort
    PROVE  CommandInv'
<1>1. Runs /\ commandRun.left # <<>>
  BY DEF Checks, Contradiction, Queries, Effects, KeepsCaps, BestEffort, AtStep
<1>2. ASSUME Outside, commandRun' = Passed, This.kind \notin Nesting \cup {"choose"}
      PROVE  CommandInv'
  <2>1. commandRun' = GoneOn(Tail(commandRun.left), commandRun.chosen, commandRun.done)
    BY Zenon, <1>1, <1>2, StepRecords
  <2>2. QED BY <1>1, <1>2, <2>1, PassedOn
<1>3. ASSUME Outside, commandRun' = Ended("wrong"), This.kind \in Refusing
      PROVE  CommandInv'
  <2>1. PICK st : st = "wrong"
    OBVIOUS
  <2>2. commandRun' = EndedAs(st, commandRun.done)
    BY Zenon, <1>1, <1>3, <2>1, StepRecords
  <2>3. Knows({"clean", "unstored"}, commandRun.done, commandRun.chosen)
    BY <1>1, <1>3, TurnsDown
  <2>4. st \in {"ok", "wrong", "refused", "rejected", "failed"} /\ st \notin {"refused", "rejected"}
    BY <2>1
  <2>5. QED BY Zenon, <1>1, <1>3, <2>2, <2>3, <2>4, CommandEnds
<1>4. ASSUME Outside, NEW e, commandRun' = Done(e), This.kind \notin Nesting \cup {"choose"},
             e \in {"executed", "written", "saved"} => "clean" \in Loses(ThisCommand, This) \cup ThisCommand.free,
             e = "stored" => "unstored" \in Loses(ThisCommand, This) \cup ThisCommand.free,
             e = "printed" => "silent" \in Loses(ThisCommand, This) \cup ThisCommand.free
      PROVE  CommandInv'
  <2>1. PICK done : done = commandRun.done \cup {e}
    OBVIOUS
  <2>2. commandRun' = GoneOn(Tail(commandRun.left), commandRun.chosen, done)
    BY Zenon, <1>1, <1>4, <2>1, StepRecords
  <2>3. /\ "clean" \notin Loses(ThisCommand, This) \cup ThisCommand.free =>
               done \cap {"executed", "written", "saved"} \subseteq commandRun.done
        /\ "unstored" \notin Loses(ThisCommand, This) \cup ThisCommand.free =>
               ("stored" \in done => "stored" \in commandRun.done)
        /\ "silent" \notin Loses(ThisCommand, This) \cup ThisCommand.free =>
               ("printed" \in done => "printed" \in commandRun.done)
    BY <1>4, <2>1
  <2>4. QED BY Zenon, <1>1, <1>4, <2>2, <2>3, PassedOn
<1>5. CASE Checks
  <2>1. This.kind = "check" /\ (Steps(Passed) \/ Steps(Ended("wrong")))
    BY <1>5 DEF Checks, AtStep, This
  <2>2. QED BY <1>2, <1>3, <2>1 DEF Steps, Refusing, Nesting
<1>6. CASE Contradiction
  <2>1. This.kind = "never" /\ Steps(Ended("wrong"))
    BY <1>6 DEF Contradiction, AtStep, This
  <2>2. QED BY <1>3, <2>1 DEF Steps, Refusing
<1>7. CASE Queries
  <2>1. This.kind = "query" /\ Steps(Passed)
    BY <1>7 DEF Queries, AtStep, This
  <2>2. QED BY <1>2, <2>1 DEF Steps, Nesting
<1>8. CASE Effects
  <2>1. This.kind = "effect" /\ Steps(Done(This.what))
    BY <1>8 DEF Effects, AtStep, This
  <2>2. PICK w : w = This.what
    OBVIOUS
  <2>3. /\ w \in {"executed", "written", "saved"} => "clean" \in Loses(ThisCommand, This) \cup ThisCommand.free
        /\ w = "stored" => "unstored" \in Loses(ThisCommand, This) \cup ThisCommand.free
        /\ w = "printed" => "silent" \in Loses(ThisCommand, This) \cup ThisCommand.free
    <3>1. This.kind \notin Nesting
      BY <2>1 DEF Nesting
    <3>2. WellFormed(ThisCommand, This)
      BY <1>1, <3>1, FirstStep
    <3>3. w \in {"cached", "stored", "written", "saved", "printed"}
      BY <2>1, <2>2, <3>2 DEF WellFormed, Effectful
    <3>4. QED BY <2>1, <2>2, <3>3 DEF Loses
  <2>4. This.kind \notin Nesting \cup {"choose"}
    BY <2>1 DEF Nesting
  <2>5. Outside /\ commandRun' = Done(w)
    BY Zenon, <2>1, <2>2 DEF Steps
  <2>6. QED BY Zenon, <1>4, <2>3, <2>4, <2>5
<1>9. CASE KeepsCaps
  <2>1. /\ This.kind = "keep"
        /\ Steps(IF "executed" \in commandRun.done THEN Done("saved") ELSE Passed)
    BY <1>9 DEF KeepsCaps, AtStep, This
  <2>2. Outside /\ (commandRun' = Done("saved") \/ commandRun' = Passed)
    BY <2>1 DEF Steps
  <2>3. This.kind \notin Nesting \cup {"choose"}
    BY <2>1 DEF Nesting
  <2>4. "clean" \in Loses(ThisCommand, This) \cup ThisCommand.free
    BY <2>1 DEF Loses
  <2>5. CASE commandRun' = Done("saved")
    <3>1. PICK w : w = "saved"
      OBVIOUS
    <3>2. w # "stored" /\ w # "printed" /\ commandRun' = Done(w)
      BY <2>5, <3>1
    <3>3. QED BY Zenon, <1>4, <2>2, <2>3, <2>4, <3>2
  <2>6. QED BY <1>2, <2>2, <2>3, <2>5
<1>10. CASE BestEffort
  <2>1. This.kind = "attempt" /\ (Steps(Passed) \/ Steps(Done(This.what)))
    BY <1>10 DEF BestEffort, AtStep, This
  <2>2. This.kind \notin Nesting \cup {"choose"}
    BY <2>1 DEF Nesting
  <2>3. PICK w : w = This.what
    OBVIOUS
  <2>4. w = "written"
    <3>1. WellFormed(ThisCommand, This)
      BY <1>1, <2>2, FirstStep
    <3>2. QED BY <2>1, <2>3, <3>1 DEF WellFormed
  <2>5. "clean" \in Loses(ThisCommand, This) \cup ThisCommand.free
    BY <2>1 DEF Loses
  <2>6. w # "stored" /\ w # "printed"
    BY <2>4
  <2>7. Outside /\ (commandRun' = Done(w) \/ commandRun' = Passed)
    BY Zenon, <2>1, <2>3 DEF Steps
  <2>8. QED BY Zenon, <1>2, <1>4, <2>2, <2>5, <2>6, <2>7
<1>11. QED BY <1>5, <1>6, <1>7, <1>8, <1>9, <1>10

(* What suffices: the coin that pays is there, and one for gas besides. *)
LEMMA CalmMeans ==
    ASSUME CommandInv, Runs, Calm
    PROVE  /\ ThisCommand.pays \subseteq There
           /\ \E c \in There \ ThisCommand.pays : ThisCommand.gas \in {NoCoin, c}
           /\ \A c \in There : c # NoCoin
           /\ ThisCommand.pays \subseteq {commandRun.coin}
           /\ holder \in {"signer", "shared"}
<1>1. PICK c \in There : /\ commandRun.gas \in {NoCoin, c}
                         /\ "payment" \in commandRun.roles => commandRun.coin \in There \ {c}
  BY DEF Calm, Suffices
<1>2. commandRun.command \in Paying => "payment" \in commandRun.roles
  BY RunShape
<1>3. /\ ThisCommand.pays = (IF commandRun.command \in Paying THEN {commandRun.coin} ELSE {})
      /\ ThisCommand.gas = commandRun.gas
  BY FreeFacts
<1>4. \A x \in There : x # NoCoin
  BY CommandRunsAssumption DEF There
<1>5. QED BY <1>1, <1>2, <1>3, <1>4 DEF Calm

(* A step that turns the command down, or does not. *)
LEMMA RefusesOrNot ==
    ASSUME CommandInv, Runs, commandRun.left # <<>>, This.kind \in Refusing \ {"choose"}, Outside,
           commandRun' = Passed \/ (commandRun' = Ended("refused") /\ (~Calm \/ "gas" \in ThisCommand.free))
    PROVE  CommandInv'
<1>1. CASE commandRun' = Passed
  <2>1. commandRun' = GoneOn(Tail(commandRun.left), commandRun.chosen, commandRun.done)
    BY Zenon, <1>1, StepRecords
  <2>2. This.kind \notin Nesting \cup {"choose"}
    BY DEF Refusing, Nesting
  <2>3. QED BY <2>1, <2>2, PassedOn
<1>2. CASE commandRun' = Ended("refused") /\ (~Calm \/ "gas" \in ThisCommand.free)
  <2>1. PICK st : st = "refused"
    OBVIOUS
  <2>2. commandRun' = EndedAs(st, commandRun.done)
    BY Zenon, <1>2, <2>1, StepRecords
  <2>3. Knows({"clean", "unstored"}, commandRun.done, commandRun.chosen)
    BY TurnsDown
  <2>4. st \in {"ok", "wrong", "refused", "rejected", "failed"}
    BY <2>1
  <2>5. QED BY Zenon, <1>2, <2>2, <2>3, <2>4, CommandEnds
<1>3. QED BY <1>1, <1>2

(* The agent and the coins are looked at. *)
LEMMA LooksKept ==
    ASSUME CommandInv, Accesses \/ Finds \/ LooksApart
    PROVE  CommandInv'
<1>1. Runs /\ commandRun.left # <<>>
  BY DEF Accesses, Finds, LooksApart, AtStep
<1>2. CASE Accesses
  <2>1. /\ This.kind = "access"
        /\ Steps(IF ensure_agent_owner_allowed(holder, This.what) THEN Passed ELSE Ended("refused"))
    BY <1>2 DEF Accesses, AtStep, This
  <2>2. ~ensure_agent_owner_allowed(holder, This.what) => ~Calm
    BY <1>1, CalmMeans DEF ensure_agent_owner_allowed
  <2>3. This.kind \in Refusing \ {"choose"}
    BY <2>1 DEF Refusing
  <2>4. Outside /\ (commandRun' = Passed \/ (commandRun' = Ended("refused") /\ ~Calm))
    BY <2>1, <2>2 DEF Steps
  <2>5. QED BY <1>1, <2>3, <2>4, RefusesOrNot
<1>3. CASE Finds
  <2>1. /\ This.kind = "find"
        /\ Steps(IF commandRun.chosen[This.what] \in There THEN Passed ELSE Ended("refused"))
    BY <1>3 DEF Finds, AtStep, This
  <2>2. This.kind \in Refusing \ {"choose"}
    BY <2>1 DEF Refusing
  <2>3. /\ WellFormed(ThisCommand, This)
        /\ Calm /\ "gas" \notin ThisCommand.free => commandRun.chosen["gas"] \in There
    BY <1>1, <2>1, <2>2, TurnsDown
  <2>4. This.what = "gas"
    BY <2>1, <2>3 DEF WellFormed
  <2>5. Outside /\ (commandRun' = Passed \/
                       (commandRun' = Ended("refused") /\ (~Calm \/ "gas" \in ThisCommand.free)))
    BY <2>1, <2>3, <2>4 DEF Steps
  <2>6. QED BY <1>1, <2>2, <2>5, RefusesOrNot
<1>4. CASE LooksApart
  <2>1. This.kind = "apart" /\ Steps(IF Apart(commandRun.coin) THEN Passed ELSE Ended("refused"))
    BY <1>4 DEF LooksApart, AtStep, This
  <2>2. This.kind \in Refusing \ {"choose"}
    BY <2>1 DEF Refusing
  <2>3. /\ WellFormed(ThisCommand, This)
        /\ Calm /\ "gas" \notin ThisCommand.free => commandRun.chosen["gas"] \notin ThisCommand.pays
    BY <1>1, <2>1, <2>2, TurnsDown
  <2>4. ThisCommand.pays # {}
    BY <2>1, <2>3 DEF WellFormed
  <2>5. ThisCommand.pays = {commandRun.coin}
    BY <2>4, FreeFacts
  <2>6. Outside /\ (commandRun' = Passed \/
                       (commandRun' = Ended("refused") /\ (~Calm \/ "gas" \in ThisCommand.free)))
    BY <2>1, <2>3, <2>5 DEF Steps, Apart
  <2>7. QED BY <1>1, <2>2, <2>6, RefusesOrNot
<1>5. QED BY <1>2, <1>3, <1>4

(* A transaction is submitted. *)
LEMMA SubmitKept ==
    ASSUME CommandInv, Submits \/ AlreadyRegistered
    PROVE  CommandInv'
<1>1. Runs /\ commandRun.left # <<>> /\ This.kind = "submit"
  BY DEF Submits, AlreadyRegistered, AtStep, This
<1>2. This.kind \notin Nesting \cup {"choose"}
  BY <1>1 DEF Nesting
<1>3. CASE Submits /\ Accepted(This.what)
  <2>1. Outside /\ commandRun' = Done("executed")
    BY <1>3 DEF Submits, Steps
  <2>2. PICK done : done = commandRun.done \cup {"executed"}
    OBVIOUS
  <2>3. commandRun' = GoneOn(Tail(commandRun.left), commandRun.chosen, done)
    BY Zenon, <1>1, <2>1, <2>2, StepRecords
  <2>4. "clean" \in Loses(ThisCommand, This) \cup ThisCommand.free
    BY <1>1 DEF Loses
  <2>5. ("stored" \in done => "stored" \in commandRun.done) /\ ("printed" \in done => "printed" \in commandRun.done)
    BY <2>2
  <2>6. QED BY Zenon, <1>1, <1>2, <2>1, <2>3, <2>4, <2>5, PassedOn
<1>4. CASE Submits /\ ~Accepted(This.what)
  <2>1. Outside /\ commandRun' = Ended("rejected")
    BY <1>4 DEF Submits, Steps
  <2>2. PICK st : st = "rejected"
    OBVIOUS
  <2>3. commandRun' = EndedAs(st, commandRun.done)
    BY Zenon, <1>1, <2>1, <2>2, StepRecords
  <2>4. ~Calm \/ "gas" \in ThisCommand.free
    <3> SUFFICES ASSUME Calm, "gas" \notin ThisCommand.free PROVE FALSE
      OBVIOUS
    <3>1. PICK F \in SUBSET Facts :
              Knows(F, commandRun.done, commandRun.chosen) /\ Needs(This) \subseteq F
      BY <1>1, <1>2, FirstStep
    <3>2. commandRun.chosen["gas"] \in There \ ThisCommand.pays
      <4>1. "gas" \in F
        BY <1>1, <3>1 DEF Needs
      <4>2. QED BY <3>1, <4>1 DEF Knows
    <3>3. "payment" \in This.what => commandRun.chosen["payment"] \in ThisCommand.pays
      <4>1. "payment" \in This.what => "payment" \in F
        BY <1>1, <3>1 DEF Needs
      <4>2. QED BY <3>1, <4>1 DEF Knows
    <3>4. ThisCommand.pays \subseteq There /\ holder \in {"signer", "shared"}
      BY <1>1, CalmMeans
    <3>5. \A role \in This.what \cap {"gas", "payment"} : commandRun.chosen[role] \in There
      BY <3>2, <3>3, <3>4
    <3>6. "payment" \in This.what => Apart(commandRun.chosen["payment"])
      BY <3>2, <3>3 DEF Apart
    <3>7. "agent" \in This.what => ensure_agent_owner_allowed(holder, "mutable")
      BY <3>4 DEF ensure_agent_owner_allowed
    <3>8. QED BY <1>4, <3>5, <3>6, <3>7 DEF Accepted
  <2>5. st \in {"ok", "wrong", "refused", "rejected", "failed"} /\ st \notin {"wrong", "refused"}
    BY <2>2
  <2>6. QED BY Zenon, <1>1, <2>1, <2>3, <2>4, <2>5, CommandEnds
<1>5. CASE AlreadyRegistered
  <2>1. Outside /\ commandRun' = [Ended("failed") EXCEPT !.done = @ \cup {"printed"}]
    BY Zenon, <1>5 DEF AlreadyRegistered, Steps
  <2>2. PICK st, done : st = "failed" /\ done = commandRun.done \cup {"printed"}
    OBVIOUS
  <2>3. commandRun' = EndedAs(st, done)
    BY Zenon, <1>1, <2>1, <2>2, StepRecords
  <2>4. /\ st \in {"ok", "wrong", "refused", "rejected", "failed"}
        /\ st \notin {"wrong", "refused"} /\ st \notin {"refused", "rejected"}
    BY <2>2
  <2>5. QED BY Zenon, <1>1, <2>1, <2>3, <2>4, CommandEnds
<1>6. QED BY <1>3, <1>4, <1>5

(* Steps with a program inside are passed, or unfolded. *)
LEMMA UnfoldedKept ==
    ASSUME CommandInv, Tries \/ Branches \/ Repeats
    PROVE  CommandInv'
<1>1. Runs /\ commandRun.left # <<>> /\ This.kind \in Nesting
  BY DEF Tries, Branches, Repeats, AtStep, This, Nesting
<1>2. PICK a \in SUBSET Facts :
          /\ Knows(a, commandRun.done, commandRun.chosen)
          /\ Leads(ThisCommand, commandRun.left, a, {})
  BY <1>1 DEF CommandInv, ProgramFits
<1>3. PICK H \in SUBSET Facts :
          /\ H \subseteq a /\ StepKeeps(ThisCommand, H, This)
          /\ Leads(ThisCommand, Tail(commandRun.left), H, {})
          /\ Leads(ThisCommand, Inner(This) \o Tail(commandRun.left), H, {})
          /\ Leads(ThisCommand, Inner(This) \o commandRun.left, H, {})
  BY <1>1, <1>2, LeadsUnfolded DEF This
<1>4. Knows(H, commandRun.done, commandRun.chosen)
  BY <1>2, <1>3, KnowsLess
<1>5. IsChoice(commandRun.chosen)
  BY <1>1, RunShape
<1>6. ASSUME Outside, NEW steps, Leads(ThisCommand, steps, H, {}),
             commandRun' = GoneOn(steps, commandRun.chosen, commandRun.done)
      PROVE  CommandInv'
  BY <1>1, <1>4, <1>5, <1>6, CommandGoesOn
<1>7. ASSUME Outside, commandRun' = Passed PROVE CommandInv'
  <2>1. commandRun' = GoneOn(Tail(commandRun.left), commandRun.chosen, commandRun.done)
    BY Zenon, <1>1, <1>7, StepRecords
  <2>2. QED BY Zenon, <1>3, <1>6, <1>7, <2>1
<1>8. CASE Branches
  <2>1. /\ This.kind = "maybe"
        /\ Outside /\ (commandRun' = Passed \/ commandRun' = [Passed EXCEPT !.left = This.what \o @])
    BY Zenon, <1>8 DEF Branches, Steps, AtStep, This
  <2>2. Inner(This) = This.what
    BY <2>1 DEF Inner
  <2>3. CASE commandRun' = [Passed EXCEPT !.left = This.what \o @]
    <3>1. commandRun' = GoneOn(This.what \o Tail(commandRun.left), commandRun.chosen, commandRun.done)
      BY Zenon, <1>1, <2>3, StepRecords
    <3>2. QED BY Zenon, <1>3, <1>6, <2>1, <2>2, <3>1
  <2>4. QED BY <1>7, <2>1, <2>3
<1>9. CASE Repeats
  <2>1. /\ This.kind = "repeat"
        /\ Outside /\ (commandRun' = Passed \/ commandRun' = [commandRun EXCEPT !.left = This.what \o @])
    BY Zenon, <1>9 DEF Repeats, Steps, AtStep, This
  <2>2. Inner(This) = This.what
    BY <2>1 DEF Inner
  <2>3. CASE commandRun' = [commandRun EXCEPT !.left = This.what \o @]
    <3>1. commandRun' = GoneOn(This.what \o commandRun.left, commandRun.chosen, commandRun.done)
      BY Zenon, <1>1, <2>3, StepRecords
    <3>2. QED BY Zenon, <1>3, <1>6, <2>1, <2>2, <3>1
  <2>4. QED BY <1>7, <2>1, <2>3
<1>10. CASE Tries
  <2>1. /\ This.kind = "try" /\ Outside
        /\ commandRun' = Passed \/ commandRun' = [Done("executed") EXCEPT !.left = This.what.accepted \o @]
    BY Zenon, <1>10 DEF Tries, Steps, AtStep, This
  <2>2. Inner(This) = This.what.accepted
    BY <2>1 DEF Inner
  <2>3. CASE commandRun' = [Done("executed") EXCEPT !.left = This.what.accepted \o @]
    <3>1. PICK done, steps : /\ done = commandRun.done \cup {"executed"}
                             /\ steps = This.what.accepted \o Tail(commandRun.left)
      OBVIOUS
    <3>2. commandRun' = GoneOn(steps, commandRun.chosen, done)
      BY Zenon, <1>1, <2>3, <3>1, StepRecords
    <3>3. Knows(H, done, commandRun.chosen)
      <4>1. "clean" \notin H \ ThisCommand.free
        BY <1>3, <2>1 DEF StepKeeps, Loses
      <4>2. ("stored" \in done => "stored" \in commandRun.done) /\ ("printed" \in done => "printed" \in commandRun.done)
        BY <3>1
      <4>3. QED BY <1>4, <4>1, <4>2 DEF Knows
    <3>4. Leads(ThisCommand, steps, H, {})
      BY Zenon, <1>3, <2>2, <3>1
    <3>5. QED BY <1>1, <1>5, <2>1, <3>2, <3>3, <3>4, CommandGoesOn
  <2>4. QED BY <1>7, <2>1, <2>3
<1>11. QED BY <1>8, <1>9, <1>10

(* A coin is chosen. *)
LEMMA ChoosesKept ==
    ASSUME CommandInv, Chooses
    PROVE  CommandInv'
<1> DEFINE found == IF This.named # NoCoin THEN There \cap {This.named} ELSE There \ This.apart
<1>1. /\ Runs /\ commandRun.left # <<>> /\ This.kind = "choose"
      /\ Outside
      /\ commandRun' = IF found = {} THEN Ended("refused")
                       ELSE [Passed EXCEPT !.chosen[This.what] = First(found)]
  BY Zenon DEF Chooses, Steps, AtStep, This
<1>2. This.kind \in Refusing /\ This.kind \notin Nesting
  BY <1>1 DEF Refusing, Nesting
<1>3. PICK F \in SUBSET Facts, G \in SUBSET Facts :
              /\ Knows(F, commandRun.done, commandRun.chosen)
              /\ WellFormed(ThisCommand, This)
              /\ G \subseteq (F \ Loses(ThisCommand, This)) \cup Gives(ThisCommand, This)
              /\ Leads(ThisCommand, Tail(commandRun.left), G, {})
  BY <1>1, <1>2, FirstStep
<1>4. \/ This.what = "gas" /\ This.named \in {ThisCommand.gas, NoCoin} /\ This.apart \subseteq ThisCommand.pays
      \/ This.what = "payment" /\ This.named \in ThisCommand.pays
  BY <1>1, <1>3 DEF WellFormed
<1>5. CASE found = {}
  <2>1. ~Calm
    <3> SUFFICES ASSUME Calm PROVE FALSE
      OBVIOUS
    <3>1. /\ ThisCommand.pays \subseteq There
          /\ \E c \in There \ ThisCommand.pays : ThisCommand.gas \in {NoCoin, c}
          /\ \A c \in There : c # NoCoin
      BY <1>1, CalmMeans
    <3>2. PICK c \in There \ ThisCommand.pays : ThisCommand.gas \in {NoCoin, c}
      BY <3>1
    <3>3. QED BY <1>4, <1>5, <3>1, <3>2
  <2>2. PICK st : st = "refused"
    OBVIOUS
  <2>3. commandRun' = Ended(st)
    BY <1>1, <1>5, <2>2
  <2>4. commandRun' = EndedAs(st, commandRun.done)
    BY Zenon, <1>1, <2>3, StepRecords
  <2>5. Knows({"clean", "unstored"}, commandRun.done, commandRun.chosen)
    BY <1>1, <1>2, TurnsDown
  <2>6. st \in {"ok", "wrong", "refused", "rejected", "failed"}
    BY <2>2
  <2>7. QED BY Zenon, <1>1, <2>1, <2>4, <2>5, <2>6, CommandEnds
<1>6. CASE found # {}
  <2>1. found \subseteq There /\ There \subseteq Coins /\ purse \in [Coins -> 0..2]
    BY DEF There, CommandInv, CommandsTypeOK
  <2>2. PICK x : x = First(found)
    OBVIOUS
  <2>3. x \in found
    <3> HIDE DEF found
    <3>1. QED BY <1>6, <2>1, <2>2, FirstIsOne
  <2>4. PICK chosen : chosen = [commandRun.chosen EXCEPT ![This.what] = x]
    OBVIOUS
  <2>5. commandRun' = GoneOn(Tail(commandRun.left), chosen, commandRun.done)
    <3>1. commandRun' = [Passed EXCEPT !.chosen[This.what] = First(found)]
      BY Zenon, <1>1, <1>6
    <3>2. [Passed EXCEPT !.chosen[This.what] = First(found)] =
              GoneOn(Tail(commandRun.left), [commandRun.chosen EXCEPT ![This.what] = First(found)],
                     commandRun.done)
      <4> HIDE DEF found
      <4>1. QED BY Zenon, <1>1, StepRecords
    <3>3. chosen = [commandRun.chosen EXCEPT ![This.what] = First(found)]
      <4> HIDE DEF found
      <4>1. QED BY Zenon, <2>2, <2>4
    <3>4. QED
      <4> HIDE DEF found
      <4>1. QED BY Zenon, <3>1, <3>2, <3>3
  <2>6. PICK old : old = commandRun.chosen /\ IsChoice(old)
    BY <1>1, RunShape
  <2>7. /\ IsChoice(chosen)
        /\ This.what = "gas" => chosen["gas"] = x /\ chosen["payment"] = old["payment"]
        /\ This.what = "payment" => chosen["payment"] = x /\ chosen["gas"] = old["gas"]
    <3>1. PICK g, p : g = old["gas"] /\ p = old["payment"]
      OBVIOUS
    <3>2. old = [role \in {"gas", "payment"} |-> IF role = "gas" THEN g ELSE p]
      BY <2>6, <3>1 DEF IsChoice
    <3>3. PICK w : w = This.what
      OBVIOUS
    <3>4. w \in {"gas", "payment"}
      BY <1>4, <3>3
    <3>5. chosen = [old EXCEPT ![w] = x]
      BY Zenon, <2>4, <2>6, <3>3
    <3>6. chosen = [role \in {"gas", "payment"} |-> IF role = w THEN x ELSE IF role = "gas" THEN g ELSE p]
      BY <3>2, <3>5
    <3>7. IsChoice(chosen)
      BY <3>6 DEF IsChoice
    <3>8. /\ w = "gas" => chosen["gas"] = x /\ chosen["payment"] = p
          /\ w = "payment" => chosen["payment"] = x /\ chosen["gas"] = g
      BY <3>6
    <3>9. QED BY <3>1, <3>3, <3>7, <3>8
  <2>8. ASSUME Calm, "gas" \in G \ ThisCommand.free
        PROVE  chosen["gas"] \in There \ ThisCommand.pays
    <3>1. CASE This.what = "gas"
      <4>1. KeepsApart(ThisCommand, This)
        BY <1>1, <1>3, <2>8, <3>1 DEF Loses, Gives, ChoosesGas
      <4>2. PICK c \in There \ ThisCommand.pays : ThisCommand.gas \in {NoCoin, c}
        BY <1>1, <2>8, CalmMeans
      <4>3. x \in There \ ThisCommand.pays
        BY <1>4, <2>1, <2>3, <3>1, <4>1, <4>2 DEF KeepsApart
      <4>4. QED BY <2>7, <3>1, <4>3
    <3>2. CASE This.what = "payment"
      <4>1. "gas" \in F
        BY <1>3, <2>8, <3>2 DEF Gives, ChoosesGas
      <4>2. old["gas"] \in There \ ThisCommand.pays
        BY <1>3, <2>6, <2>8, <4>1 DEF Knows
      <4>3. QED BY <2>7, <3>2, <4>2
    <3>3. QED BY <1>4, <3>1, <3>2
  <2>9. ASSUME Calm, "payment" \in G
        PROVE  chosen["payment"] \in ThisCommand.pays
    <3>1. CASE This.what = "payment"
      <4>1. This.named \in ThisCommand.pays
        BY <1>4, <3>1
      <4>2. This.named # NoCoin
        BY <1>1, <2>9, <4>1, CalmMeans
      <4>3. x = This.named
        BY <2>3, <4>2
      <4>4. QED BY <2>7, <3>1, <4>1, <4>3
    <3>2. CASE This.what = "gas"
      <4>1. "payment" \in F
        BY <1>1, <1>3, <2>9, <3>2 DEF Gives, ChoosesGas
      <4>2. old["payment"] \in ThisCommand.pays
        BY <1>3, <2>6, <2>9, <4>1 DEF Knows
      <4>3. QED BY <2>7, <3>2, <4>2
    <3>3. QED BY <1>4, <3>1, <3>2
  <2>10. Knows(G, commandRun.done, chosen)
    <3>1. Gives(ThisCommand, This) \subseteq {"gas", "payment"}
      BY DEF Gives
    <3>2. /\ "clean" \in G \ ThisCommand.free => commandRun.done \cap {"executed", "written", "saved"} = {}
          /\ "unstored" \in G \ ThisCommand.free => "stored" \notin commandRun.done
          /\ "silent" \in G \ ThisCommand.free => "printed" \notin commandRun.done
      BY <1>3, <3>1 DEF Knows
    <3>3. QED BY <2>8, <2>9, <3>2 DEF Knows
  <2>11. PICK rest : rest = Tail(commandRun.left)
    OBVIOUS
  <2>12. QED BY <1>1, <1>3, <2>5, <2>7, <2>10, <2>11, CommandGoesOn
<1>7. QED BY <1>5, <1>6

(* A command ends, well or badly, and what it looked at is forgotten. *)
LEMMA EndsKept ==
    ASSUME CommandInv, Finishes \/ Breaks \/ Leaves
    PROVE  CommandInv'
<1>1. ASSUME NEW st \in {"ok", "failed"}, Runs, Outside, commandRun' = Ended(st) PROVE CommandInv'
  <2>1. commandRun' = EndedAs(st, commandRun.done)
    BY Zenon, <1>1, StepRecords
  <2>2. /\ st \in {"ok", "wrong", "refused", "rejected", "failed"}
        /\ st \notin {"wrong", "refused"} /\ st \notin {"refused", "rejected"}
    BY <1>1
  <2>3. QED BY Zenon, <1>1, <2>1, <2>2, CommandEnds
<1>2. CASE Finishes
  BY <1>1, <1>2 DEF Finishes, Steps
<1>3. CASE Breaks
  BY <1>1, <1>3 DEF Breaks, Steps
<1>4. CASE Leaves
  <2>1. /\ commandRun' = [status |-> "idle"] /\ purse' = [c \in Coins |-> 1] /\ holder' = "signer"
        /\ meddled' = FALSE
    BY <1>4 DEF Leaves, NoCommandRuns
  <2>2. commandRun'.status = "idle" /\ commandRun' = NoCommandRuns
    BY <2>1 DEF NoCommandRuns
  <2>3. purse' \in [Coins -> 0..2]
    BY <2>1
  <2>4. CommandsTypeOK'
    BY <2>1, <2>2, <2>3 DEF CommandsTypeOK, Holders
  <2>5. CommandShaped'
    BY <2>2 DEF CommandShaped
  <2>6. ProgramFits' /\ RefusedUnchanged' /\ CommandsSucceed'
    BY <2>2 DEF ProgramFits, Runs, RefusedUnchanged, CommandsSucceed
  <2>7. QED BY <2>4, <2>5, <2>6 DEF CommandInv
<1>5. QED BY <1>2, <1>3, <1>4

(* Others spend a coin or hand the agent over. *)
LEMMA MeddlingKept ==
    ASSUME CommandInv,
           (\E c \in Coins : SpendsCoin(c)) \/ (\E who \in Holders \ {"signer"} : HandsOver(who))
    PROVE  CommandInv'
<1>1. Runs /\ meddled' = TRUE /\ commandRun' = commandRun
  BY DEF SpendsCoin, HandsOver
<1>2. CommandsTypeOK'
  <2>1. CASE \E c \in Coins : SpendsCoin(c)
    BY <2>1 DEF SpendsCoin, CommandInv, CommandsTypeOK
  <2>2. CASE \E who \in Holders \ {"signer"} : HandsOver(who)
    BY <2>2 DEF HandsOver, CommandInv, CommandsTypeOK
  <2>3. QED BY <2>1, <2>2
<1>3. CommandShaped'
  BY <1>1 DEF CommandInv, CommandShaped
<1>4. ProgramFits'
  <2>1. PICK a \in SUBSET Facts :
                /\ Knows(a, commandRun.done, commandRun.chosen)
                /\ Leads(ThisCommand, commandRun.left, a, {})
    BY <1>1 DEF CommandInv, ProgramFits
  <2>2. ThisCommand' = ThisCommand /\ ~Calm'
    BY <1>1 DEF ThisCommand, Calm
  <2>3. Knows(a, commandRun.done, commandRun.chosen)'
    BY <1>1, <2>1, <2>2 DEF Knows
  <2>4. QED BY <1>1, <2>1, <2>2, <2>3 DEF ProgramFits
<1>5. RefusedUnchanged' /\ CommandsSucceed'
  BY <1>1 DEF RefusedUnchanged, CommandsSucceed, Runs
<1>6. QED BY <1>2, <1>3, <1>4, <1>5 DEF CommandInv

--------------------------------------------------------------------------------
(* A step that is legal and holds no program leads from what it needs to what
   it leaves known. *)
LEMMA PlainLeads ==
    ASSUME NEW c, NEW s, NEW F \in SUBSET Facts, NEW G \in SUBSET Facts,
           s.kind \notin Nesting, WellFormed(c, s), Needs(s) \subseteq F,
           G \subseteq (F \ Loses(c, s)) \cup Gives(c, s)
    PROVE  Leads(c, <<s>>, F, G)
<1>1. Legal(c, F, s, G)
  BY DEF Legal
<1>2. G \cap Lasting \subseteq F
  BY DEF Gives, Lasting
<1>3. QED BY <1>1, <1>2, LeadsOne

\* All steps of p keep H known, and hold no programs; or these hold none.
Plainly(c, H, p) == IsProgram(p) /\ \A i \in DOMAIN p : KeepsPlainly(c, H, p[i])
Within(c, H, p) == IsProgram(p) /\ \A i \in DOMAIN p : KeepsOnce(c, H, p[i])

(* So do the steps of two programs. *)
LEMMA WithinConcat ==
    ASSUME NEW c, NEW H, NEW p, NEW q
    PROVE  /\ Plainly(c, H, p) => Within(c, H, p)
           /\ Plainly(c, H, p) /\ Plainly(c, H, q) => Plainly(c, H, p \o q)
           /\ Within(c, H, p) /\ Within(c, H, q) => Within(c, H, p \o q)
<1>1. Plainly(c, H, p) => Within(c, H, p)
  BY Zenon DEF Plainly, Within, KeepsOnce
<1>2. ASSUME IsProgram(p), IsProgram(q)
      PROVE  /\ IsProgram(p \o q)
             /\ \A i \in DOMAIN (p \o q) :
                   (\E j \in DOMAIN p : (p \o q)[i] = p[j]) \/ (\E j \in DOMAIN q : (p \o q)[i] = q[j])
  <2>1. PICK r, m, n : r = p \o q /\ m = Len(p) /\ n = Len(q)
    OBVIOUS
  <2>2. /\ IsProgram(r) /\ m \in Nat /\ n \in Nat /\ DOMAIN p = 1..m /\ DOMAIN q = 1..n
        /\ DOMAIN r = 1..(m + n)
        /\ \A i \in 1..m : r[i] = p[i]
        /\ \A i \in 1..n : r[m + i] = q[i]
    BY <1>2, <2>1, ProgramConcat
  <2>3. ASSUME NEW i \in 1..(m + n)
        PROVE  (\E j \in 1..m : r[i] = p[j]) \/ (\E j \in 1..n : r[i] = q[j])
    <3>1. CASE i <= m
      <4>1. i \in 1..m
        BY <3>1, <2>2
      <4>2. QED BY <2>2, <4>1
    <3>2. CASE ~(i <= m)
      <4>1. PICK k : k = i - m
        OBVIOUS
      <4>2. k \in 1..n /\ i = m + k
        BY <3>2, <4>1, <2>2
      <4>3. QED BY <2>2, <4>2
    <3>3. QED BY <3>1, <3>2
  <2>4. \A i \in DOMAIN r :
           (\E j \in DOMAIN p : r[i] = p[j]) \/ (\E j \in DOMAIN q : r[i] = q[j])
    BY Zenon, <2>2, <2>3
  <2>5. QED BY Zenon, <2>1, <2>2, <2>4
<1>3. ASSUME Plainly(c, H, p), Plainly(c, H, q) PROVE Plainly(c, H, p \o q)
  BY Zenon, <1>2, <1>3 DEF Plainly
<1>4. ASSUME Within(c, H, p), Within(c, H, q) PROVE Within(c, H, p \o q)
  BY Zenon, <1>2, <1>4 DEF Within
<1>5. QED BY Zenon, <1>1, <1>3, <1>4

(* A step that keeps H known is a program whose steps all do, and if it holds
   one whose steps do. *)
LEMMA WithinOne ==
    ASSUME NEW c, NEW H \in SUBSET Facts, NEW s, StepKeeps(c, H, s)
    PROVE  /\ s.kind \notin Nesting => Plainly(c, H, <<s>>)
           /\ s.kind \in Nesting /\ Plainly(c, H, Inner(s)) => Within(c, H, <<s>>)
           /\ s.kind \in Nesting /\ Within(c, H, Inner(s)) => Leads(c, <<s>>, H, H)
<1>1. IsProgram(<<s>>) /\ <<s>>[1] = s /\ DOMAIN <<s>> = {1}
  BY ProgramOne
<1>2. s.kind \notin Nesting => Plainly(c, H, <<s>>)
  BY <1>1 DEF Plainly, KeepsPlainly
<1>3. ASSUME s.kind \in Nesting, Plainly(c, H, Inner(s)) PROVE Within(c, H, <<s>>)
  <2>1. KeepsOnce(c, H, s)
    BY Zenon, <1>3 DEF Plainly, KeepsOnce
  <2>2. QED BY <1>1, <2>1 DEF Within
<1>4. ASSUME s.kind \in Nesting, Within(c, H, Inner(s)) PROVE Leads(c, <<s>>, H, H)
  <2>1. KeepsDeep(c, H, s)
    BY Zenon, <1>4 DEF Within, KeepsDeep
  <2>2. Legal(c, H, s, H)
    BY <2>1 DEF Legal
  <2>3. QED BY <2>2, LeadsOne
<1>5. QED BY <1>2, <1>3, <1>4

--------------------------------------------------------------------------------
\* What is known where nothing was done yet; where the gas coin is chosen, and
\* the payment coin; where data was stored; where something was executed; where
\* something was written but no coin is chosen.
FreshOf(c) == {"clean", "unstored", "silent"} \cup c.free
PaidOf(c) == {"clean", "unstored", "silent", "gas"} \cup c.free
BothOf(c) == {"clean", "unstored", "silent", "gas", "payment"} \cup c.free
StoredOf(c) == {"clean", "silent", "gas"} \cup c.free
ActedOf(c) == {"silent", "gas"} \cup c.free
WrittenOf(c) == {"silent"} \cup c.free

(* What is known is, and more of it is known where more was chosen. *)
LEMMA StatesOrdered ==
    ASSUME NEW c, c.free \subseteq Facts
    PROVE  /\ FreshOf(c) \in SUBSET Facts /\ PaidOf(c) \in SUBSET Facts
           /\ BothOf(c) \in SUBSET Facts /\ StoredOf(c) \in SUBSET Facts
           /\ ActedOf(c) \in SUBSET Facts /\ WrittenOf(c) \in SUBSET Facts
           /\ FreshOf(c) \subseteq PaidOf(c) /\ PaidOf(c) \subseteq BothOf(c)
           /\ StoredOf(c) \subseteq PaidOf(c) /\ ActedOf(c) \subseteq StoredOf(c)
           /\ WrittenOf(c) \subseteq ActedOf(c) /\ WrittenOf(c) \subseteq FreshOf(c)
  BY DEF FreshOf, PaidOf, BothOf, StoredOf, ActedOf, WrittenOf, Facts

(* How programs that lead from one of these to another are put together. *)
LEMMA Chains ==
    ASSUME NEW c, NEW p, NEW q
    PROVE
    /\ Leads(c, p, FreshOf(c), FreshOf(c)) /\ Leads(c, q, FreshOf(c), FreshOf(c))
          => Leads(c, p \o q, FreshOf(c), FreshOf(c))
    /\ Leads(c, p, FreshOf(c), FreshOf(c)) /\ Leads(c, q, FreshOf(c), PaidOf(c))
          => Leads(c, p \o q, FreshOf(c), PaidOf(c))
    /\ Leads(c, p, FreshOf(c), FreshOf(c)) /\ Leads(c, q, FreshOf(c), WrittenOf(c))
          => Leads(c, p \o q, FreshOf(c), WrittenOf(c))
    /\ Leads(c, p, FreshOf(c), FreshOf(c)) /\ Leads(c, q, FreshOf(c), {})
          => Leads(c, p \o q, FreshOf(c), {})
    /\ Leads(c, p, FreshOf(c), PaidOf(c)) /\ Leads(c, q, PaidOf(c), PaidOf(c))
          => Leads(c, p \o q, FreshOf(c), PaidOf(c))
    /\ Leads(c, p, FreshOf(c), PaidOf(c)) /\ Leads(c, q, PaidOf(c), BothOf(c))
          => Leads(c, p \o q, FreshOf(c), BothOf(c))
    /\ Leads(c, p, FreshOf(c), PaidOf(c)) /\ Leads(c, q, PaidOf(c), StoredOf(c))
          => Leads(c, p \o q, FreshOf(c), StoredOf(c))
    /\ Leads(c, p, FreshOf(c), PaidOf(c)) /\ Leads(c, q, PaidOf(c), ActedOf(c))
          => Leads(c, p \o q, FreshOf(c), ActedOf(c))
    /\ Leads(c, p, FreshOf(c), PaidOf(c)) /\ Leads(c, q, PaidOf(c), {})
          => Leads(c, p \o q, FreshOf(c), {})
    /\ Leads(c, p, FreshOf(c), BothOf(c)) /\ Leads(c, q, BothOf(c), BothOf(c))
          => Leads(c, p \o q, FreshOf(c), BothOf(c))
    /\ Leads(c, p, FreshOf(c), BothOf(c)) /\ Leads(c, q, BothOf(c), ActedOf(c))
          => Leads(c, p \o q, FreshOf(c), ActedOf(c))
    /\ Leads(c, p, FreshOf(c), BothOf(c)) /\ Leads(c, q, BothOf(c), FreshOf(c))
          => Leads(c, p \o q, FreshOf(c), FreshOf(c))
    /\ Leads(c, p, FreshOf(c), StoredOf(c)) /\ Leads(c, q, StoredOf(c), ActedOf(c))
          => Leads(c, p \o q, FreshOf(c), ActedOf(c))
    /\ Leads(c, p, FreshOf(c), StoredOf(c)) /\ Leads(c, q, StoredOf(c), StoredOf(c))
          => Leads(c, p \o q, FreshOf(c), StoredOf(c))
    /\ Leads(c, p, FreshOf(c), ActedOf(c)) /\ Leads(c, q, ActedOf(c), ActedOf(c))
          => Leads(c, p \o q, FreshOf(c), ActedOf(c))
    /\ Leads(c, p, FreshOf(c), ActedOf(c)) /\ Leads(c, q, ActedOf(c), {})
          => Leads(c, p \o q, FreshOf(c), {})
    /\ Leads(c, p, FreshOf(c), WrittenOf(c)) /\ Leads(c, q, WrittenOf(c), WrittenOf(c))
          => Leads(c, p \o q, FreshOf(c), WrittenOf(c))
    /\ Leads(c, p, FreshOf(c), WrittenOf(c)) /\ Leads(c, q, WrittenOf(c), {})
          => Leads(c, p \o q, FreshOf(c), {})
    /\ Leads(c, p, PaidOf(c), PaidOf(c)) /\ Leads(c, q, PaidOf(c), PaidOf(c))
          => Leads(c, p \o q, PaidOf(c), PaidOf(c))
    /\ Leads(c, p, PaidOf(c), PaidOf(c)) /\ Leads(c, q, PaidOf(c), ActedOf(c))
          => Leads(c, p \o q, PaidOf(c), ActedOf(c))
    /\ Leads(c, p, PaidOf(c), ActedOf(c)) /\ Leads(c, q, ActedOf(c), ActedOf(c))
          => Leads(c, p \o q, PaidOf(c), ActedOf(c))
    /\ Leads(c, p, PaidOf(c), PaidOf(c)) /\ Leads(c, q, PaidOf(c), StoredOf(c))
          => Leads(c, p \o q, PaidOf(c), StoredOf(c))
    /\ Leads(c, p, StoredOf(c), ActedOf(c)) /\ Leads(c, q, ActedOf(c), ActedOf(c))
          => Leads(c, p \o q, StoredOf(c), ActedOf(c))
    /\ Leads(c, p, BothOf(c), BothOf(c)) /\ Leads(c, q, BothOf(c), BothOf(c))
          => Leads(c, p \o q, BothOf(c), BothOf(c))
    /\ Leads(c, p, ActedOf(c), ActedOf(c)) /\ Leads(c, q, ActedOf(c), ActedOf(c))
          => Leads(c, p \o q, ActedOf(c), ActedOf(c))
  BY Zenon, LeadsConcat

--------------------------------------------------------------------------------
(* Steps that look something up may be taken anywhere, and those that refuse
   where nothing was done yet. *)
LEMMA LookupsLead ==
    ASSUME NEW c, NEW what, NEW H \in SUBSET Facts
    PROVE  /\ Plainly(c, H, Query(what)) /\ Leads(c, Query(what), H, H)
           /\ Plainly(c, H, Expect(what)) /\ Leads(c, Expect(what), H, H)
           /\ Plainly(c, H, Prompt) /\ Leads(c, Prompt, H, H)
           /\ {"clean", "unstored"} \subseteq H =>
                /\ Plainly(c, H, Check(what)) /\ Leads(c, Check(what), H, H)
                /\ Leads(c, Never, H, H)
                /\ Leads(c, StepOf("access", what), H, H)
                /\ c.pays # {} => Leads(c, CoinApart, H \cup {"gas"}, H \cup {"gas"})
                /\ Leads(c, Find("gas"), H \cup {"gas"}, H \cup {"gas"})
<1> DEFINE AStep(kind, w) == [kind |-> kind, what |-> w, named |-> NoCoin, apart |-> {}]
<1>1. ASSUME NEW kind, NEW w, NEW F \in SUBSET Facts, kind \notin Nesting,
             WellFormed(c, AStep(kind, w)), Needs(AStep(kind, w)) \subseteq F,
             Loses(c, AStep(kind, w)) = {}
      PROVE  Plainly(c, F, <<AStep(kind, w)>>) /\ Leads(c, <<AStep(kind, w)>>, F, F)
  <2>1. StepKeeps(c, F, AStep(kind, w))
    BY <1>1 DEF StepKeeps
  <2>2. AStep(kind, w).kind = kind
    OBVIOUS
  <2>3. PICK s : s = AStep(kind, w)
    OBVIOUS
  <2>4. Plainly(c, F, <<s>>)
    BY <1>1, <2>1, <2>2, <2>3, WithinOne
  <2>5. Leads(c, <<s>>, F, F)
    <3>1. WellFormed(c, s) /\ Needs(s) \subseteq F /\ F \subseteq (F \ Loses(c, s)) \cup Gives(c, s)
      BY <1>1, <2>3
    <3>2. s.kind \notin Nesting
      BY <1>1, <2>2, <2>3
    <3>3. QED BY <3>1, <3>2, PlainLeads
  <2>6. QED BY <2>3, <2>4, <2>5
<1>2. ASSUME NEW w
      PROVE  /\ WellFormed(c, AStep("query", w)) /\ Needs(AStep("query", w)) = {}
             /\ Loses(c, AStep("query", w)) = {}
  BY DEF WellFormed, Needs, Loses, ChoosesGas, Refusing, Busy, Nesting
<1>3. ASSUME NEW kind \in {"check", "never", "access"}, NEW w
      PROVE  /\ WellFormed(c, AStep(kind, w)) /\ Needs(AStep(kind, w)) = {"clean", "unstored"}
             /\ Loses(c, AStep(kind, w)) = {}
  BY DEF WellFormed, Needs, Loses, ChoosesGas, Refusing, Busy, Nesting
<1>4. c.pays # {} =>
          /\ WellFormed(c, AStep("apart", "payment"))
          /\ Needs(AStep("apart", "payment")) = {"clean", "unstored", "gas"}
          /\ Loses(c, AStep("apart", "payment")) = {}
  BY DEF WellFormed, Needs, Loses, ChoosesGas, Refusing, Busy, Nesting
<1>5. /\ WellFormed(c, AStep("find", "gas")) /\ Needs(AStep("find", "gas")) = {"clean", "unstored", "gas"}
      /\ Loses(c, AStep("find", "gas")) = {}
  BY DEF WellFormed, Needs, Loses, ChoosesGas, Refusing, Busy, Nesting
<1>6. /\ Query(what) = <<AStep("query", what)>> /\ Expect(what) = <<AStep("query", what)>>
      /\ Prompt = <<AStep("query", "user")>> /\ Check(what) = <<AStep("check", what)>>
      /\ Never = <<AStep("never", "contradiction")>>
      /\ StepOf("access", what) = <<AStep("access", what)>>
      /\ CoinApart = <<AStep("apart", "payment")>> /\ Find("gas") = <<AStep("find", "gas")>>
  BY DEF Query, Expect, Prompt, Check, Never, CoinApart, Find, StepOf
<1> HIDE DEF AStep
<1>7. {"query", "check", "never", "access", "apart", "find"} \cap Nesting = {}
  BY DEF Nesting
<1>8. /\ Plainly(c, H, Query(what)) /\ Leads(c, Query(what), H, H)
      /\ Plainly(c, H, Expect(what)) /\ Leads(c, Expect(what), H, H)
      /\ Plainly(c, H, Prompt) /\ Leads(c, Prompt, H, H)
  BY <1>1, <1>2, <1>6, <1>7
<1>9. ASSUME {"clean", "unstored"} \subseteq H
      PROVE  /\ Plainly(c, H, Check(what)) /\ Leads(c, Check(what), H, H)
             /\ Leads(c, Never, H, H)
             /\ Leads(c, StepOf("access", what), H, H)
             /\ c.pays # {} => Leads(c, CoinApart, H \cup {"gas"}, H \cup {"gas"})
             /\ Leads(c, Find("gas"), H \cup {"gas"}, H \cup {"gas"})
  <2>1. H \cup {"gas"} \in SUBSET Facts /\ {"clean", "unstored", "gas"} \subseteq H \cup {"gas"}
    BY <1>9 DEF Facts
  <2>2. /\ Plainly(c, H, Check(what)) /\ Leads(c, Check(what), H, H)
        /\ Leads(c, Never, H, H) /\ Leads(c, StepOf("access", what), H, H)
    BY <1>1, <1>3, <1>6, <1>7, <1>9
  <2>3. c.pays # {} => Leads(c, CoinApart, H \cup {"gas"}, H \cup {"gas"})
    BY <1>1, <1>4, <1>6, <1>7, <2>1
  <2>4. Leads(c, Find("gas"), H \cup {"gas"}, H \cup {"gas"})
    BY <1>1, <1>5, <1>6, <1>7, <2>1
  <2>5. QED BY <2>2, <2>3, <2>4
<1>10. QED BY <1>8, <1>9

(* Steps that have an effect may be taken as long as nothing was printed, and
   transactions where their coins are chosen. *)
LEMMA EffectsLead ==
    ASSUME NEW c, NEW H \in SUBSET Facts, "silent" \in H, c.free \subseteq H
    PROVE  /\ Plainly(c, H, Cache) /\ Leads(c, Cache, H, H)
           /\ Leads(c, Store, H, (H \ {"unstored"}) \cup c.free)
           /\ Leads(c, Write, H, (H \ {"clean"}) \cup c.free)
           /\ Leads(c, Save, H, (H \ {"clean"}) \cup c.free)
           /\ Leads(c, SaveIfExecuted, H, (H \ {"clean"}) \cup c.free)
           /\ Leads(c, Report, H, (H \ {"silent"}) \cup c.free)
           /\ "clean" \notin H => Plainly(c, H, Write) /\ Plainly(c, H, Attempt("written"))
           /\ \A roles : "gas" \in H /\ ("payment" \in roles => "payment" \in H) =>
                            Leads(c, Transact(roles), H, (H \ {"clean"}) \cup c.free)
<1> DEFINE AStep(kind, w) == [kind |-> kind, what |-> w, named |-> NoCoin, apart |-> {}]
<1>1. ASSUME NEW kind, NEW w, NEW G, kind \notin Nesting,
             WellFormed(c, AStep(kind, w)), Needs(AStep(kind, w)) \subseteq H,
             G \subseteq (H \ Loses(c, AStep(kind, w))) \cup Gives(c, AStep(kind, w)), G \subseteq H
      PROVE  /\ Leads(c, <<AStep(kind, w)>>, H, G)
             /\ G = H /\ H \cap Loses(c, AStep(kind, w)) = {} => Plainly(c, H, <<AStep(kind, w)>>)
  <2>1. PICK s : s = AStep(kind, w)
    OBVIOUS
  <2>2. s.kind \notin Nesting
    BY <1>1, <2>1
  <2>3. Leads(c, <<s>>, H, G)
    <3>1. WellFormed(c, s) /\ Needs(s) \subseteq H /\ G \subseteq (H \ Loses(c, s)) \cup Gives(c, s)
      BY <1>1, <2>1
    <3>2. G \in SUBSET Facts
      BY <1>1
    <3>3. QED BY <2>2, <3>1, <3>2, PlainLeads
  <2>4. ASSUME H \cap Loses(c, s) = {} PROVE Plainly(c, H, <<s>>)
    <3>1. StepKeeps(c, H, s)
      BY <1>1, <2>1, <2>4 DEF StepKeeps
    <3>2. QED BY <2>2, <3>1, WithinOne
  <2>5. QED BY <2>1, <2>3, <2>4
<1>2. ASSUME NEW w \in Effectful
      PROVE  /\ WellFormed(c, AStep("effect", w)) /\ Needs(AStep("effect", w)) = {"silent"}
             /\ Loses(c, AStep("effect", w)) =
                   ((IF w \in {"written", "saved"} THEN {"clean"} ELSE {})
                      \cup (IF w = "stored" THEN {"unstored"} ELSE {})
                      \cup (IF w = "printed" THEN {"silent"} ELSE {})) \ c.free
  BY <1>2 DEF WellFormed, Needs, Loses, ChoosesGas, Refusing, Busy, Nesting
<1>3. /\ WellFormed(c, AStep("keep", "saved")) /\ Needs(AStep("keep", "saved")) = {"silent"}
      /\ Loses(c, AStep("keep", "saved")) = {"clean"} \ c.free
      /\ WellFormed(c, AStep("attempt", "written")) /\ Needs(AStep("attempt", "written")) = {"silent"}
      /\ Loses(c, AStep("attempt", "written")) = {"clean"} \ c.free
  BY DEF WellFormed, Needs, Loses, ChoosesGas, Refusing, Busy, Nesting
<1>4. ASSUME NEW roles, "gas" \in H, "payment" \in roles => "payment" \in H
      PROVE  /\ WellFormed(c, AStep("submit", roles)) /\ Needs(AStep("submit", roles)) \subseteq H
             /\ Loses(c, AStep("submit", roles)) = {"clean"} \ c.free
  BY <1>4 DEF WellFormed, Needs, Loses, ChoosesGas, Refusing, Busy, Nesting
<1>5. /\ Cache = <<AStep("effect", "cached")>> /\ Store = <<AStep("effect", "stored")>>
      /\ Write = <<AStep("effect", "written")>> /\ Save = <<AStep("effect", "saved")>>
      /\ SaveIfExecuted = <<AStep("keep", "saved")>> /\ Report = <<AStep("effect", "printed")>>
      /\ Attempt("written") = <<AStep("attempt", "written")>>
      /\ \A roles : Transact(roles) = <<AStep("submit", roles)>>
  BY DEF Cache, Store, Write, Save, SaveIfExecuted, Report, Attempt, Transact, StepOf
<1> HIDE DEF AStep
<1>6. {"effect", "keep", "attempt", "submit"} \cap Nesting = {}
  BY DEF Nesting
<1>7. {"cached", "stored", "written", "saved", "printed"} \subseteq Effectful
  BY DEF Effectful
<1>8. Plainly(c, H, Cache) /\ Leads(c, Cache, H, H)
  <2>1. Loses(c, AStep("effect", "cached")) = {}
    BY <1>2, <1>7
  <2>2. QED BY <1>1, <1>2, <1>5, <1>6, <1>7, <2>1
<1>9. /\ Leads(c, Store, H, (H \ {"unstored"}) \cup c.free)
      /\ Leads(c, Write, H, (H \ {"clean"}) \cup c.free)
      /\ Leads(c, Save, H, (H \ {"clean"}) \cup c.free)
      /\ Leads(c, Report, H, (H \ {"silent"}) \cup c.free)
  <2>1. /\ Loses(c, AStep("effect", "stored")) = {"unstored"} \ c.free
        /\ Loses(c, AStep("effect", "written")) = {"clean"} \ c.free
        /\ Loses(c, AStep("effect", "saved")) = {"clean"} \ c.free
        /\ Loses(c, AStep("effect", "printed")) = {"silent"} \ c.free
    BY <1>2, <1>7
  <2>2. ASSUME NEW w \in {"stored", "written", "saved", "printed"}, NEW x,
               Loses(c, AStep("effect", w)) = {x} \ c.free
        PROVE  Leads(c, <<AStep("effect", w)>>, H, (H \ {x}) \cup c.free)
    <3>1. /\ (H \ {x}) \cup c.free \subseteq H \ Loses(c, AStep("effect", w))
          /\ (H \ {x}) \cup c.free \subseteq H
      BY <2>2
    <3>2. WellFormed(c, AStep("effect", w)) /\ Needs(AStep("effect", w)) \subseteq H
      BY <1>2, <1>7
    <3>3. QED BY <1>1, <1>6, <3>1, <3>2
  <2>3. QED BY <1>5, <2>1, <2>2
<1>10. Leads(c, SaveIfExecuted, H, (H \ {"clean"}) \cup c.free)
  <2>1. /\ (H \ {"clean"}) \cup c.free \subseteq H \ Loses(c, AStep("keep", "saved"))
        /\ (H \ {"clean"}) \cup c.free \subseteq H
    BY <1>3
  <2>2. QED BY <1>1, <1>3, <1>5, <1>6, <2>1
<1>11. ASSUME "clean" \notin H PROVE Plainly(c, H, Write) /\ Plainly(c, H, Attempt("written"))
  <2>1. /\ H \cap Loses(c, AStep("effect", "written")) = {} /\ H \subseteq H \ Loses(c, AStep("effect", "written"))
        /\ H \cap Loses(c, AStep("attempt", "written")) = {} /\ H \subseteq H \ Loses(c, AStep("attempt", "written"))
    BY <1>2, <1>3, <1>7, <1>11
  <2>2. QED BY <1>1, <1>2, <1>3, <1>5, <1>6, <1>7, <2>1
<1>12. ASSUME NEW roles, "gas" \in H, "payment" \in roles => "payment" \in H
       PROVE  Leads(c, Transact(roles), H, (H \ {"clean"}) \cup c.free)
  <2>1. /\ (H \ {"clean"}) \cup c.free \subseteq H \ Loses(c, AStep("submit", roles))
        /\ (H \ {"clean"}) \cup c.free \subseteq H
    BY <1>4, <1>12
  <2>2. QED BY <1>1, <1>4, <1>5, <1>6, <1>12, <2>1
<1>13. QED BY <1>8, <1>9, <1>10, <1>11, <1>12

(* Coins are chosen where nothing was done yet; the gas coin is known to be
   apart from the payment where it is named, or that one is left out. *)
LEMMA ChoicesLead ==
    ASSUME NEW c, NEW H \in SUBSET Facts, {"clean", "unstored"} \subseteq H, c.free \subseteq H,
           NEW coin, NEW apart
    PROVE  /\ coin \in {c.gas, NoCoin} /\ apart \subseteq c.pays =>
                /\ Leads(c, Choose("gas", coin, apart), H, (H \ {"gas"}) \cup c.free)
                /\ coin # NoCoin \/ c.pays \subseteq apart \/ "gas" \in c.free =>
                      Leads(c, Choose("gas", coin, apart), H, H \cup {"gas"})
           /\ coin \in c.pays => Leads(c, Choose("payment", coin, apart), H, H \cup {"payment"})
<1> DEFINE AStep(role) == [kind |-> "choose", what |-> role, named |-> coin, apart |-> apart]
<1>1. Choose("gas", coin, apart) = <<AStep("gas")>> /\ Choose("payment", coin, apart) = <<AStep("payment")>>
  BY DEF Choose
<1>2. ASSUME NEW role, NEW G \in SUBSET Facts, WellFormed(c, AStep(role)),
             G \subseteq (H \ Loses(c, AStep(role))) \cup Gives(c, AStep(role))
      PROVE  Leads(c, <<AStep(role)>>, H, G)
  <2>1. PICK s : s = AStep(role)
    OBVIOUS
  <2>2. s.kind \notin Nesting /\ Needs(s) = {"clean", "unstored"}
    BY <2>1 DEF Nesting, Needs, Refusing, Busy
  <2>3. /\ WellFormed(c, s) /\ Needs(s) \subseteq H
        /\ G \subseteq (H \ Loses(c, s)) \cup Gives(c, s)
    BY <1>2, <2>1, <2>2
  <2>4. QED BY <2>1, <2>2, <2>3, PlainLeads
<1>3. ASSUME coin \in {c.gas, NoCoin}, apart \subseteq c.pays
      PROVE  WellFormed(c, AStep("gas"))
  BY <1>3 DEF WellFormed, Refusing
<1>4. coin \in c.pays => WellFormed(c, AStep("payment"))
  BY DEF WellFormed, Refusing
<1>5. /\ Loses(c, AStep("gas")) \subseteq {"gas"} \ c.free
      /\ coin # NoCoin \/ c.pays \subseteq apart =>
            Loses(c, AStep("gas")) = {} /\ Gives(c, AStep("gas")) = {"gas"}
      /\ Loses(c, AStep("payment")) = {} /\ Gives(c, AStep("payment")) = {"payment"}
  BY DEF Loses, Gives, ChoosesGas, KeepsApart
<1> HIDE DEF AStep
<1>6. H \cup {"gas"} \in SUBSET Facts /\ H \cup {"payment"} \in SUBSET Facts
  BY DEF Facts
<1>7. ASSUME coin \in {c.gas, NoCoin}, apart \subseteq c.pays
      PROVE  /\ Leads(c, <<AStep("gas")>>, H, (H \ {"gas"}) \cup c.free)
             /\ coin # NoCoin \/ c.pays \subseteq apart \/ "gas" \in c.free =>
                   Leads(c, <<AStep("gas")>>, H, H \cup {"gas"})
  <2>1. (H \ {"gas"}) \cup c.free \subseteq (H \ Loses(c, AStep("gas")))
    BY <1>5
  <2>2. Leads(c, <<AStep("gas")>>, H, (H \ {"gas"}) \cup c.free)
    BY <1>2, <1>3, <1>7, <2>1
  <2>3. ASSUME coin # NoCoin \/ c.pays \subseteq apart \/ "gas" \in c.free
        PROVE  H \cup {"gas"} \subseteq (H \ Loses(c, AStep("gas"))) \cup Gives(c, AStep("gas"))
    BY <1>5, <2>3
  <2>4. QED BY <1>2, <1>3, <1>6, <1>7, <2>2, <2>3
<1>8. coin \in c.pays => Leads(c, <<AStep("payment")>>, H, H \cup {"payment"})
  BY <1>2, <1>4, <1>5, <1>6
<1>9. QED BY <1>1, <1>7, <1>8

(* Steps that hold others. *)
LEMMA NestsLead ==
    ASSUME NEW c, NEW H \in SUBSET Facts, "silent" \in H, NEW p
    PROVE  /\ Plainly(c, H, p) => Within(c, H, Maybe(p)) /\ Within(c, H, Repeat(p))
           /\ Within(c, H, p) => Leads(c, Maybe(p), H, H) /\ Leads(c, Repeat(p), H, H)
           /\ H \cap {"clean"} \subseteq c.free => \A roles :
                /\ Plainly(c, H, p) => Within(c, H, TryTransact(roles, p))
                /\ Within(c, H, p) => Leads(c, TryTransact(roles, p), H, H)
<1> DEFINE AStep(kind, w) == [kind |-> kind, what |-> w, named |-> NoCoin, apart |-> {}]
<1>1. ASSUME NEW kind \in {"maybe", "repeat"}
      PROVE  StepKeeps(c, H, AStep(kind, p)) /\ Inner(AStep(kind, p)) = p /\ AStep(kind, p).kind \in Nesting
  BY DEF StepKeeps, WellFormed, Needs, Loses, ChoosesGas, Refusing, Busy, Nesting, Inner
<1>2. ASSUME NEW roles, H \cap {"clean"} \subseteq c.free
      PROVE  /\ StepKeeps(c, H, AStep("try", [roles |-> roles, accepted |-> p]))
             /\ Inner(AStep("try", [roles |-> roles, accepted |-> p])) = p
             /\ AStep("try", [roles |-> roles, accepted |-> p]).kind \in Nesting
  BY <1>2 DEF StepKeeps, WellFormed, Needs, Loses, ChoosesGas, Refusing, Busy, Nesting,
     Inner
<1>3. /\ Maybe(p) = <<AStep("maybe", p)>> /\ Repeat(p) = <<AStep("repeat", p)>>
      /\ \A roles : TryTransact(roles, p) = <<AStep("try", [roles |-> roles, accepted |-> p])>>
  BY DEF Maybe, Repeat, TryTransact, StepOf
<1> HIDE DEF AStep
<1>4. ASSUME NEW s, StepKeeps(c, H, s), Inner(s) = p, s.kind \in Nesting
      PROVE  /\ Plainly(c, H, p) => Within(c, H, <<s>>)
             /\ Within(c, H, p) => Leads(c, <<s>>, H, H)
  BY <1>4, WithinOne
<1>5. QED BY <1>1, <1>2, <1>3, <1>4

--------------------------------------------------------------------------------
(* So the steps lead from one of the named states to another. *)
LEMMA LookupsKnown ==
    ASSUME NEW c, c.free \subseteq Facts
    PROVE  /\ Leads(c, <<>>, FreshOf(c), FreshOf(c)) /\ Leads(c, <<>>, PaidOf(c), PaidOf(c))
           /\ Leads(c, <<>>, ActedOf(c), ActedOf(c)) /\ Leads(c, <<>>, FreshOf(c), WrittenOf(c))
           /\ Leads(c, <<>>, PaidOf(c), ActedOf(c))
           /\ \A w : /\ Leads(c, Query(w), FreshOf(c), FreshOf(c))
                     /\ Leads(c, Query(w), PaidOf(c), PaidOf(c))
                     /\ Leads(c, Query(w), BothOf(c), BothOf(c))
                     /\ Leads(c, Query(w), ActedOf(c), ActedOf(c))
           /\ \A w : /\ Leads(c, Expect(w), FreshOf(c), FreshOf(c))
                     /\ Leads(c, Expect(w), PaidOf(c), PaidOf(c))
                     /\ Leads(c, Expect(w), ActedOf(c), ActedOf(c))
           /\ Leads(c, Prompt, FreshOf(c), FreshOf(c))
           /\ \A w : /\ Leads(c, Check(w), FreshOf(c), FreshOf(c))
                     /\ Leads(c, Check(w), PaidOf(c), PaidOf(c))
                     /\ Leads(c, Check(w), BothOf(c), BothOf(c))
           /\ Leads(c, Never, FreshOf(c), FreshOf(c)) /\ Leads(c, Never, PaidOf(c), PaidOf(c))
           /\ \A w : Leads(c, StepOf("access", w), FreshOf(c), FreshOf(c))
           /\ \A w : Leads(c, StepOf("access", w), PaidOf(c), PaidOf(c))
           /\ c.pays # {} => Leads(c, CoinApart, PaidOf(c), PaidOf(c))
           /\ Leads(c, Find("gas"), BothOf(c), BothOf(c))
<1>1. /\ \A H \in {FreshOf(c), PaidOf(c), BothOf(c), ActedOf(c), WrittenOf(c)} : H \in SUBSET Facts
      /\ WrittenOf(c) \subseteq FreshOf(c) /\ ActedOf(c) \subseteq PaidOf(c)
  BY StatesOrdered
<1>2. /\ \A H \in {FreshOf(c), PaidOf(c), BothOf(c)} : {"clean", "unstored"} \subseteq H
      /\ PaidOf(c) \cup {"gas"} = PaidOf(c) /\ BothOf(c) \cup {"gas"} = BothOf(c)
  BY DEF FreshOf, PaidOf, BothOf
<1>3. /\ Leads(c, <<>>, FreshOf(c), FreshOf(c)) /\ Leads(c, <<>>, PaidOf(c), PaidOf(c))
      /\ Leads(c, <<>>, ActedOf(c), ActedOf(c)) /\ Leads(c, <<>>, FreshOf(c), WrittenOf(c))
      /\ Leads(c, <<>>, PaidOf(c), ActedOf(c))
  BY <1>1, LeadsNone
<1>4. ASSUME NEW H \in {FreshOf(c), PaidOf(c), BothOf(c), ActedOf(c), WrittenOf(c)}
      PROVE  /\ \A w : Leads(c, Query(w), H, H) /\ Leads(c, Expect(w), H, H)
             /\ Leads(c, Prompt, H, H)
  <2>1. H \in SUBSET Facts
    BY <1>1
  <2>2. QED BY <2>1, LookupsLead
<1>5. ASSUME NEW H \in {FreshOf(c), PaidOf(c), BothOf(c)}
      PROVE  /\ \A w : Leads(c, Check(w), H, H) /\ Leads(c, StepOf("access", w), H, H)
             /\ Leads(c, Never, H, H)
             /\ c.pays # {} => Leads(c, CoinApart, H \cup {"gas"}, H \cup {"gas"})
             /\ Leads(c, Find("gas"), H \cup {"gas"}, H \cup {"gas"})
  <2>1. H \in SUBSET Facts /\ {"clean", "unstored"} \subseteq H
    BY <1>1, <1>2
  <2>2. QED BY <2>1, LookupsLead
<1>6. c.pays # {} => Leads(c, CoinApart, PaidOf(c), PaidOf(c))
  BY <1>2, <1>5
<1>7. Leads(c, Find("gas"), BothOf(c), BothOf(c))
  BY <1>2, <1>5
<1>8. QED BY Zenon, <1>3, <1>4, <1>5, <1>6, <1>7

LEMMA EffectsKnown ==
    ASSUME NEW c, c.free \subseteq Facts
    PROVE  /\ Leads(c, Report, FreshOf(c), {}) /\ Leads(c, Report, PaidOf(c), {})
           /\ Leads(c, Report, ActedOf(c), {}) /\ Leads(c, Report, WrittenOf(c), {})
           /\ "silent" \in c.free => Leads(c, Report, FreshOf(c), FreshOf(c))
           /\ Leads(c, Write, FreshOf(c), WrittenOf(c)) /\ Leads(c, Save, FreshOf(c), WrittenOf(c))
           /\ Leads(c, Save, FreshOf(c), {})
           /\ Leads(c, Write, PaidOf(c), ActedOf(c)) /\ Leads(c, Write, ActedOf(c), ActedOf(c))
           /\ Leads(c, Save, ActedOf(c), ActedOf(c))
           /\ "clean" \in c.free => Leads(c, SaveIfExecuted, PaidOf(c), PaidOf(c))
           /\ Leads(c, Store, PaidOf(c), StoredOf(c))
           /\ "unstored" \in c.free => /\ Leads(c, Store, PaidOf(c), PaidOf(c))
                                       /\ Leads(c, Store, BothOf(c), BothOf(c))
           /\ \A roles : "payment" \notin roles =>
                /\ Leads(c, Transact(roles), PaidOf(c), ActedOf(c))
                /\ Leads(c, Transact(roles), StoredOf(c), ActedOf(c))
                /\ Leads(c, Transact(roles), ActedOf(c), ActedOf(c))
           /\ Leads(c, Transact({"gas", "payment"}), BothOf(c), ActedOf(c))
           /\ {"clean", "unstored"} \subseteq c.free =>
                 Leads(c, Transact({"gas", "payment"}), BothOf(c), FreshOf(c))
<1> DEFINE States == {FreshOf(c), PaidOf(c), BothOf(c), StoredOf(c), ActedOf(c), WrittenOf(c)}
           But(H, x) == (H \ {x}) \cup c.free
<1>1. ASSUME NEW H \in States
      PROVE  H \in SUBSET Facts /\ "silent" \in H /\ c.free \subseteq H
  BY <1>1 DEF FreshOf, PaidOf, BothOf, StoredOf, ActedOf, WrittenOf, Facts
<1>2. \A H \in States : Leads(c, Report, H, But(H, "silent"))
  BY <1>1, EffectsLead
<1>3. \A H \in States : Leads(c, Report, H, {})
  BY <1>2, LeadsWeaker
<1>4. \A H \in States : /\ Leads(c, Write, H, But(H, "clean"))
                        /\ Leads(c, Save, H, But(H, "clean"))
                        /\ Leads(c, SaveIfExecuted, H, But(H, "clean"))
                        /\ Leads(c, Store, H, But(H, "unstored"))
  BY <1>1, EffectsLead
<1>5. /\ WrittenOf(c) \subseteq But(FreshOf(c), "clean")
      /\ ActedOf(c) \subseteq But(PaidOf(c), "clean")
      /\ ActedOf(c) \subseteq But(StoredOf(c), "clean")
      /\ ActedOf(c) \subseteq But(BothOf(c), "clean")
      /\ ActedOf(c) \subseteq But(ActedOf(c), "clean")
      /\ StoredOf(c) \subseteq But(PaidOf(c), "unstored")
      /\ "silent" \in c.free => FreshOf(c) \subseteq But(FreshOf(c), "silent")
      /\ "clean" \in c.free => PaidOf(c) \subseteq But(PaidOf(c), "clean")
      /\ "unstored" \in c.free => /\ PaidOf(c) \subseteq But(PaidOf(c), "unstored")
                                  /\ BothOf(c) \subseteq But(BothOf(c), "unstored")
      /\ "clean" \in c.free => FreshOf(c) \subseteq But(BothOf(c), "clean")
  BY DEF FreshOf, PaidOf, BothOf, StoredOf, ActedOf, WrittenOf
<1>6. \A H \in States : \A roles : "gas" \in H /\ ("payment" \in roles => "payment" \in H) =>
          Leads(c, Transact(roles), H, But(H, "clean"))
  BY <1>1, EffectsLead
<1>7. /\ "gas" \in PaidOf(c) /\ "gas" \in StoredOf(c) /\ "gas" \in ActedOf(c) /\ "gas" \in BothOf(c)
      /\ "payment" \in BothOf(c)
  BY DEF PaidOf, BothOf, StoredOf, ActedOf
<1>8. /\ FreshOf(c) \in States /\ PaidOf(c) \in States /\ BothOf(c) \in States
      /\ StoredOf(c) \in States /\ ActedOf(c) \in States /\ WrittenOf(c) \in States
  OBVIOUS
<1> HIDE DEF States, But
<1>9. ASSUME NEW p, NEW a, NEW b, NEW b2, Leads(c, p, a, b2), b \subseteq b2 PROVE Leads(c, p, a, b)
  BY <1>9, LeadsWeaker
<1>10. /\ Leads(c, Report, FreshOf(c), {}) /\ Leads(c, Report, PaidOf(c), {})
       /\ Leads(c, Report, ActedOf(c), {}) /\ Leads(c, Report, WrittenOf(c), {})
       /\ "silent" \in c.free => Leads(c, Report, FreshOf(c), FreshOf(c))
  BY <1>2, <1>3, <1>5, <1>8, <1>9
<1>11. /\ Leads(c, Write, FreshOf(c), WrittenOf(c)) /\ Leads(c, Save, FreshOf(c), WrittenOf(c))
       /\ Leads(c, Save, FreshOf(c), {})
       /\ Leads(c, Write, PaidOf(c), ActedOf(c)) /\ Leads(c, Write, ActedOf(c), ActedOf(c))
       /\ Leads(c, Save, ActedOf(c), ActedOf(c))
       /\ "clean" \in c.free => Leads(c, SaveIfExecuted, PaidOf(c), PaidOf(c))
  BY <1>4, <1>5, <1>8, <1>9
<1>12. /\ Leads(c, Store, PaidOf(c), StoredOf(c))
       /\ "unstored" \in c.free => /\ Leads(c, Store, PaidOf(c), PaidOf(c))
                                   /\ Leads(c, Store, BothOf(c), BothOf(c))
  BY <1>4, <1>5, <1>8, <1>9
<1>13. ASSUME NEW roles, "payment" \notin roles
       PROVE  /\ Leads(c, Transact(roles), PaidOf(c), ActedOf(c))
              /\ Leads(c, Transact(roles), StoredOf(c), ActedOf(c))
              /\ Leads(c, Transact(roles), ActedOf(c), ActedOf(c))
  BY <1>5, <1>6, <1>7, <1>8, <1>9, <1>13
<1>14. /\ Leads(c, Transact({"gas", "payment"}), BothOf(c), ActedOf(c))
       /\ "clean" \in c.free => Leads(c, Transact({"gas", "payment"}), BothOf(c), FreshOf(c))
  BY <1>5, <1>6, <1>7, <1>8, <1>9
<1>15. QED BY <1>10, <1>11, <1>12, <1>13, <1>14

(* The objects are fetched if they are not configured, and kept. *)
LEMMA ObjectsKnown ==
    ASSUME NEW c, c.free \subseteq Facts
    PROVE  /\ Leads(c, get_nexus_objects, FreshOf(c), FreshOf(c))
           /\ Leads(c, get_nexus_objects, PaidOf(c), PaidOf(c))
           /\ Leads(c, get_nexus_objects, BothOf(c), BothOf(c))
<1>1. ASSUME NEW H \in {FreshOf(c), PaidOf(c), BothOf(c)}
      PROVE  Leads(c, get_nexus_objects, H, H)
  <2>1. H \in SUBSET Facts /\ {"clean", "unstored"} \subseteq H /\ "silent" \in H /\ c.free \subseteq H
    BY DEF FreshOf, PaidOf, BothOf, Facts
  <2>2. Plainly(c, H, fetch_objects_from_url)
    BY <2>1, LookupsLead DEF fetch_objects_from_url
  <2>3. Plainly(c, H, Cache)
    BY <2>1, EffectsLead
  <2>4. Within(c, H, fetch_objects_from_url \o Cache)
    BY <2>2, <2>3, WithinConcat
  <2>5. Leads(c, Maybe(fetch_objects_from_url \o Cache), H, H)
    BY <2>1, <2>4, NestsLead
  <2>6. Leads(c, Check("objects"), H, H)
    BY <2>1, LookupsLead
  <2>7. QED BY <2>5, <2>6, LeadsConcat DEF get_nexus_objects
<1>2. QED BY <1>1

(* The client of a command is made with its gas coin, or with the largest. *)
LEMMA ClientKnown ==
    ASSUME NEW c, c.free \subseteq Facts, NEW coin, coin \in {c.gas, NoCoin}
    PROVE  /\ Leads(c, get_nexus_client(coin), FreshOf(c), FreshOf(c))
           /\ c.pays = {} \/ coin # NoCoin \/ "gas" \in c.free =>
                 Leads(c, get_nexus_client(coin), FreshOf(c), PaidOf(c))
<1>1. /\ FreshOf(c) \in SUBSET Facts /\ {"clean", "unstored"} \subseteq FreshOf(c)
      /\ c.free \subseteq FreshOf(c)
      /\ FreshOf(c) \subseteq (FreshOf(c) \ {"gas"}) \cup c.free
      /\ FreshOf(c) \cup {"gas"} = PaidOf(c)
  BY DEF FreshOf, PaidOf, Facts
<1>2. {} \subseteq c.pays
  OBVIOUS
<1>3. Leads(c, Choose("gas", coin, {}), FreshOf(c), FreshOf(c))
  <2>1. Leads(c, Choose("gas", coin, {}), FreshOf(c), (FreshOf(c) \ {"gas"}) \cup c.free)
    BY <1>1, <1>2, ChoicesLead
  <2>2. QED BY <1>1, <2>1, LeadsWeaker
<1>4. ASSUME c.pays = {} \/ coin # NoCoin \/ "gas" \in c.free
      PROVE  Leads(c, Choose("gas", coin, {}), FreshOf(c), PaidOf(c))
  <2>1. coin # NoCoin \/ c.pays \subseteq {} \/ "gas" \in c.free
    BY <1>4
  <2>2. Leads(c, Choose("gas", coin, {}), FreshOf(c), FreshOf(c) \cup {"gas"})
    BY <1>1, <1>2, <2>1, ChoicesLead
  <2>3. QED BY <1>1, <2>2
<1>5. QED BY <1>3, <1>4, LookupsKnown, ObjectsKnown, Chains
     DEF get_nexus_client, ClientWith, fetch_coin, fetch_coin_with_balance,
         fetch_coin_with_balance_excluding, build_sui_grpc_client, get_signing_key

--------------------------------------------------------------------------------
(* The steps of the commands about agents are those of all commands. *)
LEMMA TapSteps ==
    /\ \A w : Tap!Check(w) = Check(w) /\ Tap!Query(w) = Query(w) /\ Tap!Transact(w) = Transact(w)
    /\ \A w : Tap!StepOf("access", w) = StepOf("access", w)
    /\ Tap!Never = Never /\ Tap!Store = Store /\ Tap!Write = Write /\ Tap!Save = Save
    /\ Tap!Report = Report
    /\ \A coin : Tap!get_nexus_client(coin) = get_nexus_client(coin)
<1>1. \A kind, w : Tap!StepOf(kind, w) = StepOf(kind, w)
  BY DEF Tap!StepOf, StepOf
<1>2. /\ \A w : Tap!Check(w) = Check(w) /\ Tap!Query(w) = Query(w) /\ Tap!Transact(w) = Transact(w)
      /\ \A w : Tap!Maybe(w) = Maybe(w)
      /\ Tap!Never = Never /\ Tap!Store = Store /\ Tap!Write = Write /\ Tap!Save = Save
      /\ Tap!Report = Report /\ Tap!Cache = Cache
  BY <1>1 DEF Tap!Check, Tap!Query, Tap!Transact, Tap!Maybe, Tap!Never, Tap!Store,
     Tap!Write,
              Tap!Save, Tap!Report, Tap!Cache,
              Check, Query, Transact, Maybe, Never, Store, Write, Save, Report, Cache
<1>3. \A role, coin, apart : Tap!Choose(role, coin, apart) = Choose(role, coin, apart)
  BY DEF Tap!Choose, Choose
<1>4. Tap!get_nexus_objects = get_nexus_objects
  BY <1>2 DEF Tap!get_nexus_objects, get_nexus_objects, Tap!fetch_objects_from_url,
              fetch_objects_from_url
<1>5. \A coin : Tap!get_nexus_client(coin) = get_nexus_client(coin)
  BY <1>2, <1>3, <1>4
     DEF Tap!get_nexus_client, Tap!ClientWith, Tap!fetch_coin, Tap!fetch_coin_with_balance,
         Tap!fetch_coin_with_balance_excluding, Tap!build_sui_grpc_client, Tap!get_signing_key,
         get_nexus_client, ClientWith, fetch_coin, fetch_coin_with_balance,
         fetch_coin_with_balance_excluding, build_sui_grpc_client, get_signing_key
<1>6. QED BY <1>1, <1>2, <1>5

(* The client of a command that does not pay with a coin. *)
LEMMA OrdinaryClient ==
    ASSUME NEW c, c.free \subseteq Facts, c.pays = {}, NEW gas, gas \in {c.gas, NoCoin}
    PROVE  /\ Leads(c, get_nexus_client(gas), FreshOf(c), PaidOf(c))
           /\ Leads(c, get_nexus_client(NoCoin), FreshOf(c), PaidOf(c))
  BY ClientKnown

(* The programs of the commands about agents and their skills do no harm. *)
LEMMA SkillProgramsLead ==
    ASSUME NEW c, c.free \subseteq Facts, c.pays = {}, NEW gas, gas \in {c.gas, NoCoin}, NEW options
    PROVE  /\ Leads(c, Tap!scaffold_tap_skill, FreshOf(c), {})
           /\ Leads(c, Tap!validate_skill, FreshOf(c), {})
           /\ "silent" \in c.free => Leads(c, Tap!publish_skill(gas, options), FreshOf(c), {})
           /\ Leads(c, Tap!create_skill_artifact, FreshOf(c), {})
           /\ Leads(c, Tap!create_agent(gas), FreshOf(c), {})
           /\ Leads(c, Tap!register_skill(gas), FreshOf(c), {})
           /\ Leads(c, Tap!bind_agent_skill(gas), FreshOf(c), {})
           /\ Leads(c, Tap!fetch_requirements, FreshOf(c), {})
           /\ "silent" \in c.free => Leads(c, Tap!dry_run_skill, FreshOf(c), {})
           /\ Leads(c, Tap!execute_agent_dag_skill(gas), FreshOf(c), {})
<1>1. /\ Leads(c, get_nexus_client(gas), FreshOf(c), PaidOf(c))
      /\ Leads(c, get_nexus_client(NoCoin), FreshOf(c), PaidOf(c))
  BY OrdinaryClient
<1>2. "payment" \notin {"gas"} /\ "payment" \notin {"gas", "agent"}
  OBVIOUS
<1>3. Leads(c, Tap!scaffold_tap_skill, FreshOf(c), {})
  BY LookupsKnown, EffectsKnown, Chains, TapSteps
     DEF Tap!scaffold_tap_skill, Tap!scaffold_files
<1>4. /\ Leads(c, Tap!validate_skill, FreshOf(c), {})
      /\ "silent" \in c.free => Leads(c, Tap!validate_skill, FreshOf(c), FreshOf(c))
  BY LookupsKnown, EffectsKnown, Chains, TapSteps
     DEF Tap!validate_skill, Tap!read_skill_config, Tap!validate_dag_file,
         Tap!validate_tap_package_manifest, Tap!validate_tap_package_sources
<1>5. ASSUME "silent" \in c.free PROVE Leads(c, Tap!publish_skill(gas, options), FreshOf(c), {})
  BY <1>1, <1>2, <1>4, <1>5, LookupsKnown, EffectsKnown, Chains, TapSteps
     DEF Tap!publish_skill, Tap!validate_tap_package_manifest, Tap!pick_publish_environment, Tap!If
<1>6. Leads(c, Tap!create_skill_artifact, FreshOf(c), {})
  <2>1. Leads(c, Tap!fetch_input_commitment, FreshOf(c), PaidOf(c))
    BY <1>1, LookupsKnown, Chains, TapSteps
       DEF Tap!fetch_input_commitment, Tap!ReadingClient
  <2>2. Leads(c, Tap!build_artifact, PaidOf(c), PaidOf(c))
    BY LookupsKnown, Chains, TapSteps
       DEF Tap!build_artifact, Tap!payment_policy_from_cli, Tap!schedule_policy_from_cli,
           Tap!parse_fixed_tool
  <2>3. QED BY <2>1, <2>2, EffectsKnown, Chains, TapSteps DEF Tap!create_skill_artifact
<1>7. Leads(c, Tap!create_agent(gas), FreshOf(c), {})
  BY <1>1, <1>2, EffectsKnown, Chains, TapSteps DEF Tap!create_agent
<1>8. /\ Leads(c, Tap!register_skill(gas), FreshOf(c), {})
      /\ Leads(c, Tap!bind_agent_skill(gas), FreshOf(c), {})
  BY <1>1, <1>2, LookupsKnown, EffectsKnown, Chains, TapSteps
     DEF Tap!register_skill, Tap!bind_agent_skill, Tap!read_artifact, Tap!ensure_cli_mutable_agent,
         Tap!ensure_cli_agent_access
<1>9. Leads(c, Tap!fetch_requirements, FreshOf(c), {})
  BY <1>1, LookupsKnown, EffectsKnown, Chains, TapSteps
     DEF Tap!fetch_requirements, Tap!ReadingClient, Tap!ensure_cli_agent_owner,
         Tap!ensure_cli_agent_access
<1>10. "silent" \in c.free => Leads(c, Tap!dry_run_skill, FreshOf(c), {})
  BY <1>4, EffectsKnown, Chains, TapSteps DEF Tap!dry_run_skill
<1>11. Leads(c, Tap!execute_agent_dag_skill(gas), FreshOf(c), {})
  BY <1>1, <1>2, LookupsKnown, EffectsKnown, Chains, TapSteps
     DEF Tap!execute_agent_dag_skill, Tap!agent_execute_options_from_cli,
         Tap!ensure_cli_mutable_agent, Tap!ensure_cli_agent_access, Tap!EntryPorts
<1>12. QED BY <1>3, <1>4, <1>5, <1>6, <1>7, <1>8, <1>9, <1>10, <1>11

(* So do those of agents, their tasks and what they are paid with. *)
LEMMA AgentProgramsLead ==
    ASSUME NEW c, c.free \subseteq Facts, c.pays = {}, NEW gas, gas \in {c.gas, NoCoin}, NEW options
    PROVE  /\ "unstored" \in c.free => Leads(c, Tap!schedule_tap_task(gas, options), FreshOf(c), {})
           /\ Leads(c, Tap!set_agent_task_state(gas), FreshOf(c), {})
           /\ Leads(c, Tap!handle_agent_command.save, FreshOf(c), {})
           /\ Leads(c, Tap!handle_agent_command.list, FreshOf(c), {})
           /\ Leads(c, Tap!handle_agent_command.remove, FreshOf(c), {})
           /\ Leads(c, Tap!handle_vault_command(gas, options).balance, FreshOf(c), {})
           /\ Leads(c, Tap!deposit_agent_vault(gas, options), FreshOf(c), {})
           /\ Leads(c, Tap!show_registry, FreshOf(c), {})
           /\ Leads(c, Tap!show_default_agent, FreshOf(c), {})
           /\ Leads(c, Tap!show_payment, FreshOf(c), {})
           /\ Leads(c, Tap!wait_payment, FreshOf(c), {})
           /\ Leads(c, Tap!list_payments(options), FreshOf(c), {})
           /\ Leads(c, Tap!resolve_payment(gas, options), FreshOf(c), {})
           /\ \A skip : Leads(c, Tap!resolve_expired_walk(gas, skip), FreshOf(c), {})
           /\ Leads(c, Tap!settle_committed_result(gas), FreshOf(c), {})
           /\ Leads(c, Tap!abort_execution(gas), FreshOf(c), {})
<1>1. /\ Leads(c, get_nexus_client(gas), FreshOf(c), PaidOf(c))
      /\ Leads(c, get_nexus_client(NoCoin), FreshOf(c), PaidOf(c))
  BY OrdinaryClient
<1>2. "payment" \notin {"gas"} /\ "payment" \notin {"gas", "agent"}
  OBVIOUS
<1>3. Leads(c, Tap!agent_id_from_alias_or_arg(options), FreshOf(c), FreshOf(c))
  BY LookupsKnown, TapSteps DEF Tap!agent_id_from_alias_or_arg, Tap!If
<1>4. /\ Leads(c, Tap!ensure_cli_mutable_agent, PaidOf(c), PaidOf(c))
      /\ Leads(c, Tap!ensure_cli_agent_owner, PaidOf(c), PaidOf(c))
  BY LookupsKnown, Chains, TapSteps
     DEF Tap!ensure_cli_mutable_agent, Tap!ensure_cli_agent_owner, Tap!ensure_cli_agent_access
<1>5. Leads(c, Tap!CreateTask(options), PaidOf(c), ActedOf(c))
  BY <1>2, LookupsKnown, EffectsKnown, Chains, TapSteps DEF Tap!CreateTask, Tap!If
<1>6. ASSUME "unstored" \in c.free
      PROVE  Leads(c, Tap!schedule_tap_task(gas, options), FreshOf(c), {})
  <2>1. Leads(c, Tap!If("schedule" \in options,
                        Tap!OccurrenceRequest \o Tap!If("periodic" \in options, Tap!Never)),
              PaidOf(c), PaidOf(c))
    BY LookupsKnown, Chains, TapSteps DEF Tap!OccurrenceRequest, Tap!If
  <2>2. Leads(c, Tap!If("agent_funded" \in options /\ "refund_recipient" \in options, Tap!Never),
              FreshOf(c), FreshOf(c))
    BY LookupsKnown, TapSteps DEF Tap!If
  <2>3. QED BY <1>1, <1>4, <1>5, <1>6, <2>1, <2>2, LookupsKnown, EffectsKnown, Chains, TapSteps
       DEF Tap!schedule_tap_task, Tap!validated_priority_fee_percentages,
           Tap!resolve_scheduled_tap_dag_selection, Tap!EntryPorts
<1>7. /\ Leads(c, Tap!set_agent_task_state(gas), FreshOf(c), {})
      /\ Leads(c, Tap!settle_committed_result(gas), FreshOf(c), {})
      /\ Leads(c, Tap!abort_execution(gas), FreshOf(c), {})
  BY <1>1, <1>2, EffectsKnown, Chains, TapSteps
     DEF Tap!set_agent_task_state, Tap!settle_committed_result, Tap!abort_execution
<1>8. /\ Leads(c, Tap!handle_agent_command.save, FreshOf(c), {})
      /\ Leads(c, Tap!handle_agent_command.list, FreshOf(c), {})
      /\ Leads(c, Tap!handle_agent_command.remove, FreshOf(c), {})
  BY EffectsKnown, Chains, TapSteps DEF Tap!handle_agent_command
<1>9. /\ Leads(c, Tap!handle_vault_command(gas, options).balance, FreshOf(c), {})
      /\ Leads(c, Tap!deposit_agent_vault(gas, options), FreshOf(c), {})
  <2>1. Leads(c, Tap!agent_id_from_alias_or_arg(options) \o Tap!ReadingClient
                 \o Tap!ensure_cli_agent_owner \o Tap!Query("vault") \o Tap!Report, FreshOf(c), {})
    BY <1>1, <1>3, <1>4, LookupsKnown, EffectsKnown, Chains, TapSteps DEF Tap!ReadingClient
  <2>2. Leads(c, Tap!deposit_agent_vault(gas, options), FreshOf(c), {})
    BY <1>1, <1>2, <1>3, <1>4, EffectsKnown, Chains, TapSteps DEF Tap!deposit_agent_vault
  <2>3. QED BY <2>1, <2>2 DEF Tap!handle_vault_command
<1>10. /\ Leads(c, Tap!show_registry, FreshOf(c), {})
       /\ Leads(c, Tap!show_default_agent, FreshOf(c), {})
       /\ Leads(c, Tap!show_payment, FreshOf(c), {})
       /\ Leads(c, Tap!wait_payment, FreshOf(c), {})
  BY <1>1, LookupsKnown, EffectsKnown, Chains, TapSteps
     DEF Tap!show_registry, Tap!show_default_agent, Tap!show_payment, Tap!wait_payment,
         Tap!ReadingClient
<1>11. Leads(c, Tap!AnyAgent(options, Tap!agent_id_from_alias_or_arg(options)), FreshOf(c), FreshOf(c))
  BY <1>3, LookupsKnown DEF Tap!AnyAgent, Tap!If
<1>12. /\ Leads(c, Tap!AnyAgent(options, Tap!ensure_cli_agent_owner), PaidOf(c), PaidOf(c))
       /\ Leads(c, Tap!AnyAgent(options, Tap!ensure_cli_mutable_agent), PaidOf(c), PaidOf(c))
  BY <1>4, LookupsKnown DEF Tap!AnyAgent, Tap!If
<1>13. /\ Leads(c, Tap!list_payments(options), FreshOf(c), {})
       /\ Leads(c, Tap!resolve_payment(gas, options), FreshOf(c), {})
  BY <1>1, <1>2, <1>11, <1>12, LookupsKnown, EffectsKnown, Chains, TapSteps
     DEF Tap!list_payments, Tap!resolve_payment, Tap!ReadingClient
<1>14. ASSUME NEW skip PROVE Leads(c, Tap!resolve_expired_walk(gas, skip), FreshOf(c), {})
  <2>1. Leads(c, Tap!If(~skip, Tap!Transact({"gas"})), PaidOf(c), ActedOf(c))
    BY <1>2, LookupsKnown, EffectsKnown, TapSteps DEF Tap!If
  <2>2. QED BY <1>1, <2>1, LookupsKnown, EffectsKnown, Chains, TapSteps DEF Tap!resolve_expired_walk
<1>15. QED BY <1>6, <1>7, <1>8, <1>9, <1>10, <1>13, <1>14

--------------------------------------------------------------------------------
(* The steps of the commands about tools are those of all commands. *)
LEMMA ToolSteps ==
    /\ \A w : /\ Tool_!Check(w) = Check(w) /\ Tool_!Query(w) = Query(w)
              /\ Tool_!Expect(w) = Expect(w) /\ Tool_!Transact(w) = Transact(w)
              /\ Tool_!Maybe(w) = Maybe(w) /\ Tool_!Repeat(w) = Repeat(w)
              /\ Tool_!Attempt(w) = Attempt(w)
    /\ \A w, x : Tool_!TryTransact(w, x) = TryTransact(w, x)
    /\ Tool_!Prompt = Prompt /\ Tool_!Never = Never /\ Tool_!Write = Write /\ Tool_!Save = Save
    /\ Tool_!SaveIfExecuted = SaveIfExecuted /\ Tool_!Report = Report
    /\ Tool_!get_nexus_objects = get_nexus_objects
    /\ \A coin : Tool_!get_nexus_client(coin) = get_nexus_client(coin)
<1>1. \A kind, w : Tool_!StepOf(kind, w) = StepOf(kind, w)
  BY DEF Tool_!StepOf, StepOf
<1>2. /\ \A w : /\ Tool_!Check(w) = Check(w) /\ Tool_!Query(w) = Query(w)
                /\ Tool_!Expect(w) = Expect(w) /\ Tool_!Transact(w) = Transact(w)
                /\ Tool_!Maybe(w) = Maybe(w) /\ Tool_!Repeat(w) = Repeat(w)
                /\ Tool_!Attempt(w) = Attempt(w)
      /\ \A w, x : Tool_!TryTransact(w, x) = TryTransact(w, x)
      /\ Tool_!Prompt = Prompt /\ Tool_!Never = Never /\ Tool_!Write = Write /\ Tool_!Save = Save
      /\ Tool_!SaveIfExecuted = SaveIfExecuted /\ Tool_!Report = Report /\ Tool_!Cache = Cache
  BY <1>1 DEF Tool_!Check, Tool_!Query, Tool_!Expect, Tool_!Transact, Tool_!Maybe,
     Tool_!Repeat,
              Tool_!Attempt, Tool_!TryTransact, Tool_!Prompt, Tool_!Never, Tool_!Write, Tool_!Save,
              Tool_!SaveIfExecuted, Tool_!Report, Tool_!Cache,
              Check, Query, Expect, Transact, Maybe, Repeat, Attempt, TryTransact, Prompt, Never,
              Write, Save, SaveIfExecuted, Report, Cache
<1>3. \A role, coin, apart : Tool_!Choose(role, coin, apart) = Choose(role, coin, apart)
  BY DEF Tool_!Choose, Choose
<1>4. Tool_!get_nexus_objects = get_nexus_objects
  BY <1>2 DEF Tool_!get_nexus_objects, get_nexus_objects, Tool_!fetch_objects_from_url,
              fetch_objects_from_url
<1>5. \A coin : Tool_!get_nexus_client(coin) = get_nexus_client(coin)
  BY <1>2, <1>3, <1>4
     DEF Tool_!get_nexus_client, Tool_!ClientWith, Tool_!fetch_coin, Tool_!fetch_coin_with_balance,
         Tool_!fetch_coin_with_balance_excluding, Tool_!build_sui_grpc_client,
         Tool_!get_signing_key,
         get_nexus_client, ClientWith, fetch_coin, fetch_coin_with_balance,
         fetch_coin_with_balance_excluding, build_sui_grpc_client, get_signing_key
<1>6. QED BY <1>2, <1>4, <1>5

(* The programs of the commands about tools that are registered do no harm. *)
LEMMA ToolProgramsLead ==
    ASSUME NEW c, c.free \subseteq Facts, c.pays = {}, NEW gas, gas \in {c.gas, NoCoin}, NEW options
    PROVE  /\ Leads(c, Tool_!unregister_tool(gas, options), FreshOf(c), {})
           /\ Leads(c, Tool_!claim_collateral(gas, options), FreshOf(c), {})
           /\ Leads(c, Tool_!configure_verifier(gas, options, <<>>), FreshOf(c), {})
           /\ Leads(c, Tool_!configure_verifier(gas, options, Tool_!Query("verifier")), FreshOf(c), {})
           /\ Leads(c, Tool_!update_tool_timeout(gas, options), FreshOf(c), {})
           /\ Leads(c, Tool_!list_tools, FreshOf(c), {})
           /\ Leads(c, Tool_!inspect_tool, FreshOf(c), {})
           /\ Leads(c, Tool_!keygen(options), FreshOf(c), {})
           /\ Leads(c, Tool_!register_key(gas, options), FreshOf(c), {})
           /\ Leads(c, Tool_!list_keys, FreshOf(c), {})
           /\ Leads(c, Tool_!export_allowed_leaders(options), FreshOf(c), {})
<1>1. /\ Leads(c, get_nexus_client(gas), FreshOf(c), PaidOf(c))
      /\ Leads(c, get_nexus_client(NoCoin), FreshOf(c), PaidOf(c))
  BY OrdinaryClient
<1>2. "payment" \notin {"gas"}
  OBVIOUS
<1>3. /\ Leads(c, Tool_!resolve_owner_cap(options), FreshOf(c), FreshOf(c))
      /\ Leads(c, Tool_!resolve_owner_cap(options), PaidOf(c), PaidOf(c))
  BY LookupsKnown, ToolSteps DEF Tool_!resolve_owner_cap, Tool_!If
<1>4. Leads(c, Tool_!unregister_tool(gas, options), FreshOf(c), {})
  <2>1. Leads(c, Tool_!If({"yes", "json"} \cap options = {}, Tool_!Confirm), FreshOf(c), FreshOf(c))
    BY LookupsKnown, Chains, ToolSteps DEF Tool_!If, Tool_!Confirm
  <2>2. QED BY <1>1, <1>2, <1>3, <2>1, LookupsKnown, EffectsKnown, Chains, ToolSteps
       DEF Tool_!unregister_tool
<1>5. /\ Leads(c, Tool_!claim_collateral(gas, options), FreshOf(c), {})
      /\ Leads(c, Tool_!update_tool_timeout(gas, options), FreshOf(c), {})
  BY <1>1, <1>2, <1>3, LookupsKnown, EffectsKnown, Chains, ToolSteps
     DEF Tool_!claim_collateral, Tool_!update_tool_timeout
<1>6. ASSUME NEW preflight, Leads(c, preflight, PaidOf(c), PaidOf(c))
      PROVE  Leads(c, Tool_!configure_verifier(gas, options, preflight), FreshOf(c), {})
  BY <1>1, <1>2, <1>3, <1>6, EffectsKnown, Chains, ToolSteps DEF Tool_!configure_verifier
<1>7. /\ Leads(c, Tool_!configure_verifier(gas, options, <<>>), FreshOf(c), {})
      /\ Leads(c, Tool_!configure_verifier(gas, options, Tool_!Query("verifier")), FreshOf(c), {})
  BY <1>6, LookupsKnown, ToolSteps
<1>8. /\ Leads(c, Tool_!list_tools, FreshOf(c), {})
      /\ Leads(c, Tool_!inspect_tool, FreshOf(c), {})
      /\ Leads(c, Tool_!list_keys, FreshOf(c), {})
  BY <1>1, LookupsKnown, EffectsKnown, Chains, ToolSteps
     DEF Tool_!list_tools, Tool_!inspect_tool, Tool_!list_keys, Tool_!ReadingClient
<1>9. Leads(c, Tool_!keygen(options), FreshOf(c), {})
  <2>1. Leads(c, Tool_!If("out" \in options, Tool_!Write), FreshOf(c), WrittenOf(c))
    BY LookupsKnown, EffectsKnown, ToolSteps DEF Tool_!If
  <2>2. QED BY <2>1, EffectsKnown, Chains, ToolSteps DEF Tool_!keygen
<1>10. Leads(c, Tool_!register_key(gas, options), FreshOf(c), {})
  <2>1. Leads(c, Tool_!If("skip_if_active" \in options, Tool_!Query("keys")), PaidOf(c), PaidOf(c))
    BY LookupsKnown, ToolSteps DEF Tool_!If
  <2>2. Leads(c, Tool_!If(~({"skip_if_active", "active"} \subseteq options), Tool_!Transact({"gas"})),
              PaidOf(c), ActedOf(c))
    BY <1>2, LookupsKnown, EffectsKnown, ToolSteps DEF Tool_!If
  <2>3. QED BY <1>1, <1>3, <2>1, <2>2, LookupsKnown, EffectsKnown, Chains, ToolSteps
       DEF Tool_!register_key
<1>11. Leads(c, Tool_!export_allowed_leaders(options), FreshOf(c), {})
  <2>1. Leads(c, Tool_!If("all" \notin options, Tool_!Check("leaders")), PaidOf(c), PaidOf(c))
    BY LookupsKnown, ToolSteps DEF Tool_!If
  <2>2. QED BY <1>1, <2>1, LookupsKnown, EffectsKnown, Chains, ToolSteps
       DEF Tool_!export_allowed_leaders, Tool_!ReadingClient
<1>12. QED BY <1>4, <1>5, <1>7, <1>8, <1>9, <1>10, <1>11

(* So do those that register tools, write them, check them and keep the list of
   their leaders. *)
LEMMA RegistrationsLead ==
    ASSUME NEW c, c.free \subseteq Facts, c.pays = {}, NEW gas, gas \in {c.gas, NoCoin}, NEW options
    PROVE  /\ "clean" \notin c.free => Leads(c, Tool_!create_new_tool, FreshOf(c), {})
           /\ Leads(c, Tool_!validate_off_chain_tool, FreshOf(c), {})
           /\ Leads(c, Tool_!validate_on_chain_tool, FreshOf(c), {})
           /\ "clean" \in c.free => Leads(c, Tool_!register_off_chain_tool(gas, options), FreshOf(c), {})
           /\ Leads(c, Tool_!register_onchain_tool(gas, options), FreshOf(c), {})
           /\ "silent" \in c.free /\ "clean" \notin c.free =>
                 Leads(c, Tool_!sync_allowed_leaders(options), FreshOf(c), {})
<1>1. /\ Leads(c, get_nexus_client(gas), FreshOf(c), PaidOf(c))
      /\ Leads(c, get_nexus_client(NoCoin), FreshOf(c), PaidOf(c))
  BY OrdinaryClient
<1>2. "payment" \notin {"gas"} /\ "payment" \notin {"gas", "new_tool"}
  OBVIOUS
<1>3. /\ \A p : /\ Plainly(c, PaidOf(c), p) => /\ Within(c, PaidOf(c), Maybe(p))
                                               /\ Within(c, PaidOf(c), Repeat(p))
                /\ Within(c, PaidOf(c), p) => /\ Leads(c, Maybe(p), PaidOf(c), PaidOf(c))
                                              /\ Leads(c, Repeat(p), PaidOf(c), PaidOf(c))
                /\ "clean" \in c.free =>
                     /\ Plainly(c, PaidOf(c), p) => Within(c, PaidOf(c), TryTransact({"gas"}, p))
                     /\ Within(c, PaidOf(c), p) =>
                           Leads(c, TryTransact({"gas"}, p), PaidOf(c), PaidOf(c))
      /\ \A w : /\ Plainly(c, PaidOf(c), Query(w)) /\ Plainly(c, PaidOf(c), Expect(w))
                /\ Plainly(c, PaidOf(c), Check(w))
      /\ Plainly(c, PaidOf(c), Prompt)
  <2>1. /\ PaidOf(c) \in SUBSET Facts /\ {"clean", "unstored"} \subseteq PaidOf(c)
        /\ "silent" \in PaidOf(c)
        /\ "clean" \in c.free => PaidOf(c) \cap {"clean"} \subseteq c.free
    BY DEF PaidOf, Facts
  <2>2. QED BY <2>1, NestsLead, LookupsLead
<1>4. /\ \A p : Plainly(c, WrittenOf(c), p) => Within(c, WrittenOf(c), p)
      /\ \A p : Within(c, WrittenOf(c), p) => /\ Leads(c, Maybe(p), WrittenOf(c), WrittenOf(c))
                                              /\ Leads(c, Repeat(p), WrittenOf(c), WrittenOf(c))
  <2>1. WrittenOf(c) \in SUBSET Facts /\ "silent" \in WrittenOf(c)
    BY DEF WrittenOf, Facts
  <2>2. QED BY <2>1, NestsLead, WithinConcat
<1>5. "clean" \notin c.free =>
          /\ Leads(c, Maybe(Write), WrittenOf(c), WrittenOf(c))
          /\ Leads(c, Repeat(Write), WrittenOf(c), WrittenOf(c))
          /\ Leads(c, Repeat(Attempt("written")), WrittenOf(c), WrittenOf(c))
  <2>1. "clean" \notin c.free => WrittenOf(c) \in SUBSET Facts /\ "clean" \notin WrittenOf(c)
    BY DEF WrittenOf, Facts
  <2>2. "silent" \in WrittenOf(c) /\ c.free \subseteq WrittenOf(c)
    BY DEF WrittenOf
  <2>3. "clean" \notin c.free => /\ Plainly(c, WrittenOf(c), Write)
                                 /\ Plainly(c, WrittenOf(c), Attempt("written"))
    BY <2>1, <2>2, EffectsLead
  <2>4. QED BY <1>4, <2>3
<1>6. "clean" \notin c.free => Leads(c, Tool_!create_new_tool, FreshOf(c), {})
  BY <1>5, LookupsKnown, EffectsKnown, Chains, ToolSteps
     DEF Tool_!create_new_tool, Tool_!ToolTemplate
<1>7. /\ Leads(c, Tool_!validate_off_chain_tool, FreshOf(c), {})
      /\ Leads(c, Tool_!validate_on_chain_tool, FreshOf(c), {})
  <2>1. /\ Leads(c, Tool_!validate_off_chain_tool, FreshOf(c), FreshOf(c))
        /\ Leads(c, Tool_!validate_on_chain_tool, FreshOf(c), FreshOf(c))
    BY LookupsKnown, Chains, ToolSteps
       DEF Tool_!validate_off_chain_tool, Tool_!build_tool_http_client,
           Tool_!validate_off_chain_tool_with_client, Tool_!parse_tool_meta_json,
           Tool_!output_schema_has_top_level_one_of, Tool_!validate_on_chain_tool
  <2>2. QED BY <2>1, LeadsWeaker
<1>8. ASSUME "clean" \in c.free PROVE Leads(c, Tool_!register_off_chain_tool(gas, options), FreshOf(c), {})
  <2>1. Within(c, PaidOf(c), Tool_!register_one_tool)
    <3>1. Plainly(c, PaidOf(c), Expect("both_caps") \o Query("tool") \o Expect("tool_ref"))
      BY <1>3, WithinConcat
    <3>2. Within(c, PaidOf(c), TryTransact({"gas"}, Expect("both_caps") \o Query("tool") \o Expect("tool_ref")))
      BY <1>3, <1>8, <3>1
    <3>3. Within(c, PaidOf(c), Check("US"))
      BY <1>3, WithinConcat
    <3>4. QED BY <3>2, <3>3, WithinConcat, ToolSteps
         DEF Tool_!register_one_tool, Tool_!fetch_coin_by_type
  <2>2. Leads(c, Tool_!register_one_tool, PaidOf(c), PaidOf(c))
    <3>1. Within(c, PaidOf(c), Expect("both_caps") \o Query("tool") \o Expect("tool_ref"))
      BY <1>3, WithinConcat
    <3>2. Leads(c, TryTransact({"gas"}, Expect("both_caps") \o Query("tool") \o Expect("tool_ref")), PaidOf(c), PaidOf(c))
      BY <1>3, <1>8, <3>1
    <3>3. QED BY <3>2, LookupsKnown, Chains, ToolSteps
         DEF Tool_!register_one_tool, Tool_!fetch_coin_by_type
  <2>3. PICK validated : validated = Tool_!validate_off_chain_tool_with_client \o Tool_!register_one_tool
    OBVIOUS
  <2>4. Plainly(c, PaidOf(c), Tool_!validate_off_chain_tool_with_client)
    BY <1>3, WithinConcat, ToolSteps
       DEF Tool_!validate_off_chain_tool_with_client, Tool_!parse_tool_meta_json,
           Tool_!output_schema_has_top_level_one_of
  <2>5. Leads(c, Repeat(validated), PaidOf(c), PaidOf(c))
    <3>1. Within(c, PaidOf(c), validated)
      BY <2>1, <2>3, <2>4, WithinConcat
    <3>2. QED BY <1>3, <3>1
  <2>6. Leads(c, validated, PaidOf(c), PaidOf(c))
    <3>1. Leads(c, Tool_!validate_off_chain_tool_with_client, PaidOf(c), PaidOf(c))
      BY LookupsKnown, Chains, ToolSteps
         DEF Tool_!validate_off_chain_tool_with_client, Tool_!parse_tool_meta_json,
             Tool_!output_schema_has_top_level_one_of
    <3>2. QED BY <2>2, <2>3, <3>1, Chains
  <2>7. Leads(c, IF "from_meta" \in options THEN Tool_!load_meta_from_source \o Tool_!register_one_tool
                 ELSE Tool_!build_tool_http_client
                      \o IF "batch" \in options THEN Tool_!Query("tools") \o Tool_!Repeat(validated)
                         ELSE validated, PaidOf(c), PaidOf(c))
    <3>1. Leads(c, Tool_!load_meta_from_source \o Tool_!register_one_tool, PaidOf(c), PaidOf(c))
      BY <2>2, LookupsKnown, Chains, ToolSteps
         DEF Tool_!load_meta_from_source, Tool_!parse_tool_meta_json,
             Tool_!output_schema_has_top_level_one_of
    <3>2. Leads(c, Tool_!Query("tools") \o Tool_!Repeat(validated), PaidOf(c), PaidOf(c))
      BY <2>5, LookupsKnown, Chains, ToolSteps
    <3>3. Leads(c, IF "batch" \in options THEN Tool_!Query("tools") \o Tool_!Repeat(validated)
                   ELSE validated, PaidOf(c), PaidOf(c))
      BY <2>6, <3>2
    <3>4. Leads(c, Tool_!build_tool_http_client, PaidOf(c), PaidOf(c))
      BY LookupsKnown, ToolSteps DEF Tool_!build_tool_http_client
    <3>5. QED BY <3>1, <3>3, <3>4, Chains
  <2>8. Leads(c, Tool_!If("no_save" \notin options, Tool_!SaveIfExecuted), PaidOf(c), PaidOf(c))
    BY <1>8, LookupsKnown, EffectsKnown, ToolSteps DEF Tool_!If
  <2>9. QED BY <1>1, <2>3, <2>7, <2>8, LookupsKnown, EffectsKnown, Chains, ToolSteps
       DEF Tool_!register_off_chain_tool, Tool_!build_sui_grpc_client, Tool_!get_signing_key
<1>9. Leads(c, Tool_!register_onchain_tool(gas, options), FreshOf(c), {})
  <2>1. Leads(c, Tool_!customize_parameter_descriptions(options), PaidOf(c), PaidOf(c))
    <3>1. Plainly(c, PaidOf(c), Tool_!customize_parameter)
      BY <1>3, WithinConcat, ToolSteps DEF Tool_!customize_parameter
    <3>2. /\ Within(c, PaidOf(c), Tool_!customize_parameter)
          /\ Within(c, PaidOf(c), Repeat(Tool_!customize_parameter))
      BY <1>3, <3>1, WithinConcat
    <3>3. Within(c, PaidOf(c), Tool_!customize_parameter \o Tool_!Repeat(Tool_!customize_parameter)
                               \o Tool_!build_final_schema)
      <4>1. Within(c, PaidOf(c), Tool_!build_final_schema)
        BY <1>3, WithinConcat, ToolSteps DEF Tool_!build_final_schema
      <4>2. QED BY <3>2, <4>1, WithinConcat, ToolSteps
    <3>4. Leads(c, Tool_!Maybe(Tool_!customize_parameter \o Tool_!Repeat(Tool_!customize_parameter)
                               \o Tool_!build_final_schema), PaidOf(c), PaidOf(c))
      BY <1>3, <3>3, ToolSteps
    <3>5. QED BY <3>4, LookupsKnown, Chains, ToolSteps
         DEF Tool_!customize_parameter_descriptions, Tool_!If
  <2>2. Leads(c, Tool_!customize_output_variant_and_field_descriptions(options), PaidOf(c), PaidOf(c))
    <3>1. Within(c, PaidOf(c), Tool_!customize_output_variant)
      <4>1. /\ Within(c, PaidOf(c), Prompt)
            /\ Within(c, PaidOf(c), Repeat(Prompt))
        BY <1>3, WithinConcat
      <4>2. QED BY <4>1, WithinConcat, ToolSteps
           DEF Tool_!customize_output_variant, Tool_!customize_output_field
    <3>2. Leads(c, Tool_!Repeat(Tool_!customize_output_variant), PaidOf(c), PaidOf(c))
      BY <1>3, <3>1, ToolSteps
    <3>3. QED BY <3>2, LookupsKnown, Chains, ToolSteps
         DEF Tool_!customize_output_variant_and_field_descriptions, Tool_!If
  <2>3. Leads(c, Tool_!generate_and_customize_schemas(options), PaidOf(c), PaidOf(c))
    BY <2>1, <2>2, LookupsKnown, Chains, ToolSteps DEF Tool_!generate_and_customize_schemas
  <2>4. Leads(c, Tool_!If("no_save" \notin options, Tool_!save_tool_owner_caps), ActedOf(c), ActedOf(c))
    BY LookupsKnown, EffectsKnown, ToolSteps DEF Tool_!If, Tool_!save_tool_owner_caps
  <2>5. QED BY <1>1, <1>2, <2>3, <2>4, LookupsKnown, EffectsKnown, Chains, ToolSteps
       DEF Tool_!register_onchain_tool, Tool_!build_sui_grpc_client, Tool_!fetch_coin_by_type,
           Tool_!extract_owner_caps
<1>10. ASSUME "silent" \in c.free, "clean" \notin c.free
       PROVE  Leads(c, Tool_!sync_allowed_leaders(options), FreshOf(c), {})
  <2>1. Leads(c, Maybe(Write), FreshOf(c), WrittenOf(c)) /\ Leads(c, Repeat(Attempt("written")), FreshOf(c), WrittenOf(c))
    BY <1>5, <1>10, LeadsWeaker, StatesOrdered
  <2>2. Leads(c, Tool_!sync_once \o Tool_!Report, FreshOf(c), {})
    BY <2>1, LookupsKnown, EffectsKnown, Chains, ToolSteps DEF Tool_!sync_once
  <2>3. Leads(c, Tool_!Report \o Tool_!run_best_effort, FreshOf(c), {})
    <3>1. Leads(c, Tool_!run_best_effort, FreshOf(c), {})
      BY <2>1, LeadsWeaker, ToolSteps DEF Tool_!run_best_effort
    <3>2. QED BY <1>10, <3>1, EffectsKnown, Chains, ToolSteps
  <2>4. Leads(c, IF "once" \in options THEN Tool_!sync_once \o Tool_!Report
                 ELSE Tool_!Report \o Tool_!run_best_effort, FreshOf(c), {})
    BY <2>2, <2>3
  <2>5. QED BY <2>4, LookupsKnown, ObjectsKnown, Chains, ToolSteps
       DEF Tool_!sync_allowed_leaders, Tool_!build_sui_grpc_client
<1>11. QED BY <1>6, <1>7, <1>8, <1>9, <1>10

--------------------------------------------------------------------------------
(* The steps of the commands about DAGs, tasks, tickets and the configuration
   are those of all commands. *)
LEMMA WorkSteps ==
    /\ \A w : /\ Work!Check(w) = Check(w) /\ Work!Query(w) = Query(w)
              /\ Work!Transact(w) = Transact(w) /\ Work!Maybe(w) = Maybe(w)
              /\ Work!Repeat(w) = Repeat(w) /\ Work!Find(w) = Find(w)
    /\ \A role, coin, apart : Work!Choose(role, coin, apart) = Choose(role, coin, apart)
    /\ Work!Never = Never /\ Work!Store = Store /\ Work!Save = Save /\ Work!Report = Report
    /\ Work!CoinApart = CoinApart /\ Work!get_nexus_objects = get_nexus_objects
    /\ \A coin : Work!get_nexus_client(coin) = get_nexus_client(coin)
<1>1. \A kind, w : Work!StepOf(kind, w) = StepOf(kind, w)
  BY DEF Work!StepOf, StepOf
<1>2. /\ \A w : /\ Work!Check(w) = Check(w) /\ Work!Query(w) = Query(w)
                /\ Work!Transact(w) = Transact(w) /\ Work!Maybe(w) = Maybe(w)
                /\ Work!Repeat(w) = Repeat(w) /\ Work!Find(w) = Find(w)
      /\ Work!Never = Never /\ Work!Store = Store /\ Work!Save = Save /\ Work!Report = Report
      /\ Work!CoinApart = CoinApart /\ Work!Cache = Cache
  BY <1>1 DEF Work!Check, Work!Query, Work!Transact, Work!Maybe, Work!Repeat, Work!Find,
     Work!Never,
              Work!Store, Work!Save, Work!Report, Work!CoinApart, Work!Cache,
              Check, Query, Transact, Maybe, Repeat, Find, Never, Store, Save, Report, CoinApart,
              Cache
<1>3. \A role, coin, apart : Work!Choose(role, coin, apart) = Choose(role, coin, apart)
  BY DEF Work!Choose, Choose
<1>4. Work!get_nexus_objects = get_nexus_objects
  BY <1>2 DEF Work!get_nexus_objects, get_nexus_objects, Work!fetch_objects_from_url,
              fetch_objects_from_url
<1>5. \A coin : Work!get_nexus_client(coin) = get_nexus_client(coin)
  BY <1>2, <1>3, <1>4
     DEF Work!get_nexus_client, Work!ClientWith, Work!fetch_coin, Work!fetch_coin_with_balance,
         Work!fetch_coin_with_balance_excluding, Work!build_sui_grpc_client, Work!get_signing_key,
         get_nexus_client, ClientWith, fetch_coin, fetch_coin_with_balance,
         fetch_coin_with_balance_excluding, build_sui_grpc_client, get_signing_key
<1>6. QED BY <1>2, <1>3, <1>4, <1>5

(* An execution is inspected event by event. *)
LEMMA InspectionLeads ==
    ASSUME NEW c, c.free \subseteq Facts
    PROVE  Leads(c, Work!inspect_dag_execution, FreshOf(c), {})
<1>1. FreshOf(c) \in SUBSET Facts /\ "silent" \in FreshOf(c)
  BY DEF FreshOf, Facts
<1>2. Leads(c, Repeat(Query("event") \o Maybe(Query("data"))), FreshOf(c), FreshOf(c))
  <2>1. Within(c, FreshOf(c), Query("event")) /\ Within(c, FreshOf(c), Maybe(Query("data")))
    BY <1>1, LookupsLead, NestsLead, WithinConcat
  <2>2. Within(c, FreshOf(c), Query("event") \o Maybe(Query("data")))
    BY <2>1, WithinConcat
  <2>3. QED BY <1>1, <2>2, NestsLead
<1>3. Leads(c, get_nexus_client(NoCoin), FreshOf(c), FreshOf(c))
  BY ClientKnown
<1>4. QED BY <1>2, <1>3, LookupsKnown, EffectsKnown, Chains, WorkSteps
     DEF Work!inspect_dag_execution, Work!ReadingClient, Work!await_poller_outcome

(* The programs of these commands do no harm. *)
LEMMA WorkProgramsLead ==
    ASSUME NEW c, c.free \subseteq Facts, c.pays = {}, NEW gas, gas \in {c.gas, NoCoin}, NEW options
    PROVE  /\ Leads(c, Work!validate_dag, FreshOf(c), {})
           /\ Leads(c, Work!publish_dag(gas), FreshOf(c), {})
           /\ Leads(c, Work!execution_cost, FreshOf(c), {})
           /\ Leads(c, Work!abort_expired_execution(gas), FreshOf(c), {})
           /\ "unstored" \in c.free => Leads(c, Work!create_task(gas, options), FreshOf(c), {})
           /\ Leads(c, Work!inspect_task, FreshOf(c), {})
           /\ Leads(c, Work!update_task_metadata(gas), FreshOf(c), {})
           /\ Leads(c, Work!set_task_state(gas), FreshOf(c), {})
           /\ Leads(c, Work!add_occurrence_to_task(gas), FreshOf(c), {})
           /\ Leads(c, Work!set_periodic_task(gas), FreshOf(c), {})
           /\ Leads(c, Work!disable_periodic_task(gas), FreshOf(c), {})
           /\ Leads(c, Work!enable_expiry_extension(gas, options), FreshOf(c), {})
           /\ Leads(c, Work!configure_priority_fee_vault(gas), FreshOf(c), {})
           /\ Leads(c, Work!swap_us_for_sui(gas), FreshOf(c), {})
           /\ Leads(c, Work!drain_priority_fee_vault_sui(gas), FreshOf(c), {})
           /\ Leads(c, Work!withdraw_priority_fee(gas, options), FreshOf(c), {})
           /\ "silent" \in c.free => Leads(c, Work!set_nexus_conf(options), FreshOf(c), {})
           /\ Leads(c, Work!get_nexus_conf, FreshOf(c), {})
<1>1. /\ Leads(c, get_nexus_client(gas), FreshOf(c), PaidOf(c))
      /\ Leads(c, get_nexus_client(NoCoin), FreshOf(c), PaidOf(c))
  BY OrdinaryClient
<1>2. "payment" \notin {"gas"}
  OBVIOUS
<1>3. Leads(c, Work!validate_dag, FreshOf(c), FreshOf(c))
  BY LookupsKnown, Chains, WorkSteps DEF Work!validate_dag
<1>4. /\ Leads(c, Work!validate_dag, FreshOf(c), {})
      /\ Leads(c, Work!publish_dag(gas), FreshOf(c), {})
      /\ Leads(c, Work!abort_expired_execution(gas), FreshOf(c), {})
  <2>1. Leads(c, Work!validate_dag, FreshOf(c), {})
    BY <1>3, LeadsWeaker
  <2>2. QED BY <1>1, <1>2, <1>3, <2>1, EffectsKnown, Chains, WorkSteps
       DEF Work!publish_dag, Work!abort_expired_execution
<1>5. /\ Leads(c, Work!execution_cost, FreshOf(c), {})
      /\ Leads(c, Work!inspect_task, FreshOf(c), {})
  BY <1>1, LookupsKnown, EffectsKnown, Chains, WorkSteps
     DEF Work!execution_cost, Work!inspect_task, Work!ReadingClient
<1>6. ASSUME "unstored" \in c.free PROVE Leads(c, Work!create_task(gas, options), FreshOf(c), {})
  <2>1. Leads(c, Work!If("schedule" \in options,
                         Work!OccurrenceRequest \o Work!If("periodic" \in options, Work!Never)),
              PaidOf(c), PaidOf(c))
    BY LookupsKnown, Chains, WorkSteps DEF Work!OccurrenceRequest, Work!If
  <2>2. Leads(c, Work!If("schedule" \in options, Work!Transact({"gas"})), ActedOf(c), ActedOf(c))
    BY <1>2, LookupsKnown, EffectsKnown, WorkSteps DEF Work!If
  <2>3. QED BY <1>1, <1>2, <1>6, <2>1, <2>2, LookupsKnown, EffectsKnown, Chains, WorkSteps
       DEF Work!create_task, Work!parse_metadata, Work!EntryPorts
<1>7. /\ Leads(c, Work!update_task_metadata(gas), FreshOf(c), {})
      /\ Leads(c, Work!set_task_state(gas), FreshOf(c), {})
      /\ Leads(c, Work!add_occurrence_to_task(gas), FreshOf(c), {})
      /\ Leads(c, Work!set_periodic_task(gas), FreshOf(c), {})
      /\ Leads(c, Work!disable_periodic_task(gas), FreshOf(c), {})
  BY <1>1, <1>2, LookupsKnown, EffectsKnown, Chains, WorkSteps
     DEF Work!update_task_metadata, Work!set_task_state, Work!add_occurrence_to_task,
         Work!set_periodic_task, Work!disable_periodic_task, Work!parse_metadata,
         Work!OccurrenceRequest
<1>8. Leads(c, Work!enable_expiry_extension(gas, options), FreshOf(c), {})
  <2>1. Leads(c, Work!If("owner_cap" \notin options, Work!Check("cap")), PaidOf(c), PaidOf(c))
    BY LookupsKnown, WorkSteps DEF Work!If
  <2>2. QED BY <1>1, <1>2, <2>1, EffectsKnown, Chains, WorkSteps DEF Work!enable_expiry_extension
<1>9. /\ Leads(c, Work!configure_priority_fee_vault(gas), FreshOf(c), {})
      /\ Leads(c, Work!swap_us_for_sui(gas), FreshOf(c), {})
      /\ Leads(c, Work!drain_priority_fee_vault_sui(gas), FreshOf(c), {})
      /\ Leads(c, Work!withdraw_priority_fee(gas, options), FreshOf(c), {})
  <2>1. Leads(c, Work!If("share" \notin options, Work!Query("share")), PaidOf(c), PaidOf(c))
    BY LookupsKnown, WorkSteps DEF Work!If
  <2>2. QED BY <1>1, <1>2, <2>1, LookupsKnown, EffectsKnown, Chains, WorkSteps
       DEF Work!configure_priority_fee_vault, Work!swap_us_for_sui,
           Work!drain_priority_fee_vault_sui, Work!withdraw_priority_fee
<1>10. /\ "silent" \in c.free => Leads(c, Work!set_nexus_conf(options), FreshOf(c), {})
       /\ Leads(c, Work!get_nexus_conf, FreshOf(c), {})
  <2>1. Leads(c, Work!If("objects" \in options,
                         Work!Query("objects_file") \o Work!Check("objects_file")),
              FreshOf(c), FreshOf(c))
    BY LookupsKnown, Chains, WorkSteps DEF Work!If
  <2>2. QED BY <2>1, LookupsKnown, EffectsKnown, Chains, WorkSteps
       DEF Work!set_nexus_conf, Work!get_nexus_conf
<1>11. QED BY <1>4, <1>5, <1>6, <1>7, <1>8, <1>9, <1>10

(* The roles of the coins that a program chooses. *)
LEMMA RolesConcat ==
    ASSUME NEW c, NEW p, NEW q, NEW a, NEW b, NEW d, NEW e, Leads(c, p, a, b), Leads(c, q, d, e),
           "payment" \in Roles(p) \/ "payment" \in Roles(q)
    PROVE  "payment" \in Roles(p \o q)
<1>1. PICK r, m, n : r = p \o q /\ m = Len(p) /\ n = Len(q)
  OBVIOUS
<1>2. /\ m \in Nat /\ n \in Nat /\ DOMAIN p = 1..m /\ DOMAIN q = 1..n /\ DOMAIN r = 1..(m + n)
      /\ \A i \in 1..m : r[i] = p[i]
      /\ \A i \in 1..n : r[m + i] = q[i]
  BY <1>1, ProgramConcat DEF Leads
<1>3. CASE "payment" \in Roles(p)
  <2>1. PICK i \in 1..m : p[i].kind = "choose" /\ p[i].what = "payment"
    BY <1>2, <1>3 DEF Roles
  <2>2. i \in 1..(m + n) /\ r[i].kind = "choose" /\ r[i].what = "payment"
    BY <1>2, <2>1
  <2>3. QED BY <1>1, <1>2, <2>2 DEF Roles
<1>4. CASE "payment" \in Roles(q)
  <2>1. PICK i \in 1..n : q[i].kind = "choose" /\ q[i].what = "payment"
    BY <1>2, <1>4 DEF Roles
  <2>2. m + i \in 1..(m + n) /\ r[m + i].kind = "choose" /\ r[m + i].what = "payment"
    BY <1>2, <2>1
  <2>3. QED BY <1>1, <1>2, <2>2 DEF Roles
<1>5. QED BY <1>3, <1>4

(* A ticket is bought with one coin, and the gas is paid with another. *)
LEMMA TicketLeads ==
    ASSUME NEW c, c.free \subseteq Facts, NEW gas, gas \in {c.gas, NoCoin}, NEW coin, c.pays = {coin},
           gas # NoCoin \/ "gas" \in c.free
    PROVE  /\ Leads(c, Work!buy_expiry_gas_ticket(gas, coin), FreshOf(c), {})
           /\ "payment" \in Roles(Work!buy_expiry_gas_ticket(gas, coin))
<1>1. Leads(c, get_nexus_client(gas), FreshOf(c), PaidOf(c))
  BY ClientKnown
<1>2. /\ Leads(c, Choose("payment", coin, {}), PaidOf(c), BothOf(c))
      /\ "payment" \in Roles(Choose("payment", coin, {}))
  <2>1. /\ PaidOf(c) \in SUBSET Facts /\ {"clean", "unstored"} \subseteq PaidOf(c)
        /\ c.free \subseteq PaidOf(c) /\ PaidOf(c) \cup {"payment"} = BothOf(c)
    BY DEF PaidOf, BothOf, Facts
  <2>2. Leads(c, Choose("payment", coin, {}), PaidOf(c), PaidOf(c) \cup {"payment"})
    BY <2>1, ChoicesLead
  <2>3. "payment" \in Roles(Choose("payment", coin, {}))
    BY DEF Roles, Choose
  <2>4. QED BY <2>1, <2>2, <2>3
<1>3. Leads(c, Work!If(coin = gas, Work!Never), FreshOf(c), FreshOf(c))
  BY LookupsKnown, WorkSteps DEF Work!If
<1>4. PICK p : p = Work!If(coin = gas, Work!Never) \o Work!get_nexus_client(gas)
                   \o Choose("payment", coin, {})
  OBVIOUS
<1>5. Leads(c, p, FreshOf(c), BothOf(c)) /\ "payment" \in Roles(p)
  <2>1. Leads(c, Work!If(coin = gas, Work!Never) \o Work!get_nexus_client(gas), FreshOf(c), PaidOf(c))
    BY <1>1, <1>3, Chains, WorkSteps
  <2>2. QED BY <1>2, <1>4, <2>1, Chains, RolesConcat
<1>6. Leads(c, p \o Transact({"gas", "payment"}), FreshOf(c), ActedOf(c))
  BY <1>5, EffectsKnown, Chains
<1>7. "payment" \in Roles(p \o Transact({"gas", "payment"}))
  BY <1>5, EffectsKnown, RolesConcat
<1>8. /\ Leads(c, p \o Transact({"gas", "payment"}) \o Report, FreshOf(c), {})
      /\ "payment" \in Roles(p \o Transact({"gas", "payment"}) \o Report)
  BY <1>6, <1>7, EffectsKnown, Chains, RolesConcat
<1>9. QED BY <1>4, <1>8, WorkSteps DEF Work!buy_expiry_gas_ticket

(* An execution is paid for with one coin, and its gas with another. *)
LEMMA ExecuteLeads ==
    ASSUME NEW c, c.free \subseteq Facts, {"clean", "unstored"} \subseteq c.free,
           NEW gas, gas \in {c.gas, NoCoin}, NEW coin, c.pays = {coin}, NEW options
    PROVE  /\ Leads(c, Work!execute_dag(gas, coin, options), FreshOf(c), {})
           /\ "payment" \in Roles(Work!execute_dag(gas, coin, options))
<1>1. Leads(c, Choose("gas", gas, {coin}), FreshOf(c), PaidOf(c))
  <2>1. /\ FreshOf(c) \in SUBSET Facts /\ {"clean", "unstored"} \subseteq FreshOf(c)
        /\ c.free \subseteq FreshOf(c) /\ FreshOf(c) \cup {"gas"} = PaidOf(c)
    BY DEF FreshOf, PaidOf, Facts
  <2>2. Leads(c, Choose("gas", gas, {coin}), FreshOf(c), FreshOf(c) \cup {"gas"})
    BY <2>1, ChoicesLead
  <2>3. QED BY <2>1, <2>2
<1>2. /\ Leads(c, Choose("payment", coin, {}), PaidOf(c), BothOf(c))
      /\ "payment" \in Roles(Choose("payment", coin, {}))
  <2>1. /\ PaidOf(c) \in SUBSET Facts /\ {"clean", "unstored"} \subseteq PaidOf(c)
        /\ c.free \subseteq PaidOf(c) /\ PaidOf(c) \cup {"payment"} = BothOf(c)
    BY DEF PaidOf, BothOf, Facts
  <2>2. Leads(c, Choose("payment", coin, {}), PaidOf(c), PaidOf(c) \cup {"payment"})
    BY <2>1, ChoicesLead
  <2>3. "payment" \in Roles(Choose("payment", coin, {}))
    BY DEF Roles, Choose
  <2>4. QED BY <2>1, <2>2, <2>3
<1>3. PICK head : head = Check("key") \o Work!If(coin = NoCoin, Never)
                     \o Work!If(gas # NoCoin /\ gas = coin, Never) \o Check("url")
                     \o Choose("gas", gas, {coin}) \o CoinApart
  OBVIOUS
<1>4. Leads(c, head, FreshOf(c), PaidOf(c))
  <2>1. /\ Leads(c, Work!If(coin = NoCoin, Never), FreshOf(c), FreshOf(c))
        /\ Leads(c, Work!If(gas # NoCoin /\ gas = coin, Never), FreshOf(c), FreshOf(c))
    BY LookupsKnown DEF Work!If
  <2>2. Leads(c, CoinApart, PaidOf(c), PaidOf(c))
    BY LookupsKnown
  <2>3. QED BY <1>1, <1>3, <2>1, <2>2, LookupsKnown, Chains
<1>5. PICK client : client = Work!ClientWith(Work!Find("gas"))
  OBVIOUS
<1>6. Leads(c, client, BothOf(c), BothOf(c))
  BY <1>5, LookupsKnown, ObjectsKnown, Chains, WorkSteps
     DEF Work!ClientWith, Work!build_sui_grpc_client, Work!get_signing_key
<1>7. PICK last : last = (IF "inspect" \in options THEN Work!inspect_dag_execution ELSE Report)
  OBVIOUS
<1>8. Leads(c, last, FreshOf(c), {})
  BY <1>7, InspectionLeads, EffectsKnown
<1>9. /\ Leads(c, head \o Choose("payment", coin, {}), FreshOf(c), BothOf(c))
      /\ "payment" \in Roles(head \o Choose("payment", coin, {}))
  BY <1>2, <1>4, Chains, RolesConcat
<1>10. ASSUME NEW p, NEW q, Leads(c, p, FreshOf(c), BothOf(c)), "payment" \in Roles(p),
              Leads(c, q, BothOf(c), BothOf(c))
       PROVE  Leads(c, p \o q, FreshOf(c), BothOf(c)) /\ "payment" \in Roles(p \o q)
  BY <1>10, Chains, RolesConcat
<1>11. PICK most : most = head \o Choose("payment", coin, {}) \o Check("budget") \o client
                     \o Check("input") \o Store
  OBVIOUS
<1>12. Leads(c, most, FreshOf(c), BothOf(c)) /\ "payment" \in Roles(most)
  <2>1. Leads(c, Store, BothOf(c), BothOf(c))
    BY EffectsKnown
  <2>2. QED BY <1>6, <1>9, <1>10, <1>11, <2>1, LookupsKnown
<1>13. /\ Leads(c, most \o Transact({"gas", "payment"}), FreshOf(c), FreshOf(c))
       /\ "payment" \in Roles(most \o Transact({"gas", "payment"}))
  <2>1. Leads(c, Transact({"gas", "payment"}), BothOf(c), FreshOf(c))
    BY EffectsKnown
  <2>2. QED BY <1>12, <2>1, Chains, RolesConcat
<1>14. /\ Leads(c, most \o Transact({"gas", "payment"}) \o last, FreshOf(c), {})
       /\ "payment" \in Roles(most \o Transact({"gas", "payment"}) \o last)
  BY <1>8, <1>13, Chains, RolesConcat
<1>15. Work!execute_dag(gas, coin, options) = most \o Transact({"gas", "payment"}) \o last
  BY <1>3, <1>5, <1>7, <1>11, WorkSteps
     DEF Work!execute_dag, Work!get_signing_key, Work!build_sui_grpc_client,
         Work!fetch_coin_with_balance_excluding, Work!fetch_coin_with_balance, Work!EntryPorts
<1>16. QED BY <1>14, <1>15

--------------------------------------------------------------------------------
(* What is not claimed of a command. *)
LEMMA AboutCommand ==
    ASSUME NEW group, NEW command, NEW gas, NEW coin, NEW c, c = About(<<group, command>>, gas, coin)
    PROVE  /\ c.gas = gas /\ c.free \subseteq Facts
           /\ <<group, command>> \notin Paying => c.pays = {}
           /\ <<group, command>> \in Paying => c.pays = {coin}
           /\ group \in {"register", "dag"} /\ <<group, command>> \in {<<"register", "off_chain">>, <<"dag", "execute">>} => "clean" \in c.free
           /\ <<group, command>> \notin {<<"register", "off_chain">>, <<"dag", "execute">>} => "clean" \notin c.free
           /\ <<group, command>> \in {<<"task", "create">>, <<"tap", "schedule_task">>, <<"dag", "execute">>} => "unstored" \in c.free
           /\ <<group, command>> \in {<<"conf", "set">>, <<"tap", "dry_run">>, <<"tap", "publish_skill">>,
                                      <<"auth", "sync_allowed_leaders">>} => "silent" \in c.free
           /\ command = "buy_ticket" => gas # NoCoin \/ "gas" \in c.free
  BY DEF About, Unclaimed, Facts

(* All programs do no harm, and those that pay with a coin choose it. *)
LEMMA TapFits ==
    ASSUME NEW group, NEW command, NEW gas, NEW coin, NEW options,
           NEW c, c = About(<<group, command>>, gas, coin),
           group \in {"tap", "scheduled_task", "agent", "vault", "registry", "default_agent",
                      "payments", "execution"},
           command \in DOMAIN Arguments[group]
    PROVE  Leads(c, Programs(group, gas, coin, options)[command], FreshOf(c), {})
<1>1. /\ c.free \subseteq Facts /\ c.pays = {} /\ gas \in {c.gas, NoCoin}
      /\ group = "tap" /\ command \in {"dry_run", "publish_skill"} => "silent" \in c.free
      /\ group = "tap" /\ command = "schedule_task" => "unstored" \in c.free
  <2>1. <<group, command>> \notin Paying
    BY DEF Paying
  <2>2. /\ group = "tap" /\ command \in {"dry_run", "publish_skill"} =>
              <<group, command>> \in {<<"conf", "set">>, <<"tap", "dry_run">>, <<"tap", "publish_skill">>,
                                      <<"auth", "sync_allowed_leaders">>}
        /\ group = "tap" /\ command = "schedule_task" =>
              <<group, command>> \in {<<"task", "create">>, <<"tap", "schedule_task">>, <<"dag", "execute">>}
    OBVIOUS
  <2>3. QED BY <2>1, <2>2, AboutCommand
<1>2. CASE group = "tap"
  <2>1. command \in {"scaffold", "validate_skill", "publish_skill", "create_skill_artifact",
                     "create_agent", "register_skill", "update_skill", "bind", "requirements",
                     "dry_run", "execute", "schedule_task"}
    BY <1>2 DEF Arguments, Tap!TapCommand
  <2>2. Programs(group, gas, coin, options) = Tap!handle(gas, options)
    BY <1>2 DEF Programs
  <2>3. /\ Tap!handle(gas, options)["scaffold"] = Tap!scaffold_tap_skill
        /\ Tap!handle(gas, options)["validate_skill"] = Tap!validate_skill
        /\ Tap!handle(gas, options)["publish_skill"] = Tap!publish_skill(gas, options)
        /\ Tap!handle(gas, options)["create_skill_artifact"] = Tap!create_skill_artifact
        /\ Tap!handle(gas, options)["create_agent"] = Tap!create_agent(gas)
        /\ Tap!handle(gas, options)["register_skill"] = Tap!register_skill(gas)
        /\ Tap!handle(gas, options)["update_skill"] = Tap!register_skill(gas)
        /\ Tap!handle(gas, options)["bind"] = Tap!bind_agent_skill(gas)
        /\ Tap!handle(gas, options)["requirements"] = Tap!fetch_requirements
        /\ Tap!handle(gas, options)["dry_run"] = Tap!dry_run_skill
        /\ Tap!handle(gas, options)["execute"] = Tap!execute_agent_dag_skill(gas)
        /\ Tap!handle(gas, options)["schedule_task"] = Tap!schedule_tap_task(gas, options)
    BY DEF Tap!handle, Tap!update_skill_from_artifact
  <2>4. QED BY <1>1, <1>2, <2>1, <2>2, <2>3, SkillProgramsLead, AgentProgramsLead
<1>3. CASE group = "scheduled_task"
  <2>1. command \in {"pause", "resume", "cancel"}
    BY <1>3 DEF Arguments, Tap!ScheduledTaskCommand
  <2>2. Programs(group, gas, coin, options) = Tap!handle_scheduled_task(gas, options)
    BY <1>3 DEF Programs
  <2>3. Tap!handle_scheduled_task(gas, options)[command] = Tap!set_agent_task_state(gas)
    BY <2>1 DEF Tap!handle_scheduled_task
  <2>4. QED BY <1>1, <2>2, <2>3, AgentProgramsLead
<1>4. CASE group = "agent"
  <2>1. command \in {"save", "list", "remove"}
    BY <1>4 DEF Arguments, Tap!AgentCommand
  <2>2. Programs(group, gas, coin, options) = Tap!handle_agent_command
    BY <1>4 DEF Programs
  <2>3. QED BY <1>1, <2>1, <2>2, AgentProgramsLead
<1>5. CASE group = "vault"
  <2>1. command \in {"balance", "deposit"}
    BY <1>5 DEF Arguments, Tap!VaultCommand
  <2>2. Programs(group, gas, coin, options) = Tap!handle_vault_command(gas, options)
    BY <1>5 DEF Programs
  <2>3. Tap!handle_vault_command(gas, options).deposit = Tap!deposit_agent_vault(gas, options)
    BY DEF Tap!handle_vault_command
  <2>4. QED BY <1>1, <2>1, <2>2, <2>3, AgentProgramsLead
<1>6. CASE group \in {"registry", "default_agent"}
  <2>1. command = "show"
    BY <1>6 DEF Arguments, Tap!RegistryCommand, Tap!DefaultAgentCommand
  <2>2. Programs(group, gas, coin, options)[command] \in {Tap!show_registry, Tap!show_default_agent}
    BY <1>6, <2>1 DEF Programs
  <2>3. QED BY <1>1, <2>2, AgentProgramsLead
<1>7. CASE group = "payments"
  <2>1. command \in {"show", "wait", "list", "resolve", "refill"}
    BY <1>7 DEF Arguments, Tap!PaymentsCommand
  <2>2. Programs(group, gas, coin, options) = Tap!handle_payments_command(gas, options)
    BY <1>7 DEF Programs
  <2>3. Tap!handle_payments_command(gas, options)[command] \in
            {Tap!show_payment, Tap!wait_payment, Tap!list_payments(options),
             Tap!resolve_payment(gas, options)}
    BY <2>1 DEF Tap!handle_payments_command, Tap!refill_payment
  <2>4. QED BY <1>1, <2>2, <2>3, AgentProgramsLead
<1>8. CASE group = "execution"
  <2>1. command \in {"resolve_expired_walk", "settle", "abort"}
    BY <1>8 DEF Arguments, Tap!ExecutionCommand
  <2>2. Programs(group, gas, coin, options) = Tap!handle_execution_command(gas, options)
    BY <1>8 DEF Programs
  <2>3. Tap!handle_execution_command(gas, options)[command] \in
            {Tap!resolve_expired_walk(gas, "settled" \in options),
             Tap!settle_committed_result(gas), Tap!abort_execution(gas)}
    BY <2>1 DEF Tap!handle_execution_command
  <2>4. QED BY <1>1, <2>2, <2>3, AgentProgramsLead
<1>9. QED BY <1>2, <1>3, <1>4, <1>5, <1>6, <1>7, <1>8

LEMMA ToolFits ==
    ASSUME NEW group, NEW command, NEW gas, NEW coin, NEW options,
           NEW c, c = About(<<group, command>>, gas, coin),
           group \in {"tool", "register", "validate", "configure_verifier", "auth"},
           command \in DOMAIN Arguments[group]
    PROVE  Leads(c, Programs(group, gas, coin, options)[command], FreshOf(c), {})
<1>1. /\ c.free \subseteq Facts /\ c.pays = {} /\ gas \in {c.gas, NoCoin}
      /\ group = "register" /\ command = "off_chain" => "clean" \in c.free
      /\ group # "register" => "clean" \notin c.free
      /\ group = "auth" /\ command = "sync_allowed_leaders" => "silent" \in c.free
  <2>1. <<group, command>> \notin Paying
    BY DEF Paying
  <2>2. /\ group = "register" /\ command = "off_chain" =>
              <<group, command>> \in {<<"register", "off_chain">>, <<"dag", "execute">>}
        /\ group # "register" =>
              <<group, command>> \notin {<<"register", "off_chain">>, <<"dag", "execute">>}
        /\ group = "auth" /\ command = "sync_allowed_leaders" =>
              <<group, command>> \in {<<"conf", "set">>, <<"tap", "dry_run">>, <<"tap", "publish_skill">>,
                                      <<"auth", "sync_allowed_leaders">>}
    OBVIOUS
  <2>3. QED BY <2>1, <2>2, AboutCommand
<1>2. CASE group = "tool"
  <2>1. command \in {"new", "unregister", "claim_collateral", "set_invocation_cost", "list", "inspect",
                     "update_timeout"}
    BY <1>2 DEF Arguments, Tool_!ToolCommand
  <2>2. Programs(group, gas, coin, options) = Tool_!handle(gas, options)
    BY <1>2 DEF Programs
  <2>3. Tool_!handle(gas, options)[command] \in
            {Tool_!create_new_tool, Tool_!unregister_tool(gas, options),
             Tool_!claim_collateral(gas, options), Tool_!list_tools, Tool_!inspect_tool,
             Tool_!update_tool_timeout(gas, options)}
    BY <2>1 DEF Tool_!handle, Tool_!set_tool_invocation_cost
  <2>4. QED BY <1>1, <1>2, <2>2, <2>3, ToolProgramsLead, RegistrationsLead
<1>3. CASE group = "register"
  <2>1. command \in {"off_chain", "on_chain"}
    BY <1>3 DEF Arguments, Tool_!RegisterCommand
  <2>2. Programs(group, gas, coin, options) = Tool_!handle_register(gas, options)
    BY <1>3 DEF Programs
  <2>3. /\ Tool_!handle_register(gas, options)["off_chain"] = Tool_!register_off_chain_tool(gas, options)
        /\ Tool_!handle_register(gas, options)["on_chain"] = Tool_!register_onchain_tool(gas, options)
    BY DEF Tool_!handle_register
  <2>4. QED BY <1>1, <1>3, <2>1, <2>2, <2>3, RegistrationsLead
<1>4. CASE group = "validate"
  <2>1. command \in {"off_chain", "on_chain"}
    BY <1>4 DEF Arguments, Tool_!ValidateCommand
  <2>2. Programs(group, gas, coin, options) = Tool_!handle_validate(gas, options)
    BY <1>4 DEF Programs
  <2>3. Tool_!handle_validate(gas, options)[command] \in
            {Tool_!validate_off_chain_tool, Tool_!validate_on_chain_tool}
    BY <2>1 DEF Tool_!handle_validate
  <2>4. QED BY <1>1, <2>2, <2>3, RegistrationsLead
<1>5. CASE group = "configure_verifier"
  <2>1. command \in {"registered_key", "external"}
    BY <1>5 DEF Arguments, Tool_!ConfigureVerifierCommand
  <2>2. Programs(group, gas, coin, options) = Tool_!handle_configure_verifier(gas, options)
    BY <1>5 DEF Programs
  <2>3. Tool_!handle_configure_verifier(gas, options)[command] \in
            {Tool_!configure_verifier(gas, options, <<>>),
             Tool_!configure_verifier(gas, options, Tool_!Query("verifier"))}
    BY <2>1 DEF Tool_!handle_configure_verifier
  <2>4. QED BY <1>1, <2>2, <2>3, ToolProgramsLead
<1>6. CASE group = "auth"
  <2>1. command \in {"keygen", "register_key", "list_keys", "export_allowed_leaders",
                     "sync_allowed_leaders"}
    BY <1>6 DEF Arguments, Tool_!ToolAuthCommand
  <2>2. Programs(group, gas, coin, options) = Tool_!handle_tool_auth(gas, options)
    BY <1>6 DEF Programs
  <2>3. CASE command = "sync_allowed_leaders"
    <3>1. Tool_!handle_tool_auth(gas, options)[command] = Tool_!sync_allowed_leaders(options)
      BY <2>3 DEF Tool_!handle_tool_auth
    <3>2. QED BY <1>1, <1>6, <2>2, <2>3, <3>1, RegistrationsLead
  <2>4. CASE command # "sync_allowed_leaders"
    <3>1. Tool_!handle_tool_auth(gas, options)[command] \in
              {Tool_!keygen(options), Tool_!register_key(gas, options), Tool_!list_keys,
               Tool_!export_allowed_leaders(options)}
      BY <2>1, <2>4 DEF Tool_!handle_tool_auth
    <3>2. QED BY <1>1, <2>2, <3>1, ToolProgramsLead
  <2>5. QED BY <2>3, <2>4
<1>7. QED BY <1>2, <1>3, <1>4, <1>5, <1>6

LEMMA WorkFits ==
    ASSUME NEW group, NEW command, NEW gas, NEW coin, NEW options,
           NEW c, c = About(<<group, command>>, gas, coin),
           group \in {"dag", "task", "occurrence", "periodic", "gas", "expiry", "limited_invocations",
                      "conf"},
           command \in DOMAIN Arguments[group]
    PROVE  /\ Leads(c, Programs(group, gas, coin, options)[command], FreshOf(c), {})
           /\ <<group, command>> \in Paying =>
                 "payment" \in Roles(Programs(group, gas, coin, options)[command])
<1>1. /\ c.free \subseteq Facts /\ gas \in {c.gas, NoCoin}
      /\ ~(group = "dag" /\ command = "execute") /\ command # "buy_ticket" =>
            <<group, command>> \notin Paying /\ c.pays = {}
      /\ (group = "dag" /\ command = "execute")
            \/ (group \in {"expiry", "limited_invocations"} /\ command = "buy_ticket") =>
            <<group, command>> \in Paying /\ c.pays = {coin}
      /\ group = "dag" /\ command = "execute" => {"clean", "unstored"} \subseteq c.free
      /\ group = "task" /\ command = "create" => "unstored" \in c.free
      /\ group = "conf" /\ command = "set" => "silent" \in c.free
      /\ command = "buy_ticket" => gas # NoCoin \/ "gas" \in c.free
  <2>1. /\ ~(group = "dag" /\ command = "execute") /\ command # "buy_ticket" =>
              <<group, command>> \notin Paying
        /\ (group = "dag" /\ command = "execute")
              \/ (group \in {"expiry", "limited_invocations"} /\ command = "buy_ticket") =>
              <<group, command>> \in Paying
    BY DEF Paying
  <2>2. /\ group = "dag" /\ command = "execute" =>
              /\ <<group, command>> \in {<<"register", "off_chain">>, <<"dag", "execute">>}
              /\ <<group, command>> \in {<<"task", "create">>, <<"tap", "schedule_task">>, <<"dag", "execute">>}
        /\ group = "task" /\ command = "create" =>
              <<group, command>> \in {<<"task", "create">>, <<"tap", "schedule_task">>, <<"dag", "execute">>}
        /\ group = "conf" /\ command = "set" =>
              <<group, command>> \in {<<"conf", "set">>, <<"tap", "dry_run">>, <<"tap", "publish_skill">>,
                                      <<"auth", "sync_allowed_leaders">>}
    OBVIOUS
  <2>3. QED BY <2>1, <2>2, AboutCommand
<1>2. CASE group = "dag"
  <2>1. command \in {"validate", "publish", "execute", "inspect_execution", "execution_cost",
                     "abort_expired"}
    BY <1>2 DEF Arguments, Work!DagCommand
  <2>2. Programs(group, gas, coin, options) = Work!handle_dag(gas, coin, options)
    BY <1>2 DEF Programs
  <2>3. CASE command = "execute"
    <3>1. Work!handle_dag(gas, coin, options)[command] = Work!execute_dag(gas, coin, options)
      BY <2>3 DEF Work!handle_dag
    <3>2. QED BY <1>1, <1>2, <2>2, <2>3, <3>1, ExecuteLeads
  <2>4. CASE command # "execute"
    <3>1. Work!handle_dag(gas, coin, options)[command] \in
              {Work!validate_dag, Work!publish_dag(gas), Work!inspect_dag_execution,
               Work!execution_cost, Work!abort_expired_execution(gas)}
      BY <2>1, <2>4 DEF Work!handle_dag
    <3>2. c.pays = {} /\ <<group, command>> \notin Paying
      BY <1>1, <2>1, <2>4
    <3>3. QED BY <1>1, <2>2, <3>1, <3>2, WorkProgramsLead, InspectionLeads
  <2>5. QED BY <2>3, <2>4
<1>3. CASE group = "task"
  <2>1. command \in {"create", "inspect", "metadata", "pause", "resume", "cancel"}
    BY <1>3 DEF Arguments, Work!TaskCommand
  <2>2. Programs(group, gas, coin, options) = Work!handle_task(gas, coin, options)
    BY <1>3 DEF Programs
  <2>3. /\ Work!handle_task(gas, coin, options)["create"] = Work!create_task(gas, options)
        /\ command # "create" => Work!handle_task(gas, coin, options)[command] \in
              {Work!inspect_task, Work!update_task_metadata(gas), Work!set_task_state(gas)}
    BY <2>1 DEF Work!handle_task
  <2>4. c.pays = {} /\ <<group, command>> \notin Paying
    BY <1>1, <1>3, <2>1
  <2>5. QED BY <1>1, <1>3, <2>2, <2>3, <2>4, WorkProgramsLead
<1>4. CASE group \in {"occurrence", "periodic"}
  <2>1. command \in {"add", "set", "disable"}
    BY <1>4 DEF Arguments, Work!OccurrenceCommand, Work!PeriodicCommand
  <2>2. Programs(group, gas, coin, options)[command] \in
            {Work!add_occurrence_to_task(gas), Work!set_periodic_task(gas),
             Work!disable_periodic_task(gas)}
    BY <1>4 DEF Arguments, Work!OccurrenceCommand, Work!PeriodicCommand,
                Programs, Work!handle_occurrence, Work!handle_periodic
  <2>3. c.pays = {} /\ <<group, command>> \notin Paying
    BY <1>1, <1>4, <2>1
  <2>4. QED BY <1>1, <2>2, <2>3, WorkProgramsLead
<1>5. CASE group = "gas"
  <2>1. command \in {"configure_priority_fee_vault", "swap_us_for_sui", "drain_priority_fee_vault_sui",
                     "withdraw_priority_fee"}
    BY <1>5 DEF Arguments, Work!GasCommand
  <2>2. Programs(group, gas, coin, options) = Work!handle_gas(gas, coin, options)
    BY <1>5 DEF Programs
  <2>3. Work!handle_gas(gas, coin, options)[command] \in
            {Work!configure_priority_fee_vault(gas), Work!swap_us_for_sui(gas),
             Work!drain_priority_fee_vault_sui(gas), Work!withdraw_priority_fee(gas, options)}
    BY <2>1 DEF Work!handle_gas
  <2>4. c.pays = {} /\ <<group, command>> \notin Paying
    BY <1>1, <1>5, <2>1
  <2>5. QED BY <1>1, <2>2, <2>3, <2>4, WorkProgramsLead
<1>6. CASE group \in {"expiry", "limited_invocations"}
  <2>1. command \in {"enable", "disable", "buy_ticket"}
    BY <1>6 DEF Arguments, Work!ExpiryCommand, Work!LimitedInvocationsCommand
  <2>2. Programs(group, gas, coin, options) \in
            {Work!handle_expiry(gas, coin, options), Work!handle_limited_invocations(gas, coin, options)}
    BY <1>6 DEF Programs
  <2>3. /\ command = "buy_ticket" => Programs(group, gas, coin, options)[command] =
                                        Work!buy_expiry_gas_ticket(gas, coin)
        /\ command # "buy_ticket" => Programs(group, gas, coin, options)[command] =
                                        Work!enable_expiry_extension(gas, options)
    BY <2>1, <2>2 DEF Work!handle_expiry, Work!handle_limited_invocations,
                      Work!disable_expiry_extension, Work!enable_limited_invocations_extension,
                      Work!disable_limited_invocations_extension,
                      Work!buy_limited_invocations_gas_ticket
  <2>4. CASE command = "buy_ticket"
    <3>1. c.pays = {coin} /\ (gas # NoCoin \/ "gas" \in c.free)
      BY <1>1, <1>6, <2>4
    <3>2. QED BY <1>1, <2>3, <2>4, <3>1, TicketLeads
  <2>5. CASE command # "buy_ticket"
    <3>1. c.pays = {} /\ <<group, command>> \notin Paying
      BY <1>1, <1>6, <2>5
    <3>2. QED BY <1>1, <2>3, <2>5, <3>1, WorkProgramsLead
  <2>6. QED BY <2>4, <2>5
<1>7. CASE group = "conf"
  <2>1. command \in {"set", "get"}
    BY <1>7 DEF Arguments, Work!ConfCommand
  <2>2. Programs(group, gas, coin, options) = Work!handle_conf(gas, coin, options)
    BY <1>7 DEF Programs
  <2>3. /\ Work!handle_conf(gas, coin, options)["set"] = Work!set_nexus_conf(options)
        /\ Work!handle_conf(gas, coin, options)["get"] = Work!get_nexus_conf
    BY DEF Work!handle_conf
  <2>4. c.pays = {} /\ <<group, command>> \notin Paying
    BY <1>1, <1>7, <2>1
  <2>5. QED BY <1>1, <1>7, <2>1, <2>2, <2>3, <2>4, WorkProgramsLead
<1>8. QED BY <1>2, <1>3, <1>4, <1>5, <1>6, <1>7

LEMMA ProgramsFit ==
    ASSUME NEW group \in DOMAIN Arguments, NEW command \in DOMAIN Arguments[group],
           NEW gas, NEW coin, NEW options, NEW c, c = About(<<group, command>>, gas, coin)
    PROVE  /\ Leads(c, Programs(group, gas, coin, options)[command], FreshOf(c), {})
           /\ <<group, command>> \in Paying =>
                 "payment" \in Roles(Programs(group, gas, coin, options)[command])
<1> DEFINE TapGroups == {"tap", "scheduled_task", "agent", "vault", "registry", "default_agent",
                         "payments", "execution"}
           ToolGroups == {"tool", "register", "validate", "configure_verifier", "auth"}
           WorkGroups == {"dag", "task", "occurrence", "periodic", "gas", "expiry",
                          "limited_invocations", "conf"}
<1>1. group \in TapGroups \cup ToolGroups \cup WorkGroups
  BY DEF Arguments
<1>2. group \in TapGroups \cup ToolGroups => <<group, command>> \notin Paying
  BY DEF Paying
<1>3. CASE group \in TapGroups
  BY <1>2, <1>3, TapFits
<1>4. CASE group \in ToolGroups
  BY <1>2, <1>4, ToolFits
<1>5. CASE group \in WorkGroups
  BY <1>5, WorkFits
<1>6. QED BY <1>1, <1>3, <1>4, <1>5

(* A program chooses coins for two roles at most. *)
LEMMA RolesFew ==
    ASSUME NEW c, NEW p, NEW a, NEW b, Leads(c, p, a, b)
    PROVE  Cardinality(Roles(p)) \in 0..2
<1>1. PICK f \in [0..Len(p) -> SUBSET Facts] : \A i \in 1..Len(p) : Legal(c, f[i - 1], p[i], f[i])
  BY DEF Leads
<1>2. DOMAIN p = 1..Len(p)
  BY DEF Leads, IsProgram
<1>3. ASSUME NEW i \in DOMAIN p, p[i].kind = "choose" PROVE p[i].what \in {"gas", "payment"}
  <2>1. PICK F, G, s : Legal(c, F, s, G) /\ s = p[i]
    BY <1>1, <1>2
  <2>2. WellFormed(c, s)
    BY <2>1, <1>3 DEF Legal, KeepsDeep, Nesting
  <2>3. QED BY <1>3, <2>1, <2>2 DEF WellFormed
<1>4. Roles(p) \subseteq {"gas", "payment"}
  BY <1>3 DEF Roles
<1>5. IsFiniteSet({"gas", "payment"}) /\ Cardinality({"gas", "payment"}) = 2
  <2>1. IsFiniteSet({"gas"}) /\ Cardinality({"gas"}) = 1
    BY FS_Singleton
  <2>2. {"gas", "payment"} = {"gas"} \cup {"payment"} /\ "payment" \notin {"gas"}
    OBVIOUS
  <2>3. QED BY <2>1, <2>2, FS_AddElement
<1>6. IsFiniteSet(Roles(p)) /\ Cardinality(Roles(p)) <= 2 /\ Cardinality(Roles(p)) \in Nat
  BY <1>4, <1>5, FS_Subset, FS_CardinalityType
<1>7. QED BY <1>6

(* A command begins. *)
LEMMA BeginKept ==
    ASSUME CommandInv, NEW group \in DOMAIN Arguments, NEW command \in DOMAIN Arguments[group],
           NEW gas, NEW coin, NEW options, BeginCommand(group, command, gas, coin, options)
    PROVE  CommandInv'
<1>1. PICK program : program = Programs(group, gas, coin, options)[command]
  OBVIOUS
<1>2. PICK cmd, c : cmd = <<group, command>> /\ c = About(cmd, gas, coin)
  OBVIOUS
<1>3. Leads(c, program, FreshOf(c), {}) /\ (cmd \in Paying => "payment" \in Roles(program))
  BY <1>1, <1>2, ProgramsFit
<1>4. PICK none : none = [role \in {"gas", "payment"} |-> NoCoin]
  OBVIOUS
<1>5. /\ commandRun' = [status |-> "running", command |-> cmd, gas |-> gas, coin |-> coin,
                        left |-> program, roles |-> Roles(program), chosen |-> none, done |-> {}]
      /\ purse' \in [Coins -> 0..Cardinality(Roles(program))]
      /\ holder' \in Holders /\ meddled' = FALSE
  BY <1>1, <1>2, <1>4 DEF BeginCommand, Holders
<1>6. /\ commandRun'.status = "running" /\ commandRun'.command = cmd /\ commandRun'.gas = gas
      /\ commandRun'.coin = coin /\ commandRun'.left = program
      /\ commandRun'.roles = Roles(program) /\ commandRun'.chosen = none /\ commandRun'.done = {}
  BY <1>5
<1>7. ThisCommand' = c
  BY <1>2, <1>6 DEF ThisCommand
<1>8. CommandsTypeOK'
  <2>1. Cardinality(Roles(program)) \in 0..2
    BY <1>3, RolesFew
  <2>2. purse' \in [Coins -> 0..2]
    BY <1>5, <2>1
  <2>3. QED BY <1>5, <1>6, <2>2 DEF CommandsTypeOK
<1>9. CommandShaped'
  <2>1. IsChoice(none)
    BY <1>4 DEF IsChoice
  <2>2. QED BY <1>3, <1>5, <1>6, <2>1 DEF CommandShaped
<1>10. ProgramFits'
  <2>1. c.free \subseteq Facts \ {"payment"}
    BY <1>2 DEF About, Unclaimed, Facts
  <2>2. FreshOf(c) \in SUBSET Facts /\ FreshOf(c) \ c.free \subseteq {"clean", "unstored", "silent"}
        /\ "payment" \notin FreshOf(c)
    BY <2>1 DEF FreshOf, Facts
  <2>3. Knows(FreshOf(c), commandRun.done, commandRun.chosen)'
    BY <1>6, <1>7, <2>2 DEF Knows
  <2>4. QED BY <1>3, <1>6, <1>7, <2>2, <2>3 DEF ProgramFits
<1>11. RefusedUnchanged' /\ CommandsSucceed'
  BY <1>6 DEF RefusedUnchanged, CommandsSucceed
<1>12. QED BY <1>8, <1>9, <1>10, <1>11 DEF CommandInv

(* Whatever happens, the invariant is kept. *)
LEMMA CommandsKept ==
    ASSUME CommandInv, [CommandsNext]_commandVars
    PROVE  CommandInv'
<1>1. CASE UNCHANGED commandVars
  BY <1>1 DEF commandVars, CommandInv, CommandsTypeOK, CommandShaped, ProgramFits,
     RefusedUnchanged,
              CommandsSucceed, Runs, Knows, ThisCommand, Calm, Suffices, There
<1>2. CASE \E group \in DOMAIN Arguments : \E command \in DOMAIN Arguments[group] :
             \E gas, coin, options : BeginCommand(group, command, gas, coin, options)
  BY <1>2, BeginKept
<1>3. CASE Checks \/ Contradiction \/ Queries \/ Effects \/ KeepsCaps \/ BestEffort
  BY <1>3, PlainStepsKept
<1>4. CASE Accesses \/ Finds \/ LooksApart
  BY <1>4, LooksKept
<1>5. CASE Chooses
  BY <1>5, ChoosesKept
<1>6. CASE Submits \/ AlreadyRegistered
  BY <1>6, SubmitKept
<1>7. CASE Tries \/ Branches \/ Repeats
  BY <1>7, UnfoldedKept
<1>8. CASE Finishes \/ Breaks \/ Leaves
  BY <1>8, EndsKept
<1>9. CASE (\E c \in Coins : SpendsCoin(c)) \/ (\E who \in Holders \ {"signer"} : HandsOver(who))
  BY <1>9, MeddlingKept
<1>10. QED BY Zenon, <1>1, <1>2, <1>3, <1>4, <1>5, <1>6, <1>7, <1>8, <1>9 DEF CommandsNext

LEMMA CommandsStart ==
    ASSUME CommandsInit
    PROVE  CommandInv
<1>1. /\ commandRun = NoCommandRuns /\ commandRun.status = "idle" /\ holder = "signer"
      /\ meddled = FALSE /\ purse = [c \in Coins |-> 1]
  BY DEF CommandsInit, NoCommandRuns
<1>2. purse \in [Coins -> 0..2]
  BY <1>1
<1>3. CommandsTypeOK
  BY <1>1, <1>2 DEF CommandsTypeOK, Holders
<1>4. QED BY <1>1, <1>3 DEF CommandInv, CommandShaped, ProgramFits, RefusedUnchanged,
     CommandsSucceed, Runs

(* Where something may be printed already, no step is left that does more. *)
LEMMA LeadsSilently ==
    ASSUME NEW c, NEW p, NEW a, NEW b, Leads(c, p, a, b), "silent" \notin a
    PROVE  Kinds(p) \cap Busy = {}
<1>1. PICK f \in [0..Len(p) -> SUBSET Facts] :
          /\ f[0] \subseteq a
          /\ \A i \in 1..Len(p) : Legal(c, f[i - 1], p[i], f[i])
          /\ \A i, j \in 0..Len(p) : i <= j => f[j] \cap Lasting \subseteq f[i]
  BY DEF Leads
<1>2. DOMAIN p = 1..Len(p) /\ Len(p) \in Nat
  BY DEF Leads, IsProgram
<1>3. ASSUME NEW i \in DOMAIN p, p[i].kind \in Busy PROVE FALSE
  <2>1. i - 1 \in 0..Len(p) /\ 0 \in 0..Len(p) /\ 0 <= i - 1 /\ i \in 1..Len(p)
    BY <1>2
  <2>2. f[i - 1] \cap Lasting \subseteq f[0]
    BY <1>1, <2>1
  <2>3. "silent" \notin f[i - 1]
    BY <1>1, <2>2 DEF Lasting
  <2>4. Legal(c, f[i - 1], p[i], f[i])
    BY <1>1, <2>1
  <2>5. PICK F, G, s : Legal(c, F, s, G) /\ "silent" \notin F /\ s.kind \in Busy
    BY <1>3, <2>3, <2>4
  <2>6. "silent" \in Needs(s)
    BY <2>5 DEF Needs
  <2>7. Needs(s) \subseteq F
    BY <2>5 DEF Legal, KeepsDeep, StepKeeps
  <2>8. QED BY <2>5, <2>6, <2>7
<1>4. QED BY <1>3 DEF Kinds

LEMMA OutcomesFollow ==
    ASSUME CommandInv
    PROVE  OutcomesTrue
<1>1. SUFFICES ASSUME Runs, "printed" \in commandRun.done, "silent" \notin ThisCommand.free
               PROVE  Kinds(commandRun.left) \cap Busy = {}
  <2>1. Busy = {"effect", "keep", "submit", "try", "maybe", "repeat", "attempt"}
    BY DEF Busy, Nesting
  <2>2. RefusedUnchanged
    BY DEF CommandInv
  <2>3. ReportsLast
    BY <1>1, <2>1, FreeFacts DEF ReportsLast
  <2>4. QED BY <2>2, <2>3 DEF OutcomesTrue
<1>2. PICK a \in SUBSET Facts :
          /\ Knows(a, commandRun.done, commandRun.chosen)
          /\ Leads(ThisCommand, commandRun.left, a, {})
  BY <1>1 DEF CommandInv, ProgramFits
<1>3. "silent" \notin a
  BY <1>1, <1>2 DEF Knows
<1>4. QED BY <1>2, <1>3, LeadsSilently

LEMMA CommandsAlways == Spec => []CommandInv
<1>1. Init => CommandInv
  BY CommandsStart DEF Init
<1>2. CommandInv /\ [Next]_vars => CommandInv'
  BY EachPartMoves, CommandsKept
<1>3. QED BY <1>1, <1>2, PTL DEF Spec

(* What a command did and what it answers agree, for every wallet and whatever
   others do meanwhile: one that turns down its arguments, its coins or the
   agent has left nothing behind, and one that has printed its result does
   nothing more that matters, save the few that are named. *)
THEOREM CommandsAreTrue == Spec => []OutcomesTrue
<1>1. CommandInv => OutcomesTrue
  BY OutcomesFollow
<1>2. QED BY <1>1, CommandsAlways, PTL

(* Where nobody interferes, the agent may be used and the wallet suffices,
   neither a command nor the chain turns anything down: the coins that a
   command chooses fit what its transactions take. *)
THEOREM CommandsGetThrough == Spec => []CommandsSucceed
<1>1. CommandInv => CommandsSucceed
  BY DEF CommandInv
<1>2. QED BY <1>1, CommandsAlways, PTL

=============================================================================
