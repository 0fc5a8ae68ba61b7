--------------------------------- MODULE Sdk ---------------------------------
(* What the SDK does around one call: the chain operations that run on the    *)
(* call's reads and then submit (the client's methods, the creation of a task,*)
(* message keys, expired walks); the reads that are put together from several *)
(* requests (the crawler's, the inspection of a tool, the resolution of a     *)
(* skill) and the computation of budgets; and the files that the command line *)
(* keeps (its configuration, the list of allowed leaders).  The parts share   *)
(* no state, so a behaviour exercises one of them, its scenario, and the      *)
(* others stand still.                                                        *)
EXTENDS SdkMethods, TaskCreation, KeyRegistry, ExpiredWalks, Crawler,
        ToolInspection, AgentReads, Quotes, CliConfig, AllowlistFile,
        BalanceGas, RemoteData, CommandRuns

VARIABLE scenario

chainVars == <<methodVars, creationVars, keyVars, walkVars, balanceVars>>
readVars == <<crawlVars, inspectionVars, agentReadVars, quoteVars, dataVars>>
fileVars == <<cliVars, allowlistVars, commandVars>>
vars == <<scenario, chainVars, readVars, fileVars>>

Scenarios == {"methods", "tasks", "keys", "walks", "crawl", "inspection", "targets",
              "quotes", "cli", "allowlist", "balance", "data", "commands"}

(* Where a part stands still it starts in one state.                          *)
MethodsStill == owner = Deployed({}) /\ call = NoCall
CreationStill ==
    taskAgent = [held |-> "owned", version |-> 0] /\ creation = NoCreation /\ uses = 0
KeysStill ==
    /\ chain = [id \in Identities |-> Absent] /\ replica = chain
    /\ job = Idle /\ seen = {} /\ keyless = {} /\ changes = 0
CrawlStill ==
    /\ fieldKind = [i \in Ids |-> "ours"] /\ fieldTable = [i \in Ids |-> NoField]
    /\ strays = {} /\ crawl = NoCrawl /\ wasThere = {} /\ stayed = {} /\ edits = 0
InspectionStill ==
    /\ toolKind = "http" /\ crowd = {} /\ registration = Unknown
    /\ past = {} /\ inspection = NoInspection /\ turns = 0
TargetsStill ==
    /\ skillRecords = [s \in TapSkills |->
            [active |-> FALSE, runtime |-> FALSE, sound |-> TRUE, revision |-> 0]]
    /\ defaultSkill = NoSkill
    /\ sinceSkills = [s \in TapSkills |-> {}] /\ sinceDefaults = {}
    /\ resolution = NoResolution /\ shifts = 0
CliStill ==
    /\ file = Default /\ process = [p \in Commands |-> NoCommand]
    /\ window = [p \in Commands |-> {}] /\ unsaved = {} /\ begun = 0

Init ==
    /\ scenario \in Scenarios
    /\ IF scenario = "methods" THEN MethodInit ELSE MethodsStill
    /\ IF scenario = "tasks" THEN CreationInit ELSE CreationStill
    /\ IF scenario = "keys" THEN KeyInit ELSE KeysStill
    /\ WalkInit
    /\ IF scenario = "crawl" THEN CrawlInit ELSE CrawlStill
    /\ IF scenario = "inspection" THEN InspectionInit ELSE InspectionStill
    /\ IF scenario = "targets" THEN AgentReadInit ELSE TargetsStill
    /\ QuoteInit
    /\ IF scenario = "cli" THEN CliInit ELSE CliStill
    /\ AllowlistInit /\ BalanceInit /\ DataInit /\ CommandsInit

Methods ==
    /\ scenario = "methods" /\ MethodNext
    /\ UNCHANGED <<scenario, creationVars, keyVars, walkVars, balanceVars, readVars, fileVars>>
Tasks ==
    /\ scenario = "tasks" /\ CreationNext
    /\ UNCHANGED <<scenario, methodVars, keyVars, walkVars, balanceVars, readVars, fileVars>>
Keys ==
    /\ scenario = "keys" /\ KeyNext
    /\ UNCHANGED <<scenario, methodVars, creationVars, walkVars, balanceVars, readVars, fileVars>>
ExpiredWalk ==
    /\ scenario = "walks" /\ WalkNext
    /\ UNCHANGED <<scenario, methodVars, creationVars, keyVars, balanceVars, readVars, fileVars>>
Crawls ==
    /\ scenario = "crawl" /\ CrawlNext
    /\ UNCHANGED <<scenario, chainVars, inspectionVars, agentReadVars, quoteVars, dataVars, fileVars>>
Inspections ==
    /\ scenario = "inspection" /\ InspectionNext
    /\ UNCHANGED <<scenario, chainVars, crawlVars, agentReadVars, quoteVars, dataVars, fileVars>>
Resolutions ==
    /\ scenario = "targets" /\ AgentReadNext
    /\ UNCHANGED <<scenario, chainVars, crawlVars, inspectionVars, quoteVars, dataVars, fileVars>>
Quoting ==
    /\ scenario = "quotes" /\ QuoteNext
    /\ UNCHANGED <<scenario, chainVars, crawlVars, inspectionVars, agentReadVars, dataVars, fileVars>>
Cli ==
    /\ scenario = "cli" /\ CliNext
    /\ UNCHANGED <<scenario, chainVars, readVars, allowlistVars, commandVars>>
Exports ==
    /\ scenario = "allowlist" /\ AllowlistNext
    /\ UNCHANGED <<scenario, chainVars, readVars, cliVars, commandVars>>
BalancePays ==
    /\ scenario = "balance" /\ BalanceNext
    /\ UNCHANGED <<scenario, methodVars, creationVars, keyVars, walkVars, readVars, fileVars>>
Transfers ==
    /\ scenario = "data" /\ DataNext
    /\ UNCHANGED <<scenario, chainVars, crawlVars, inspectionVars, agentReadVars, quoteVars, fileVars>>
CommandLine ==
    /\ scenario = "commands" /\ CommandsNext
    /\ UNCHANGED <<scenario, chainVars, readVars, cliVars, allowlistVars>>

Next ==
    \/ Methods \/ Tasks \/ Keys \/ ExpiredWalk
    \/ Crawls \/ Inspections \/ Resolutions \/ Quoting
    \/ Cli \/ Exports
    \/ BalancePays \/ Transfers \/ CommandLine

Spec == Init /\ [][Next]_vars
-----------------------------------------------------------------------------
(* Every part has its type.                                                   *)
TypeOK ==
    /\ MethodTypeOK /\ CreationTypeOK /\ KeyTypeOK /\ WalkTypeOK
    /\ CrawlTypeOK /\ InspectionTypeOK /\ AgentReadTypeOK /\ QuoteTypeOK
    /\ CliTypeOK /\ AllowlistTypeOK
    /\ BalanceTypeOK /\ DataTypeOK /\ CommandsTypeOK

(* What is put together from several reads.  Every entry that the crawler      *)
(* answers was in the table at some moment of the call, none that stayed is    *)
(* missing; what is reported of a tool's verifier held at one moment; the      *)
(* skill that an execution goes to was fit at one moment and asked for, or the *)
(* default, at one that may be another; and who gets no answer, or an error,   *)
(* does so for a cause.                                                        *)
ReadsTrue == CrawlsTrue /\ InspectionTrue /\ TargetsTrue

(* What is reported of the message keys of tools and leaders, and what tools  *)
(* are given of them, were usable keys.                                       *)
KeysTrue == KeyReportsTrue /\ ExportTrue

(* The files of the command line, which several processes write: a save of the *)
(* configuration undoes nothing that was saved before its short window, every  *)
(* capability received is put into the file unless its command fails, and a    *)
(* tool never reads half a list of leaders.                                    *)
FilesSound == WritesWhatItFound /\ CapabilitiesKept /\ AllowlistWhole
=============================================================================
