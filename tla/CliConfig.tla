----------------------------- MODULE CliConfig -----------------------------
(* The configuration file of the command line (src/cli/src/cli_conf.rs): every *)
(* command is a process that loads it, and some change it and write it back.  *)
(* A file that cannot be read counts as the default configuration, nothing    *)
(* locks it, and it is written in place: emptied first, filled then.          *)
EXTENDS Naturals, FiniteSets

CONSTANTS
    Commands,  \* the processes
    NewTools,  \* the tools that are registered
    MaxBegun   \* bound on the commands that change something

ASSUME CliAssumption == MaxBegun \in Nat /\ NewTools \cap {"settings", "objects", "alias", "torn"} = {}

VARIABLES
    file,    \* what is in the file, or Torn in the middle of a write
    process, \* what each process is at
    window,  \* history: what each could have loaded since it began to change the configuration
    unsaved, \* history: the tools whose capability was received and is not in the file yet
    begun    \* the commands begun so far, those that only load the file left out

cliVars == <<file, process, window, unsaved, begun>>

(* A configuration is the set of what it has beyond the default one.          *)
Items == {"settings", "objects", "alias"} \cup NewTools
Default == {}
Torn == {"torn"}
Load == IF file = Torn THEN Default ELSE file

NoCommand ==
    [command |-> "none", step |-> "idle", next |-> "idle", conf |-> Default, kept |-> Default,
     adds |-> {}, removes |-> {}, left |-> {}]

CliInit ==
    /\ file \in {Default, {"settings"}, {"settings", "objects", "alias"}}
    /\ process = [p \in Commands |-> NoCommand]
    /\ window = [p \in Commands |-> {}] /\ unsaved = {} /\ begun = 0

In(p, step) == process[p].step = step
Continue(p, step) == [process[p] EXCEPT !.step = step]

(* A step of p that leaves the file alone; a window opens at a step, goes on,  *)
(* or is closed.                                                              *)
CliStep(p, r, w) ==
    /\ process' = [process EXCEPT ![p] = r] /\ window' = [window EXCEPT ![p] = w]
    /\ UNCHANGED file
Becomes(p, r) == CliStep(p, r, window[p]) /\ UNCHANGED <<unsaved, begun>>
Run_(p, r) ==
    /\ In(p, "idle") /\ begun < MaxBegun
    /\ CliStep(p, r, {Load})
    /\ begun' = begun + 1 /\ UNCHANGED unsaved
-----------------------------------------------------------------------------
(* get_nexus_conf, and the commands that only need what is configured.        *)
GetConf(p) == In(p, "idle") /\ UNCHANGED cliVars

(* set_nexus_conf, and the aliases of agents: load, change, save.             *)
SetConf(p, items) ==
    Run_(p, [NoCommand EXCEPT !.command = "set", !.step = "load", !.next = "idle", !.adds = items])
SaveAlias(p) ==
    Run_(p, [NoCommand EXCEPT !.command = "alias", !.step = "load", !.next = "idle", !.adds = {"alias"}])
RemoveAlias(p) ==
    Run_(p, [NoCommand EXCEPT !.command = "alias", !.step = "load", !.next = "idle", !.removes = {"alias"}])

(* Commands that talk to the chain get a client first.                        *)
RegisterOffChainTools(p, ts) ==
    Run_(p, [NoCommand EXCEPT !.command = "offchain", !.step = "client", !.left = ts])
RegisterOnChainWithCaps(p, t) ==
    Run_(p, [NoCommand EXCEPT !.command = "onchain", !.step = "client", !.left = {t}])

(* create_task in scheduler/task keeps the configuration it loads now.        *)
CreateTaskCommand(p) ==
    Run_(p, [NoCommand EXCEPT !.command = "task", !.step = "client", !.kept = Load])

(* get_nexus_client and get_nexus_objects: objects that are not configured     *)
(* are fetched and saved, if the network is a known one.                      *)
GetNexusClient(p) ==
    /\ In(p, "client")
    /\ Becomes(p, IF "objects" \in Load THEN [Continue(p, "work") EXCEPT !.conf = Load]
                  ELSE [Continue(p, "fetch") EXCEPT !.conf = Load \cup {"objects"}])

SaveFetchedObjects(p) == In(p, "fetch") /\ Becomes(p, [Continue(p, "save") EXCEPT !.next = "work"])
-----------------------------------------------------------------------------
(* register_one_tool for every tool: it is registered and its capability is to *)
(* be saved, or not, and the command goes on.                                  *)
RegisterNext(p, t) ==
    /\ In(p, "work") /\ process[p].command = "offchain" /\ t \in process[p].left
    /\ \E got \in {{}, {t}} :
        /\ CliStep(p, [process[p] EXCEPT !.left = @ \ {t}, !.adds = @ \cup got], window[p])
        /\ unsaved' = unsaved \cup got /\ UNCHANGED begun

(* The capabilities of all of them are saved at the end, if there are any.    *)
SaveAllCaps(p) ==
    /\ In(p, "work") /\ process[p].command = "offchain" /\ process[p].left = {}
    /\ IF process[p].adds = {} THEN CliStep(p, NoCommand, {})
       ELSE CliStep(p, [Continue(p, "load") EXCEPT !.next = "idle"], {Load})
    /\ UNCHANGED <<unsaved, begun>>

(* register_on_chain_tool saves them, and then looks at the tool.             *)
RegisterAndSave(p) ==
    /\ In(p, "work") /\ process[p].command = "onchain"
    /\ CliStep(p, [Continue(p, "load") EXCEPT !.adds = process[p].left, !.next = "inspect"], {Load})
    /\ unsaved' = unsaved \cup process[p].left /\ UNCHANGED begun

Inspect(p) == In(p, "inspect") /\ CliStep(p, NoCommand, {}) /\ UNCHANGED <<unsaved, begun>>

SubmitAndSaveKept(p) ==
    /\ In(p, "work") /\ process[p].command = "task"
    /\ Becomes(p, [Continue(p, "save") EXCEPT !.conf = process[p].kept, !.next = "idle"])
-----------------------------------------------------------------------------
(* Mutant of LoadToSave: the configuration loaded for the client is changed.  *)
LoadedBefore(p) == (process[p].conf \cup process[p].adds) \ process[p].removes

LoadToSave(p) == (Load \cup process[p].adds) \ process[p].removes

LoadAgain(p) ==
    In(p, "load") /\ Becomes(p, [Continue(p, "save") EXCEPT !.conf = LoadToSave(p)])

(* CliConf::save_to_path.                                                     *)
Empty(p) ==
    /\ In(p, "save")
    /\ file' = Torn
    /\ process' = [process EXCEPT ![p] = Continue(p, "fill")]
    /\ window' = [q \in Commands |->
            IF In(q, "idle") \/ q = p THEN window[q] ELSE window[q] \cup {Default}]
    /\ UNCHANGED <<unsaved, begun>>

Fill(p) ==
    /\ In(p, "fill")
    /\ file' = process[p].conf
    /\ process' = [process EXCEPT ![p] =
            IF @.next = "idle" THEN NoCommand ELSE [@ EXCEPT !.step = process[p].next]]
    /\ window' = [q \in Commands |->
            IF In(q, "idle") \/ (q = p /\ process[p].next = "idle") THEN {}
            ELSE window[q] \cup {file'}]
    /\ unsaved' = unsaved \ (process[p].adds \cap file') /\ UNCHANGED begun

(* A step fails, or the process is killed: the capabilities that it received   *)
(* are given up, those of the tools of a batch that went through included.    *)
Stop(p) ==
    /\ ~In(p, "idle") /\ CliStep(p, NoCommand, {})
    /\ unsaved' = unsaved \ process[p].adds /\ UNCHANGED begun

CliNext ==
    \E p \in Commands :
        \/ GetConf(p)
        \/ \E items \in SUBSET {"settings", "objects"} : SetConf(p, items)
        \/ SaveAlias(p) \/ RemoveAlias(p)
        \/ \E ts \in SUBSET NewTools \ {{}} : RegisterOffChainTools(p, ts)
        \/ \E t \in NewTools : RegisterOnChainWithCaps(p, t) \/ RegisterNext(p, t)
        \/ CreateTaskCommand(p)
        \/ GetNexusClient(p) \/ SaveFetchedObjects(p)
        \/ SaveAllCaps(p) \/ RegisterAndSave(p) \/ Inspect(p) \/ SubmitAndSaveKept(p)
        \/ LoadAgain(p) \/ Empty(p) \/ Fill(p)
        \/ Stop(p)

CliSpec == CliInit /\ [][CliNext]_cliVars
-----------------------------------------------------------------------------
CliTypeOK ==
    /\ file = Torn \/ file \subseteq Items
    /\ \A p \in Commands : process[p].conf \subseteq Items /\ process[p].adds \subseteq Items
    /\ \A p \in Commands : window[p] \subseteq SUBSET Items
    /\ unsaved \subseteq NewTools /\ begun \in 0 .. MaxBegun

(* A command writes what the file held at some moment of its window, and in it *)
(* changes only what it is about.  For settings and aliases the window is the  *)
(* command.  That of capabilities opens after all other work, right before the *)
(* file is loaded again: the long time in which tools are registered is no     *)
(* danger, nothing that others save in it is undone.  Where a configuration is *)
(* kept for longer the window is as long: while objects are fetched            *)
(* (sui.rs:329 to 192), and for a whole creation of a task (task_create.rs:50  *)
(* to 170).  What others save within a window does get lost, and everything    *)
(* does when a process loads the file as another one writes it, or is killed   *)
(* as it writes.                                                               *)
Contributes(c) == IF c.next = "work" THEN {"objects"} ELSE c.adds
WritesWhatItFound ==
    \A p \in Commands : process[p].step \in {"save", "fill"} =>
        \E found \in window[p] :
            process[p].conf = (found \cup Contributes(process[p])) \ process[p].removes

(* A command that ends without an error has put into the file the capability   *)
(* of every tool that it registered: what is not there is still on its way     *)
(* with a command that runs.  One that fails loses those of the tools of its   *)
(* batch that were registered before (tool_register_offchain.rs:335, although  *)
(* CHANGELOG.md:656 says that they are saved upon registration).               *)
CapabilitiesKept == unsaved \subseteq UNION {process[p].adds : p \in Commands}
=============================================================================
