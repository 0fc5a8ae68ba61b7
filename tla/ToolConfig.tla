------------------------------ MODULE ToolConfig ------------------------------
(***************************************************************************)
(* Hot reload of the toolkit configuration (toolkit-rust/src/config.rs)    *)
(* and the signing runtime every /invoke request derives from it           *)
(* (InvokeAuth in toolkit-rust/src/signed_http_warp.rs).                   *)
(*                                                                         *)
(* One watcher task reloads the file when notify reports a change or when  *)
(* a poll sees another modification time, and swaps the Arc that Config    *)
(* holds.  A request compares the address of that Arc with the address its *)
(* cached runtime was built from, and rebuilds the runtime if they differ. *)
(* The Arc of the initial configuration lives as long as the process (the  *)
(* bootstrap! macro keeps a clone); a later one is freed when neither      *)
(* Config nor a request in `current` holds it, and its address may be used *)
(* again, even if the cached runtime was built from it.  Every tool of a   *)
(* process has its own watcher and runtime, so one tool is modelled; two   *)
(* versions of the file have two modification times.                       *)
(***************************************************************************)
EXTENDS Naturals, Sequences

CONSTANTS
    Requests,
    Addresses,     \* where the allocator may place a configuration
    Boot,          \* the address of the initial one
    None,
    MaxVersions    \* bound: versions the file ever has

ASSUME ConfigAssumption ==
    /\ Boot \in Addresses
    /\ None \notin Addresses
    /\ MaxVersions \in Nat \ {0}

VARIABLES
    contents,       \* the contents of each version of the file
    early,          \* history: it changed before the reload task started, unread since
    missed,         \* history: notify lost a change between a read and its stat,
                    \* and the file was not read since
    watching,       \* has watcher.watch returned?
    event,          \* the channel from notify to the reload task, capacity one
    task,           \* where the reload task is
    last_modified,  \* the modification time it knows: a version, 0 before the first
    loaded,         \* the version it has read and not yet installed
    config,         \* Config::config: a version, the address of its Arc, and
                    \* (history) the number of reloads before it
    auth,           \* InvokeAuthState: the configuration of auth, with config_ptr
    pc,             \* where each request is in InvokeAuth::current
    saw,            \* the configuration it read
    used            \* the configuration whose runtime it got

fileVars == <<contents, early, missed>>
watchVars == <<watching, event, task, last_modified, loaded, config>>
requestVars == <<pc, saw, used>>
vars == <<fileVars, watchVars, auth, requestVars>>

(* "ok" configures the tool, "nokey" is valid but has no key for this tool,  *)
(* "bad" is unreadable, half written or invalid.                             *)
Contents == {"ok", "nokey", "bad"}
Versions == 1..MaxVersions
Held == [version : Versions, addr : Addresses, nth : Nat]
File == Len(contents)

TypeOK ==
    /\ contents \in Seq(Contents) /\ File \in Versions
    /\ early \in BOOLEAN /\ missed \in BOOLEAN
    /\ watching \in BOOLEAN /\ event \in BOOLEAN
    /\ task \in {"init", "idle", "debounce", "read", "stat", "install"}
    /\ last_modified \in Versions \cup {0}
    /\ loaded \in Versions \cup {0}
    /\ config \in Held /\ auth \in Held
    /\ pc \in [Requests -> {"new", "lookup", "rebuild", "done"}]
    /\ saw \in [Requests -> Held \cup {None}]
    /\ used \in [Requests -> Held \cup {None}]

Init ==
    /\ contents = <<"ok">> /\ early = FALSE /\ missed = FALSE
    /\ watching = FALSE /\ event = FALSE
    /\ task = "init" /\ last_modified = 0 /\ loaded = 0
    /\ config = [version |-> 1, addr |-> Boot, nth |-> 0]
    /\ auth = config
    /\ pc = [r \in Requests |-> "new"]
    /\ saw = [r \in Requests |-> None]
    /\ used = [r \in Requests |-> None]

------------------------------------------------------------------------------
(* Somebody replaces the file.  A change notify reports is kept in the       *)
(* channel, or dropped when one is waiting there already; it may lose one.   *)
Write ==
    /\ File < MaxVersions
    /\ \E c \in Contents : contents' = Append(contents, c)
    /\ early' = (early \/ task = "init")
    /\ event' \in IF watching THEN {event, TRUE} ELSE {event}
    /\ missed' = (missed \/ (task = "stat" /\ ~event'))
    /\ UNCHANGED <<watching, task, last_modified, loaded, config, auth, requestVars>>

Watch ==
    /\ ~watching
    /\ watching' = TRUE
    /\ UNCHANGED <<fileVars, event, task, last_modified, loaded, config, auth, requestVars>>

(* The reload task starts: it takes the file as it is now for loaded.        *)
StartTask ==
    /\ watching /\ task = "init"
    /\ task' = "idle"
    /\ last_modified' = File
    /\ UNCHANGED <<fileVars, watching, event, loaded, config, auth, requestVars>>

ReceiveEvent ==
    /\ task = "idle" /\ event
    /\ event' = FALSE
    /\ task' = "debounce"
    /\ UNCHANGED <<fileVars, watching, last_modified, loaded, config, auth, requestVars>>

Debounce ==
    /\ task = "debounce"
    /\ event' = FALSE
    /\ task' = "read"
    /\ UNCHANGED <<fileVars, watching, last_modified, loaded, config, auth, requestVars>>

(* Mutants: the modification time only filters what notify reports; the      *)
(* contents are not validated.                                               *)
PollOnEvent ==
    /\ task = "idle" /\ event
    /\ last_modified # File
    /\ task' = "read"
    /\ UNCHANGED <<fileVars, watching, event, last_modified, loaded, config, auth, requestVars>>

ReadUnchecked ==
    /\ task = "read"
    /\ task' = "stat" /\ loaded' = File
    /\ UNCHANGED <<fileVars, watching, event, last_modified, config, auth, requestVars>>

Poll ==
    /\ task = "idle"
    /\ last_modified # File
    /\ task' = "read"
    /\ UNCHANGED <<fileVars, watching, event, last_modified, loaded, config, auth, requestVars>>

(* A reload that fails keeps the old configuration and the old time, so the  *)
(* next poll tries again.                                                    *)
ReadFile ==
    /\ task = "read"
    /\ IF contents[File] = "bad"
       THEN task' = "idle" /\ UNCHANGED <<early, missed, loaded>>
       ELSE task' = "stat" /\ loaded' = File /\ early' = FALSE /\ missed' = FALSE
    /\ UNCHANGED <<contents, watching, event, last_modified, config, auth, requestVars>>

StatFile ==
    /\ task = "stat"
    /\ last_modified' = File
    /\ task' = "install"
    /\ UNCHANGED <<fileVars, watching, event, loaded, config, auth, requestVars>>

Alive ==
    {Boot, config.addr} \cup {saw[r].addr : r \in {q \in Requests : pc[q] \in {"lookup", "rebuild"}}}
Free == Addresses \ Alive

(* Mutant of Install: the new configuration is written over the old one.     *)
InstallInPlace ==
    /\ task = "install"
    /\ config' = [version |-> loaded, addr |-> config.addr, nth |-> config.nth + 1]
    /\ task' = "idle"
    /\ UNCHANGED <<fileVars, watching, event, last_modified, loaded, auth, requestVars>>

(* The new configuration is allocated while Config still holds the old one.  *)
Install ==
    /\ task = "install"
    /\ \E a \in Free : config' = [version |-> loaded, addr |-> a, nth |-> config.nth + 1]
    /\ task' = "idle"
    /\ UNCHANGED <<fileVars, watching, event, last_modified, loaded, auth, requestVars>>

------------------------------------------------------------------------------
(* InvokeAuth::current.                                                      *)
ReadConfig(r) ==
    /\ pc[r] = "new"
    /\ pc' = [pc EXCEPT ![r] = "lookup"]
    /\ saw' = [saw EXCEPT ![r] = config]
    /\ UNCHANGED <<fileVars, watchVars, auth, used>>

Lookup(r) ==
    /\ pc[r] = "lookup"
    /\ IF auth.addr = saw[r].addr
       THEN pc' = [pc EXCEPT ![r] = "done"] /\ used' = [used EXCEPT ![r] = auth]
       ELSE pc' = [pc EXCEPT ![r] = "rebuild"] /\ UNCHANGED used
    /\ UNCHANGED <<fileVars, watchVars, auth, saw>>

(* Without a key for this tool the old runtime stays.                        *)
Rebuild(r) ==
    /\ pc[r] = "rebuild"
    /\ auth' = IF auth.addr # saw[r].addr /\ contents[saw[r].version] = "ok"
               THEN saw[r] ELSE auth
    /\ used' = [used EXCEPT ![r] = auth']
    /\ pc' = [pc EXCEPT ![r] = "done"]
    /\ UNCHANGED <<fileVars, watchVars, saw>>

Reload == ReceiveEvent \/ Debounce \/ Poll \/ ReadFile \/ StatFile \/ Install
Current(r) == ReadConfig(r) \/ Lookup(r) \/ Rebuild(r)

Next == Write \/ Watch \/ StartTask \/ Reload \/ \E r \in Requests : Current(r)

Spec == Init /\ [][Next]_vars

(* The process sets up the watcher and runs its task; requests go on.        *)
FairSpec ==
    /\ Spec
    /\ WF_vars(Watch) /\ WF_vars(StartTask) /\ WF_vars(Reload)
    /\ \A r \in Requests : WF_vars(Lookup(r) \/ Rebuild(r))

------------------------------------------------------------------------------
(* Whatever is written to the file, and while it is written, requests run    *)
(* under a version that was complete, valid and knows the tool's key         *)
(* (config.rs:462, signed_http_warp.rs:156).                                 *)
OnlyValidConfigs ==
    /\ contents[config.version] # "bad"
    /\ contents[auth.version] = "ok"

(* A cached runtime is told by the address of its configuration, which may   *)
(* be freed and used again.  In whatever order concurrent requests and       *)
(* reloads take the locks, a request gets the runtime of an older            *)
(* configuration only if the one it saw has no key for the tool, or lies     *)
(* where the older one lay: then that was not the initial configuration, and *)
(* another one was installed in between (config.rs:466,                      *)
(* signed_http_warp.rs:146-165).                                             *)
StaleOnlyByReuse ==
    \A r \in Requests : pc[r] = "done" =>
        \/ used[r].nth >= saw[r].nth
        \/ contents[saw[r].version] = "nokey"
        \/ /\ used[r].addr = saw[r].addr /\ saw[r].addr # Boot
           /\ used[r].nth + 2 <= saw[r].nth

(* Once the file stays valid its last version is installed, whatever broken  *)
(* versions came before, whatever changes notify lost, and however reads,    *)
(* polls and notifications interleave (config.rs:434-475).  Two changes are  *)
(* found only by a later one: one before the reload task started, which      *)
(* nothing looks for (config.rs:440), and one between a read and its stat    *)
(* that notify loses (config.rs:495).                                        *)
ReloadSettles == <>[](early \/ missed \/ contents[File] = "bad" \/ config.version = File)
================================================================================
