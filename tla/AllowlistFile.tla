---------------------------- MODULE AllowlistFile ----------------------------
(* The file of allowed leaders that tools read, and the processes that write  *)
(* it (src/cli/src/tool/tool_auth.rs): commands that export it once, and      *)
(* syncers that compare it with the chain again and again.  Any of them may   *)
(* be killed, or fail, at any point.                                          *)
EXTENDS Integers

CONSTANTS
    Syncers,   \* processes that run sync_allowed_leaders
    Exporters, \* processes that run export_allowed_leaders, one command after another
    MaxLists   \* bound on the lists of leaders that the chain ever has

ASSUME AllowlistAssumption == MaxLists \in Nat \ {0} /\ Syncers \cap Exporters = {}

VARIABLES
    published, \* the list on the chain: lists are numbered as they follow each other
    allowlist, \* the contents of the file
    temps,     \* the contents of the temporary files
    writer,    \* where each process is, and the list that it exports
    highest,   \* history: the latest list that the file held
    overlapped \* history: did two processes ever work at the same time?

allowlistVars == <<published, allowlist, temps, writer, highest, overlapped>>

Writers == Syncers \cup Exporters
NoFile == 0
TornFile == -1
AtRest == [step |-> "rest", list |-> NoFile]

AllowlistInit ==
    /\ published = 1
    /\ allowlist = NoFile /\ temps = [p \in Writers |-> NoFile]
    /\ writer = [p \in Writers |-> AtRest]
    /\ highest = NoFile /\ overlapped = FALSE
-----------------------------------------------------------------------------
WriterAt(p, step) == writer[p].step = step
ToStep(p, step) == writer' = [writer EXCEPT ![p].step = step]
Rests(p) == writer' = [writer EXCEPT ![p] = AtRest]
SameFiles == UNCHANGED <<allowlist, temps, highest>>

(* Reads the list from the chain; one that cannot be read changes nothing.    *)
ExportList(p) ==
    /\ WriterAt(p, "rest")
    /\ writer' = [writer EXCEPT ![p] = [step |-> IF p \in Syncers THEN "compare" ELSE "write",
                                        list |-> published]]
    /\ overlapped' = (overlapped \/ \E q \in Writers : writer[q] # AtRest)
    /\ SameFiles /\ UNCHANGED published

(* A syncer leaves a file alone that has these contents.                      *)
CompareFile(p) ==
    /\ WriterAt(p, "compare")
    /\ IF allowlist = writer[p].list THEN Rests(p) ELSE ToStep(p, "write")
    /\ SameFiles /\ UNCHANGED <<published, overlapped>>

(* The name holds the process ID and the time.                                *)
TempName(p) == p

(* Writes the whole list next to the file, in more than one step ...          *)
BeginTemp(p) ==
    /\ WriterAt(p, "write")
    /\ temps' = [temps EXCEPT ![TempName(p)] = TornFile]
    /\ ToStep(p, "half")
    /\ UNCHANGED <<published, allowlist, highest, overlapped>>

FinishTemp(p) ==
    /\ WriterAt(p, "half")
    /\ temps' = [temps EXCEPT ![TempName(p)] = writer[p].list]
    /\ ToStep(p, "rename")
    /\ UNCHANGED <<published, allowlist, highest, overlapped>>

(* ... and puts it in place in one.                                           *)
RenameTemp(p) ==
    /\ WriterAt(p, "rename") /\ temps[TempName(p)] # NoFile
    /\ allowlist' = temps[TempName(p)]
    /\ temps' = [temps EXCEPT ![TempName(p)] = NoFile]
    /\ highest' = IF allowlist' > highest THEN allowlist' ELSE highest
    /\ Rests(p)
    /\ UNCHANGED <<published, overlapped>>

(* An error ends an export, a syncer sleeps until the next; killed, either is *)
(* started again.  A temporary file stays behind.                             *)
StopWriter(p) ==
    /\ writer[p] # AtRest
    /\ Rests(p)
    /\ SameFiles /\ UNCHANGED <<published, overlapped>>

(* Leaders come, go and rotate their keys.                                    *)
PublishList ==
    /\ published < MaxLists /\ published' = published + 1
    /\ SameFiles /\ UNCHANGED <<writer, overlapped>>

AllowlistNext ==
    \/ \E p \in Writers :
         ExportList(p) \/ CompareFile(p) \/ BeginTemp(p) \/ FinishTemp(p) \/ RenameTemp(p) \/ StopWriter(p)
    \/ PublishList
-----------------------------------------------------------------------------
AllowlistTypeOK ==
    /\ published \in 1..MaxLists
    /\ allowlist \in TornFile..MaxLists
    /\ temps \in [Writers -> TornFile..MaxLists]
    /\ writer \in [Writers -> [step : {"rest", "compare", "write", "half", "rename"},
                               list : NoFile..MaxLists]]
    /\ highest \in NoFile..MaxLists /\ overlapped \in BOOLEAN

(* A tool that opens the file finds a whole list, whoever is killed while     *)
(* writing; and the file goes back to an earlier list, which still allows a   *)
(* leader that was removed, only when an export and a sync overlap.           *)
AllowlistWhole ==
    /\ allowlist # TornFile
    /\ allowlist < highest => overlapped
=============================================================================
