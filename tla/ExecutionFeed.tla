----------------------------- MODULE ExecutionFeed -----------------------------
(***************************************************************************)
(* What WorkflowActions::inspect_execution promises its caller: the events *)
(* of the updates of one execution, each once and in their order, until    *)
(* the one that finishes the execution, or an error somewhere before.      *)
(***************************************************************************)
EXTENDS Naturals, Sequences

VARIABLES
    ledger,  \* what each update of the execution reports
    sent,    \* the updates whose events the caller's channel was given
    out      \* what became of the inspection

Kinds == {"nothing", "walk", "finished"}
Errors == {"timeout", "rpc", "missing", "channel"}
Carries(v) == ledger[v] # "nothing"
Newest == IF sent = <<>> THEN 0 ELSE sent[Len(sent)]

Init == ledger \in {<<"nothing">>, <<"walk">>} /\ sent = <<>> /\ out = "running"

Update ==
    /\ \E k \in Kinds : ledger' = Append(ledger, k)
    /\ UNCHANGED <<sent, out>>

(* The next update with an event is delivered; none is left out.             *)
Deliver ==
    /\ out = "running"
    /\ \E v \in Newest + 1..Len(ledger) :
          /\ Carries(v)
          /\ \A u \in Newest + 1..v - 1 : ~Carries(u)
          /\ sent' = Append(sent, v)
    /\ UNCHANGED <<ledger, out>>

Complete ==
    /\ out = "running"
    /\ \E i \in 1..Len(sent) : ledger[sent[i]] = "finished"
    /\ out' = "ok"
    /\ UNCHANGED <<ledger, sent>>

GiveUp ==
    /\ out = "running"
    /\ out' \in Errors
    /\ UNCHANGED <<ledger, sent>>

Next == Update \/ Deliver \/ Complete \/ GiveUp

Spec == Init /\ [][Next]_<<ledger, sent, out>>
================================================================================
