------------------------------ MODULE BalanceGas ------------------------------
(* Submissions that pay for gas from the balance of the sender's address:     *)
(* src/sdk/src/nexus/address_balance.rs and that branch of submit_transaction *)
(* in src/sdk/src/nexus/client.rs, with the clients that are built for it.    *)
(* No gas coin makes two transactions different, only a nonce does, which is  *)
(* taken from a counter that starts anew with every process.                  *)
EXTENDS Naturals

CONSTANTS
    Submitters, \* the callers of submit_transaction, each through its client
    Contents,   \* what is submitted: the same may be submitted twice
    MaxNonce,   \* the largest u32, which is never given out
    MaxEpoch    \* bound on the epochs

ASSUME BalanceGasAssumption == MaxNonce \in Nat /\ MaxEpoch \in Nat

VARIABLES
    gasEpoch,   \* the epoch of the chain
    nonces,     \* the counter of each process
    balanceCall, \* the call of each submitter
    pending,    \* transactions that were sent and may be executed
    effective,  \* transactions that were executed
    credited,   \* history: the transactions each counter's submissions were told executed
    doubled     \* history: was one of them told so twice?

balanceVars == <<gasEpoch, nonces, balanceCall, pending, effective, credited, doubled>>

Counters == {"first", "second"}

(* A client is built from its parts; gas comes from coins or from the address,*)
(* never from both.                                                           *)
ClientParts == [complete : BOOLEAN, coins : BOOLEAN, budget : BOOLEAN, balance : BOOLEAN]
GasSourceOf(parts) ==
    LET coinGas == parts.coins \/ parts.budget
    IN CASE ~parts.complete -> "error"
         [] parts.complete /\ coinGas /\ (parts.balance \/ ~parts.coins \/ ~parts.budget) -> "error"
         [] parts.complete /\ coinGas /\ ~parts.balance /\ parts.coins /\ parts.budget -> "coins"
         [] parts.complete /\ ~coinGas /\ parts.balance -> "balance"
         [] parts.complete /\ ~coinGas /\ ~parts.balance -> "error"

NoSubmission == [step |-> "idle"]

BalanceInit ==
    /\ gasEpoch = 0 /\ nonces = [a \in Counters |-> 0]
    /\ balanceCall = [c \in Submitters |-> NoSubmission]
    /\ pending = {} /\ effective = {}
    /\ credited = [a \in Counters |-> {}] /\ doubled = FALSE
-----------------------------------------------------------------------------
SubmissionAt(c, step) == balanceCall[c].step = step
Sets(c, record) == balanceCall' = [balanceCall EXCEPT ![c] = record]
SubmissionEnds(c) == Sets(c, NoSubmission)
SameHistory == UNCHANGED <<credited, doubled>>
SameLedger == UNCHANGED <<gasEpoch, pending, effective>>

BeginSubmission(c, counter, content, parts) ==
    /\ SubmissionAt(c, "idle") /\ GasSourceOf(parts) = "balance"
    /\ Sets(c, [step |-> "context", counter |-> counter, content |-> content])
    /\ SameLedger /\ SameHistory /\ UNCHANGED nonces

(* fetch_submission_context asks the node for its latest epoch, which may be  *)
(* the one before.                                                            *)
FetchContext(c, epoch) ==
    /\ SubmissionAt(c, "context") /\ epoch \in {gasEpoch, gasEpoch - 1} \cap Nat
    /\ Sets(c, [step |-> "nonce", counter |-> balanceCall[c].counter,
                content |-> balanceCall[c].content, epoch |-> epoch])
    /\ SameLedger /\ SameHistory /\ UNCHANGED nonces

(* Mutant of AfterNonce: the counter is read and not moved on.                *)
SameNonce(n) == n

AfterNonce(n) == n + 1

TransactionOf(c) ==
    [content |-> balanceCall[c].content, epoch |-> balanceCall[c].epoch,
     nonce |-> nonces[balanceCall[c].counter]]

(* One atomic step; the counter stops at its end.                             *)
AllocateNonce(c) ==
    /\ SubmissionAt(c, "nonce")
    /\ LET counter == balanceCall[c].counter
       IN IF nonces[counter] = MaxNonce
          THEN SubmissionEnds(c) /\ UNCHANGED <<nonces, pending>>
          ELSE /\ nonces' = [nonces EXCEPT ![counter] = AfterNonce(@)]
               /\ pending' = pending \cup {TransactionOf(c)}
               /\ Sets(c, [step |-> "sent", counter |-> counter, tx |-> TransactionOf(c)])
    /\ SameHistory /\ UNCHANGED <<gasEpoch, effective>>

(* The effects of a transaction that was executed, now or long ago.           *)
AnswerEffects(c) ==
    /\ SubmissionAt(c, "sent") /\ balanceCall[c].tx \in effective
    /\ LET a == balanceCall[c].counter
       IN /\ doubled' = (doubled \/ balanceCall[c].tx \in credited[a])
          /\ credited' = [credited EXCEPT ![a] = @ \cup {balanceCall[c].tx}]
    /\ SubmissionEnds(c)
    /\ SameLedger /\ UNCHANGED nonces

(* A request, the signature or the answer fails, or the checkpoint does not   *)
(* come in time; what was sent is not taken back.                             *)
SubmissionFails(c) ==
    /\ ~SubmissionAt(c, "idle")
    /\ SubmissionEnds(c)
    /\ SameLedger /\ SameHistory /\ UNCHANGED nonces
-----------------------------------------------------------------------------
(* The chain executes a transaction once, in its epoch or the next.           *)
ChainExecutes(tx) ==
    /\ tx \in pending \ effective /\ gasEpoch \in tx.epoch..tx.epoch + 1
    /\ effective' = effective \cup {tx}
    /\ SameHistory /\ UNCHANGED <<gasEpoch, nonces, balanceCall, pending>>

NextEpoch ==
    /\ gasEpoch < MaxEpoch /\ gasEpoch' = gasEpoch + 1
    /\ SameHistory /\ UNCHANGED <<nonces, balanceCall, pending, effective>>

BalanceNext ==
    \/ \E c \in Submitters :
         \/ /\ SubmissionAt(c, "idle")
            /\ \E counter \in Counters, content \in Contents, parts \in ClientParts :
                 BeginSubmission(c, counter, content, parts)
         \/ \E epoch \in 0..MaxEpoch : FetchContext(c, epoch)
         \/ AllocateNonce(c) \/ AnswerEffects(c) \/ SubmissionFails(c)
    \/ \E tx \in pending : ChainExecutes(tx)
    \/ NextEpoch

-----------------------------------------------------------------------------
Transactions == [content : Contents, epoch : 0..MaxEpoch, nonce : 0..MaxNonce - 1]
BalanceTypeOK ==
    /\ gasEpoch \in 0..MaxEpoch /\ nonces \in [Counters -> 0..MaxNonce]
    /\ pending \subseteq Transactions /\ effective \subseteq pending
    /\ credited \in [Counters -> SUBSET effective] /\ doubled \in BOOLEAN
    /\ \A c \in Submitters : ~SubmissionAt(c, "idle") => balanceCall[c].counter \in Counters

(* Whoever is told that its transaction was executed has one of its own: two  *)
(* submissions, of whatever content and however epochs and nonces are read in *)
(* between, share one only if their nonces come from two counters, as those   *)
(* of two clients or of two runs of a process do.                             *)
OneEffectEach == ~doubled
=============================================================================
