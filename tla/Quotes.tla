------------------------------- MODULE Quotes -------------------------------
(* What the SDK computes about money before it builds a transaction: the      *)
(* budget for gas within a payment that also covers the priority fee          *)
(* (src/sdk/src/types/tap.rs), the check of it before an execution is         *)
(* started, and what a leader gets out of the vault of priority fees.         *)
EXTENDS Integers

CONSTANTS
    MaxWord,      \* the largest u64
    Budgets,      \* the payments that are asked about
    Percentages,  \* the priorities that are asked about
    Amounts       \* the balances and shares of the vaults that are asked about

Omitted == -1
DEFAULT_PRIORITY_FEE_PERCENTAGE == 20
MIN_PRIORITY_FEE_PERCENTAGE == 10
MAX_PRIORITY_FEE_PERCENTAGE == 10000

ASSUME QuotesAssumption ==
    /\ MaxWord \in Nat /\ MaxWord >= MAX_PRIORITY_FEE_PERCENTAGE
    /\ Budgets \subseteq 0..MaxWord
    /\ Percentages \subseteq {Omitted} \cup 0..MaxWord
    /\ Amounts \subseteq 0..MaxWord

VARIABLES
    asked, \* the question
    quote  \* the answer

quoteVars == <<asked, quote>>

NoQuestion == [about |-> "nothing"]
Error == [ok |-> FALSE]

BudgetQuestions ==
    [about : {"budget"}, max : Budgets, percentage : Percentages, gas : {Omitted} \cup Budgets]
PaymentQuestions ==
    [about : {"payment"}, max : Budgets, percentage : Percentages, gas : {Omitted}]
VaultQuestions ==
    [about : {"withdrawal"}, sui : Amounts, us : Amounts, total : Amounts,
     held : Amounts, share : Amounts]
Questions == BudgetQuestions \cup PaymentQuestions \cup VaultQuestions
-----------------------------------------------------------------------------
Valid(percentage) ==
    percentage = Omitted \/
    percentage \in MIN_PRIORITY_FEE_PERCENTAGE..MAX_PRIORITY_FEE_PERCENTAGE

effective_priority_fee_percentage(percentage) ==
    IF percentage = Omitted THEN DEFAULT_PRIORITY_FEE_PERCENTAGE ELSE percentage

(* Twice as wide as the operands, so only the result can be too large.        *)
priority_fee_mist_for_gas_budget(gas, percentage) == (gas * percentage) \div 100

(* Mutant of the next: the quotient is rounded down without its carry.        *)
GasBudgetWithoutCarry(max, percentage) == (100 * max) \div (100 + percentage)

gas_budget_mist_for_max_budget_mist(max, percentage) ==
    (100 * max + 99) \div (100 + percentage)

Reserve(gas, percentage) == gas + priority_fee_mist_for_gas_budget(gas, percentage)

GasOf(q) ==
    IF q.gas # Omitted THEN q.gas
    ELSE gas_budget_mist_for_max_budget_mist(q.max, effective_priority_fee_percentage(q.percentage))

quote_priority_payment_budget(q) ==
    LET gas == GasOf(q)
        fee == priority_fee_mist_for_gas_budget(gas, effective_priority_fee_percentage(q.percentage))
    IN IF ~Valid(q.percentage) \/ gas > MaxWord \/ fee > MaxWord \/ gas + fee > MaxWord
          \/ gas + fee > q.max
       THEN Error
       ELSE [ok |-> TRUE, gas |-> gas, reserved |-> gas + fee]

(* An execution is only started with gas to run on.                           *)
resolve_agent_dag_payment_budget(q) ==
    LET priced == quote_priority_payment_budget(q)
    IN IF priced.ok /\ priced.gas = 0 THEN Error ELSE priced
-----------------------------------------------------------------------------
(* A leader may withdraw up to its own share of all shares, once the vault    *)
(* has turned its SUI into US; the last share takes what is left.             *)
quote_withdrawal(v) ==
    LET part == IF v.share = v.total THEN v.us ELSE (v.us * v.share) \div v.total
    IN IF \/ v.sui # 0 \/ v.us = 0 \/ v.total = 0 \/ v.share = 0 \/ v.share > v.total
          \/ part = 0 \/ part > v.us
       THEN Error
       ELSE [ok |-> TRUE, out |-> part, refunded |-> v.us - part]

quote_leader_withdrawal(v) ==
    IF v.share > v.held THEN Error ELSE quote_withdrawal(v)
-----------------------------------------------------------------------------
AnswerTo(q) ==
    CASE q.about = "budget" -> quote_priority_payment_budget(q)
      [] q.about = "payment" -> resolve_agent_dag_payment_budget(q)
      [] q.about = "withdrawal" -> quote_leader_withdrawal(q)

QuoteInit == asked = NoQuestion /\ quote = Error

AskBudget == asked = NoQuestion /\ asked' \in BudgetQuestions \cup PaymentQuestions /\ quote' = AnswerTo(asked')
AskVault == asked = NoQuestion /\ asked' \in VaultQuestions /\ quote' = AnswerTo(asked')
TakeQuote == asked # NoQuestion /\ asked' = NoQuestion /\ quote' = Error

QuoteNext == AskBudget \/ AskVault \/ TakeQuote

-----------------------------------------------------------------------------
QuoteTypeOK ==
    /\ asked \in {NoQuestion} \cup Questions
    /\ quote.ok \in BOOLEAN

(* A budget that is quoted fits the payment with its priority fee, and one    *)
(* that is derived is the largest that fits: one more MIST of gas would not.  *)
(* Only a priority outside its range or a given budget that does not fit is   *)
(* refused, whatever comes close to the width of the numbers; and an          *)
(* execution also when the payment does not cover one MIST of gas.            *)
BudgetMaximal ==
    asked.about \in {"budget", "payment"} =>
        LET p == effective_priority_fee_percentage(asked.percentage)
        IN IF quote.ok
           THEN /\ Valid(asked.percentage)
                /\ quote.reserved = Reserve(quote.gas, p) /\ quote.reserved <= asked.max
                /\ asked.gas # Omitted => quote.gas = asked.gas
                /\ asked.gas = Omitted => Reserve(quote.gas + 1, p) > asked.max
           ELSE \/ ~Valid(asked.percentage)
                \/ asked.gas # Omitted /\ Reserve(asked.gas, p) > asked.max
                \/ asked.about = "payment" /\ Reserve(1, p) > asked.max

(* A withdrawal takes no more than the part of the share, leaves something to *)
(* the others as long as they have shares, and loses nothing.                 *)
WithdrawalFair ==
    asked.about = "withdrawal" /\ quote.ok =>
        /\ asked.share <= asked.held
        /\ quote.out + quote.refunded = asked.us
        /\ quote.out * asked.total <= asked.us * asked.share
        /\ quote.refunded > 0 <=> asked.share < asked.total

QuotesExact == BudgetMaximal /\ WithdrawalFair
=============================================================================
