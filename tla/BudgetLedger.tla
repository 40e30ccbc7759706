----------------------------- MODULE BudgetLedger -----------------------------
(***************************************************************************)
(* What a service that consumes privacy budgets promises: a request is     *)
(* paid for whole or not at all, from accounts that are never overdrawn,   *)
(* and at most once. Its client is told Success only if it was paid for,   *)
(* and that it was denied only if it was not; it may be told neither.      *)
(***************************************************************************)
EXTENDS Naturals

CONSTANTS
    Payers,       \* the requests
    Accounts,     \* the accounts: the hours of the budget keys
    Opening       \* what is in an account at first

VARIABLES
    asked,        \* what each request asks of each account
    ledger,       \* what is left in each account
    paid,         \* the requests that were paid for
    verdict       \* what a client was told

ledgerVars == <<asked, ledger, paid, verdict>>

LedgerInit ==
    /\ asked = [p \in Payers |-> [a \in Accounts |-> 0]]
    /\ ledger = [a \in Accounts |-> Opening]
    /\ paid = {}
    /\ verdict = [p \in Payers |-> "none"]

Ask(p) ==
    /\ verdict[p] = "none" /\ asked[p] = [a \in Accounts |-> 0]
    /\ asked' \in [Payers -> [Accounts -> Nat]]
    /\ \A q \in Payers \ {p} : asked'[q] = asked[q]
    /\ UNCHANGED <<ledger, paid, verdict>>

Pay(p) ==
    /\ verdict[p] = "none" /\ p \notin paid
    /\ LET bill == asked[p] before == ledger
       IN /\ \A a \in Accounts : bill[a] <= before[a]
          /\ ledger' = [a \in Accounts |-> before[a] - bill[a]]
    /\ paid' = paid \cup {p}
    /\ UNCHANGED <<asked, verdict>>

Tell(p) ==
    /\ verdict[p] = "none"
    /\ \E told \in {"unknown", IF p \in paid THEN "Success" ELSE "denied"} :
          verdict' = [verdict EXCEPT ![p] = told]
    /\ UNCHANGED <<asked, ledger, paid>>

LedgerNext == \E p \in Payers : Ask(p) \/ Pay(p) \/ Tell(p)

LedgerSpec == LedgerInit /\ [][LedgerNext]_ledgerVars
================================================================================
