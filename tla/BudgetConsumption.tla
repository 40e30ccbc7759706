--------------------------- MODULE BudgetConsumption ---------------------------
(***************************************************************************)
(* FrontEndServiceV2 and BudgetConsumptionHelper: the whole transaction of *)
(* a client is its prepare request, which consumes the budgets in one      *)
(* Spanner transaction; the other phases are answered at once. The row of  *)
(* a key and a day holds the tokens left in each hour. Spanner is          *)
(* external: a transaction whose rows another one has written is aborted,  *)
(* and client.Commit then runs it again from its read; a commit may also   *)
(* fail, or take place and its answer be lost.                             *)
(***************************************************************************)
EXTENDS BeginTransactionBody, Functions

CONSTANTS
    CbClients,     \* the clients, that send a request each
    CbBodies,      \* bound: the bodies of their requests
    CbHeaders,     \* bound: the headers of the requests
    CbDomain,      \* the domain they are authorized for
    CbHours,       \* the hours of a day (24 in the code)
    CbBadRows,     \* rows whose value cannot be parsed
    CbMaxAborts    \* bound: the times a transaction is aborted

CbParsed(headers, body) ==
    ParseBeginTransactionRequestBody(CbDomain, ObtainTransactionOrigin(headers, CbDomain), body)

\* The budgets of a request that is not refused are a list, of whole tokens in
\* hours of a day.
CbWellFormed(budgets) ==
    /\ Len(budgets) \in Nat /\ DOMAIN budgets = 1..Len(budgets)
    /\ \A i \in DOMAIN budgets : budgets[i].hour \in CbHours /\ budgets[i].tokens \in Nat

ASSUME CbAssumption ==
    /\ CbMaxAborts \in Nat
    /\ \A headers \in CbHeaders, body \in CbBodies :
         CbParsed(headers, body).error = "Success" => CbWellFormed(CbParsed(headers, body).budgets)

VARIABLES
    cbRows,        \* the Spanner table: row -> hour -> tokens
    cbHttp,        \* the request of each client: its operation, state and budgets
    cbTxn,         \* the Spanner transaction of each: what it read, its mutations
    cbCaptured,    \* captured_execution_result and the exhausted indices
    cbAnswer,      \* the result of each prepare request
    cbTaken        \* ghost: how often the budgets of each request were consumed

cbVars == <<cbRows, cbHttp, cbTxn, cbCaptured, cbAnswer, cbTaken>>

kDefaultPrivacyBudgetCount == 1

CbRow(budget) == <<budget.name, budget.day>>
CbRowsOf(budgets) == {CbRow(budgets[i]) : i \in DOMAIN budgets}

ResetTokenCount == [h \in CbHours |-> kDefaultPrivacyBudgetCount]

CbResult(result, indices) == [result |-> result, indices |-> indices]
CbNoTxn == [read |-> <<>>, mutations |-> <<>>, aborts |-> 0]

CbTypeOK ==
    /\ \A row \in DOMAIN cbRows : cbRows[row] \in [CbHours -> 0..kDefaultPrivacyBudgetCount]
    /\ \A c \in CbClients :
         /\ cbHttp[c].pc \in {"new", "read", "commit", "finish", "done"}
         /\ cbTxn[c].aborts \in 0..CbMaxAborts
         /\ cbAnswer[c].result \in {"none", "Success", "Refused", "EXHAUSTED", "PARSING_ERROR",
                                    "FAIL_TO_COMMIT"}
         /\ cbTaken[c] \in 0..1

CbInit ==
    /\ cbRows = [row \in CbBadRows |-> ResetTokenCount]
    /\ cbHttp = [c \in CbClients |-> [op |-> "none", pc |-> "new", budgets |-> <<>>]]
    /\ cbTxn = [c \in CbClients |-> CbNoTxn]
    /\ cbCaptured = [c \in CbClients |-> CbResult("Success", <<>>)]
    /\ cbAnswer = [c \in CbClients |-> CbResult("none", <<>>)]
    /\ cbTaken = [c \in CbClients |-> 0]

-----------------------------------------------------------------------------
(* The transaction's function.                                              *)

\* A row that is not in the table yet has enough budget.
ValidatePbsMutations(budgets, mutations) ==
    {i \in DOMAIN budgets : /\ CbRow(budgets[i]) \in DOMAIN mutations
                            /\ mutations[CbRow(budgets[i])][budgets[i].hour] < budgets[i].tokens}

\* The exhausted indices, in the order of the budgets.
CbIndices(budgets, exhausted) ==
    SelectSeq([i \in 1..Len(budgets) |-> i], LAMBDA i : i \in exhausted)

\* The row of a budget, new if it was not in the table.
CbRowOrNew(mutations, row) == IF row \in DOMAIN mutations THEN mutations[row] ELSE ResetTokenCount

\* The tokens that the first n of the budgets ask of an hour of a row.
CbAsked(budgets, n, row, hour) ==
    SumFunction([i \in {j \in 1..n : CbRow(budgets[j]) = row /\ budgets[j].hour = hour} |->
                   budgets[i].tokens])

\* One budget after the other finds its tokens.
CbEnough(budgets, mutations) ==
    \A i \in DOMAIN budgets :
       CbAsked(budgets, i, CbRow(budgets[i]), budgets[i].hour)
          <= CbRowOrNew(mutations, CbRow(budgets[i]))[budgets[i].hour]

\* Mutant: a row takes only the first of the budgets asked of it.
ConsumesFirst(budgets, mutations) ==
    [row \in CbRowsOf(budgets) \cup DOMAIN mutations |->
       [h \in CbHours |-> CbRowOrNew(mutations, row)[h] - CbAsked(budgets, 1, row, h)]]

UpdatePbsMutationsToConsumeBudgets(budgets, mutations) ==
    [row \in CbRowsOf(budgets) \cup DOMAIN mutations |->
       [h \in CbHours |-> CbRowOrNew(mutations, row)[h]
                            - CbAsked(budgets, Len(budgets), row, h)]]

ReadPrivacyBudgetsForKeys(budgets) ==
    [row \in CbRowsOf(budgets) \cap DOMAIN cbRows |-> cbRows[row]]

\* CreatePbsMutations
CbUnreadable(read) == DOMAIN read \cap CbBadRows # {}

-----------------------------------------------------------------------------
(* The handlers and the tasks of the executors.                             *)

CbSetPc(c, pc) == cbHttp' = [cbHttp EXCEPT ![c].pc = pc]

\* The io executor may refuse the task, whose context is then not finished.
V2PrepareTransaction(c, headers, body) ==
    LET parsed == CbParsed(headers, body) IN
    /\ cbHttp[c].pc = "new"
    /\ \/ /\ cbAnswer' = [cbAnswer EXCEPT ![c] = CbResult("Refused", <<>>)]
          /\ cbHttp' = [cbHttp EXCEPT ![c] = [op |-> "PREPARE", pc |-> "done", budgets |-> <<>>]]
       \/ /\ PhaseHeaders(headers)
          /\ parsed.error = "Success" /\ parsed.budgets # <<>>
          /\ cbHttp' = [cbHttp EXCEPT ![c] =
                         [op |-> "PREPARE", pc |-> "read", budgets |-> parsed.budgets]]
          /\ UNCHANGED cbAnswer
    /\ UNCHANGED <<cbRows, cbTxn, cbCaptured, cbTaken>>

\* The other requests are answered at once.
V2Answer(c, op, ok) ==
    /\ cbHttp[c].pc = "new"
    /\ cbHttp' = [cbHttp EXCEPT ![c] = [op |-> op, pc |-> "done", budgets |-> <<>>]]
    /\ cbAnswer' = [cbAnswer EXCEPT ![c] = CbResult(IF ok THEN "Success" ELSE "Refused", <<>>)]
    /\ UNCHANGED <<cbRows, cbTxn, cbCaptured, cbTaken>>

V2BeginTransaction(c, headers) ==
    V2Answer(c, "BEGIN", ExtractTransactionId(headers) /\ ExtractTransactionSecret(headers))

V2CommitTransaction(c, headers) == V2Answer(c, "COMMIT", PhaseHeaders(headers))

V2NotifyTransaction(c, headers) == V2Answer(c, "NOTIFY", PhaseHeaders(headers))

V2AbortTransaction(c, headers) == V2Answer(c, "ABORT", PhaseHeaders(headers))

V2EndTransaction(c, headers) == V2Answer(c, "END", PhaseHeaders(headers))

\* No transaction has a status.
V2GetTransactionStatus(c) == V2Answer(c, "STATUS", FALSE)

\* client.Commit runs the function again when the transaction was aborted.
CbReruns(status) == status = "kAborted"

\* client.Commit has this status. When it gives up, what the function has
\* captured is the result, if it is a failure.
CbFails(c, status, captured) ==
    /\ cbCaptured' = [cbCaptured EXCEPT ![c] = captured]
    /\ \/ /\ CbReruns(status) /\ cbTxn[c].aborts < CbMaxAborts
          /\ cbTxn' = [cbTxn EXCEPT ![c] = [CbNoTxn EXCEPT !.aborts = cbTxn[c].aborts + 1]]
          /\ CbSetPc(c, "read")
          /\ UNCHANGED cbAnswer
       \/ /\ cbAnswer' = [cbAnswer EXCEPT ![c] = IF captured.result # "Success" THEN captured
                                                ELSE CbResult("FAIL_TO_COMMIT", <<>>)]
          /\ CbSetPc(c, "finish")
          /\ UNCHANGED cbTxn

\* The function of ConsumeBudgetsSync: it reads, checks the budgets and returns
\* the mutations, or the read or a check fails.
CbAttempt(c) ==
    LET budgets == cbHttp[c].budgets
        read == ReadPrivacyBudgetsForKeys(budgets)
        exhausted == ValidatePbsMutations(budgets, read)
        valid == ~CbUnreadable(read) /\ exhausted = {}
    IN /\ cbHttp[c].pc = "read"
       /\ \/ \E status \in {"kAborted", "other"} : CbFails(c, status, cbCaptured[c])
          \/ CbUnreadable(read) /\ CbFails(c, "kInvalidArgument", CbResult("PARSING_ERROR", <<>>))
          \/ /\ ~CbUnreadable(read) /\ exhausted # {}
             /\ CbFails(c, "kInvalidArgument", CbResult("EXHAUSTED", CbIndices(budgets, exhausted)))
          \/ /\ valid /\ ~CbEnough(budgets, read)
             /\ CbFails(c, "kInvalidArgument", CbResult("EXHAUSTED", cbCaptured[c].indices))
          \/ /\ valid /\ CbEnough(budgets, read)
             /\ cbTxn' = [cbTxn EXCEPT ![c].read = read,
                            ![c].mutations = UpdatePbsMutationsToConsumeBudgets(budgets, read)]
             /\ CbSetPc(c, "commit")
             /\ UNCHANGED <<cbCaptured, cbAnswer>>
       /\ UNCHANGED <<cbRows, cbTaken>>

\* What the transaction has read is what the table still holds.
CbSerial(c) == cbTxn[c].read = ReadPrivacyBudgetsForKeys(cbHttp[c].budgets)

CbWrite(c) ==
    /\ cbRows' = [row \in DOMAIN cbRows \cup DOMAIN cbTxn[c].mutations |->
                    IF row \in DOMAIN cbTxn[c].mutations THEN cbTxn[c].mutations[row]
                    ELSE cbRows[row]]
    /\ cbTaken' = [cbTaken EXCEPT ![c] = @ + 1]

\* The mutations are committed; the transaction is aborted, or fails; or it is
\* committed but the answer lost.
CbCommit(c) ==
    /\ cbHttp[c].pc = "commit"
    /\ \/ /\ CbSerial(c) /\ CbWrite(c)
          /\ \/ /\ cbAnswer' = [cbAnswer EXCEPT ![c] = CbResult("Success", <<>>)]
                /\ CbSetPc(c, "finish")
                /\ UNCHANGED <<cbTxn, cbCaptured>>
             \/ CbFails(c, "other", cbCaptured[c])
       \/ /\ \E status \in {"kAborted", "other"} : CbFails(c, status, cbCaptured[c])
          /\ UNCHANGED <<cbRows, cbTaken>>

\* OnConsumeBudgetCallback, on the async executor, or on the io executor's
\* thread if the former refuses the task.
CbOnConsumeBudgetCallback(c) ==
    /\ cbHttp[c].pc = "finish"
    /\ CbSetPc(c, "done")
    /\ UNCHANGED <<cbRows, cbTxn, cbCaptured, cbAnswer, cbTaken>>

CbStep(c) == CbAttempt(c) \/ CbCommit(c) \/ CbOnConsumeBudgetCallback(c)

CbNext ==
    \E c \in CbClients :
       \/ \E headers \in CbHeaders :
            \/ V2BeginTransaction(c, headers) \/ V2CommitTransaction(c, headers)
            \/ V2NotifyTransaction(c, headers) \/ V2AbortTransaction(c, headers)
            \/ V2EndTransaction(c, headers) \/ V2GetTransactionStatus(c)
            \/ \E body \in CbBodies : V2PrepareTransaction(c, headers, body)
       \/ CbStep(c)

CbSpec == CbInit /\ [][CbNext]_cbVars /\ \A c \in CbClients : WF_cbVars(CbStep(c))

-----------------------------------------------------------------------------
(* Properties.                                                              *)

\* The rows that the bodies are about.
CbAccounts ==
    (UNION {CbRowsOf(CbParsed(headers, body).budgets) :
              headers \in CbHeaders, body \in CbBodies}) \X CbHours

\* What the client of a prepare request is told once it is finished.
CbVerdict(c) ==
    LET told == cbHttp[c].op = "PREPARE" /\ cbHttp[c].pc = "done"
        result == cbAnswer[c].result
    IN CASE ~told -> "none"
         [] told /\ result = "Success" -> "Success"
         [] told /\ result = "FAIL_TO_COMMIT" -> "unknown"
         [] OTHER -> "denied"

\* The refinement mapping: what the requests ask, what is left in the hours, who
\* has paid, and what the clients were told.
CbBills ==
    [c \in CbClients |-> [a \in CbAccounts |->
       CbAsked(cbHttp[c].budgets, Len(cbHttp[c].budgets), a[1], a[2])]]
CbBalances == [a \in CbAccounts |-> CbRowOrNew(cbRows, a[1])[a[2]]]
CbPaid == {c \in CbClients : cbTaken[c] > 0}
CbVerdicts == [c \in CbClients |-> CbVerdict(c)]

Ledger == INSTANCE BudgetLedger WITH
    Payers <- CbClients,
    Accounts <- CbAccounts,
    Opening <- kDefaultPrivacyBudgetCount,
    asked <- CbBills,
    ledger <- CbBalances,
    paid <- CbPaid,
    verdict <- CbVerdicts

\* Prepare requests that run at the same time keep the promise of the ledger:
\* each is paid for whole or not at all, no hour is overdrawn, and its client
\* is told so; also when transactions are aborted and run again, and when a
\* commit's answer is lost (consume_budget.cc:441).
ConsumptionImplementsLedger == Ledger!LedgerSpec

\* The indices that a prepare request is answered with name budgets whose
\* hours have too few tokens left, even if the function ran several times
\* (consume_budget.cc:243).
CbIndicesAreExhausted ==
    \A c \in CbClients : \A i \in Range(cbAnswer[c].indices) :
       LET b == cbHttp[c].budgets[i] IN CbRowOrNew(cbRows, CbRow(b))[b.hour] < b.tokens

\* A prepare request is answered.
CbAnswered == \A c \in CbClients : cbHttp[c].pc # "new" ~> cbHttp[c].pc = "done"

=============================================================================
