------------------------------- MODULE FrontEnd -------------------------------
(***************************************************************************)
(* FrontEndService: the HTTP requests of a client's transaction, the       *)
(* commands they are turned into and the answers that are made of the      *)
(* engine's. The client sends one request at a time, and the engine is     *)
(* external: it refuses a request, or takes it and calls back. Metrics are *)
(* left out. The indices of the budgets in a request count from 1.         *)
(***************************************************************************)
EXTENDS BeginTransactionBody, FiniteSets

LOCAL INSTANCE SequencesExt

CONSTANTS
    FeDomain,    \* the domain that the request was authorized for
    FeHeaders,   \* bound: the headers of the requests
    FeBodies,    \* bound: the bodies of the begin requests
    FePerDay     \* the values of kEnableBatchBudgetCommandsPerDayConfigName

VARIABLES
    feConfig,    \* what Init has read, and whether the service is up
    feTxn,       \* the commands of the transaction, in the engine
    feAsked,     \* ghost: the number of budgets in its request
    feHttp,      \* the request that is being served
    feAnswer     \* the answer to the last request

feVars == <<feConfig, feTxn, feAsked, feHttp, feAnswer>>

FePhases == {"PREPARE", "COMMIT", "NOTIFY", "ABORT", "END"}

\* A command consumes the budgets with these indices. short: those it has
\* found to be insufficient. A command that was read back from the journal has
\* no value for that yet.
FeCommand(indices) == [budgets |-> indices, short |-> {}, unset |-> FALSE]

FeNoAnswer == [result |-> "none", indices |-> <<>>, failed |-> {}]

FeIdle == [op |-> "none", pc |-> "idle"]

FeTypeOK ==
    /\ feConfig \in [running : BOOLEAN, per_day : BOOLEAN, disallow : BOOLEAN]
    /\ feAsked \in Nat
    /\ \A c \in DOMAIN feTxn : feTxn[c].short \subseteq ToSet(feTxn[c].budgets)
    /\ feHttp \in [op : FePhases \cup {"none", "BEGIN", "STATUS", "LOCAL"},
                   pc : {"idle", "transaction", "phase", "status"}]
    /\ feAnswer.result \in {"none", "Success", "Refused", "Failure", "Retry"}
    /\ feAnswer.failed \subseteq DOMAIN feTxn

FeInit ==
    /\ feConfig = [running |-> FALSE, per_day |-> FALSE, disallow |-> FALSE]
    /\ feTxn = <<>>
    /\ feAsked = 0
    /\ feHttp = FeIdle
    /\ feAnswer = FeNoAnswer

-----------------------------------------------------------------------------
(* Commands.                                                                *)

GenerateConsumeBudgetCommands(budgets) == [i \in DOMAIN budgets |-> FeCommand(<<i>>)]

\* The keys of the two maps, in their order.
FeGroups(budgets) ==
    SetToSortSeq({<<budgets[i].name, budgets[i].day>> : i \in DOMAIN budgets},
                 LAMBDA g, h : \/ g[1][1] < h[1][1]
                               \/ g[1][1] = h[1][1] /\ g[1][2] < h[1][2]
                               \/ g[1] = h[1] /\ g[2] < h[2])

\* Mutant: the commands are grouped by their key alone.
GroupPerKey(budgets, group) ==
    SetToSortSeq({i \in DOMAIN budgets : budgets[i].name = group[1]},
                 LAMBDA i, j : budgets[i].hour < budgets[j].hour)

\* The budgets of a group in a set that is ordered by their times: of two with
\* the same time, it takes the first.
FeGroup(budgets, group) ==
    LET belongs == {i \in DOMAIN budgets : <<budgets[i].name, budgets[i].day>> = group} IN
    SetToSortSeq({i \in belongs : \A j \in belongs : j < i => budgets[j].hour # budgets[i].hour},
                 LAMBDA i, j : budgets[i].hour < budgets[j].hour)

GenerateConsumeBudgetCommandsWithBatchesPerDay(budgets) ==
    LET groups == FeGroups(budgets) IN
    [g \in DOMAIN groups |-> FeCommand(FeGroup(budgets, groups[g]))]

FeCommands(budgets) ==
    IF feConfig.per_day THEN GenerateConsumeBudgetCommandsWithBatchesPerDay(budgets)
    ELSE GenerateConsumeBudgetCommands(budgets)

IsBatch(command) == Len(command.budgets) > 1

-----------------------------------------------------------------------------
(* Answers.                                                                 *)

HasBatchCommand(commands, failed) == \E c \in failed : IsBatch(commands[c])

\* Reading the flag of a command that has none gives either value.
ShortOf(command) ==
    IF command.unset THEN {{}, ToSet(command.budgets)} ELSE {command.short}

\* Mutant: the positions of the commands, where the request's were meant.
CommandPositions(commands, failed) == {SetToSortSeq(failed, <)}

\* The insufficient budgets of the failed commands, by their indices in the
\* request.
PopulateInsufficientBudgets(commands, failed) ==
    {SetToSortSeq(UNION {pick[c] : c \in failed}, <) :
        pick \in {p \in [failed -> SUBSET UNION {ToSet(commands[c].budgets) : c \in failed}] :
                    \A c \in failed : p[c] \in ShortOf(commands[c])}}

\* SerializeTransactionFailedCommandIndicesResponse: the lists that may be sent.
FailedIndices(commands, failed) ==
    IF HasBatchCommand(commands, failed)
    THEN PopulateInsufficientBudgets(commands, failed)
    ELSE {SetToSortSeq(failed, <)}

FeFinish(result, indices, failed) ==
    /\ feAnswer' = [result |-> result, indices |-> indices, failed |-> failed]
    /\ feHttp' = FeIdle

\* The handler returns a failure and the HTTP server answers with it.
FeRefuse == FeFinish("Refused", <<>>, {})

-----------------------------------------------------------------------------
(* The handlers.                                                            *)

FeServing == feConfig.running /\ feHttp.pc = "idle"

\* Init and Run. Without the identity of the peer the service does not start.
FeStart ==
    /\ ~feConfig.running
    /\ \E per_day \in FePerDay, disallow \in BOOLEAN :
          feConfig' = [running |-> TRUE, per_day |-> per_day, disallow |-> disallow]
    /\ UNCHANGED <<feTxn, feAsked, feHttp, feAnswer>>

\* TransactionRequestRouterForPartition::Execute: the partition of the origin
\* gives the request to its engine. (Where there is none, or the engine does not
\* take it, the handler returns the failure: FeRefuse.)
RouterExecute(op, pc) ==
    /\ feHttp' = [op |-> op, pc |-> pc]
    /\ feAnswer' = FeNoAnswer

ExecuteTransactionPhase(op) == RouterExecute(op, "phase")

FeBegin(headers, body) ==
    LET parsed == ParseBeginTransactionRequestBody(FeDomain, ObtainTransactionOrigin(headers, FeDomain), body)
        valid == /\ ~feConfig.disallow
                 /\ ExtractTransactionId(headers) /\ ExtractTransactionSecret(headers)
                 /\ parsed.error = "Success" /\ parsed.budgets # <<>>
    IN /\ FeServing /\ feTxn = <<>>
       /\ \/ FeRefuse /\ UNCHANGED <<feTxn, feAsked>>
          \/ /\ valid
             /\ feTxn' = FeCommands(parsed.budgets)
             /\ feAsked' = Len(parsed.budgets)
             /\ RouterExecute("BEGIN", "transaction")
       /\ UNCHANGED feConfig


\* The transaction is initialised, and the Begin phase follows on the same
\* HTTP request.
FeOnTransactionCallback ==
    /\ feHttp.pc = "transaction"
    /\ \/ FeFinish("Failure", <<>>, {}) \/ FeFinish("Retry", <<>>, {})
       \/ ExecuteTransactionPhase("BEGIN")
    /\ UNCHANGED <<feConfig, feTxn, feAsked>>

\* A request for a phase of the transaction.
FePhase(op, headers) ==
    /\ FeServing /\ feTxn # <<>>
    /\ \/ FeRefuse
       \/ PhaseHeaders(headers) /\ ExecuteTransactionPhase(op)
    /\ UNCHANGED <<feConfig, feTxn, feAsked>>

FePrepareTransaction(headers) == FePhase("PREPARE", headers)

FeCommitTransaction(headers) == FePhase("COMMIT", headers)

FeNotifyTransaction(headers) == FePhase("NOTIFY", headers)

FeAbortTransaction(headers) == FePhase("ABORT", headers)

FeEndTransaction(headers) == FePhase("END", headers)

\* A command was executed in a phase, and found these budgets insufficient. A
\* batch that found none keeps what it found before.
SetFailedInsufficientBudgetConsumptions(command, op, short) ==
    IF op \notin {"PREPARE", "COMMIT"} \/ (IsBatch(command) /\ short = {}) THEN command
    ELSE [command EXCEPT !.short = short, !.unset = FALSE]

\* A command that has failed found some of its budgets insufficient, or could
\* not be executed, or not reach its budget key.
FailedCommand(command, op) ==
    {command} \cup {SetFailedInsufficientBudgetConsumptions(command, op, short) :
                       short \in SUBSET ToSet(command.budgets)}

\* The commands after a phase that these have failed in.
AfterPhase(op, failed) ==
    LET outcomes(c) == IF c \in failed THEN FailedCommand(feTxn[c], op)
                       ELSE {SetFailedInsufficientBudgetConsumptions(feTxn[c], op, {})}
    IN {t \in [DOMAIN feTxn -> UNION {outcomes(c) : c \in DOMAIN feTxn}] :
          \A c \in DOMAIN feTxn : t[c] \in outcomes(c)}

OnExecuteTransactionPhaseCallback ==
    /\ feHttp.pc = "phase"
    /\ \/ UNCHANGED feTxn /\ (FeFinish("Retry", <<>>, {}) \/ FeFinish("Failure", <<>>, {}))
       \/ feTxn' \in AfterPhase(feHttp.op, {}) /\ FeFinish("Success", <<>>, {})
       \/ \E failed \in SUBSET DOMAIN feTxn \ {{}} :
            /\ feHttp.op # "BEGIN"
            /\ feTxn' \in AfterPhase(feHttp.op, failed)
            /\ \E indices \in FailedIndices(feTxn', failed) : FeFinish("Failure", indices, failed)
    /\ UNCHANGED <<feConfig, feAsked>>

FeGetTransactionStatus(headers) ==
    /\ FeServing /\ feTxn # <<>>
    /\ \/ FeRefuse
       \/ /\ ExtractTransactionId(headers) /\ ExtractTransactionSecret(headers)
          /\ RouterExecute("STATUS", "status")
    /\ UNCHANGED <<feConfig, feTxn, feAsked>>

OnGetTransactionStatusCallback ==
    /\ feHttp.pc = "status"
    /\ \E result \in {"Success", "Failure", "Retry"} : FeFinish(result, <<>>, {})
    /\ UNCHANGED <<feConfig, feTxn, feAsked>>

\* Answered on the spot, with the number of pending transactions.
FeGetServiceStatus ==
    /\ FeServing
    /\ \E result \in {"Success", "Refused"} : FeFinish(result, <<>>, {})
    /\ UNCHANGED <<feConfig, feTxn, feAsked>>

\* A transaction of the server's own, which the engine takes through all its
\* phases.
ExecuteConsumeBudgetTransaction(n) ==
    /\ FeServing /\ feTxn = <<>>
    /\ \/ FeRefuse
       \/ n > 0 /\ RouterExecute("LOCAL", "status")
    /\ UNCHANGED <<feConfig, feTxn, feAsked>>

\* The server is restarted: the request is lost, the commands come back.
FeRestart ==
    /\ feConfig.running
    /\ feConfig' = [feConfig EXCEPT !.running = FALSE]
    /\ feTxn' = [c \in DOMAIN feTxn |-> [feTxn[c] EXCEPT !.short = {}, !.unset = ~IsBatch(feTxn[c])]]
    /\ feHttp' = FeIdle
    /\ feAnswer' = FeNoAnswer
    /\ UNCHANGED feAsked

FeCallback ==
    FeOnTransactionCallback \/ OnExecuteTransactionPhaseCallback \/ OnGetTransactionStatusCallback

FeNext ==
    \/ FeStart
    \/ \E headers \in FeHeaders :
         \/ \E body \in FeBodies : FeBegin(headers, body)
         \/ FePrepareTransaction(headers) \/ FeCommitTransaction(headers)
         \/ FeNotifyTransaction(headers) \/ FeAbortTransaction(headers)
         \/ FeEndTransaction(headers)
         \/ FeGetTransactionStatus(headers)
    \/ FeCallback
    \/ FeGetServiceStatus
    \/ \E n \in 0..1 : ExecuteConsumeBudgetTransaction(n)
    \/ FeRestart

FeSpec == FeInit /\ [][FeNext]_feVars /\ WF_feVars(FeCallback)

-----------------------------------------------------------------------------
(* Properties.                                                              *)

\* Every budget of an accepted request is in exactly one command, whether or
\* not the commands are batched by day: none is consumed twice, and none is
\* lost when two of them share a time (front_end_service.cc:377, where a set
\* ordered by time takes the budgets of a day).
EveryBudgetOnce ==
    LET commands == DOMAIN feTxn
        all == UNION {ToSet(feTxn[c].budgets) : c \in commands}
    IN /\ all = 1..feAsked
       /\ \A c \in commands : Cardinality(ToSet(feTxn[c].budgets)) = Len(feTxn[c].budgets)
       /\ \A c, d \in commands :
             c # d => ToSet(feTxn[c].budgets) \cap ToSet(feTxn[d].budgets) = {}

\* The budgets that a failed phase is answered with.
IndicesOf(answer) == ToSet(answer.indices)

\* The indices that the client is told are indices of its request, and belong
\* to commands that have failed, where the commands are the budgets of the
\* request one by one or a batch is among the failed ones
\* (front_end_service.cc:1096).
IndicesNameFailedBudgets ==
    (\A c \in DOMAIN feTxn : feTxn[c].budgets = <<c>>) \/ HasBatchCommand(feTxn, feAnswer.failed)
        => IndicesOf(feAnswer) \subseteq UNION {ToSet(feTxn[c].budgets) : c \in feAnswer.failed}

\* A request that the engine has taken is answered, or lost in a restart.
FeAnswered == feHttp.pc # "idle" ~> feHttp.pc = "idle"

=============================================================================
