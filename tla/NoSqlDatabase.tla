----------------------------- MODULE NoSqlDatabase -----------------------------
(***************************************************************************)
(* The clients of the cloud databases: Spanner and DynamoDB, once in core  *)
(* (GcpSpanner, AwsDynamoDB) and once in cpio (GcpSpannerClientProvider,   *)
(* AwsDynamoDBClientProvider). Calls read and upsert one row of a table;   *)
(* an upsert may be conditional on attributes of the row, which is what a  *)
(* lease on a lock is taken with. On Spanner an upsert is a transaction:   *)
(* the functor reads the row and builds a mutation, the commit applies it, *)
(* and an aborted transaction runs the functor again. The text of the SQL  *)
(* is left out, and of the types of the values only whether they convert.  *)
(***************************************************************************)
EXTENDS NoSqlRows, Naturals, FiniteSets

CONSTANTS
    NsCalls,          \* the calls made of the client
    NsProviders,      \* the clients to consider
    NsTables,         \* table_name_to_keys_: the key columns of the tables
    NsUpserts,        \* the upserts: table, key columns, typed, required, new
    NsGets,           \* the reads: the same without new
    NsCreates,        \* the tables to create
    NsMaxAborts       \* how often a transaction is aborted

VARIABLES
    nsProvider,       \* the client
    nsTable,          \* whether the table exists
    nsRow,            \* the row
    nsCall            \* each call: its context and the transaction it runs

nsVars == <<nsProvider, nsTable, nsRow, nsCall>>

NsIdle ==
    [pc |-> "idle", op |-> "none", required |-> << >>, new |-> << >>, seen |-> NsAbsent,
     prepared |-> NsAbsent, aborts |-> 0, result |-> "none", returned |-> "none", finishes |-> 0]

NsInit ==
    /\ nsProvider \in NsProviders
    /\ nsTable = TRUE
    /\ nsRow \in {NsAbsent, NsStored([version |-> 0])}
    /\ nsCall = [c \in NsCalls |-> NsIdle]

\* A call that is refused at once. The clients of cpio finish its context and
\* return the failure; those of core return the failure alone.
NsRefuse(c, op, finishes) ==
    /\ nsCall[c].pc = "idle"
    /\ nsCall' = [nsCall EXCEPT ![c] = [NsIdle EXCEPT
                      !.pc = "done", !.op = op, !.result = "Failure",
                      !.returned = "Failure", !.finishes = finishes]]
    /\ UNCHANGED <<nsProvider, nsTable, nsRow>>

\* A call whose request was built and handed to an executor or to the SDK.
NsSent(c, op, required, new) ==
    /\ nsCall[c].pc = "idle"
    /\ nsCall' = [nsCall EXCEPT ![c] = [NsIdle EXCEPT
                      !.pc = "sent", !.op = op, !.required = required, !.new = new,
                      !.returned = "Success"]]
    /\ UNCHANGED <<nsProvider, nsTable, nsRow>>

\* The handler on the executor has a result, and schedules the callback.
NsResult(c, result) == nsCall' = [nsCall EXCEPT ![c].pc = "result", ![c].result = result]

\* Mutant: finishes in place also when the executor accepted the callback.
NsFinishTwice(c) ==
    /\ nsCall[c].pc = "result"
    /\ nsCall' = [nsCall EXCEPT ![c].pc = "done", ![c].finishes = @ + 2]
    /\ UNCHANGED <<nsProvider, nsTable, nsRow>>

\* FinishContext: the callback runs on the executor or, if that refuses it, at
\* once on this thread.
NsFinishContext(c) ==
    /\ nsCall[c].pc = "result"
    /\ nsCall' = [nsCall EXCEPT ![c].pc = "done", ![c].finishes = @ + 1]
    /\ UNCHANGED <<nsProvider, nsTable, nsRow>>

(***************************************************************************)
(* Spanner.                                                                *)
(***************************************************************************)

\* The table is known, its partition key is the one named, and there is a sort
\* key exactly if the table has one.
CoreValidatePartitionAndSortKey(request) ==
    /\ request.table \in DOMAIN NsTables
    /\ request.partition = NsTables[request.table].partition
    /\ (request.sort # "") <=> (NsTables[request.table].sort # "")

CpioValidatePartitionAndSortKey(request) ==
    /\ request.table \in DOMAIN NsTables
    /\ request.partition = NsTables[request.table].partition
    /\ IF NsTables[request.table].sort = "" THEN request.sort = "" ELSE request.sort # ""

\* The values of the key and of the required attributes convert to Spanner's.
CoreBuildUpsertSelectOptions(request) == request.typed

CpioBuildUpsertSelectOptions(request) == request.typed

\* A table needs a name, and its key columns names and types.
ValidateCreateTableRequest(request) ==
    request.table # "" /\ request.partition # "" /\ request.typed

\* The clients of core return the failure of a request that is not valid, and
\* finish it only if the executor refuses it.
CoreSpannerGetDatabaseItem(c, request) ==
    LET valid == CoreValidatePartitionAndSortKey(request) /\ request.typed IN
    /\ nsProvider = "GcpSpanner"
    /\ \/ ~valid /\ NsRefuse(c, "get", 0)
       \/ valid /\ NsRefuse(c, "get", 1)
       \/ valid /\ NsSent(c, "get", request.required, << >>)

CoreSpannerUpsertDatabaseItem(c, request) ==
    LET valid == /\ CoreValidatePartitionAndSortKey(request)
                 /\ CoreBuildUpsertSelectOptions(request)
    IN
    /\ nsProvider = "GcpSpanner"
    /\ \/ ~valid /\ NsRefuse(c, "upsert", 0)
       \/ valid /\ NsRefuse(c, "upsert", 1)
       \/ valid /\ NsSent(c, "upsert", request.required, request.new)

\* Those of cpio finish every call that they refuse.
CpioSpannerGetDatabaseItem(c, request) ==
    /\ nsProvider = "GcpSpannerClientProvider"
    /\ \/ NsRefuse(c, "get", 1)
       \/ /\ CpioValidatePartitionAndSortKey(request) /\ request.typed
          /\ NsSent(c, "get", request.required, << >>)

CpioSpannerUpsertDatabaseItem(c, request) ==
    /\ nsProvider = "GcpSpannerClientProvider"
    /\ \/ NsRefuse(c, "upsert", 1)
       \/ /\ CpioValidatePartitionAndSortKey(request) /\ CpioBuildUpsertSelectOptions(request)
          /\ NsSent(c, "upsert", request.required, request.new)

CpioCreateTable(c, request) ==
    /\ nsProvider = "GcpSpannerClientProvider"
    /\ \/ NsRefuse(c, "create", 1)
       \/ ValidateCreateTableRequest(request) /\ NsSent(c, "create", << >>, << >>)

CpioDeleteTable(c, table) ==
    /\ nsProvider = "GcpSpannerClientProvider"
    /\ \/ NsRefuse(c, "delete", 1)
       \/ table # "" /\ NsSent(c, "delete", << >>, << >>)

\* The table is created once; a statement that the database refuses, or that
\* is not answered, is an error.
CreateTableAsync(c) ==
    /\ nsCall[c].pc = "sent" /\ nsCall[c].op = "create"
    /\ \/ ~nsTable /\ nsTable' = TRUE /\ nsRow' = NsAbsent /\ NsResult(c, "Success")
       \/ UNCHANGED <<nsTable, nsRow>> /\ NsResult(c, "Failure")
    /\ UNCHANGED nsProvider

DeleteTableAsync(c) ==
    /\ nsCall[c].pc = "sent" /\ nsCall[c].op = "delete"
    /\ \/ nsTable /\ nsTable' = FALSE /\ nsRow' = NsAbsent /\ NsResult(c, "Success")
       \/ UNCHANGED <<nsTable, nsRow>> /\ NsResult(c, "Failure")
    /\ UNCHANGED nsProvider

\* A query that fails for good, or may be tried again.
ConvertCloudSpannerErrorToExecutionResult == {"RETRIABLE_ERROR", "UNRETRIABLE_ERROR"}

NsIs(c, provider, pc, op) ==
    nsProvider = provider /\ nsCall[c].pc = pc /\ nsCall[c].op = op

SpannerRead(c) ==
    /\ \/ nsTable /\ NsResult(c, NsReadResult(nsRow, nsCall[c].required))
       \/ \E error \in ConvertCloudSpannerErrorToExecutionResult : NsResult(c, error)
    /\ UNCHANGED <<nsProvider, nsTable, nsRow>>

CoreSpannerGetDatabaseItemAsync(c) == NsIs(c, "GcpSpanner", "sent", "get") /\ SpannerRead(c)

CpioSpannerGetDatabaseItemAsync(c) ==
    NsIs(c, "GcpSpannerClientProvider", "sent", "get") /\ SpannerRead(c)

\* The functor has read the row, and prepared what the commit is to write.
Prepared(c, merged) ==
    /\ nsTable
    /\ nsCall' = [nsCall EXCEPT ![c].pc = "commit", ![c].seen = nsRow,
                                ![c].prepared = merged.row, ![c].result = merged.result]
    /\ UNCHANGED <<nsProvider, nsTable, nsRow>>

\* Mutant: without the clauses of the required attributes.
FunctorIgnoresRequired(c) ==
    /\ NsIs(c, "GcpSpanner", "sent", "upsert")
    /\ Prepared(c, GetMergedJson(nsRow, << >>, nsCall[c].new))

CoreUpsertFunctor(c) ==
    /\ NsIs(c, "GcpSpanner", "sent", "upsert")
    /\ Prepared(c, CoreGetMergedJson(nsRow, nsCall[c].required, nsCall[c].new))

CpioUpsertFunctor(c) ==
    /\ NsIs(c, "GcpSpannerClientProvider", "sent", "upsert")
    /\ Prepared(c, GetMergedJson(nsRow, nsCall[c].required, nsCall[c].new))

\* The database commits a transaction whose reads still hold, and aborts it
\* otherwise; then the functor runs again, until the rerun policy gives up. A
\* commit that fails may or may not have been applied. It may fail before the
\* functor has run.
SpannerCommits(c) ==
    LET call == nsCall[c] IN
    /\ \/ /\ call.pc = "commit" /\ nsTable /\ call.seen = nsRow
          /\ nsRow' = call.prepared
          /\ \/ NsResult(c, call.result)
             \/ call.result = "Success" /\ NsResult(c, "RETRIABLE_ERROR")
       \/ /\ call.pc = "commit" /\ nsTable /\ call.aborts < NsMaxAborts
          /\ nsCall' = [nsCall EXCEPT ![c].pc = "sent", ![c].aborts = @ + 1, ![c].result = "none"]
          /\ UNCHANGED nsRow
       \/ /\ NsResult(c, IF call.result \in {"none", "Success"} THEN "RETRIABLE_ERROR"
                         ELSE call.result)
          /\ UNCHANGED nsRow
    /\ UNCHANGED <<nsProvider, nsTable>>

\* A failure of the functor is the result, whatever became of the commit.
CoreUpsertDatabaseItemAsync(c) ==
    \E pc \in {"sent", "commit"} : NsIs(c, "GcpSpanner", pc, "upsert") /\ SpannerCommits(c)

CpioUpsertDatabaseItemAsync(c) ==
    \E pc \in {"sent", "commit"} :
        NsIs(c, "GcpSpannerClientProvider", pc, "upsert") /\ SpannerCommits(c)

(***************************************************************************)
(* DynamoDB.                                                               *)
(***************************************************************************)

\* The values of the key convert to DynamoDB's.
GetPartitionAndSortKeyValues(request) == request.typed

CoreDynamoGetDatabaseItem(c, request) ==
    /\ nsProvider = "AwsDynamoDB"
    /\ \/ ~request.typed /\ NsRefuse(c, "get", 0)
       \/ request.typed /\ NsSent(c, "get", request.required, << >>)

CoreDynamoUpsertDatabaseItem(c, request) ==
    /\ nsProvider = "AwsDynamoDB"
    /\ \/ ~request.typed /\ NsRefuse(c, "upsert", 0)
       \/ request.typed /\ NsSent(c, "upsert", request.required, request.new)

CpioDynamoGetDatabaseItem(c, request) ==
    /\ nsProvider = "AwsDynamoDBClientProvider"
    /\ \/ ~GetPartitionAndSortKeyValues(request) /\ NsRefuse(c, "get", 1)
       \/ GetPartitionAndSortKeyValues(request) /\ NsSent(c, "get", request.required, << >>)

CpioDynamoUpsertDatabaseItem(c, request) ==
    /\ nsProvider = "AwsDynamoDBClientProvider"
    /\ \/ ~GetPartitionAndSortKeyValues(request) /\ NsRefuse(c, "upsert", 1)
       \/ /\ GetPartitionAndSortKeyValues(request)
          /\ NsSent(c, "upsert", request.required, request.new)

\* CreateTable and DeleteTable are not implemented on DynamoDB.
DynamoTables(c) ==
    /\ nsProvider = "AwsDynamoDBClientProvider"
    /\ NsRefuse(c, "create", 0)

\* Only cpio tells a failed condition from the other errors.
CoreConvertDynamoError(result) ==
    IF result = "CONDITIONAL_CHECKED_FAILED" THEN "UNRETRIABLE_ERROR" ELSE result

CpioConvertDynamoError(result) == result

NsDynamoErrors == {"RETRIABLE_ERROR", "UNRETRIABLE_ERROR"}

DynamoRead(c) ==
    /\ \/ NsResult(c, NsReadResult(nsRow, nsCall[c].required))
       \/ \E error \in NsDynamoErrors : NsResult(c, error)
    /\ UNCHANGED <<nsProvider, nsTable, nsRow>>

CoreDynamoOnGetDatabaseItemCallback(c) ==
    NsIs(c, "AwsDynamoDB", "sent", "get") /\ DynamoRead(c)

CpioDynamoOnGetDatabaseItemCallback(c) ==
    NsIs(c, "AwsDynamoDBClientProvider", "sent", "get") /\ DynamoRead(c)

\* An update that is not answered in time may have been applied.
DynamoUpdates(c, Convert(_)) ==
    LET update == DynamoUpdateItem(nsRow, nsCall[c].required, nsCall[c].new) IN
    /\ \/ nsRow' = update.row /\ NsResult(c, Convert(update.result))
       \/ nsRow' \in {nsRow, update.row} /\ \E error \in NsDynamoErrors : NsResult(c, error)
    /\ UNCHANGED <<nsProvider, nsTable>>

CoreDynamoOnUpsertDatabaseItemCallback(c) ==
    NsIs(c, "AwsDynamoDB", "sent", "upsert") /\ DynamoUpdates(c, CoreConvertDynamoError)

CpioDynamoOnUpsertDatabaseItemCallback(c) ==
    /\ NsIs(c, "AwsDynamoDBClientProvider", "sent", "upsert")
    /\ DynamoUpdates(c, CpioConvertDynamoError)

-----------------------------------------------------------------------------

NsStart(c) ==
    \/ \E request \in NsGets :
          \/ CpioSpannerGetDatabaseItem(c, request) \/ CoreSpannerGetDatabaseItem(c, request)
          \/ CpioDynamoGetDatabaseItem(c, request) \/ CoreDynamoGetDatabaseItem(c, request)
    \/ \E request \in NsUpserts :
          \/ CpioSpannerUpsertDatabaseItem(c, request) \/ CoreSpannerUpsertDatabaseItem(c, request)
          \/ CpioDynamoUpsertDatabaseItem(c, request) \/ CoreDynamoUpsertDatabaseItem(c, request)
    \/ \E request \in NsCreates : CpioCreateTable(c, request) \/ CpioDeleteTable(c, request.table)
    \/ DynamoTables(c)

NsStep(c) ==
    \/ CreateTableAsync(c) \/ DeleteTableAsync(c)
    \/ CoreSpannerGetDatabaseItemAsync(c) \/ CpioSpannerGetDatabaseItemAsync(c)
    \/ CoreUpsertFunctor(c) \/ CpioUpsertFunctor(c)
    \/ CoreUpsertDatabaseItemAsync(c) \/ CpioUpsertDatabaseItemAsync(c)
    \/ CoreDynamoOnGetDatabaseItemCallback(c) \/ CpioDynamoOnGetDatabaseItemCallback(c)
    \/ CoreDynamoOnUpsertDatabaseItemCallback(c) \/ CpioDynamoOnUpsertDatabaseItemCallback(c)
    \/ NsFinishContext(c)

NsNext == \E c \in NsCalls : NsStart(c) \/ NsStep(c)

NsSpec == NsInit /\ [][NsNext]_nsVars /\ \A c \in NsCalls : WF_nsVars(NsStep(c))

NsTypeOK ==
    /\ nsProvider \in NsProviders /\ nsTable \in BOOLEAN /\ nsRow.present \in BOOLEAN
    /\ \A c \in NsCalls : /\ nsCall[c].pc \in {"idle", "sent", "commit", "result", "done"}
                          /\ nsCall[c].aborts \in 0..NsMaxAborts
                          /\ nsCall[c].returned \in {"none", "Success", "Failure"}

\* An upsert that requires a version of the row and writes the next one is a
\* compare-and-set: of the calls that require the same version at most one
\* succeeds, on either database, whatever aborted and whatever ran at the same
\* time. (The lease of a lock and the entry of a job are written this way. A
\* table dropped in between starts again.)
UpsertsDoNotCollide ==
    \A c, d \in NsCalls :
        /\ c # d
        /\ \A e \in {c, d} : nsCall[e].op = "upsert" /\ nsCall[e].result = "Success"
                               /\ nsCall[e].pc \in {"result", "done"}
                               /\ DOMAIN nsCall[e].required # {}
        => nsCall[c].required # nsCall[d].required

\* A context is finished at most once.
NsFinishedOnce == \A c \in NsCalls : nsCall[c].finishes <= 1

\* Every call that returned Success is finished.
NsSettled == \A c \in NsCalls : nsCall[c].returned = "Success" => nsCall[c].finishes > 0
================================================================================
