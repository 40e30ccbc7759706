------------------------------ MODULE MCTransfer ------------------------------
(***************************************************************************)
(* What goes on behind the requests of a server, side by side: the         *)
(* executor of its tasks, the journal and the checkpoints of a partition,  *)
(* their format, its recovery, streams of blobs, and the requests of the   *)
(* HTTP client. A behaviour is one of a single part, chosen in the initial *)
(* state, while the others rest.                                           *)
(***************************************************************************)
EXTENDS JournalService, JournalInputStream, LogFormat, HttpClient, BlobStream, AsyncExecutor

CONSTANTS k1, k2

VARIABLE part

transferVars == <<part, vars, jrVars, lfVars, hcVars, bsVars, executorVars>>

MCRest == [batch |-> FALSE, named |-> 0, checkpoints |-> {}, journals |-> {}, max |-> 4, most |-> 4,
           alone |-> TRUE]

\* The parts that rest have one initial state each.
TransferInit ==
    /\ part \in {"journal", "recovery", "format", "client", "streams", "executor"}
    /\ Init /\ ExecutorInit
    /\ JrInit /\ (part # "recovery" => jrAsk = MCRest)
    /\ LfInit /\ (part # "format" => lfAsk = [kind |-> "last", journal |-> 0, room |-> 20, cuts |-> 0])
    /\ HcInit /\ (part # "client" => \A k \in HcCalls : hcCall[k].form = "good")
    /\ BsInit
    /\ part # "streams" => bsCloud = "aws" /\ bsCall = "put" /\ bsAsk.valid /\ ~bsAsk.keepalive /\ bsAsk.other = 0

TransferNext ==
    \/ part = "journal" /\ Next /\ UNCHANGED <<part, jrVars, lfVars, hcVars, bsVars, executorVars>>
    \/ part = "recovery" /\ JrNext /\ UNCHANGED <<part, vars, lfVars, hcVars, bsVars, executorVars>>
    \/ part = "format" /\ LfNext /\ UNCHANGED <<part, vars, jrVars, hcVars, bsVars, executorVars>>
    \/ part = "client" /\ HcNext /\ UNCHANGED <<part, vars, jrVars, lfVars, bsVars, executorVars>>
    \/ part = "streams" /\ BsNext /\ UNCHANGED <<part, vars, jrVars, lfVars, hcVars, executorVars>>
    \/ part = "executor" /\ ExecutorNext /\ UNCHANGED <<part, vars, jrVars, lfVars, hcVars, bsVars>>

\* Fairness is asked of kinds of steps only: some entry is counted, some journal
\* written, some write answered, some thread of a client or of a stream goes on.
TransferSpec ==
    /\ TransferInit /\ [][TransferNext]_transferVars
    /\ WF_vars(part = "journal" /\ \E l \in Logs : CountLog(l))
    /\ WF_vars(part = "journal" /\ FlushLogs)
    /\ WF_vars(part = "journal" /\ \E j \in Ids : WriteJournal(j))
    /\ WF_vars(part = "journal" /\ \E j \in Ids : PutBlob(j) /\ write[j] = "putting")
    /\ WF_vars(part = "journal" /\ CheckpointWorker)
    /\ WF_jrVars(part = "recovery" /\ JrProgress)
    /\ WF_hcVars(part = "client" /\ HcProgress)
    /\ WF_bsVars(part = "streams" /\ BsProgress)
    /\ WF_bsVars(part = "streams" /\ Expire)
    /\ WF_executorVars(part = "executor" /\ Tick)
    /\ \A e \in Executors : WF_executorVars(part = "executor" /\ WorkerStep(e))
    /\ WF_executorVars(part = "executor" /\ StopStep)

-----------------------------------------------------------------------------
(* Instances.                                                               *)

MCTries == [k \in HcCalls |-> IF k = k1 THEN 2 ELSE 1]
MCRanges == {<<>>, <<0, 0>>, <<1, 3>>, <<2, 1>>, <<0, 9>>}

\* Journal 2 holds an entry that was appended again after journal 1, and there may
\* be a newer checkpoint than the one that last_checkpoint names.
MCJournals == <<<<"a">>, <<"a", "b">>, <<"c">>, <<"d">>>>
MCCheckpoints == <<[upto |-> 1, logs |-> <<"a">>], [upto |-> 3, logs |-> <<"a", "b", "c">>]>>
MCAsks ==
    {a \in [batch : BOOLEAN, named : {0, 1}, checkpoints : {{}, {1}, {1, 2}}, journals : {{}, 1..4},
            max : {3, 4}, most : {2, 4}, alone : BOOLEAN] :
        /\ a.named \in a.checkpoints \cup {0}
        /\ a.max = 4 \/ a.most = 4}
MCPortions == <<1, 2, 1>>

\* A budget key <<0, 1>>, its timeframe manager <<3, 2>>, a transaction <<0, 2>>:
\* logs that the components write, one after the other, and what a checkpoint finds.
MCFrame(b, tokens, active, holder) == [bucket |-> b, tokens |-> tokens, active |-> active, holder |-> holder]
MCFrames == [b \in 0..1 |-> MCFrame(b, 1, 0, <<0, 0>>)]
MCBudget(b, index) == [bucket |-> b, tokens |-> 1, index |-> index]
MCConsume(index) == [command |-> "consume", key |-> "k", budgets |-> <<MCBudget(0, index)>>]
MCBatch == [command |-> "batch", key |-> "k", budgets |-> <<MCBudget(0, <<0>>), MCBudget(1, <<>>)>>]
MCOther == [command |-> "other", key |-> "k", budgets |-> <<>>]
MCTransaction(remote, commands) ==
    [kind |-> "transaction", id |-> <<0, 2>>, timeout |-> 5, remote |-> remote, secret |-> "s", origin |-> "o",
     commands |-> commands]
MCPhase(phase, failed, outcome) ==
    [kind |-> "phase", id |-> <<0, 2>>, phase |-> phase, failed |-> failed, result |-> [status |-> outcome, code |-> 3]]
MCPair(operation) == [kind |-> "pair", name |-> "k", operation |-> operation, id |-> <<0, 1>>]

MCLog(component, id, record) == [component |-> component, id |-> id, record |-> record]
MCKeyLogs ==
    <<MCLog(kBudgetKeyProviderId, <<2, 0>>, MCPair("LOAD_INTO_CACHE")),
      MCLog(<<0, 1>>, <<2, 1>>, [kind |-> "key", manager |-> <<3, 2>>]),
      MCLog(<<3, 2>>, <<2, 2>>, [kind |-> "insert", group |-> 0, frames |-> MCFrames])>>
MCUpdates ==
    {[kind |-> "update", group |-> 0, frame |-> MCFrame(0, 0, 1, <<0, 2>>)],
     [kind |-> "batch", group |-> 0, frames |-> <<MCFrame(0, 0, 0, <<0, 0>>), MCFrame(1, 1, 0, <<0, 0>>)>>],
     [kind |-> "batch", group |-> 0, frames |-> <<>>],
     [kind |-> "remove", group |-> 0]}
MCMemory ==
    [transactions |-> {[transaction |-> MCTransaction(TRUE, <<MCConsume(<<1>>), MCBatch>>),
                        state |-> MCPhase("Prepare", FALSE, "Success")]},
     keys |-> [n \in {"k"} |-> [id |-> <<0, 1>>, manager |-> <<<<3, 2>>>>, groups |-> [g \in 0..1 |-> MCFrames]]]]
MCNothing == [MCMemory EXCEPT !.transactions = {}, !.keys = <<>>]
MCUnloaded == [MCMemory EXCEPT !.keys["k"].manager = <<>>, !.keys["k"].groups = <<>>]

MCJournal(logs, version) == [kind |-> "journal", logs |-> logs, version |-> version, cuts |-> 300]
MCEngine(record, id) == MCLog(kTransactionEngineId, <<3, id>>, record)
MCFormats ==
    {MCJournal(<<MCEngine(MCTransaction(remote, <<MCConsume(index), MCBatch>>), 0),
                 MCEngine(MCPhase("Begin", TRUE, "Retry"), 1)>>, version) :
        remote \in BOOLEAN, index \in {<<>>, <<0>>, <<2>>}, version \in {"1_0", "1_1"}}
    \cup {MCJournal(<<MCEngine(MCTransaction(TRUE, <<MCOther>>), 0), MCEngine(MCPhase("End", FALSE, "Failure"), 1)>>, "1_1")}
    \cup {MCJournal(MCKeyLogs \o <<MCLog(<<3, 2>>, <<3, 2>>, r),
                                   MCLog(kBudgetKeyProviderId, <<3, 3>>, MCPair("DELETE_FROM_CACHE"))>>, "1_1") :
             r \in MCUpdates}
    \cup {[kind |-> "last", journal |-> j, room |-> 20, cuts |-> c] : j \in 0..2, c \in {0, 20}}
    \cup {[kind |-> "checkpoint", memory |-> m, version |-> "1_1", room |-> r, journal |-> j, cuts |-> 40] :
             m \in {MCMemory, MCNothing, MCUnloaded}, r \in {30, 100}, j \in {0, 3}}

-----------------------------------------------------------------------------

\* A call of the HTTP client, a stream of a blob and a read of the journals end once,
\* although several threads may end them: the worker and Stop, the provider and the
\* caller that cancels, any callback of a journal and the loop that asks for them.
TransfersEndOnce == HcFinishedOnce /\ StreamEndsOnce /\ ReadEndsOnce

\* A stream that succeeds has moved the whole blob, or the range that was asked
\* for, in order and once; a recovery that succeeds has replayed the checkpoint and
\* the journals after it, in order and once; and what a journal or a checkpoint is
\* read back as is what its components wrote to it.
StreamsAreWhole ==
    /\ DownloadIsWhole /\ UploadIsWhole
    /\ part = "recovery" => RecoveryIsWhole
    /\ part = "format" => FormatIsWhole

\* Every append to the journal is answered and checkpoints follow the journals;
\* every recovery ends; every call of the HTTP client is answered; every stream
\* ends; tasks and the calls to Stop of the executor end.
TransfersEnd ==
    /\ JournalProgress
    /\ HcAnswered
    /\ StreamEnds
    /\ []<>(ExecutorSettled /\ RecoverySettled)

=============================================================================
