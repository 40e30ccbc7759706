-------------------------- MODULE TransactionPhases --------------------------
(***************************************************************************)
(* The phase tables of the transaction engine: the phases a transaction    *)
(* goes through, the phases a remote party may ask for, and the pure       *)
(* functions the engine consults about them                                *)
(* (cc/core/transaction_manager/src/transaction_phase_manager.cc and the   *)
(* conversions at the end of transaction_engine.cc).                       *)
(***************************************************************************)
EXTENDS Integers

\* enum class TransactionPhase, in the order of its values: the engine compares
\* phases with < and >.
PhaseOrder == <<"NotStarted", "Begin", "Prepare", "Commit", "CommitNotify",
                "Committed", "AbortNotify", "Aborted", "End", "Unknown">>

Phases == {PhaseOrder[i] : i \in 1..10}

\* enum class TransactionExecutionPhase: what a request may name.
ExecutionPhases ==
    {"Begin", "Prepare", "Commit", "Notify", "Abort", "End", "Unknown"}

Rank(phase) == CHOOSE i \in 1..10 : PhaseOrder[i] = phase

Ahead(p, q) == Rank(p) > Rank(q)

Results == {"Success", "Failure", "Retry"}

NextPhaseOnSuccess(phase) ==
    CASE phase = "NotStarted"   -> "Begin"
      [] phase = "Begin"        -> "Prepare"
      [] phase = "Prepare"      -> "Commit"
      [] phase = "Commit"       -> "CommitNotify"
      [] phase = "CommitNotify" -> "Committed"
      [] phase = "AbortNotify"  -> "Aborted"
      [] phase \in {"Committed", "Aborted"} -> "End"
      [] OTHER -> "Unknown"

\* Mutant: a failed Notify is followed by an abort.
NextPhaseAbortsFailedNotify(phase) ==
    CASE phase = "NotStarted" -> "End"
      [] phase \in {"Begin", "Prepare"} -> "Aborted"
      [] phase \in {"Commit", "CommitNotify"} -> "AbortNotify"
      [] OTHER -> "Unknown"

\* Before Commit there is nothing to undo; after it only AbortNotify undoes; a
\* failed CommitNotify or AbortNotify leaves the outcome unknown.
NextPhaseOnFailure(phase) ==
    CASE phase = "NotStarted" -> "End"
      [] phase \in {"Begin", "Prepare"} -> "Aborted"
      [] phase = "Commit" -> "AbortNotify"
      [] OTHER -> "Unknown"

\* TransactionPhaseManager::ProceedToNextPhase
NextPhase(phase, result) ==
    CASE phase = "Unknown"    -> "Aborted"
      [] result = "Retry"     -> phase
      [] result = "Success"   -> NextPhaseOnSuccess(phase)
      [] OTHER                -> NextPhaseOnFailure(phase)

CanProceedToAbortAtPhase(phase) ==
    phase \in {"Begin", "Prepare", "Commit", "CommitNotify", "AbortNotify"}

CanProceedToEndAtPhase(phase) ==
    phase \in {"Begin", "Prepare", "Aborted", "Committed", "End"}

CanCancel(phase) ==
    phase \notin {"Committed", "AbortNotify", "Aborted", "End", "Unknown"}

ToTransactionExecutionPhase(phase) ==
    CASE phase \in {"NotStarted", "Begin"}          -> "Begin"
      [] phase = "Prepare"                          -> "Prepare"
      [] phase = "Commit"                           -> "Commit"
      [] phase = "CommitNotify"                     -> "Notify"
      [] phase \in {"Committed", "Aborted", "End"}  -> "End"
      [] phase = "AbortNotify"                      -> "Abort"
      [] OTHER                                      -> "Unknown"

ToTransactionPhase(exec) ==
    CASE exec = "Notify" -> "CommitNotify"
      [] exec = "Abort"  -> "AbortNotify"
      [] OTHER           -> exec

\* Mutant: a peer that has ended is out of sync.
InSyncWithoutEnd(localPhase, remote) ==
    CASE localPhase = "CommitNotify" ->
             remote \in {"Commit", "CommitNotify", "AbortNotify", "Committed"}
      [] OTHER -> localPhase = remote

\* The remote phases that resolution tolerates at each local phase. A pair
\* outside the table blocks the local transaction for manual repair.
LocalAndRemoteTransactionsInSync(localPhase, remote) ==
    CASE localPhase = "Begin" ->
             remote \in {"NotStarted", "Begin", "Prepare", "AbortNotify"}
      [] localPhase = "Prepare" ->
             remote \in {"Begin", "Prepare", "Commit", "AbortNotify"}
      [] localPhase = "Commit" ->
             remote \in {"Prepare", "Commit", "CommitNotify", "AbortNotify"}
      [] localPhase = "CommitNotify" ->
             remote \in {"Commit", "CommitNotify", "AbortNotify", "Committed", "End"}
      [] localPhase = "AbortNotify" ->
             remote \in {"Commit", "CommitNotify", "AbortNotify", "Aborted", "End"}
      [] localPhase = "Committed" -> remote \in {"CommitNotify", "Committed", "End"}
      [] localPhase = "Aborted" -> remote \in {"AbortNotify", "Aborted", "End"}
      [] localPhase = "End" -> remote \in {"Committed", "Aborted", "End"}
      [] OTHER -> FALSE

=============================================================================
