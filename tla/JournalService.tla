---------------------------- MODULE JournalService ----------------------------
(***************************************************************************)
(* The durability of one partition: log entries are queued, flushed in     *)
(* batches to journal blobs (cc/core/journal_service, JournalOutputStream),*)
(* summarised by checkpoints (cc/pbs/checkpoint_service) and read back on  *)
(* a restart (JournalInputStream).                                         *)
(*                                                                         *)
(* Journal ids are wall clock timestamps, unique and increasing across     *)
(* restarts: here the numbers from 1 on. A checkpoint stands for the log   *)
(* entries whose effect it holds. The blob store is external: a PutBlob    *)
(* that was reported as failed, or whose process died, may take effect     *)
(* at any later time or never.                                             *)
(***************************************************************************)
EXTENDS Integers, Sequences, FiniteSets

CONSTANTS
    Logs,         \* the log entries that are appended, and appended again on failure
    MaxPerRun,    \* max_journals_to_process_in_each_checkpoint_run_
    MaxJournals,  \* bound on the journal ids
    MaxErrors,    \* bound on the failed writes and checkpoint runs
    MaxCrashes,   \* bound on the restarts
    Refusals      \* Schedule, serialization and PutBlob may fail on the spot

ASSUME JournalAssumption ==
    /\ IsFiniteSet(Logs)
    /\ MaxPerRun \in Nat \ {0}
    /\ {MaxJournals, MaxErrors, MaxCrashes} \subseteq Nat
    /\ Refusals \in BOOLEAN

VARIABLES
    status,       \* what the caller of each append knows
    queue,        \* logs_queue_
    uncounted,    \* the entries in logs_queue_ that pending_logs_ does not count yet
    current,      \* current_journal_id_, 0 before the first one
    batch,        \* the entries of each journal
    write,        \* the progress of writing each journal
    unprocessed,  \* the ids in journals_to_persist_ that are not processed
    processed,    \* and those that are
    last,         \* last_persisted_journal_id_, 0 for kInvalidJournalId
    blobs,        \* the journals in the blob store
    latest,       \* the checkpoint blob with the highest id
    pointed,      \* the checkpoint that the last_checkpoint blob names
    worker,       \* the checkpoint worker's thread
    checkpointed, \* last_processed_journal_id_ of the checkpoint service
    errors, crashes

stream == <<status, queue, uncounted, current, batch, write>>
ids == <<unprocessed, processed, last>>
checkpoint == <<latest, pointed, worker, checkpointed>>
vars == <<stream, ids, blobs, checkpoint, errors, crashes>>

Ids == 1..MaxJournals
Checkpoints == [upto : 0..MaxJournals, logs : SUBSET Logs]
NoCheckpoint == [upto |-> 0, logs |-> {}]

TypeOK ==
    /\ status \in [Logs -> {"new", "queued", "ok", "failed"}]
    /\ queue \in Seq(Logs)
    /\ uncounted \subseteq Logs
    /\ current \in 0..MaxJournals
    /\ batch \in [Ids -> SUBSET Logs]
    /\ write \in [Ids -> {"none", "scheduled", "putting", "ok", "failed", "refused"}]
    /\ \A j \in Ids : write[j] = "none" <=> j > current
    /\ unprocessed \subseteq 1..current
    /\ processed \subseteq (1..current) \ unprocessed
    /\ last \in 0..current
    /\ blobs \subseteq Ids
    /\ latest \in Checkpoints
    /\ pointed \in Checkpoints
    /\ worker \in [pc : {"idle", "recover", "store", "point"},
                   max : 0..MaxJournals, checkpoint : Checkpoints]
    /\ checkpointed \in 0..MaxJournals
    /\ errors \in 0..MaxErrors
    /\ crashes \in 0..MaxCrashes

Idle == [pc |-> "idle", max |-> 0, checkpoint |-> NoCheckpoint]

Init ==
    /\ status = [l \in Logs |-> "new"]
    /\ queue = <<>>
    /\ uncounted = {}
    /\ current = 0
    /\ batch = [j \in Ids |-> {}]
    /\ write = [j \in Ids |-> "none"]
    /\ unprocessed = {}
    /\ processed = {}
    /\ last = 0
    /\ blobs = {}
    /\ latest = NoCheckpoint
    /\ pointed = NoCheckpoint
    /\ worker = Idle
    /\ checkpointed = 0
    /\ errors = 0
    /\ crashes = 0

-----------------------------------------------------------------------------
\* AppendLog puts the entry into the queue and counts it in pending_logs_ in a
\* second step. The caller of a failed append appends the same entry again. The
\* bound leaves an id for every entry in the queue.
AppendLog(l) ==
    /\ status[l] \in {"new", "failed"}
    /\ current + Len(queue) < MaxJournals
    /\ status' = [status EXCEPT ![l] = "queued"]
    /\ queue' = Append(queue, l)
    /\ uncounted' = uncounted \cup {l}
    /\ UNCHANGED <<current, batch, write, ids, blobs, checkpoint, errors, crashes>>

CountLog(l) ==
    /\ l \in uncounted
    /\ uncounted' = uncounted \ {l}
    /\ UNCHANGED <<status, queue, current, batch, write, ids, blobs, checkpoint,
                   errors, crashes>>

pending_logs == Len(queue) - Cardinality(uncounted)

NotifyBatch(logs, s) == status' = [l \in Logs |-> IF l \in logs THEN s ELSE status[l]]

\* An id that CreateNewBuffer has entered stays unprocessed when the journal is
\* refused: only OnWriteJournalBlobCallback sets processed.
Refuse(j, logs) ==
    /\ Refusals
    /\ errors < MaxErrors
    /\ errors' = errors + 1
    /\ write' = [write EXCEPT ![j] = "refused"]
    /\ NotifyBatch(logs, "failed")

\* FlushLogs takes as many entries as pending_logs_ counts off the queue, under
\* the next id. They need not be the entries that were counted. Schedule may fail.
FlushLogs ==
    /\ pending_logs > 0
    /\ current < MaxJournals
    /\ LET j == current + 1
           logs == {queue[i] : i \in 1..pending_logs}
       IN /\ current' = j
          /\ unprocessed' = unprocessed \cup {j}
          /\ batch' = [batch EXCEPT ![j] = logs]
          /\ queue' = SubSeq(queue, pending_logs + 1, Len(queue))
          /\ \/ /\ write' = [write EXCEPT ![j] = "scheduled"]
                /\ UNCHANGED <<status, errors>>
             \/ Refuse(j, logs)
    /\ UNCHANGED <<uncounted, processed, last, blobs, checkpoint, crashes>>

\* WriteBatch serializes the batch and calls PutBlob: either may fail at once.
WriteBatch(j) ==
    /\ write[j] = "scheduled"
    /\ \/ /\ write' = [write EXCEPT ![j] = "putting"]
          /\ UNCHANGED <<status, errors>>
       \/ Refuse(j, batch[j])
    /\ UNCHANGED <<queue, uncounted, current, batch, ids, blobs, checkpoint, crashes>>

\* The blob store applies a PutBlob, in time for its answer or later.
PutBlob(j) ==
    /\ write[j] \in {"putting", "failed"}
    /\ blobs' = blobs \cup {j}
    /\ UNCHANGED <<stream, ids, checkpoint, errors, crashes>>

\* Mutant: the id is processed only if the write succeeded.
ProcessOnSuccess(j) ==
    /\ write[j] = "putting"
    /\ \/ /\ j \in blobs
          /\ unprocessed' = unprocessed \ {j}
          /\ processed' = processed \cup {j}
          /\ write' = [write EXCEPT ![j] = "ok"]
          /\ NotifyBatch(batch[j], "ok")
          /\ UNCHANGED errors
       \/ /\ errors < MaxErrors
          /\ errors' = errors + 1
          /\ write' = [write EXCEPT ![j] = "failed"]
          /\ NotifyBatch(batch[j], "failed")
          /\ UNCHANGED <<unprocessed, processed>>
    /\ UNCHANGED <<queue, uncounted, current, batch, last, blobs, checkpoint, crashes>>

\* The answer of PutBlob. The id is processed whatever the answer says.
OnWriteJournalBlobCallback(j) ==
    /\ write[j] = "putting"
    /\ unprocessed' = unprocessed \ {j}
    /\ processed' = processed \cup {j}
    /\ \/ /\ j \in blobs
          /\ write' = [write EXCEPT ![j] = "ok"]
          /\ NotifyBatch(batch[j], "ok")
          /\ UNCHANGED errors
       \/ /\ errors < MaxErrors
          /\ errors' = errors + 1
          /\ write' = [write EXCEPT ![j] = "failed"]
          /\ NotifyBatch(batch[j], "failed")
    /\ UNCHANGED <<queue, uncounted, current, batch, last, blobs, checkpoint, crashes>>

-----------------------------------------------------------------------------
\* Mutant: the loop goes on past an id that is not processed.
AllProcessed == processed

\* The processed ids before the first unprocessed one.
ProcessedPrefix == {j \in processed : \A k \in unprocessed : j < k}

MaxOf(S, default) == IF S = {} THEN default ELSE CHOOSE j \in S : \A k \in S : k <= j

\* GetLastPersistedJournalId erases the prefix it has passed. With no id to
\* report the checkpoint run ends.
GetLastPersistedJournalId ==
    LET journal_id == MaxOf(ProcessedPrefix, last) IN
    /\ worker.pc = "idle"
    /\ journal_id # 0
    /\ processed' = processed \ ProcessedPrefix
    /\ last' = journal_id
    /\ worker' = [worker EXCEPT !.pc = "recover", !.max = journal_id]
    /\ UNCHANGED <<stream, unprocessed, blobs, latest, pointed, checkpointed, errors, crashes>>

\* The checkpoint that a reader starts from: the one last_checkpoint names, or
\* the highest one if there is no last_checkpoint blob yet.
ReadLastCheckpointBlob == IF pointed # NoCheckpoint THEN pointed ELSE latest

\* Mutant: one id too many is skipped.
ListFromNext(max, n) ==
    LET after == {j \in blobs : j > ReadLastCheckpointBlob.upto + 1 /\ j <= max}
    IN {j \in after : Cardinality({k \in after : k <= j}) <= n}

\* The first n journals after the checkpoint, up to max.
ListJournals(max, n) ==
    LET after == {j \in blobs : j > ReadLastCheckpointBlob.upto /\ j <= max}
    IN {j \in after : Cardinality({k \in after : k <= j}) <= n}

\* Mutant: the checkpoint's own entries are not replayed.
ReplayJournalsOnly(journals) == UNION {batch[j] : j \in journals}

\* What a replay of the checkpoint and the given journals restores.
Replay(journals) == ReadLastCheckpointBlob.logs \cup UNION {batch[j] : j \in journals}

EndRun == worker' = Idle

\* The journals that Recover has listed are replayed and make a checkpoint,
\* unless there is nothing new: a checkpoint alone is not even read.
Checkpoint ==
    LET journals == ListJournals(worker.max, MaxPerRun)
        upto == MaxOf(journals, ReadLastCheckpointBlob.upto)
    IN /\ worker.pc = "recover"
       /\ \/ /\ upto = checkpointed \/ journals = {}
             /\ EndRun
          \/ /\ upto # checkpointed
             /\ journals # {}
             /\ worker' = [worker EXCEPT !.pc = "store",
                                         !.checkpoint = [upto |-> upto, logs |-> Replay(journals)]]
       /\ UNCHANGED <<stream, ids, blobs, latest, pointed, checkpointed, errors, crashes>>

WriteCheckpointBlob == latest' = worker.checkpoint

\* Store writes the checkpoint blob first and last_checkpoint after it.
StoreCheckpoint ==
    /\ worker.pc = "store"
    /\ WriteCheckpointBlob
    /\ worker' = [worker EXCEPT !.pc = "point"]
    /\ UNCHANGED <<stream, ids, blobs, pointed, checkpointed, errors, crashes>>

StoreLastCheckpoint ==
    /\ worker.pc = "point"
    /\ pointed' = latest
    /\ checkpointed' = worker.checkpoint.upto
    /\ EndRun
    /\ UNCHANGED <<stream, ids, blobs, latest, errors, crashes>>

\* A read or a write fails and the run ends; the write may have taken effect.
CheckpointFails ==
    /\ worker.pc # "idle"
    /\ errors < MaxErrors
    /\ errors' = errors + 1
    /\ EndRun
    /\ \/ UNCHANGED <<latest, pointed>>
       \/ worker.pc = "store" /\ WriteCheckpointBlob /\ UNCHANGED pointed
       \/ worker.pc = "point" /\ pointed' = latest /\ UNCHANGED latest
    /\ UNCHANGED <<stream, ids, blobs, checkpointed, crashes>>

-----------------------------------------------------------------------------
\* The process dies and a new one recovers. Memory is lost, writes under way
\* have no one to answer to.
Restart ==
    /\ crashes < MaxCrashes
    /\ crashes' = crashes + 1
    /\ status' = [l \in Logs |-> IF status[l] = "queued" THEN "failed" ELSE status[l]]
    /\ queue' = <<>>
    /\ uncounted' = {}
    /\ write' = [j \in Ids |-> CASE write[j] = "scheduled" -> "refused"
                                 [] write[j] = "putting" -> "failed"
                                 [] OTHER -> write[j]]
    /\ unprocessed' = {}
    /\ processed' = {}
    /\ last' = 0
    /\ EndRun
    /\ checkpointed' = 0
    /\ UNCHANGED <<current, batch, blobs, latest, pointed, errors>>

WriteJournal(j) == WriteBatch(j) \/ OnWriteJournalBlobCallback(j)

CheckpointWorker ==
    \/ GetLastPersistedJournalId \/ Checkpoint \/ StoreCheckpoint \/ StoreLastCheckpoint

Next ==
    \/ \E l \in Logs : AppendLog(l) \/ CountLog(l)
    \/ FlushLogs
    \/ \E j \in Ids : WriteJournal(j) \/ PutBlob(j)
    \/ CheckpointWorker
    \/ CheckpointFails
    \/ Restart

\* The flushing thread, the executor and the checkpoint thread run in loops, and
\* the blob store does its work in the end.
Fairness ==
    /\ \A l \in Logs : WF_vars(CountLog(l))
    /\ WF_vars(FlushLogs)
    /\ \A j \in Ids : WF_vars(WriteJournal(j)) /\ WF_vars(PutBlob(j) /\ write[j] = "putting")
    /\ WF_vars(CheckpointWorker)

Spec == Init /\ [][Next]_vars /\ Fairness

-----------------------------------------------------------------------------
\* Whatever was acknowledged survives: a restart at any moment, in the middle of
\* a checkpoint too, restores every entry whose append succeeded.
AckedSurvives ==
    \A l \in Logs : status[l] = "ok" => l \in Replay(ListJournals(MaxJournals, MaxJournals))

\* The id that bounds a checkpoint is safe: no journal at or below it is still
\* being written, so none can be acknowledged after the checkpoint has passed it
\* ("We still consider this journal ID as processed", OnWriteJournalBlobCallback).
PersistedIdIsSafe ==
    \A j \in Ids : j <= last => write[j] \notin {"none", "scheduled", "putting"}

\* Checkpoints never go backwards: the one that a restart would start from is
\* never replaced by one that covers fewer journals or lacks an entry
\* (RunCheckpointWorker, Store, ReadLastCheckpointBlob).
CheckpointGrows ==
    [][/\ ReadLastCheckpointBlob.upto <= ReadLastCheckpointBlob'.upto
       /\ ReadLastCheckpointBlob.logs \subseteq ReadLastCheckpointBlob'.logs]_vars

\* Every append gets its answer (FlushLogs, NotifyBatch): an entry waits until it is
\* answered, and again and again none waits.
AppendAnswered == []<>(\A l \in Logs : status[l] # "queued")

\* Checkpoints catch up: an acknowledged journal is covered by a checkpoint in the
\* end, so that the journals a restart has to replay do not pile up.
CheckpointCatchesUp == \A j \in Ids : write[j] = "ok" ~> ReadLastCheckpointBlob.upto >= j

\* The same, as long as no earlier journal was refused and the process does not
\* restart; writes and checkpoint runs may fail. A new process has no id to
\* checkpoint up to before it has written a journal itself.
CheckpointFollows ==
    []<>(\A j \in Ids :
            write[j] = "ok" => \/ ReadLastCheckpointBlob.upto >= j
                              \/ crashes > 0
                              \/ \E k \in Ids : k < j /\ write[k] = "refused")

\* Both: every append is answered and checkpoints follow the journals.
JournalProgress == AppendAnswered /\ CheckpointFollows

=============================================================================
