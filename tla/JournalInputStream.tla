-------------------------- MODULE JournalInputStream --------------------------
(***************************************************************************)
(* Recovery: JournalService::Recover reads the last checkpoint and the     *)
(* journals after it back from the blob store (JournalInputStream), a      *)
(* batch of log entries at a time, and replays each entry to the component *)
(* that wrote it.                                                          *)
(*                                                                         *)
(* The blobs are fixed while they are read. A journal or a checkpoint is   *)
(* its sequence of log entries. Blob names are zero padded, so that the    *)
(* order of a listing is the order of the ids. Journals are asked for one  *)
(* after the other by the thread that listed them, while the answers come  *)
(* in on other threads, in any order.                                      *)
(***************************************************************************)
EXTENDS Integers, Sequences, SequencesExt

CONSTANTS
    JrJournals,     \* the entries of each journal blob, by id
    JrCheckpoints,  \* [upto, logs] of each checkpoint blob, by id
    JrAsks,         \* the requests and the blobs they find
    JrPage,         \* the longest answer of ListBlobs
    JrPerBatch,     \* number_of_journals_per_batch_
    JrPerRead       \* number_of_journal_logs_to_return_

ASSUME JrAssumption == {JrPage, JrPerBatch, JrPerRead} \subseteq Nat \ {0}

VARIABLES
    jrAsk,            \* the request, and the blobs in the store
    jrPc,             \* what the read waits for
    jrMarker,         \* the marker of the listing under way
    jrCheckpoint,     \* last_checkpoint_id_, 0 for kInvalidCheckpointId
    jrProcessed,      \* last_processed_journal_id_
    journal_ids,      \* journal_ids_
    journal_buffers,  \* journal_buffers_
    jrTaken,          \* the entries of journal_buffers_ that were returned already
    jrWindow,         \* journal_ids_window_start_index_ and _length_
    jrReads,          \* the journals being read: what has become of each GetBlob
    jrLeft,           \* total_journals_to_read_
    jrFailure,        \* execution_result_of_failed_journal_read_
    jrAnswers,        \* how often the current read was finished
    jrReplayed,       \* the entries replayed, each with the id it is said to come from
    jrResult          \* of Recover

jrBlobs == <<jrReads, jrLeft>>
jrIds == <<jrMarker, jrCheckpoint, jrProcessed, journal_ids>>
jrVars == <<jrAsk, jrPc, jrIds, journal_buffers, jrTaken, jrWindow, jrBlobs, jrFailure,
            jrAnswers, jrReplayed, jrResult>>

JrTypeOK ==
    /\ jrAsk \in JrAsks
    /\ jrPc \in {"idle", "last", "checkpoints", "checkpoint", "journals", "blobs", "task", "read", "ended"}
    /\ journal_ids \in Seq(DOMAIN JrJournals)
    /\ jrTaken \in Nat
    /\ jrLeft \in 0..Len(jrReads)
    /\ jrFailure \in {"none", "fail", "retry"}
    /\ jrResult \in {"none", "ok", "failed"}

JrInit ==
    /\ jrAsk \in JrAsks
    /\ jrPc = "idle"
    /\ jrMarker = 0
    /\ jrCheckpoint = 0
    /\ jrProcessed = 0
    /\ journal_ids = <<>>
    /\ journal_buffers = <<>>
    /\ jrTaken = 0
    /\ jrWindow = [start |-> 0, length |-> 0]
    /\ jrReads = <<>>
    /\ jrLeft = 0
    /\ jrFailure = "none"
    /\ jrAnswers = 0
    /\ jrReplayed = <<>>
    /\ jrResult = "none"

-----------------------------------------------------------------------------
\* The journal_recover_context is finished, with an error or at the end of the
\* stream.
Finish(result) ==
    /\ jrPc' = "ended"
    /\ jrResult' = result
    /\ jrAnswers' = jrAnswers + 1

\* Recover: the first ReadLog, which asks for last_checkpoint.
Recover ==
    /\ jrPc = "idle"
    /\ jrPc' = "last"
    /\ UNCHANGED <<jrAsk, jrIds, journal_buffers, jrTaken, jrWindow, jrBlobs, jrFailure,
                   jrAnswers, jrReplayed, jrResult>>

\* A call or its answer fails, a blob cannot be parsed: the recovery fails.
LoadFails ==
    /\ jrPc \in {"last", "checkpoints", "checkpoint", "journals"}
    /\ Finish("failed")
    /\ UNCHANGED <<jrAsk, jrIds, journal_buffers, jrTaken, jrWindow, jrBlobs, jrFailure, jrReplayed>>

OnReadLastCheckpointBlobCallback ==
    /\ jrPc = "last"
    /\ jrCheckpoint' = jrAsk.named
    /\ jrPc' = IF jrAsk.named = 0 THEN "checkpoints" ELSE "checkpoint"
    /\ UNCHANGED <<jrAsk, jrMarker, jrProcessed, journal_ids, journal_buffers, jrTaken, jrWindow,
                   jrBlobs, jrFailure, jrAnswers, jrReplayed, jrResult>>

\* The first n ids of the set S, in order.
FirstOf(S, n) == SubSeq(SetToSortSeq(S, <), 1, Min({n, Cardinality(S)}))

\* ListBlobs: the blobs after the marker, a page of them.
ListBlobs(stored) == FirstOf({i \in stored : i > jrMarker}, JrPage)

\* A page that holds anything is followed by another one, whether or not the
\* store has given a next_marker.
OnListCheckpointsCallback ==
    LET page == ListBlobs(jrAsk.checkpoints) IN
    /\ jrPc = "checkpoints"
    /\ IF page = <<>>
       THEN /\ jrPc' = IF jrCheckpoint = 0 THEN "journals" ELSE "checkpoint"
            /\ jrMarker' = 0
            /\ UNCHANGED jrCheckpoint
       ELSE /\ jrCheckpoint' = Max({jrCheckpoint} \cup Range(page))
            /\ jrMarker' = Last(page)
            /\ UNCHANGED jrPc
    /\ UNCHANGED <<jrAsk, jrProcessed, journal_ids, journal_buffers, jrTaken, jrWindow,
                   jrBlobs, jrFailure, jrAnswers, jrReplayed, jrResult>>

\* The entries of the checkpoint are the first buffer; journals are listed from
\* the last one that it covers.
OnReadCheckpointBlobCallback ==
    /\ jrPc = "checkpoint"
    /\ jrProcessed' = JrCheckpoints[jrCheckpoint].upto
    /\ jrMarker' = JrCheckpoints[jrCheckpoint].upto
    /\ journal_buffers' = <<JrCheckpoints[jrCheckpoint].logs>>
    /\ jrPc' = "journals"
    /\ UNCHANGED <<jrAsk, jrCheckpoint, journal_ids, jrTaken, jrWindow, jrBlobs, jrFailure,
                   jrAnswers, jrReplayed, jrResult>>

-----------------------------------------------------------------------------
\* ReadJournalBlobs: the next window of journals, or all of them. Each gets an
\* empty buffer behind those there are.
ReadJournalBlobs(ids) ==
    LET start == jrWindow.start + jrWindow.length
        n == IF jrAsk.batch THEN Min({JrPerBatch, Len(ids) - start}) ELSE Len(ids)
    IN IF n = 0
       THEN /\ Finish("ok")
            /\ UNCHANGED <<journal_buffers, jrWindow, jrBlobs>>
       ELSE /\ jrPc' = "blobs"
            /\ journal_buffers' = journal_buffers \o [i \in 1..n |-> <<>>]
            /\ jrWindow' = [start |-> start, length |-> n]
            /\ jrReads' = [i \in 1..n |-> "unasked"]
            /\ jrLeft' = n
            /\ UNCHANGED <<jrAnswers, jrResult>>

\* The id and the buffer of the i-th journal being read.
JournalRead(i) == journal_ids[IF jrAsk.batch THEN jrWindow.start + i ELSE i]
BufferRead(i) == Len(journal_buffers) - Len(jrReads) + i

SetFailure(how) == jrFailure' = IF jrFailure = "none" THEN how ELSE jrFailure

\* The loop of ReadJournalBlobs calls GetBlob for the next journal, which may
\* refuse the call: with Retry when the queue of the executor is full.
ReadJournalBlob(i) ==
    /\ jrReads[i] = "unasked"
    /\ \A k \in 1..(i - 1) : jrReads[k] # "unasked"
    /\ \/ /\ jrReads' = [jrReads EXCEPT ![i] = "asked"]
          /\ UNCHANGED jrFailure
       \/ \E how \in {"fail", "retry"} :
             /\ jrReads' = [jrReads EXCEPT ![i] = "refused"]
             /\ SetFailure(how)
    /\ UNCHANGED <<jrAsk, jrPc, jrIds, journal_buffers, jrTaken, jrWindow, jrLeft,
                   jrAnswers, jrReplayed, jrResult>>
-----------------------------------------------------------------------------
\* Entries whose component and log id were replayed already are skipped.
Dedupe(replayed, logs) ==
    FoldLeft(LAMBDA done, l : IF \E i \in DOMAIN done : done[i].log = l.log THEN done ELSE Append(done, l),
             replayed, logs)

\* JournalService::OnJournalStreamReadLogCallback: the entries are replayed and the
\* next read is scheduled, unless a component refuses an entry or the executor the
\* next read.
OnJournalStreamReadLogCallback(logs) ==
    \/ /\ jrReplayed' = Dedupe(jrReplayed, logs)
       /\ jrPc' = "task"
       /\ jrAnswers' = jrAnswers + 1
       /\ UNCHANGED jrResult
    \/ \E k \in 0..Len(logs) :
          /\ jrReplayed' = Dedupe(jrReplayed, SubSeq(logs, 1, k))
          /\ Finish("failed")

\* The first buffer is the checkpoint's, if there is one, until a window of
\* journals has been passed.
GetCurrentBufferJournalId(b) ==
    IF jrCheckpoint # 0 /\ (jrAsk.batch => jrWindow.start = 0)
    THEN IF b = 1 THEN jrCheckpoint ELSE journal_ids[b - 1]
    ELSE journal_ids[IF jrAsk.batch THEN jrWindow.start + b ELSE b]

\* The buffer that holds the n-th entry.
current_buffer_index(n) ==
    Min({b \in DOMAIN journal_buffers : n <= Len(FlattenSeq(SubSeq(journal_buffers, 1, b)))})

ProcessNextJournalLog(n) ==
    [log |-> FlattenSeq(journal_buffers)[n],
     journal |-> GetCurrentBufferJournalId(current_buffer_index(n))]

\* ReadJournalLogBatch: the next entries; none is the end of the stream. When
\* journals are read in batches, buffers that have been passed are dropped, and the
\* window is closed. An empty buffer at the end is passed only by a read that asks
\* for more than there is.
ProcessLoadedJournals ==
    LET total == Len(FlattenSeq(journal_buffers))
        n == Min({JrPerRead, total - jrTaken})
        passed == n < JrPerRead \/ (jrTaken + n = total /\ Last(journal_buffers) # <<>>)
    IN /\ IF jrAsk.batch /\ passed
          THEN /\ journal_buffers' = <<>>
               /\ jrTaken' = 0
               /\ jrWindow' = [start |-> jrWindow.start + jrWindow.length, length |-> 0]
          ELSE /\ jrTaken' = jrTaken + n
               /\ UNCHANGED <<journal_buffers, jrWindow>>
       /\ IF n = 0
          THEN Finish("ok") /\ UNCHANGED jrReplayed
          ELSE OnJournalStreamReadLogCallback([i \in 1..n |-> ProcessNextJournalLog(jrTaken + i)])

-----------------------------------------------------------------------------
\* The dispatcher calls ReadLog again when the read was refused with a status of
\* Retry, as long as it has retries left. The first read is not dispatched.
ReadFails ==
    \/ Finish("failed")
    \/ /\ jrFailure = "retry"
       /\ jrWindow.start > 0
       /\ jrPc' = "task"
       /\ jrAnswers' = jrAnswers + 1
       /\ UNCHANGED jrResult

\* The loop has ended and some calls were refused: these are counted at once, and
\* if every other journal has been counted before, ReadJournalBlobs returns the
\* failure. When none was refused the loop leaves nothing to do.
EndReadJournalBlobs ==
    LET refused == {i \in DOMAIN jrReads : jrReads[i] = "refused"} IN
    /\ refused # {}
    /\ \A i \in DOMAIN jrReads : jrReads[i] # "unasked"
    /\ jrReads' = [i \in DOMAIN jrReads |-> IF i \in refused THEN "counted" ELSE jrReads[i]]
    /\ jrLeft' = jrLeft - Cardinality(refused)
    /\ IF jrLeft = Cardinality(refused)
       THEN ReadFails
       ELSE UNCHANGED <<jrPc, jrAnswers, jrResult>>
    /\ UNCHANGED <<jrAsk, jrIds, journal_buffers, jrTaken, jrWindow, jrFailure, jrReplayed>>

\* OnReadJournalBlobCallback: the answer is put into its buffer, or the failure
\* noted,
BlobArrives(i) ==
    /\ jrReads[i] = "asked"
    /\ jrReads' = [jrReads EXCEPT ![i] = "arrived"]
    /\ \/ /\ journal_buffers' = [journal_buffers EXCEPT ![BufferRead(i)] = JrJournals[JournalRead(i)]]
          /\ UNCHANGED jrFailure
       \/ /\ SetFailure("fail")
          /\ UNCHANGED journal_buffers
    /\ UNCHANGED <<jrAsk, jrPc, jrIds, jrTaken, jrWindow, jrLeft, jrAnswers,
                   jrReplayed, jrResult>>

\* and the last answer to be counted goes on.
OnReadJournalBlobCallback(i) ==
    /\ jrReads[i] = "arrived"
    /\ jrReads' = [jrReads EXCEPT ![i] = "counted"]
    /\ jrLeft' = jrLeft - 1
    /\ \/ /\ jrLeft # 1
          /\ UNCHANGED <<jrPc, journal_buffers, jrTaken, jrWindow, jrAnswers, jrReplayed, jrResult>>
       \/ /\ jrLeft = 1
          /\ jrFailure # "none"
          /\ ReadFails
          /\ UNCHANGED <<journal_buffers, jrTaken, jrWindow, jrReplayed>>
       \/ /\ jrLeft = 1
          /\ jrFailure = "none"
          /\ ProcessLoadedJournals
    /\ UNCHANGED <<jrAsk, jrIds, jrFailure>>

\* The listing ends at an id above the bound, at the number of journals that were
\* asked for, or with an empty page. Without a journal the checkpoint is replayed
\* only if that was asked for.
OnListJournalsCallback ==
    LET page == ListBlobs(jrAsk.journals)
        fit == {j \in ToSet(page) : j <= jrAsk.max}
        ids == journal_ids \o FirstOf(fit, jrAsk.most - Len(journal_ids))
        stop_listing == Len(ids) >= jrAsk.most \/ fit # ToSet(page)
        processed == IF ids = <<>> THEN jrProcessed ELSE Last(ids)
    IN /\ jrPc = "journals"
       /\ journal_ids' = ids
       /\ IF page # <<>> /\ ~stop_listing
          THEN /\ jrMarker' = Last(page)
               /\ UNCHANGED <<jrPc, jrProcessed, journal_buffers, jrTaken, jrWindow, jrBlobs,
                              jrAnswers, jrReplayed, jrResult>>
          ELSE /\ jrProcessed' = processed
               /\ UNCHANGED jrMarker
               /\ \/ /\ ids # <<>>
                     /\ ReadJournalBlobs(ids)
                     /\ UNCHANGED <<jrTaken, jrReplayed>>
                  \/ /\ ids = <<>>
                     /\ journal_buffers = <<>> \/ ~jrAsk.alone
                     /\ Finish("ok")
                     /\ UNCHANGED <<journal_buffers, jrTaken, jrWindow, jrBlobs, jrReplayed>>
                  \/ /\ ids = <<>>
                     /\ journal_buffers # <<>> /\ jrAsk.alone
                     /\ ProcessLoadedJournals
                     /\ UNCHANGED jrBlobs
       /\ UNCHANGED <<jrAsk, jrCheckpoint, jrFailure>>

\* The executor takes up the next read.
DispatchReadLog ==
    /\ jrPc = "task"
    /\ jrPc' = "read"
    /\ jrAnswers' = 0
    /\ UNCHANGED <<jrAsk, jrIds, journal_buffers, jrTaken, jrWindow, jrBlobs, jrFailure,
                   jrReplayed, jrResult>>

\* What was loaded is processed first, then the next window is read.
ReadLog ==
    /\ jrPc = "read"
    /\ \/ /\ ~jrAsk.batch \/ journal_buffers # <<>>
          /\ ProcessLoadedJournals
          /\ UNCHANGED jrBlobs
       \/ /\ jrAsk.batch /\ journal_buffers = <<>>
          /\ ReadJournalBlobs(journal_ids)
          /\ UNCHANGED <<jrTaken, jrReplayed>>
    /\ UNCHANGED <<jrAsk, jrIds, jrFailure>>

JrProgress ==
    \/ OnReadLastCheckpointBlobCallback \/ OnListCheckpointsCallback
    \/ OnReadCheckpointBlobCallback \/ OnListJournalsCallback \/ LoadFails
    \/ \E i \in DOMAIN jrReads : ReadJournalBlob(i) \/ BlobArrives(i) \/ OnReadJournalBlobCallback(i)
    \/ EndReadJournalBlobs
    \/ DispatchReadLog \/ ReadLog

JrNext == Recover \/ JrProgress

\* The store and the executor do their work in the end.
JrSpec == JrInit /\ [][JrNext]_jrVars /\ WF_jrVars(JrProgress)

-----------------------------------------------------------------------------
\* The checkpoint that a recovery starts from and the journals it has to read.
StartsFrom ==
    IF jrAsk.named # 0 \/ jrAsk.checkpoints = {} THEN jrAsk.named ELSE Max(jrAsk.checkpoints)

ToRead ==
    LET upto == IF StartsFrom = 0 THEN 0 ELSE JrCheckpoints[StartsFrom].upto
    IN FirstOf({j \in jrAsk.journals : upto < j /\ j <= jrAsk.max}, jrAsk.most)

From(logs, id) == [i \in DOMAIN logs |-> [log |-> logs[i], journal |-> id]]

ToReplay ==
    LET journals == FlattenSeq([i \in DOMAIN ToRead |-> From(JrJournals[ToRead[i]], ToRead[i])])
        all == IF StartsFrom = 0 THEN journals
               ELSE From(JrCheckpoints[StartsFrom].logs, StartsFrom) \o journals
    IN IF ToRead = <<>> /\ ~jrAsk.alone THEN <<>> ELSE Dedupe(<<>>, all)

\* A batch of journals was refused with Retry. ReadLog, called again, takes the
\* empty buffers of the refused journals for journals that were loaded.
RefusedBatch == jrFailure = "retry" /\ jrWindow.start > 0

\* A recovery replays the entries of the checkpoint and of the journals after it in
\* the order in which they were written, none of them twice, each under the id of
\* the blob it is in; and one that succeeds has replayed all of them and reports the
\* last journal (OnReadJournalBlobCallback, ReadJournalLogBatch). It does not hold
\* of a recovery in batches of which one was refused with Retry.
RecoveryIsWhole ==
    ~RefusedBatch =>
       /\ IsPrefix(jrReplayed, ToReplay)
       /\ jrResult = "ok" => /\ jrReplayed = ToReplay
                             /\ ToRead # <<>> => jrProcessed = Last(ToRead)

\* A read is finished once, although any of its callbacks and the loop that issues
\* them may be the last; nothing is under way when it is finished.
ReadEndsOnce ==
    /\ jrAnswers <= 1
    /\ jrPc = "ended" => \A i \in DOMAIN jrReads : jrReads[i] = "counted"

RecoverySettled == jrPc \in {"idle", "ended"}

=============================================================================
