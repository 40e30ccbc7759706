------------------------- MODULE JournalServiceProofs -------------------------
(***************************************************************************)
(* Proofs about JournalService for any set of log entries, any number of   *)
(* journals, failures and restarts, and any size of a checkpoint run.      *)
(***************************************************************************)
EXTENDS JournalService, FiniteSetTheorems, SequenceTheorems, WellFoundedInduction, TLAPS

\* Nobody can be told of this journal's success any more who has not been told.
Settled(j) == write[j] \notin {"none", "scheduled", "putting"}

\* Checkpoint c holds what was acknowledged of every journal it covers.
Complete(c) ==
    \A j \in Ids : j <= c.upto => Settled(j) /\ (write[j] = "ok" => batch[j] \subseteq c.logs)

\* Checkpoint c has everything that d has.
Covers(c, d) == d.upto <= c.upto /\ d.logs \subseteq c.logs

\* The journals: what is being written is not processed, what the ids reported so
\* far cover is settled, and what was acknowledged is in the store.
WritesOK ==
    /\ \A j \in Ids : write[j] \in {"scheduled", "putting"} => j \in unprocessed
    /\ \A j \in Ids : j <= last \/ j <= worker.max => Settled(j)
    /\ \A j \in Ids : write[j] = "ok" => j \in blobs
    /\ \A l \in Logs : status[l] = "ok" => \E j \in Ids : write[j] = "ok" /\ l \in batch[j]

\* The checkpoints, stored or in the making.
CheckpointsOK ==
    /\ Complete(latest)
    /\ Complete(pointed)
    /\ Complete(worker.checkpoint)

\* How the checkpoints relate to each other.
ChainOK ==
    /\ Covers(latest, pointed)
    /\ worker.pc \in {"store", "point"} => Covers(worker.checkpoint, ReadLastCheckpointBlob)
    /\ worker.pc = "point" => latest = worker.checkpoint

\* The inductive invariant.
JournalInv == TypeOK /\ WritesOK /\ CheckpointsOK /\ ChainOK

-----------------------------------------------------------------------------
\* MaxOf returns the greatest id of a set of ids (the last one of the loop in
\* GetLastPersistedJournalId).
LEMMA MaxOfIds ==
    ASSUME NEW S \in SUBSET Ids, NEW d \in 0..MaxJournals
    PROVE  /\ MaxOf(S, d) \in 0..MaxJournals
           /\ S = {} => MaxOf(S, d) = d
           /\ S # {} => MaxOf(S, d) \in S /\ \A k \in S : k <= MaxOf(S, d)
<1>0. MaxJournals \in Nat
    BY Zenon, JournalAssumption
<1>1. CASE S = {}
    BY Zenon, <1>0, <1>1 DEF MaxOf
<1>2. CASE S # {}
    <2> DEFINE T == {n \in Nat : MaxJournals - n \in S}
               R == OpToRel(<, Nat)
    <2>1. T # {}
        <3>1. PICK j \in S : TRUE
            BY Zenon, <1>2
        <3>2. MaxJournals - j \in T
            BY <1>0, <3>1 DEF Ids
        <3> QED
            BY Zenon, <3>2
    <2>2. PICK n \in T : \A k \in T : ~ (<<k, n>> \in R)
        <3> HIDE DEF R
        <3>1. T \subseteq Nat
            BY Zenon
        <3>2. IsWellFoundedOn(R, Nat)
            BY Zenon, NatLessThanWellFounded DEF R
        <3> QED
            BY Zenon, <2>1, <3>1, <3>2, WFMin
    <2>3. ASSUME NEW k \in T, k < n PROVE FALSE
        <3>1. <<k, n>> \in Nat \X Nat
            BY Zenon
        <3>2. R = {ss \in Nat \X Nat : ss[1] < ss[2]}
            BY Zenon DEF OpToRel
        <3>3. <<k, n>> \in R
            BY Zenon, <2>3, <3>1, <3>2
        <3> QED
            BY Zenon, <2>2, <3>3
    <2>4. \A k \in S : k <= MaxJournals - n
        <3>1. ASSUME NEW k \in S PROVE k <= MaxJournals - n
            <4>1. MaxJournals - k \in T
                BY <1>0 DEF Ids
            <4>2. ~ (MaxJournals - k < n)
                BY Zenon, <2>3, <4>1
            <4> QED
                BY <1>0, <4>1, <4>2 DEF Ids
        <3> QED
            BY Zenon, <3>1
    <2>5. \E j \in S : \A k \in S : k <= j
        BY Zenon, <2>4
    <2>6. MaxOf(S, d) \in S /\ \A k \in S : k <= MaxOf(S, d)
        BY <1>2, <2>5, Zenon DEF MaxOf
    <2>7. MaxOf(S, d) \in Ids
        BY Zenon, <2>6
    <2>8. \A j \in Ids : j \in 0..MaxJournals
        BY <1>0 DEF Ids
    <2> QED
        BY <1>2, <2>6, <2>7, <2>8, Zenon
<1> QED
    BY Zenon, <1>1, <1>2

\* The journals of a bounded listing are a prefix of those after the checkpoint
\* (OnListJournalsCallback pushes them in order and stops).
LEMMA ListedPrefix ==
    ASSUME blobs \subseteq Ids, NEW max, NEW n, NEW j \in ListJournals(max, n),
           NEW k \in blobs, k > ReadLastCheckpointBlob.upto, k <= j,
           max \in Int, n \in Nat
    PROVE  k \in ListJournals(max, n)
<1> DEFINE after == {i \in blobs : i > ReadLastCheckpointBlob.upto /\ i <= max}
           Below(i) == {h \in after : h <= i}
<1>1. j \in after /\ Cardinality(Below(j)) <= n
    BY Zenon DEF ListJournals
<1>2. j \in Int /\ k \in Int /\ \A h \in after : h \in Int
    BY <1>1, JournalAssumption DEF Ids
<1>3. k \in after
    BY <1>1, <1>2
<1>4. Below(k) \in SUBSET Below(j)
    <2>1. \A h \in after : h <= k => h <= j
        BY <1>2
    <2> QED
        BY <2>1, Zenon
<1>5. IsFiniteSet(Below(j))
    <2>1. IsFiniteSet(Ids)
        BY FS_Interval, JournalAssumption DEF Ids
    <2> QED
        BY Zenon, <2>1, FS_Subset
<1>6. Cardinality(Below(k)) <= Cardinality(Below(j))
    BY Zenon, <1>4, <1>5, FS_Subset
<1>7. Cardinality(Below(k)) \in Nat /\ Cardinality(Below(j)) \in Nat
    BY Zenon, <1>4, <1>5, FS_Subset, FS_CardinalityType
<1>8. Cardinality(Below(k)) <= n
    BY <1>1, <1>6, <1>7
<1> QED
    BY <1>3, <1>8, Zenon DEF ListJournals

\* A listing without bounds has every journal after the checkpoint.
LEMMA ListedAll ==
    ASSUME blobs \subseteq Ids, NEW j \in blobs, j > ReadLastCheckpointBlob.upto
    PROVE  j \in ListJournals(MaxJournals, MaxJournals)
<1> DEFINE after == {i \in blobs : i > ReadLastCheckpointBlob.upto /\ i <= MaxJournals}
           below == {h \in after : h <= j}
<1>1. j \in after
    BY JournalAssumption DEF Ids
<1>2. below \in SUBSET (1..MaxJournals)
    BY Zenon DEF Ids
<1>3. IsFiniteSet(1..MaxJournals) /\ Cardinality(1..MaxJournals) = MaxJournals
    <2>1. MaxJournals \in Nat
        BY Zenon, JournalAssumption
    <2> QED
        BY <2>1, FS_Interval
<1>4. Cardinality(below) <= MaxJournals
    BY Zenon, <1>2, <1>3, FS_Subset
<1> QED
    BY <1>1, <1>4, Zenon DEF ListJournals

\* The number of counted entries lies between 0 and the length of the queue when
\* FlushLogs finds it positive.
LEMMA PendingType ==
    ASSUME TypeOK
    PROVE  pending_logs \in Int /\ pending_logs <= Len(queue)
<1>1. IsFiniteSet(uncounted)
    BY Zenon, JournalAssumption, FS_Subset DEF TypeOK
<1>2. Cardinality(uncounted) \in Nat
    BY Zenon, <1>1, FS_CardinalityType
<1>3. Len(queue) \in Nat
    BY Zenon, LenProperties DEF TypeOK
<1> QED
    BY <1>2, <1>3 DEF pending_logs

-----------------------------------------------------------------------------
\* Every action keeps the variables in their types.
LEMMA TypeInvariance == TypeOK /\ [Next]_vars => TypeOK'
<1> SUFFICES ASSUME TypeOK, [Next]_vars PROVE TypeOK'
    BY Zenon
<1> USE JournalAssumption DEF Ids, Checkpoints, NoCheckpoint, stream, ids, checkpoint, Idle, EndRun
<1>0. /\ write \in [Ids -> {"none", "scheduled", "putting", "ok", "failed", "refused"}]
      /\ \A j \in Ids : write[j] = "none" <=> j > current
      /\ current \in 0..MaxJournals
      /\ unprocessed \subseteq 1..current /\ processed \subseteq (1..current) \ unprocessed
      /\ last \in 0..current
      /\ MaxJournals \in Nat
    BY Zenon DEF TypeOK
<1>idle. Idle \in [pc : {"idle", "recover", "store", "point"},
                 max : 0..MaxJournals, checkpoint : Checkpoints]
    OBVIOUS
<1>1. ASSUME NEW l \in Logs, AppendLog(l) PROVE TypeOK'
    <2>1. queue' \in Seq(Logs)
        BY Zenon, <1>1, AppendProperties DEF TypeOK, AppendLog
    <2> QED
        BY Zenon, <1>1, <2>1 DEF TypeOK, AppendLog
<1>2. ASSUME NEW l \in Logs, CountLog(l) PROVE TypeOK'
    BY Zenon, <1>2 DEF TypeOK, CountLog
<1>3. CASE FlushLogs
    <2> DEFINE logs == {queue[i] : i \in 1..pending_logs}
    <2>1. pending_logs \in Int /\ pending_logs <= Len(queue) /\ pending_logs > 0
        BY Zenon, <1>3, PendingType DEF FlushLogs
    <2>2. Len(queue) \in Nat /\ \A i \in 1..Len(queue) : queue[i] \in Logs
        BY Zenon, ElementOfSeq, LenProperties DEF TypeOK
    <2>3. queue' \in Seq(Logs)
        <3>1. \A i \in (pending_logs + 1)..Len(queue) : queue[i] \in Logs
            BY <2>1, <2>2
        <3> QED
            BY <1>3, <2>1, <2>2, <3>1, SubSeqProperties DEF FlushLogs
    <2>4. logs \subseteq Logs
        BY <2>1, <2>2
    <2>5. /\ current \in 0..MaxJournals /\ current < MaxJournals /\ current' = current + 1
          /\ unprocessed' = unprocessed \cup {current + 1}
          /\ batch' = [batch EXCEPT ![current + 1] = logs]
          /\ UNCHANGED <<uncounted, processed, last, blobs, checkpoint, crashes>>
        BY Zenon, <1>3 DEF FlushLogs, TypeOK
    <2>6. \/ /\ write' = [write EXCEPT ![current + 1] = "scheduled"]
             /\ UNCHANGED <<status, errors>>
          \/ /\ write' = [write EXCEPT ![current + 1] = "refused"]
             /\ status' = [l \in Logs |-> IF l \in logs THEN "failed" ELSE status[l]]
             /\ errors < MaxErrors /\ errors' = errors + 1
        BY Zenon, <1>3 DEF FlushLogs, Refuse, NotifyBatch
    <2>7. /\ status' \in [Logs -> {"new", "queued", "ok", "failed"}]
          /\ errors' \in 0..MaxErrors
        <3> HIDE DEF logs
        <3>1. status \in [Logs -> {"new", "queued", "ok", "failed"}] /\ errors \in 0..MaxErrors
            BY Zenon DEF TypeOK
        <3>2. status' \in [Logs -> {"new", "queued", "ok", "failed"}]
            BY Zenon, <2>6, <3>1
        <3>3. errors' \in 0..MaxErrors
            BY <2>6, <3>1
        <3> QED
            BY Zenon, <3>2, <3>3
    <2>8. /\ write' \in [Ids -> {"none", "scheduled", "putting", "ok", "failed", "refused"}]
          /\ \A j \in Ids : write'[j] = "none" <=> j > current'
        <3>1. write \in [Ids -> {"none", "scheduled", "putting", "ok", "failed", "refused"}]
              /\ \A j \in Ids : write[j] = "none" <=> j > current
            BY Zenon DEF TypeOK
        <3>2. PICK w \in {"scheduled", "refused"} : write' = [write EXCEPT ![current + 1] = w]
            BY Zenon, <2>6
        <3>3. \A j \in Ids : write'[j] = IF j = current + 1 THEN w ELSE write[j]
            BY Zenon, <3>1, <3>2
        <3>4. \A j \in Ids : write'[j] = "none" <=> j > current + 1
            BY <2>5, <3>1, <3>3
        <3> QED
            BY Zenon, <2>5, <3>1, <3>2, <3>4
    <2>9. batch' \in [Ids -> SUBSET Logs]
        <3> HIDE DEF logs
        <3> QED
            BY Zenon, <2>4, <2>5 DEF TypeOK
    <2>10. /\ unprocessed' \subseteq 1..current'
           /\ processed' \subseteq (1..current') \ unprocessed'
           /\ last' \in 0..current' /\ current' \in 0..MaxJournals
        <3>1. /\ current \in 0..MaxJournals /\ last \in 0..current
              /\ unprocessed \subseteq 1..current
              /\ processed \subseteq (1..current) \ unprocessed
            BY Zenon DEF TypeOK
        <3>2. /\ current < MaxJournals /\ current' = current + 1 /\ last' = last
              /\ unprocessed' = unprocessed \cup {current + 1} /\ processed' = processed
            BY Zenon, <2>5
        <3>3. 1..current \subseteq 1..current' /\ current + 1 \notin 1..current
            BY <3>1, <3>2
        <3>4. current' \in 0..MaxJournals /\ last' \in 0..current' /\ current' \in 1..current'
            BY <3>1, <3>2, JournalAssumption
        <3> QED
            BY <3>1, <3>2, <3>3, <3>4, Zenon
    <2> QED
        BY Zenon, <2>3, <2>5, <2>7, <2>8, <2>9, <2>10 DEF TypeOK
<1>4. ASSUME NEW j \in Ids, WriteBatch(j) PROVE TypeOK'
    <2>1. /\ write[j] = "scheduled"
          /\ UNCHANGED <<queue, uncounted, current, batch, ids, blobs, checkpoint, crashes>>
        BY Zenon, <1>4 DEF WriteBatch
    <2>2. \/ /\ write' = [write EXCEPT ![j] = "putting"]
             /\ UNCHANGED <<status, errors>>
          \/ /\ write' = [write EXCEPT ![j] = "refused"]
             /\ status' = [l \in Logs |-> IF l \in batch[j] THEN "failed" ELSE status[l]]
             /\ errors < MaxErrors /\ errors' = errors + 1
        BY Zenon, <1>4 DEF WriteBatch, Refuse, NotifyBatch
    <2>3. /\ status' \in [Logs -> {"new", "queued", "ok", "failed"}]
          /\ errors' \in 0..MaxErrors
        BY <2>2 DEF TypeOK
    <2>4. /\ write' \in [Ids -> {"none", "scheduled", "putting", "ok", "failed", "refused"}]
          /\ \A i \in Ids : write'[i] = "none" <=> i > current
        BY Zenon, <2>1, <2>2, <1>0
    <2> QED
        BY Zenon, <2>1, <2>3, <2>4 DEF TypeOK
<1>5. ASSUME NEW j \in Ids, OnWriteJournalBlobCallback(j) PROVE TypeOK'
    <2>1. /\ write[j] = "putting"
          /\ unprocessed' = unprocessed \ {j} /\ processed' = processed \cup {j}
          /\ UNCHANGED <<queue, uncounted, current, batch, last, blobs, checkpoint, crashes>>
        BY Zenon, <1>5 DEF OnWriteJournalBlobCallback
    <2>2. \E s \in {"ok", "failed"} :
             /\ write' = [write EXCEPT ![j] = s]
             /\ status' = [l \in Logs |-> IF l \in batch[j] THEN s ELSE status[l]]
        BY Zenon, <1>5 DEF OnWriteJournalBlobCallback, NotifyBatch
    <2>3. status' \in [Logs -> {"new", "queued", "ok", "failed"}]
        BY <2>2 DEF TypeOK
    <2>4. errors' \in 0..MaxErrors
        BY <1>5 DEF OnWriteJournalBlobCallback, TypeOK
    <2>5. /\ write' \in [Ids -> {"none", "scheduled", "putting", "ok", "failed", "refused"}]
          /\ \A i \in Ids : write'[i] = "none" <=> i > current
        BY <2>1, <2>2, <1>0
    <2>6. unprocessed' \subseteq 1..current /\ processed' \subseteq (1..current) \ unprocessed'
        <3>1. j \in 1..current
            BY <2>1, <1>0
        <3> QED
            BY Zenon, <2>1, <3>1, <1>0
    <2> QED
        BY Zenon, <2>1, <2>3, <2>4, <2>5, <2>6 DEF TypeOK
<1>6. ASSUME NEW j \in Ids, PutBlob(j) PROVE TypeOK'
    BY Zenon, <1>6 DEF TypeOK, PutBlob
<1>7. CASE GetLastPersistedJournalId
    <2>1. ProcessedPrefix \subseteq 1..current
        BY Zenon, <1>0 DEF ProcessedPrefix
    <2>2. ProcessedPrefix \in SUBSET Ids /\ last \in 0..MaxJournals
        BY <1>0, <2>1
    <2>3. MaxOf(ProcessedPrefix, last) \in 0..current
        <3> HIDE DEF Ids
        <3> QED
            BY <1>0, <2>1, <2>2, MaxOfIds
    <2>4. processed' \subseteq (1..current) \ unprocessed
        BY Zenon, <1>0, <1>7 DEF GetLastPersistedJournalId
    <2>5. worker' \in [pc : {"idle", "recover", "store", "point"},
                       max : 0..MaxJournals, checkpoint : Checkpoints]
        <3>1. MaxOf(ProcessedPrefix, last) \in 0..MaxJournals
            BY <1>0, <2>3
        <3> HIDE DEF Checkpoints
        <3> QED
            BY Zenon, <1>7, <3>1 DEF TypeOK, GetLastPersistedJournalId
    <2> QED
        BY Zenon, <1>7, <2>3, <2>4, <2>5 DEF TypeOK, GetLastPersistedJournalId
<1>8. CASE Checkpoint
    <2> DEFINE journals == ListJournals(worker.max, MaxPerRun)
               upto == MaxOf(journals, ReadLastCheckpointBlob.upto)
    <2>1. ReadLastCheckpointBlob \in Checkpoints
        BY Zenon DEF TypeOK, ReadLastCheckpointBlob
    <2>2. journals \in SUBSET Ids
        BY Zenon DEF TypeOK, ListJournals
    <2>3. upto \in 0..MaxJournals
        BY Zenon, <2>1, <2>2, MaxOfIds
    <2>4. Replay(journals) \in SUBSET Logs
        BY <2>1, <2>2 DEF TypeOK, Replay
    <2>5. [upto |-> upto, logs |-> Replay(journals)] \in Checkpoints
        BY Zenon, <2>3, <2>4
    <2>6. \/ worker' = Idle
          \/ worker' = [worker EXCEPT !.pc = "store",
                           !.checkpoint = [upto |-> upto, logs |-> Replay(journals)]]
        BY Zenon, <1>8 DEF Checkpoint
    <2>7. worker' \in [pc : {"idle", "recover", "store", "point"},
                       max : 0..MaxJournals, checkpoint : Checkpoints]
        <3> HIDE DEF journals, upto, Checkpoints
        <3>1. NoCheckpoint \in Checkpoints
            BY DEF Checkpoints
        <3> QED
            <4>1. worker \in [pc : {"idle", "recover", "store", "point"},
                              max : 0..MaxJournals, checkpoint : Checkpoints]
                BY Zenon DEF TypeOK
            <4>2. CASE worker' = Idle
                BY <4>2, <3>1, <1>0
            <4>3. CASE worker' # Idle
                BY Zenon, <4>1, <4>3, <2>5, <2>6
            <4> QED
                BY Zenon, <4>2, <4>3
    <2> QED
        BY Zenon, <1>8, <2>7 DEF TypeOK, Checkpoint
<1>9. CASE StoreCheckpoint
    BY Zenon, <1>9 DEF TypeOK, StoreCheckpoint, WriteCheckpointBlob
<1>10. CASE StoreLastCheckpoint
    <2>1. worker \in [pc : {"idle", "recover", "store", "point"},
                      max : 0..MaxJournals, checkpoint : Checkpoints]
        BY Zenon DEF TypeOK
    <2>2. worker.checkpoint.upto \in 0..MaxJournals
        BY Zenon, <2>1 DEF Checkpoints
    <2>3. /\ pointed' = latest /\ checkpointed' \in 0..MaxJournals /\ worker' = Idle
          /\ UNCHANGED <<stream, ids, blobs, latest, errors, crashes>>
        BY Zenon, <1>10, <2>2 DEF StoreLastCheckpoint, EndRun
    <2> HIDE DEF Ids, Checkpoints, Idle
    <2> QED
        BY Zenon, <2>3, <1>idle DEF TypeOK
<1>11. CASE CheckpointFails
    <2>1. /\ worker \in [pc : {"idle", "recover", "store", "point"},
                         max : 0..MaxJournals, checkpoint : Checkpoints]
          /\ latest \in Checkpoints /\ pointed \in Checkpoints /\ errors \in 0..MaxErrors
        BY Zenon DEF TypeOK
    <2>2. worker.checkpoint \in Checkpoints
        BY Zenon, <2>1
    <2>3. latest' \in Checkpoints /\ pointed' \in Checkpoints
        BY Zenon, <1>11, <2>1, <2>2 DEF CheckpointFails, WriteCheckpointBlob
    <2>4. errors' \in 0..MaxErrors
        BY <1>11, <2>1 DEF CheckpointFails
    <2>5. worker' = Idle /\ UNCHANGED <<stream, ids, blobs, checkpointed, crashes>>
        BY <1>11 DEF CheckpointFails, EndRun
    <2> HIDE DEF Ids, Checkpoints, Idle
    <2> QED
        BY Zenon, <2>3, <2>4, <2>5, <1>idle DEF TypeOK
<1>12. CASE Restart
    <2>1. /\ status' = [l \in Logs |-> IF status[l] = "queued" THEN "failed" ELSE status[l]]
          /\ queue' = <<>> /\ uncounted' = {}
          /\ write' = [j \in Ids |-> CASE write[j] = "scheduled" -> "refused"
                                        [] write[j] = "putting" -> "failed"
                                        [] OTHER -> write[j]]
          /\ unprocessed' = {} /\ processed' = {} /\ last' = 0 /\ worker' = Idle
          /\ crashes < MaxCrashes /\ crashes' = crashes + 1 /\ checkpointed' = 0
          /\ UNCHANGED <<current, batch, blobs, latest, pointed, errors>>
        BY Zenon, <1>12 DEF Restart, EndRun
    <2>2. /\ status \in [Logs -> {"new", "queued", "ok", "failed"}]
          /\ write \in [Ids -> {"none", "scheduled", "putting", "ok", "failed", "refused"}]
          /\ \A j \in Ids : write[j] = "none" <=> j > current
          /\ crashes \in 0..MaxCrashes /\ current \in 0..MaxJournals
        BY Zenon DEF TypeOK
    <2>3. status' \in [Logs -> {"new", "queued", "ok", "failed"}]
        BY Zenon, <2>1, <2>2
    <2>4. write' \in [Ids -> {"none", "scheduled", "putting", "ok", "failed", "refused"}]
        BY <2>1, <2>2
    <2>5. \A j \in Ids : write'[j] = "none" <=> j > current'
        <3>1. \A j \in Ids : write'[j] = "none" <=> write[j] = "none"
            BY Zenon, <2>1, <2>2
        <3> QED
            BY Zenon, <2>1, <2>2, <3>1
    <2>6. crashes' \in 0..MaxCrashes /\ last' \in 0..current' /\ checkpointed' \in 0..MaxJournals
        BY <2>1, <2>2, JournalAssumption
    <2>7. queue' \in Seq(Logs)
        BY <2>1
    <2> HIDE DEF Ids, Checkpoints, Idle
    <2> QED
        BY <2>1, <2>3, <2>4, <2>5, <2>6, <2>7, <1>idle DEF TypeOK
<1>13. CASE UNCHANGED vars
    BY Zenon, <1>13 DEF TypeOK, vars
<1> QED
    BY <1>1, <1>2, <1>3, <1>4, <1>5, <1>6, <1>7, <1>8, <1>9, <1>10, <1>11, <1>12, <1>13
       DEF Next, WriteJournal, CheckpointWorker

-----------------------------------------------------------------------------
\* The initial state: nothing is written, acknowledged or checkpointed.
LEMMA InitInv == Init => JournalInv
<1> SUFFICES ASSUME Init PROVE JournalInv
    BY Zenon
<1> USE JournalAssumption DEF Init, Ids, Checkpoints, NoCheckpoint, Idle
<1>1. TypeOK
    <2>1. <<>> \in Seq(Logs)
        OBVIOUS
    <2> QED
        BY <2>1 DEF TypeOK
<1>2. WritesOK
    BY DEF WritesOK
<1>3. CheckpointsOK
    BY DEF CheckpointsOK, Complete
<1>4. ChainOK
    BY DEF ChainOK, Covers, ReadLastCheckpointBlob
<1> QED
    BY Zenon, <1>1, <1>2, <1>3, <1>4 DEF JournalInv

\* A settled journal stays as it is, through restarts too.
LEMMA SettledStays ==
    ASSUME TypeOK, [Next]_vars, NEW j \in Ids, Settled(j)
    PROVE  write'[j] = write[j] /\ batch'[j] = batch[j]
<1> USE DEF Settled, stream
<1>0. /\ write \in [Ids -> {"none", "scheduled", "putting", "ok", "failed", "refused"}]
      /\ \A i \in Ids : write[i] = "none" <=> i > current
      /\ batch \in [Ids -> SUBSET Logs]
      /\ current \in 0..MaxJournals /\ MaxJournals \in Nat
    BY Zenon, JournalAssumption DEF TypeOK
<1>1. CASE FlushLogs
    <2>1. j # current + 1
        BY <1>0 DEF Ids
    <2>2. /\ \E w \in {"scheduled", "refused"} : write' = [write EXCEPT ![current + 1] = w]
          /\ \E logs : batch' = [batch EXCEPT ![current + 1] = logs]
        BY Zenon, <1>1 DEF FlushLogs, Refuse
    <2> QED
        BY Zenon, <1>0, <2>1, <2>2
<1>2. ASSUME NEW i \in Ids, WriteJournal(i) PROVE write'[j] = write[j] /\ batch'[j] = batch[j]
    BY Zenon, <1>0, <1>2 DEF WriteJournal, WriteBatch, OnWriteJournalBlobCallback, Refuse
<1>3. CASE Restart
    BY Zenon, <1>0, <1>3 DEF Restart
<1>4. CASE UNCHANGED <<write, batch>>
    BY Zenon, <1>4
<1> QED
    BY Zenon, <1>1, <1>2, <1>3, <1>4 DEF Next, vars, AppendLog, CountLog, PutBlob, CheckpointWorker,
       GetLastPersistedJournalId, Checkpoint, StoreCheckpoint, StoreLastCheckpoint, CheckpointFails

\* What GetLastPersistedJournalId reports covers settled journals only.
LEMMA ReportedSettled ==
    ASSUME TypeOK, WritesOK, NEW j \in Ids, j <= MaxOf(ProcessedPrefix, last)
    PROVE  Settled(j)
<1>0. /\ current \in 0..MaxJournals /\ MaxJournals \in Nat
      /\ processed \subseteq (1..current) \ unprocessed /\ last \in 0..current
      /\ \A i \in Ids : write[i] = "none" <=> i > current
    BY Zenon, JournalAssumption DEF TypeOK
<1>1. ProcessedPrefix \in SUBSET Ids /\ last \in 0..MaxJournals
    <2>1. ProcessedPrefix \subseteq 1..current
        BY Zenon, <1>0 DEF ProcessedPrefix
    <2> QED
        BY <1>0, <2>1 DEF Ids
<1>2. CASE ProcessedPrefix = {}
    <2>1. MaxOf(ProcessedPrefix, last) = last
        BY Zenon, <1>1, <1>2, MaxOfIds
    <2> QED
        BY Zenon, <2>1 DEF WritesOK
<1>3. CASE ProcessedPrefix # {}
    <2> DEFINE m == MaxOf(ProcessedPrefix, last)
    <2>1. m \in ProcessedPrefix
        BY Zenon, <1>1, <1>3, MaxOfIds
    <2> HIDE DEF m
    <2>2. m \in 1..current /\ \A k \in unprocessed : m < k
        BY Zenon, <1>0, <2>1 DEF ProcessedPrefix
    <2>3. j \notin unprocessed /\ j <= current
        BY <1>0, <2>2 DEF m, Ids
    <2> QED
        BY <1>0, <2>3 DEF WritesOK, Settled, Ids
<1> QED
    BY Zenon, <1>2, <1>3

\* An acknowledged entry stays acknowledged by its journal.
LEMMA AckStays ==
    ASSUME TypeOK, WritesOK, [Next]_vars, NEW l \in Logs, status[l] = "ok"
    PROVE  \E j \in Ids : write'[j] = "ok" /\ l \in batch'[j]
<1>1. PICK j \in Ids : write[j] = "ok" /\ l \in batch[j]
    BY Zenon DEF WritesOK
<1>2. write'[j] = write[j] /\ batch'[j] = batch[j]
    <2>1. Settled(j)
        BY Zenon, <1>1 DEF Settled
    <2> QED
        BY Zenon, <2>1, SettledStays
<1> QED
    BY Zenon, <1>1, <1>2

\* The steps that keep the status of every entry or make it something else than ok.
LEMMA NoNewAck ==
    ASSUME TypeOK, WritesOK, [Next]_vars, \A l \in Logs : status'[l] = "ok" => status[l] = "ok"
    PROVE  \A l \in Logs : status'[l] = "ok" => \E j \in Ids : write'[j] = "ok" /\ l \in batch'[j]
BY Zenon, AckStays

\* Every action keeps what WritesOK says of the journals.
LEMMA WritesInvariance == JournalInv /\ [Next]_vars => WritesOK'
<1> SUFFICES ASSUME JournalInv, [Next]_vars PROVE WritesOK'
    BY Zenon
<1> USE DEF stream, ids, checkpoint
<1>0. /\ TypeOK /\ WritesOK
      /\ write \in [Ids -> {"none", "scheduled", "putting", "ok", "failed", "refused"}]
      /\ \A i \in Ids : write[i] = "none" <=> i > current
      /\ status \in [Logs -> {"new", "queued", "ok", "failed"}]
      /\ batch \in [Ids -> SUBSET Logs]
      /\ current \in 0..MaxJournals /\ MaxJournals \in Nat
      /\ last \in 0..MaxJournals /\ worker.max \in 0..MaxJournals
    BY JournalAssumption DEF JournalInv, TypeOK
<1>1. \A j \in Ids : Settled(j) => Settled(j)'
    BY Zenon, <1>0, SettledStays DEF Settled
<1>2. CASE \E l \in Logs : AppendLog(l) \/ CountLog(l)
    <2>1. \A l \in Logs : status'[l] = "ok" => status[l] = "ok"
        BY Zenon, <1>0, <1>2 DEF AppendLog, CountLog
    <2>2. UNCHANGED <<write, batch, ids, blobs, worker>>
        BY Zenon, <1>2 DEF AppendLog, CountLog
    <2> QED
        BY Zenon, <1>0, <1>1, <2>1, <2>2, NoNewAck DEF WritesOK
<1>3. CASE FlushLogs
    <2>1. \E w \in {"scheduled", "refused"} : write' = [write EXCEPT ![current + 1] = w]
        BY Zenon, <1>3 DEF FlushLogs, Refuse
    <2>2. /\ UNCHANGED <<last, blobs, worker>>
          /\ unprocessed' = unprocessed \cup {current + 1}
        BY Zenon, <1>3 DEF FlushLogs
    <2>3. \A l \in Logs : status'[l] = "ok" => status[l] = "ok"
        BY Zenon, <1>0, <1>3 DEF FlushLogs, Refuse, NotifyBatch
    <2>4. \A j \in Ids : write'[j] \in {"scheduled", "putting"} => j \in unprocessed'
        BY <1>0, <2>1, <2>2 DEF WritesOK
    <2>5. \A j \in Ids : write'[j] = "ok" => j \in blobs'
        BY Zenon, <1>0, <2>1, <2>2 DEF WritesOK
    <2>6. \A j \in Ids : j <= last' \/ j <= worker'.max => Settled(j)'
        BY Zenon, <1>0, <1>1, <2>2 DEF WritesOK
    <2> QED
        BY Zenon, <1>0, <2>3, <2>4, <2>5, <2>6, NoNewAck DEF WritesOK
<1>4. ASSUME NEW i \in Ids, WriteBatch(i) PROVE WritesOK'
    <2>1. /\ write[i] = "scheduled"
          /\ \E w \in {"putting", "refused"} : write' = [write EXCEPT ![i] = w]
          /\ UNCHANGED <<ids, blobs, worker>>
        BY Zenon, <1>4 DEF WriteBatch, Refuse
    <2>2. \A l \in Logs : status'[l] = "ok" => status[l] = "ok"
        BY <1>0, <1>4 DEF WriteBatch, Refuse, NotifyBatch
    <2>3. \A j \in Ids : write'[j] \in {"scheduled", "putting"} => j \in unprocessed'
        BY Zenon, <1>0, <2>1 DEF WritesOK
    <2>4. \A j \in Ids : write'[j] = "ok" => j \in blobs'
        BY Zenon, <1>0, <2>1 DEF WritesOK
    <2>5. \A j \in Ids : j <= last' \/ j <= worker'.max => Settled(j)'
        BY Zenon, <1>0, <1>1, <2>1 DEF WritesOK
    <2> QED
        BY Zenon, <1>0, <2>2, <2>3, <2>4, <2>5, NoNewAck DEF WritesOK
<1>5. ASSUME NEW i \in Ids, OnWriteJournalBlobCallback(i) PROVE WritesOK'
    <2>1. /\ write[i] = "putting"
          /\ unprocessed' = unprocessed \ {i}
          /\ UNCHANGED <<last, batch, blobs, worker>>
        BY Zenon, <1>5 DEF OnWriteJournalBlobCallback
    <2>2. PICK s \in {"ok", "failed"} :
             /\ write' = [write EXCEPT ![i] = s]
             /\ status' = [l \in Logs |-> IF l \in batch[i] THEN s ELSE status[l]]
             /\ s = "ok" => i \in blobs
        BY Zenon, <1>5 DEF OnWriteJournalBlobCallback, NotifyBatch
    <2>3. \A j \in Ids : write'[j] \in {"scheduled", "putting"} => j \in unprocessed'
        BY <1>0, <2>1, <2>2 DEF WritesOK
    <2>4. \A j \in Ids : write'[j] = "ok" => j \in blobs'
        BY Zenon, <1>0, <2>1, <2>2 DEF WritesOK
    <2>5. \A j \in Ids : j <= last' \/ j <= worker'.max => Settled(j)'
        BY Zenon, <1>0, <1>1, <2>1 DEF WritesOK
    <2>6. ASSUME NEW l \in Logs, status'[l] = "ok"
          PROVE  \E j \in Ids : write'[j] = "ok" /\ l \in batch'[j]
        <3>1. CASE status[l] = "ok"
            BY Zenon, <1>0, <3>1, AckStays
        <3>2. CASE status[l] # "ok"
            <4>1. l \in batch[i] /\ s = "ok"
                BY <2>2, <2>6, <3>2
            <4> QED
                BY Zenon, <1>0, <2>1, <2>2, <4>1
        <3> QED
            BY Zenon, <3>1, <3>2
    <2> QED
        BY Zenon, <2>3, <2>4, <2>5, <2>6 DEF WritesOK
<1>6. ASSUME NEW i \in Ids, PutBlob(i) PROVE WritesOK'
    BY Zenon, <1>0, <1>6 DEF PutBlob, WritesOK, Settled
<1>7. CASE GetLastPersistedJournalId
    <2>1. /\ UNCHANGED <<stream, unprocessed, blobs>>
          /\ last' = MaxOf(ProcessedPrefix, last)
          /\ worker' = [worker EXCEPT !.pc = "recover", !.max = MaxOf(ProcessedPrefix, last)]
        BY Zenon, <1>7 DEF GetLastPersistedJournalId
    <2>2. worker'.max = last'
        BY Zenon, <2>1 DEF JournalInv, TypeOK
    <2>3. \A j \in Ids : j <= last' => Settled(j)
        BY Zenon, <1>0, <2>1, ReportedSettled
    <2> QED
        BY Zenon, <1>0, <1>1, <2>1, <2>2, <2>3 DEF WritesOK
<1>8. CASE Checkpoint \/ StoreCheckpoint \/ StoreLastCheckpoint \/ CheckpointFails
    <2>1. /\ UNCHANGED <<stream, ids, blobs>>
          /\ worker'.max \in {0, worker.max}
        <3>1. UNCHANGED <<stream, ids, blobs>>
            BY Zenon, <1>8 DEF Checkpoint, StoreCheckpoint, StoreLastCheckpoint, CheckpointFails
        <3>2. \/ worker' = Idle
              \/ \E p, c : worker' = [worker EXCEPT !.pc = p, !.checkpoint = c]
              \/ worker' = [worker EXCEPT !.pc = "point"]
            BY Zenon, <1>8 DEF Checkpoint, StoreCheckpoint, StoreLastCheckpoint, CheckpointFails, EndRun
        <3>3. worker \in [pc : {"idle", "recover", "store", "point"},
                          max : 0..MaxJournals, checkpoint : Checkpoints]
            BY Zenon, <1>0 DEF TypeOK
        <3>4. CASE worker' = Idle
            BY Zenon, <3>1, <3>4 DEF Idle
        <3>5. CASE \E p, c : worker' = [worker EXCEPT !.pc = p, !.checkpoint = c]
            BY Zenon, <3>1, <3>3, <3>5
        <3>6. CASE worker' = [worker EXCEPT !.pc = "point"]
            BY Zenon, <3>1, <3>3, <3>6
        <3> QED
            BY Zenon, <3>2, <3>4, <3>5, <3>6
    <2>2. \A j \in Ids : j <= worker'.max => j <= worker.max
        BY <1>0, <2>1 DEF Ids
    <2> QED
        BY Zenon, <1>0, <1>1, <2>1, <2>2 DEF WritesOK
<1>9. CASE Restart
    <2>1. /\ \A j \in Ids : write'[j] \notin {"scheduled", "putting"}
          /\ \A j \in Ids : write'[j] = "ok" => write[j] = "ok"
          /\ \A l \in Logs : status'[l] = "ok" => status[l] = "ok"
        BY Zenon, <1>0, <1>9 DEF Restart
    <2>2. last' = 0 /\ worker'.max = 0 /\ blobs' = blobs
        BY Zenon, <1>9 DEF Restart, EndRun, Idle
    <2>3. \A j \in Ids : ~ (j <= 0)
        BY <1>0 DEF Ids
    <2> QED
        BY Zenon, <1>0, <2>1, <2>2, <2>3, NoNewAck DEF WritesOK
<1>10. CASE UNCHANGED vars
    BY Zenon, <1>0, <1>10 DEF vars, WritesOK, Settled
<1> QED
    BY Zenon, <1>2, <1>3, <1>4, <1>5, <1>6, <1>7, <1>8, <1>9, <1>10
       DEF Next, WriteJournal, CheckpointWorker

-----------------------------------------------------------------------------
\* A complete checkpoint stays complete.
LEMMA CompleteStays ==
    ASSUME TypeOK, [Next]_vars, NEW c, Complete(c)
    PROVE  \A j \in Ids : j <= c.upto =>
              Settled(j)' /\ (write'[j] = "ok" => batch'[j] \subseteq c.logs)
<1> SUFFICES ASSUME NEW j \in Ids, j <= c.upto
             PROVE  Settled(j)' /\ (write'[j] = "ok" => batch'[j] \subseteq c.logs)
    BY Zenon
<1>1. Settled(j) /\ (write[j] = "ok" => batch[j] \subseteq c.logs)
    BY Zenon DEF Complete
<1>2. write'[j] = write[j] /\ batch'[j] = batch[j]
    BY Zenon, <1>1, SettledStays
<1> QED
    BY Zenon, <1>1, <1>2 DEF Settled

\* The checkpoint that a run makes is complete: the checkpoint it started from is,
\* and the journals in between that were acknowledged are in the listing.
LEMMA NewCheckpoint ==
    ASSUME JournalInv, ListJournals(worker.max, MaxPerRun) # {}
    PROVE  LET journals == ListJournals(worker.max, MaxPerRun)
               c == [upto |-> MaxOf(journals, ReadLastCheckpointBlob.upto),
                     logs |-> Replay(journals)]
           IN Complete(c) /\ Covers(c, ReadLastCheckpointBlob)
<1> DEFINE start == ReadLastCheckpointBlob
           journals == ListJournals(worker.max, MaxPerRun)
           upto == MaxOf(journals, start.upto)
           c == [upto |-> upto, logs |-> Replay(journals)]
<1>0. /\ start \in Checkpoints /\ start.upto \in 0..MaxJournals /\ Complete(start)
      /\ blobs \subseteq Ids /\ worker.max \in 0..MaxJournals
      /\ MaxPerRun \in Nat /\ MaxJournals \in Nat
    BY Zenon, JournalAssumption
       DEF JournalInv, TypeOK, CheckpointsOK, ReadLastCheckpointBlob, Checkpoints
<1>1. journals \in SUBSET Ids /\ \A j \in journals : j \in blobs /\ j > start.upto /\ j <= worker.max
    BY Zenon, <1>0 DEF ListJournals
<1>2. upto \in journals
    BY Zenon, <1>0, <1>1, MaxOfIds
<1>3. upto \in Ids /\ upto > start.upto /\ upto <= worker.max
    BY <1>1, <1>2
<1>4. c.upto = upto /\ c.logs = start.logs \cup UNION {batch[j] : j \in journals}
    BY Zenon DEF Replay
<1>5. ASSUME NEW j \in Ids, j <= upto
      PROVE  Settled(j) /\ (write[j] = "ok" => batch[j] \subseteq c.logs)
    <2> HIDE DEF c, upto, start
    <2>1. Settled(j)
        <3>1. j <= worker.max
            BY <1>0, <1>3, <1>5 DEF Ids
        <3> QED
            BY Zenon, <3>1 DEF JournalInv, WritesOK
    <2>2. ASSUME write[j] = "ok", j <= start.upto PROVE batch[j] \subseteq c.logs
        BY Zenon, <1>0, <1>4, <2>2 DEF Complete
    <2>3. ASSUME write[j] = "ok", j > start.upto PROVE batch[j] \subseteq c.logs
        <3>1. j \in blobs
            BY <2>3 DEF JournalInv, WritesOK
        <3>2. j \in journals
            BY <1>0, <1>2, <1>5, <2>3, <3>1, ListedPrefix DEF start
        <3> QED
            BY Zenon, <1>4, <3>2
    <2> QED
        BY <1>0, <2>1, <2>2, <2>3 DEF Ids
<1>6. Complete(c)
    BY Zenon, <1>4, <1>5 DEF Complete
<1>7. Covers(c, start)
    <2> HIDE DEF c, upto, start, journals
    <2>1. start.upto <= c.upto
        BY <1>0, <1>3, <1>4 DEF Ids
    <2>2. start.logs \subseteq c.logs
        BY Zenon, <1>4
    <2> QED
        BY Zenon, <2>1, <2>2 DEF Covers
<1> QED
    BY Zenon, <1>6, <1>7

\* Every checkpoint, stored or in the making, stays or becomes complete.
LEMMA CheckpointsInvariance == JournalInv /\ [Next]_vars => CheckpointsOK'
<1> SUFFICES ASSUME JournalInv, [Next]_vars PROVE CheckpointsOK'
    BY Zenon
<1> USE DEF stream, ids, checkpoint
<1> DEFINE Stays(c) == \A j \in Ids : j <= c.upto =>
                          Settled(j)' /\ (write'[j] = "ok" => batch'[j] \subseteq c.logs)
<1>1. TypeOK /\ CheckpointsOK
    BY Zenon DEF JournalInv
<1>2. Stays(latest) /\ Stays(pointed) /\ Stays(worker.checkpoint)
    BY Zenon, <1>1, CompleteStays DEF CheckpointsOK
<1>3. Stays(NoCheckpoint)
    BY JournalAssumption DEF NoCheckpoint, Ids
<1>4. CASE Checkpoint /\ worker' # Idle
    <2> DEFINE journals == ListJournals(worker.max, MaxPerRun)
               c == [upto |-> MaxOf(journals, ReadLastCheckpointBlob.upto), logs |-> Replay(journals)]
    <2>1. journals # {} /\ worker' = [worker EXCEPT !.pc = "store", !.checkpoint = c]
        BY Zenon, <1>4 DEF Checkpoint, EndRun
    <2>2. Complete(c)
        BY Zenon, <2>1, NewCheckpoint
    <2> HIDE DEF c
    <2>3. Stays(c)
        BY Zenon, <1>1, <2>2, CompleteStays
    <2>4. worker'.checkpoint = c
        BY Zenon, <1>1, <2>1 DEF TypeOK
    <2>5. latest' = latest /\ pointed' = pointed
        BY <1>4 DEF Checkpoint
    <2> QED
        BY Zenon, <1>2, <2>3, <2>4, <2>5 DEF CheckpointsOK, Complete
<1>5. CASE ~(Checkpoint /\ worker' # Idle)
    <2> DEFINE Kept == /\ latest' \in {latest, worker.checkpoint}
                       /\ pointed' \in {latest, pointed}
                       /\ worker'.checkpoint \in {worker.checkpoint, NoCheckpoint}
    <2>1. Kept
        <3>0. worker \in [pc : {"idle", "recover", "store", "point"},
                          max : 0..MaxJournals, checkpoint : Checkpoints]
            BY Zenon, <1>1 DEF TypeOK
        <3>1. CASE UNCHANGED <<latest, pointed, worker>>
            BY Zenon, <3>1
        <3>2. CASE GetLastPersistedJournalId
            BY Zenon, <3>0, <3>2 DEF GetLastPersistedJournalId
        <3>3. CASE Checkpoint
            BY <1>5, <3>3 DEF Checkpoint, Idle
        <3>4. CASE StoreCheckpoint
            BY Zenon, <3>0, <3>4 DEF StoreCheckpoint, WriteCheckpointBlob
        <3>5. CASE StoreLastCheckpoint
            BY Zenon, <3>5 DEF StoreLastCheckpoint, EndRun, Idle
        <3>6. CASE CheckpointFails
            BY Zenon, <3>6 DEF CheckpointFails, WriteCheckpointBlob, EndRun, Idle
        <3>7. CASE Restart
            BY Zenon, <3>7 DEF Restart, EndRun, Idle
        <3> HIDE DEF Kept
        <3> QED
            BY <3>1, <3>2, <3>3, <3>4, <3>5, <3>6, <3>7 DEF Next, vars, AppendLog, CountLog,
               FlushLogs, WriteJournal, WriteBatch, OnWriteJournalBlobCallback, PutBlob,
               CheckpointWorker
    <2> HIDE DEF Stays
    <2>2. Stays(latest') /\ Stays(pointed') /\ Stays(worker'.checkpoint)
        BY Zenon, <1>2, <1>3, <2>1
    <2> QED
        BY <2>2 DEF Stays, CheckpointsOK, Complete
<1> QED
    BY Zenon, <1>4, <1>5

\* The checkpoint a run makes covers the one it started from, and the one that
\* last_checkpoint names is covered by the latest.
LEMMA ChainInvariance ==
    JournalInv /\ [Next]_vars => ChainOK' /\ Covers(ReadLastCheckpointBlob', ReadLastCheckpointBlob)
<1> SUFFICES ASSUME JournalInv, [Next]_vars
             PROVE  ChainOK' /\ Covers(ReadLastCheckpointBlob', ReadLastCheckpointBlob)
    BY Zenon
<1> USE DEF stream, ids, checkpoint
<1> DEFINE Goal == ChainOK' /\ Covers(ReadLastCheckpointBlob', ReadLastCheckpointBlob)
<1>0. /\ latest \in Checkpoints /\ pointed \in Checkpoints /\ worker.checkpoint \in Checkpoints
      /\ worker \in [pc : {"idle", "recover", "store", "point"},
                     max : 0..MaxJournals, checkpoint : Checkpoints]
      /\ ReadLastCheckpointBlob \in Checkpoints
      /\ ChainOK
    BY Zenon DEF JournalInv, TypeOK, ReadLastCheckpointBlob
<1>1. \A c \in Checkpoints : Covers(c, c)
    BY JournalAssumption DEF Covers, Checkpoints
<1>2. CASE UNCHANGED <<latest, pointed, worker>>
    BY Zenon, <1>0, <1>1, <1>2 DEF ChainOK, ReadLastCheckpointBlob, Covers
<1>3. CASE /\ UNCHANGED <<latest, pointed>>
           /\ worker'.pc \notin {"store", "point"}
    BY Zenon, <1>0, <1>1, <1>3 DEF ChainOK, ReadLastCheckpointBlob, Covers
<1>4. CASE Checkpoint /\ worker' # Idle
    <2> DEFINE journals == ListJournals(worker.max, MaxPerRun)
               c == [upto |-> MaxOf(journals, ReadLastCheckpointBlob.upto), logs |-> Replay(journals)]
    <2>1. /\ journals # {} /\ worker' = [worker EXCEPT !.pc = "store", !.checkpoint = c]
          /\ latest' = latest /\ pointed' = pointed
        BY Zenon, <1>4 DEF Checkpoint, EndRun
    <2>2. Covers(c, ReadLastCheckpointBlob)
        BY Zenon, <2>1, NewCheckpoint
    <2> HIDE DEF c
    <2>3. worker'.checkpoint = c /\ worker'.pc = "store"
        BY Zenon, <1>0, <2>1
    <2>4. ReadLastCheckpointBlob' = ReadLastCheckpointBlob
        BY Zenon, <2>1 DEF ReadLastCheckpointBlob
    <2> QED
        BY Zenon, <1>0, <1>1, <2>1, <2>2, <2>3, <2>4 DEF ChainOK, Covers
<1>5. ASSUME worker.pc = "store", latest' = worker.checkpoint, pointed' = pointed
      PROVE  /\ Covers(latest', pointed')
             /\ Covers(ReadLastCheckpointBlob', ReadLastCheckpointBlob)
             /\ Covers(latest', ReadLastCheckpointBlob')
    <2>1. Covers(worker.checkpoint, ReadLastCheckpointBlob)
        BY Zenon, <1>0, <1>5 DEF ChainOK
    <2>2. CASE pointed # NoCheckpoint
        BY <1>0, <1>1, <1>5, <2>1, <2>2 DEF ReadLastCheckpointBlob
    <2>3. CASE pointed = NoCheckpoint
        <3>1. ReadLastCheckpointBlob = latest /\ ReadLastCheckpointBlob' = latest'
            BY Zenon, <1>5, <2>3 DEF ReadLastCheckpointBlob
        <3>2. Covers(worker.checkpoint, NoCheckpoint)
            BY <1>0, JournalAssumption DEF Covers, NoCheckpoint, Checkpoints
        <3> QED
            BY Zenon, <1>0, <1>1, <1>5, <2>1, <2>3, <3>1, <3>2
    <2> QED
        BY Zenon, <2>2, <2>3
<1>6. CASE StoreCheckpoint
    <2>1. /\ worker.pc = "store" /\ latest' = worker.checkpoint /\ pointed' = pointed
          /\ worker' = [worker EXCEPT !.pc = "point"]
        BY Zenon, <1>6 DEF StoreCheckpoint, WriteCheckpointBlob
    <2>2. worker'.checkpoint = worker.checkpoint /\ worker'.pc = "point"
        BY Zenon, <1>0, <2>1
    <2> QED
        BY Zenon, <1>5, <2>1, <2>2 DEF ChainOK
<1>7. ASSUME worker.pc = "point", pointed' = latest, latest' = latest
      PROVE  /\ Covers(latest', pointed')
             /\ Covers(ReadLastCheckpointBlob', ReadLastCheckpointBlob)
    <2>1. ReadLastCheckpointBlob' = latest
        BY Zenon, <1>7 DEF ReadLastCheckpointBlob
    <2>2. Covers(latest, ReadLastCheckpointBlob)
        BY Zenon, <1>0, <1>7 DEF ChainOK
    <2> QED
        BY Zenon, <1>0, <1>1, <1>7, <2>1, <2>2
<1>8. CASE StoreLastCheckpoint
    <2>1. worker.pc = "point" /\ pointed' = latest /\ latest' = latest /\ worker'.pc = "idle"
        BY Zenon, <1>8 DEF StoreLastCheckpoint, EndRun, Idle
    <2> QED
        BY Zenon, <1>7, <2>1 DEF ChainOK
<1>9. CASE CheckpointFails
    <2>1. /\ worker'.pc = "idle"
          /\ \/ UNCHANGED <<latest, pointed>>
             \/ worker.pc = "store" /\ latest' = worker.checkpoint /\ pointed' = pointed
             \/ worker.pc = "point" /\ pointed' = latest /\ latest' = latest
        BY Zenon, <1>9 DEF CheckpointFails, WriteCheckpointBlob, EndRun, Idle
    <2> QED
        BY <1>3, <1>5, <1>7, <2>1 DEF ChainOK
<1>10. CASE Checkpoint /\ worker' = Idle
    BY Zenon, <1>3, <1>10 DEF Checkpoint, Idle
<1>11. CASE Restart
    BY Zenon, <1>3, <1>11 DEF Restart, EndRun, Idle
<1>12. CASE GetLastPersistedJournalId
    <2>1. worker'.pc = "recover" /\ UNCHANGED <<latest, pointed>>
        BY Zenon, <1>0, <1>12 DEF GetLastPersistedJournalId
    <2> QED
        BY Zenon, <1>3, <2>1
<1> HIDE DEF Goal
<1> QED
    <2>1. Goal
        BY <1>2, <1>4, <1>6, <1>8, <1>9, <1>10, <1>11, <1>12 DEF Goal, Next, vars, AppendLog,
           CountLog, FlushLogs, WriteJournal, WriteBatch, OnWriteJournalBlobCallback, PutBlob,
           CheckpointWorker
    <2> QED
        BY Zenon, <2>1 DEF Goal

-----------------------------------------------------------------------------
\* JournalInv is an invariant of every behaviour.
THEOREM JournalInvariance == Spec => []JournalInv
<1>1. JournalInv /\ [Next]_vars => JournalInv'
    BY Zenon, TypeInvariance, WritesInvariance, CheckpointsInvariance, ChainInvariance DEF JournalInv
<1> QED
    BY <1>1, InitInv, PTL DEF Spec

\* Type correctness of the output stream and the checkpoint service.
THEOREM JournalTypeCorrectness == Spec => []TypeOK
<1>1. JournalInv => TypeOK
    BY Zenon DEF JournalInv
<1> QED
    BY <1>1, JournalInvariance, PTL

\* What GetLastPersistedJournalId has reported covers no journal still being written.
THEOREM ReportedIdIsSafe == Spec => []PersistedIdIsSafe
<1>1. JournalInv => PersistedIdIsSafe
    BY Zenon DEF JournalInv, WritesOK, Settled, PersistedIdIsSafe
<1> QED
    BY <1>1, JournalInvariance, PTL

\* A restart at any moment restores every acknowledged entry.
THEOREM AcknowledgedSurvives == Spec => []AckedSurvives
<1>1. JournalInv => AckedSurvives
    <2> SUFFICES ASSUME JournalInv, NEW l \in Logs, status[l] = "ok"
                 PROVE  l \in Replay(ListJournals(MaxJournals, MaxJournals))
        BY Zenon DEF AckedSurvives
    <2>1. PICK j \in Ids : write[j] = "ok" /\ l \in batch[j] /\ j \in blobs
        BY Zenon DEF JournalInv, WritesOK
    <2>2. /\ ReadLastCheckpointBlob.upto \in 0..MaxJournals
          /\ Complete(ReadLastCheckpointBlob)
          /\ blobs \subseteq Ids
        BY Zenon DEF JournalInv, TypeOK, CheckpointsOK, ReadLastCheckpointBlob, Checkpoints
    <2>3. CASE j <= ReadLastCheckpointBlob.upto
        BY <2>1, <2>2, <2>3 DEF Complete, Replay
    <2>4. CASE j > ReadLastCheckpointBlob.upto
        BY Zenon, <2>1, <2>2, <2>4, ListedAll DEF Replay
    <2> QED
        BY <2>2, <2>3, <2>4, JournalAssumption DEF Ids
<1> QED
    BY <1>1, JournalInvariance, PTL

\* No run of the checkpoint worker, complete or cut short, takes a checkpoint back.
THEOREM CheckpointsGrow == Spec => CheckpointGrows
<1>1. JournalInv /\ [Next]_vars =>
        [/\ ReadLastCheckpointBlob.upto <= ReadLastCheckpointBlob'.upto
         /\ ReadLastCheckpointBlob.logs \subseteq ReadLastCheckpointBlob'.logs]_vars
    BY Zenon, ChainInvariance DEF Covers
<1> QED
    BY <1>1, JournalInvariance, PTL DEF Spec, CheckpointGrows

=============================================================================
