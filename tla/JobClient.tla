------------------------------- MODULE JobClient -------------------------------
(***************************************************************************)
(* JobClientProvider: a job is a message of a queue and an entry of a      *)
(* table. PutJob enqueues the message and then inserts the entry; a worker *)
(* takes the next message, finds the entry, updates its status, and        *)
(* deletes the message once the job is finished. An operation is a chain   *)
(* of calls of the clients of the queue and the database; the callback of  *)
(* one makes the next. The model has one job id, several workers, and the  *)
(* messages enqueued for the job, whose ids are server_job_id. The queue   *)
(* and the database are external. Bodies, malformed entries, and the times *)
(* that nothing is decided on are left out.                                *)
(***************************************************************************)
EXTENDS NoSqlRows, Naturals, FiniteSets

CONSTANTS
    JcWorkers,        \* the workers, each with one call at a time
    JcClouds,         \* the clouds to consider
    JcRedeliver,      \* whether a message is redelivered while it is held
    JcMaxMessages,    \* bound: the messages that are enqueued
    JcMaxClock        \* bound: the times that are written

VARIABLES
    jcCloud,          \* the cloud that the client is built for
    jcRow,            \* the entry of the job
    jcQueue,          \* each message: none yet, visible, deleted, or who has it
    jcClock,          \* the last time that was read
    jcWorker,         \* what a worker was told: the updated time and the receipt
    jcCall            \* its call

jcVars == <<jcCloud, jcRow, jcQueue, jcClock, jcWorker, jcCall>>

JcMessages == 1..JcMaxMessages
JcFinal == {"SUCCESS", "FAILURE"}

CreateJob(server, status, time, retries) ==
    [ServerJobId |-> server, JobStatus |-> status, UpdatedTime |-> time, RetryCount |-> retries]

\* stage: the call of a client that is under way. status: the requested status.
\* updated: most_recent_updated_time. message: the message that the call is
\* about. write: the attributes to upsert. finishes: of its context.
JcIdle ==
    [stage |-> "none", status |-> "UNKNOWN", updated |-> 0, message |-> 0, write |-> << >>,
     result |-> "none", finishes |-> 0]

\* The job may have been put by an earlier client.
JcInit ==
    /\ jcCloud \in JcClouds
    /\ \/ jcRow = NsAbsent /\ jcQueue = [m \in JcMessages |-> "none"]
       \/ /\ jcRow = NsStored(CreateJob(1, "CREATED", 1, 0))
          /\ jcQueue = [m \in JcMessages |-> IF m = 1 THEN "visible" ELSE "none"]
    /\ jcClock = 1
    /\ jcWorker = [w \in JcWorkers |-> [updated |-> 0, receipt |-> 0]]
    /\ jcCall = [w \in JcWorkers |-> JcIdle]

\* Mutant: a job that is finished may be processed again.
AllowsReprocessing(status) == {"PROCESSING", "SUCCESS", "FAILURE"}

\* allowed_status_to_update
AllowedStatusToUpdate(status) ==
    IF status \in {"CREATED", "PROCESSING"} THEN {"PROCESSING", "SUCCESS", "FAILURE"} ELSE {}

ValidateJobStatus(current, update) == update \in AllowedStatusToUpdate(current)

-----------------------------------------------------------------------------
(* The calls that an operation makes of the clients. On GCP a client hands  *)
(* the request to an executor. If that refuses, the client finishes its     *)
(* context, whose callback finishes the operation's, and returns the        *)
(* failure; a callback that made the call then finishes the operation's     *)
(* context once more.                                                       *)

JcFinish(call, result) == [JcIdle EXCEPT !.result = result, !.finishes = call.finishes + 1]

JcRefused(calls) == IF jcCloud = "gcp" THEN calls ELSE {}

JcFirstCall(call, stage) ==
    {[call EXCEPT !.stage = stage]} \cup JcRefused({JcFinish(call, "Failure")})

JcNestedCall(call, stage) ==
    {[call EXCEPT !.stage = stage]}
       \cup JcRefused({JcFinish(JcFinish(call, "Failure"), "Failure")})

JcSet(w, calls) == \E call \in calls : jcCall' = [jcCall EXCEPT ![w] = call]

\* A worker starts an operation, whose arguments may be refused at once.
JcStart(w, valid, call, stage) ==
    /\ jcCall[w].stage = "none"
    /\ JcSet(w, IF valid THEN JcFirstCall(call, stage) ELSE {JcFinish(call, "Invalid")})
    /\ UNCHANGED <<jcCloud, jcRow, jcQueue, jcClock, jcWorker>>

\* The call of a client fails.
JcFails(w) == JcSet(w, {JcFinish(jcCall[w], "Failure")})

JcTold(w, time, message) ==
    jcWorker' = [jcWorker EXCEPT ![w] = [updated |-> time, receipt |-> message]]

\* An upsert, on either database.
JcUpsert(row, required, write) ==
    IF jcCloud = "gcp" THEN GetMergedJson(row, required, write)
    ELSE DynamoUpdateItem(row, required, write)

-----------------------------------------------------------------------------
(* PutJob.                                                                  *)

PutJob(w) ==
    \E valid \in BOOLEAN :
       (\E m \in JcMessages : jcQueue[m] = "none") /\ JcStart(w, valid, JcIdle, "enqueue")

\* The message is enqueued, and then the entry inserted, unless the body
\* cannot be serialized.
OnEnqueueMessageCallback(w) ==
    /\ jcCall[w].stage = "enqueue"
    /\ \/ JcFails(w) /\ UNCHANGED <<jcQueue, jcClock>>
       \/ \E m \in JcMessages :
            /\ jcQueue[m] = "none" /\ \A n \in 1..(m - 1) : jcQueue[n] # "none"
            /\ jcQueue' = [jcQueue EXCEPT ![m] = "visible"]
            /\ \/ JcFails(w) /\ UNCHANGED jcClock
               \/ /\ jcClock < JcMaxClock /\ jcClock' = jcClock + 1
                  /\ JcSet(w, JcNestedCall([jcCall[w] EXCEPT
                                !.message = m, !.write = CreateJob(m, "CREATED", jcClock', 0)], "put"))
    /\ UNCHANGED <<jcCloud, jcRow, jcWorker>>

\* CreatePutJobRequest: the columns that an entry must not have yet are
\* required to be empty (0).
PutJobRequires == [JobId |-> 0, ServerJobId |-> 0]

ConvertDatabaseErrorForPutJob(result) ==
    IF result = (IF jcCloud = "gcp" THEN "RECORD_NOT_FOUND" ELSE "CONDITIONAL_CHECKED_FAILED")
    THEN "DUPLICATE_JOB_ENTRY_CREATION"
    ELSE "JOB_ENTRY_CREATION_FAILED"

OnUpsertNewJobItemCallback(w) ==
    LET upsert == JcUpsert(jcRow, PutJobRequires, jcCall[w].write) IN
    /\ jcCall[w].stage = "put"
    /\ jcRow' = upsert.row
    /\ \/ JcSet(w, {JcFinish(jcCall[w], "JOB_ENTRY_CREATION_FAILED")})
       \/ JcSet(w, {JcFinish(jcCall[w], IF upsert.result = "Success" THEN "Success"
                                        ELSE ConvertDatabaseErrorForPutJob(upsert.result))})
    /\ UNCHANGED <<jcCloud, jcQueue, jcClock, jcWorker>>

-----------------------------------------------------------------------------
(* GetNextJob and GetJobById.                                               *)

GetNextJob(w) == JcStart(w, TRUE, JcIdle, "top")

\* The queue hides the message that it gives out. None may be there.
OnGetTopMessageCallback(w) ==
    /\ jcCall[w].stage = "top"
    /\ \/ JcFails(w) /\ UNCHANGED jcQueue
       \/ /\ \A m \in JcMessages : jcQueue[m] # "visible"
          /\ JcSet(w, {JcFinish(jcCall[w], "Success")}) /\ UNCHANGED jcQueue
       \/ \E m \in JcMessages :
            /\ jcQueue[m] = "visible"
            /\ jcQueue' = [jcQueue EXCEPT ![m] = w]
            /\ JcSet(w, JcNestedCall([jcCall[w] EXCEPT !.message = m], "next"))
    /\ UNCHANGED <<jcCloud, jcRow, jcClock, jcWorker>>

\* The entry has to be of this message.
CreateGetNextJobRequest(message) == [ServerJobId |-> message]

OnGetNextJobItemCallback(w) ==
    LET found == NsReadResult(jcRow, CreateGetNextJobRequest(jcCall[w].message)) IN
    /\ jcCall[w].stage = "next"
    /\ \/ JcFails(w) /\ UNCHANGED jcWorker
       \/ /\ JcSet(w, {JcFinish(jcCall[w], found)})
          /\ IF found = "Success" THEN JcTold(w, jcRow.value.UpdatedTime, jcCall[w].message)
             ELSE UNCHANGED jcWorker
    /\ UNCHANGED <<jcCloud, jcRow, jcQueue, jcClock>>

GetJobById(w) == \E valid \in BOOLEAN : JcStart(w, valid, JcIdle, "byid")

OnGetJobItemByJobIdCallback(w) ==
    /\ jcCall[w].stage = "byid"
    /\ \/ JcFails(w) /\ UNCHANGED jcWorker
       \/ /\ ~jcRow.present /\ JcSet(w, {JcFinish(jcCall[w], "RECORD_NOT_FOUND")})
          /\ UNCHANGED jcWorker
       \/ /\ jcRow.present /\ JcSet(w, {JcFinish(jcCall[w], "Success")})
          /\ JcTold(w, jcRow.value.UpdatedTime, jcWorker[w].receipt)
    /\ UNCHANGED <<jcCloud, jcRow, jcQueue, jcClock>>

-----------------------------------------------------------------------------
(* UpdateJobBody and UpdateJobStatus, by a worker that has the message.     *)

JcHolds(w) == jcWorker[w].receipt # 0 /\ (JcRedeliver \/ jcQueue[jcWorker[w].receipt] = w)

JcUpdate(w, status) ==
    [JcIdle EXCEPT !.status = status, !.updated = jcWorker[w].updated,
                   !.message = jcWorker[w].receipt]

UpdateJobBody(w) ==
    /\ JcHolds(w)
    /\ \E valid \in BOOLEAN : JcStart(w, valid, JcUpdate(w, "UNKNOWN"), "body")

\* The entry was updated after the time that the request knows of.
JcStale(w) == jcRow.value.UpdatedTime > jcCall[w].updated

\* The entry is read, checked, and the write prepared. The attributes of a job
\* that are not set are not written, but the retry count always is.
JcReadForUpdate(w, accepts, write(_), stage) ==
    /\ \/ JcFails(w) /\ UNCHANGED jcClock
       \/ /\ ~jcRow.present /\ JcSet(w, {JcFinish(jcCall[w], "RECORD_NOT_FOUND")})
          /\ UNCHANGED jcClock
       \/ /\ jcRow.present /\ (JcStale(w) \/ ~accepts)
          /\ JcSet(w, {JcFinish(jcCall[w], IF JcStale(w) THEN "UPDATION_CONFLICT" ELSE "Invalid")})
          /\ UNCHANGED jcClock
       \/ /\ jcRow.present /\ ~JcStale(w) /\ accepts
          /\ jcClock < JcMaxClock /\ jcClock' = jcClock + 1
          /\ JcSet(w, JcNestedCall([jcCall[w] EXCEPT !.write = write(jcClock')], stage))
    /\ UNCHANGED <<jcCloud, jcRow, jcQueue, jcWorker>>

OnGetJobItemForUpdateJobBodyCallback(w) ==
    /\ jcCall[w].stage = "body"
    /\ JcReadForUpdate(w, TRUE, LAMBDA time : [UpdatedTime |-> time, RetryCount |-> 0], "upsertbody")

\* Required attributes there are none. The upsert fails, and may have been
\* applied nevertheless.
JcUpsertUpdated(w) ==
    /\ jcRow' = JcUpsert(jcRow, << >>, jcCall[w].write).row
    /\ UNCHANGED <<jcCloud, jcClock>>

OnUpsertUpdatedJobBodyJobItemCallback(w) ==
    /\ jcCall[w].stage = "upsertbody"
    /\ \/ JcFails(w) /\ UNCHANGED <<jcCloud, jcRow, jcClock, jcWorker>>
       \/ JcFails(w) /\ JcUpsertUpdated(w) /\ UNCHANGED jcWorker
       \/ /\ JcUpsertUpdated(w)
          /\ JcTold(w, jcCall[w].write.UpdatedTime, jcWorker[w].receipt)
          /\ JcSet(w, {JcFinish(jcCall[w], "Success")})
    /\ UNCHANGED jcQueue

UpdateJobStatus(w, status) ==
    /\ JcHolds(w)
    /\ \E valid \in BOOLEAN : JcStart(w, valid, JcUpdate(w, status), "status")

\* PROCESSING counts an attempt.
OnGetJobItemForUpdateJobStatusCallback(w) ==
    LET status == jcCall[w].status IN
    /\ jcCall[w].stage = "status"
    /\ JcReadForUpdate(w, ValidateJobStatus(jcRow.value.JobStatus, status),
         LAMBDA time : [JobStatus |-> status, UpdatedTime |-> time,
                        RetryCount |-> jcRow.value.RetryCount
                                         + (IF status = "PROCESSING" THEN 1 ELSE 0)],
         "upsertstatus")

\* Mutant: the message is deleted before the status is written.
DeletesFirst(w) ==
    /\ jcCall[w].stage = "upsertstatus"
    /\ \/ JcFails(w) /\ UNCHANGED <<jcCloud, jcRow, jcClock, jcWorker, jcQueue>>
       \/ /\ jcQueue' = [jcQueue EXCEPT ![jcCall[w].message] = "deleted"]
          /\ JcSet(w, {[jcCall[w] EXCEPT !.stage = "delete"]})
          /\ UNCHANGED <<jcCloud, jcRow, jcClock, jcWorker>>

DeleteJobMessageForUpdatingJobStatus(call) == JcNestedCall(call, "delete")

\* The message of a job that is finished is deleted next.
OnUpsertUpdatedJobStatusJobItemCallback(w) ==
    /\ jcCall[w].stage = "upsertstatus"
    /\ \/ JcFails(w) /\ UNCHANGED <<jcCloud, jcRow, jcClock, jcWorker>>
       \/ JcFails(w) /\ JcUpsertUpdated(w) /\ UNCHANGED jcWorker
       \/ /\ JcUpsertUpdated(w)
          /\ IF jcCall[w].status \in JcFinal
             THEN /\ JcSet(w, DeleteJobMessageForUpdatingJobStatus(jcCall[w]))
                  /\ UNCHANGED jcWorker
             ELSE /\ JcSet(w, {JcFinish(jcCall[w], "Success")})
                  /\ JcTold(w, jcCall[w].write.UpdatedTime, jcWorker[w].receipt)
    /\ UNCHANGED jcQueue

\* The queue deletes a message, or fails to.
JcDeletes(w) ==
    /\ \/ JcFails(w) /\ UNCHANGED jcQueue
       \/ /\ jcQueue' = [jcQueue EXCEPT ![jcCall[w].message] = "deleted"]
          /\ JcSet(w, {JcFinish(jcCall[w], "Success")})
    /\ UNCHANGED <<jcCloud, jcRow, jcClock, jcWorker>>

OnDeleteJobMessageForUpdatingJobStatusCallback(w) ==
    jcCall[w].stage = "delete" /\ JcDeletes(w)

-----------------------------------------------------------------------------
(* UpdateJobVisibilityTimeout and DeleteOrphanedJobMessage.                 *)

\* The duration may be zero (status "CREATED" here), which makes the message
\* visible.
UpdateJobVisibilityTimeout(w) ==
    /\ JcHolds(w)
    /\ \E valid \in BOOLEAN, status \in {"CREATED", "PROCESSING"} :
          JcStart(w, valid, JcUpdate(w, status), "visibility")

OnUpdateMessageVisibilityTimeoutCallback(w) ==
    LET call == jcCall[w] IN
    /\ call.stage = "visibility"
    /\ \/ JcFails(w) /\ UNCHANGED jcQueue
       \/ /\ jcQueue[call.message] = w
          /\ jcQueue' = IF call.status = "CREATED"
                        THEN [jcQueue EXCEPT ![call.message] = "visible"] ELSE jcQueue
          /\ JcSet(w, {JcFinish(call, "Success")})
    /\ UNCHANGED <<jcCloud, jcRow, jcClock, jcWorker>>

DeleteOrphanedJobMessage(w) ==
    /\ JcHolds(w)
    /\ \E valid \in BOOLEAN : JcStart(w, valid, JcUpdate(w, "UNKNOWN"), "orphan")

DeleteJobMessageForDeletingOrphanedJob(call) == JcNestedCall(call, "deleteorphan")

\* The message goes if there is no entry, or the job is finished.
OnGetJobItemForDeleteOrphanedJobMessageCallback(w) ==
    /\ jcCall[w].stage = "orphan"
    /\ \/ JcFails(w)
       \/ /\ jcRow.present => jcRow.value.JobStatus \in JcFinal
          /\ JcSet(w, DeleteJobMessageForDeletingOrphanedJob(jcCall[w]))
       \/ /\ jcRow.present /\ jcRow.value.JobStatus \notin JcFinal
          /\ JcSet(w, {JcFinish(jcCall[w], "Invalid")})
    /\ UNCHANGED <<jcCloud, jcRow, jcQueue, jcClock, jcWorker>>

OnDeleteJobMessageForDeletingOrphanedJobCallback(w) ==
    jcCall[w].stage = "deleteorphan" /\ JcDeletes(w)

-----------------------------------------------------------------------------

\* External: the visibility timeout of a message. It is longer than a worker
\* takes, unless JcRedeliver.
JcRedelivers(m) ==
    /\ jcQueue[m] \in JcWorkers
    /\ JcRedeliver \/ (jcWorker[jcQueue[m]].receipt # m /\ jcCall[jcQueue[m]].message # m)
    /\ jcQueue' = [jcQueue EXCEPT ![m] = "visible"]
    /\ UNCHANGED <<jcCloud, jcRow, jcClock, jcWorker, jcCall>>

\* A worker crashes and starts anew.
JcCrash(w) ==
    /\ jcWorker' = [jcWorker EXCEPT ![w] = [updated |-> 0, receipt |-> 0]]
    /\ jcCall' = [jcCall EXCEPT ![w] = JcIdle]
    /\ UNCHANGED <<jcCloud, jcRow, jcQueue, jcClock>>

JcOperation(w) ==
    \/ PutJob(w) \/ GetNextJob(w) \/ GetJobById(w) \/ UpdateJobBody(w)
    \/ \E status \in {"CREATED", "PROCESSING"} \cup JcFinal : UpdateJobStatus(w, status)
    \/ UpdateJobVisibilityTimeout(w) \/ DeleteOrphanedJobMessage(w)

JcStep(w) ==
    \/ OnEnqueueMessageCallback(w) \/ OnUpsertNewJobItemCallback(w)
    \/ OnGetTopMessageCallback(w) \/ OnGetNextJobItemCallback(w)
    \/ OnGetJobItemByJobIdCallback(w)
    \/ OnGetJobItemForUpdateJobBodyCallback(w) \/ OnUpsertUpdatedJobBodyJobItemCallback(w)
    \/ OnGetJobItemForUpdateJobStatusCallback(w) \/ OnUpsertUpdatedJobStatusJobItemCallback(w)
    \/ OnDeleteJobMessageForUpdatingJobStatusCallback(w)
    \/ OnDeleteJobMessageForDeletingOrphanedJobCallback(w)
    \/ OnUpdateMessageVisibilityTimeoutCallback(w)
    \/ OnGetJobItemForDeleteOrphanedJobMessageCallback(w)

JcNext ==
    \/ \E w \in JcWorkers : JcOperation(w) \/ JcStep(w) \/ JcCrash(w)
    \/ \E m \in JcMessages : JcRedelivers(m)

JcSpec == JcInit /\ [][JcNext]_jcVars

JcTypeOK ==
    /\ jcCloud \in JcClouds /\ jcRow.present \in BOOLEAN /\ jcClock \in 1..JcMaxClock
    /\ jcQueue \in [JcMessages -> {"none", "visible", "deleted"} \cup JcWorkers]
    /\ jcWorker \in [JcWorkers -> [updated : 0..JcMaxClock, receipt : {0} \cup JcMessages]]
    /\ \A w \in JcWorkers : jcCall[w].finishes \in 0..2 /\ jcCall[w].message \in {0} \cup JcMessages

\* As long as messages are not redelivered while they are held, the entry of a
\* job that is not finished has its message: whatever fails or crashes on the
\* way, some worker can still take the job (job_client_provider.cc:751).
JobKeepsItsMessage ==
    jcRow.present /\ jcRow.value.JobStatus \notin JcFinal
       => jcQueue[jcRow.value.ServerJobId] # "deleted"

\* A job that is finished stays so, with the status it was given.
JobStaysFinished ==
    [][jcRow.present /\ jcRow.value.JobStatus \in JcFinal
         => jcRow'.value.JobStatus = jcRow.value.JobStatus]_jcVars

\* PutJob says that the entry is a duplicate only if there is one.
DuplicateIsStored ==
    \A w \in JcWorkers : jcCall[w].result = "DUPLICATE_JOB_ENTRY_CREATION" => jcRow.present

================================================================================
