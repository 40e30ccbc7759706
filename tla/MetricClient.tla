----------------------------- MODULE MetricClient -----------------------------
(***************************************************************************)
(* MetricClientProvider and its two implementations. PutMetrics appends    *)
(* the request to a vector; a timer, a full vector or Stop swaps the       *)
(* vector out and pushes it to the cloud, in chunks; the callback of a     *)
(* chunk finishes the contexts of its requests. A request is a number;     *)
(* what it measures is left out, apart from how many metrics it has and    *)
(* whether they can be converted.                                          *)
(***************************************************************************)
EXTENDS Naturals, Sequences, SequencesExt, FiniteSets

CONSTANTS
    McClouds,         \* the clouds to consider
    McBatching,       \* the values of is_batch_recording_enable
    McSize,           \* the number of metrics of each request
    McBad,            \* per cloud, the sets of requests that cannot be converted
    McBatchSize,      \* kMetricsBatchSize
    McChunkSize,      \* kAwsMetricDatumSizeLimit, kGcpTimeSeriesSizeLimit
    McMaxTimers,      \* bound: how many timers are set in all
    McEarlyPut,       \* whether a request may come while Run is under way
    McLatePut         \* whether Stop may come between the look at is_running_
                      \* and the lock

VARIABLES
    mcCloud, mcBatch, mcUnfit,
    mcRun,            \* Run: "no", "locked", "started", "done"
    mcRunning,        \* is_running_
    mcClient,         \* whether the client of the cloud's service was made
    mcHeld,           \* whether sync_mutex_ is held by a call that has returned
    mcVector,         \* metric_requests_vector_
    mcTimers,         \* the timers that are set, and those that have fired
    mcCancel,         \* whether current_cancellation_callback_ is of a timer
    mcActive,         \* active_push_count_
    mcPushes,         \* the chunks that the cloud has not answered
    mcCall,           \* each PutMetrics
    mcFinishes,       \* how often each context was finished
    mcStop            \* Stop: "no", "waiting", "done"

mcVars == <<mcCloud, mcBatch, mcUnfit, mcRun, mcRunning, mcClient, mcHeld, mcVector, mcTimers,
            mcCancel, mcActive, mcPushes, mcCall, mcFinishes, mcStop>>

McRequests == DOMAIN McSize

McInit ==
    /\ mcCloud \in McClouds /\ mcBatch \in McBatching /\ mcUnfit \in McBad[mcCloud]
    /\ mcRun = "no" /\ mcRunning = FALSE /\ mcClient = FALSE /\ mcHeld = FALSE
    /\ mcVector = << >> /\ mcTimers = [set |-> 0, fired |-> 0, scheduled |-> 0] /\ mcCancel = FALSE
    /\ mcActive = 0 /\ mcPushes = << >>
    /\ mcCall = [r \in McRequests |-> "none"] /\ mcFinishes = [r \in McRequests |-> 0]
    /\ mcStop = "no"

Metrics(v) == FoldLeft(LAMBDA n, r : n + McSize[r], 0, v)

-----------------------------------------------------------------------------
(* MetricsBatchPush: the requests that are finished at once, because they   *)
(* cannot be converted, and the chunks that are sent.                       *)

NoChunk == [failed |-> {}, chunk |-> << >>, sent |-> << >>]

Cut(acc) == [acc EXCEPT !.chunk = << >>, !.sent = Append(@, acc.chunk)]

Flush(acc) == IF acc.chunk = << >> THEN acc ELSE Cut(acc)

\* ParseRequestToDatum finishes the context of the request that it refuses. A
\* chunk is sent before it would exceed the limit.
AwsAddRequest(acc, r) ==
    IF r \in mcUnfit \/ McSize[r] > McChunkSize THEN [acc EXCEPT !.failed = @ \cup {r}]
    ELSE LET full == Metrics(acc.chunk) + McSize[r] > McChunkSize
             next == IF full THEN Cut(acc) ELSE acc
         IN [next EXCEPT !.chunk = Append(@, r)]

AwsMetricsBatchPush(v) == Flush(FoldLeft(AwsAddRequest, NoChunk, v))

\* Mutant: the chunk is not cleared once it is sent.
GcpSendsChunkAgain(acc, r, last) ==
    IF r \in mcUnfit THEN [acc EXCEPT !.failed = @ \cup {r}]
    ELSE LET next == [acc EXCEPT !.chunk = Append(@, r)] IN
         IF Metrics(next.chunk) = McChunkSize \/ last
         THEN [next EXCEPT !.sent = Append(@, next.chunk)] ELSE next

\* A chunk is sent when it has just the size of the limit, or when the last
\* request of the vector was put in it.
GcpAddRequest(acc, r, last) ==
    IF r \in mcUnfit THEN [acc EXCEPT !.failed = @ \cup {r}]
    ELSE LET next == [acc EXCEPT !.chunk = Append(@, r)] IN
         IF Metrics(next.chunk) = McChunkSize \/ last THEN Cut(next) ELSE next

\* From the back; what is left in the chunk is not sent.
GcpMetricsBatchPush(v) ==
    FoldLeft(LAMBDA acc, i : GcpAddRequest(acc, v[i], i = 1), NoChunk,
             [i \in DOMAIN v |-> Len(v) + 1 - i])

MetricsBatchPush(v) == IF mcCloud = "aws" THEN AwsMetricsBatchPush(v) ELSE GcpMetricsBatchPush(v)

\* The vector is taken out and pushed.
RunMetricsBatchPush(v) ==
    LET push == MetricsBatchPush(v) IN
    /\ mcVector' = << >>
    /\ mcPushes' = mcPushes \o push.sent
    /\ mcActive' = mcActive + Len(push.sent)
    /\ mcFinishes' = [r \in McRequests |-> mcFinishes[r] + (IF r \in push.failed THEN 1 ELSE 0)]

NothingPushed == UNCHANGED <<mcVector, mcPushes, mcActive, mcFinishes>>

-----------------------------------------------------------------------------
\* Run: is_running_ is set under the lock. When it was set before, Run returns
\* without giving the lock back, and every later call waits for it.
MetricRun ==
    /\ mcRun = "no" \/ (mcRun = "done" /\ mcStop = "no")
    /\ ~mcHeld
    /\ IF mcRunning THEN mcHeld' = TRUE /\ mcRun' = "failed" /\ UNCHANGED mcRunning
       ELSE mcRunning' = TRUE /\ mcRun' = "locked" /\ UNCHANGED mcHeld
    /\ UNCHANGED <<mcCloud, mcBatch, mcUnfit, mcClient, mcVector, mcTimers, mcCancel, mcActive,
                   mcPushes, mcCall, mcFinishes, mcStop>>

\* ScheduleMetricsBatchPush, which the executor may refuse.
ScheduleMetricsBatchPush(refused) ==
    IF mcRunning /\ ~refused
    THEN mcTimers' = [mcTimers EXCEPT !.set = @ + 1, !.scheduled = @ + 1] /\ mcCancel' = TRUE
    ELSE UNCHANGED <<mcTimers, mcCancel>>

\* The rest of Run: the first timer, and then the client of the service.
RunBatching ==
    /\ mcRun = "locked"
    /\ \E refused \in BOOLEAN :
          /\ IF mcBatch THEN ScheduleMetricsBatchPush(refused) ELSE UNCHANGED <<mcTimers, mcCancel>>
          /\ mcRun' = IF mcBatch /\ refused THEN "failed" ELSE "started"
    /\ UNCHANGED <<mcCloud, mcBatch, mcUnfit, mcRunning, mcClient, mcHeld, mcVector, mcActive,
                   mcPushes, mcCall, mcFinishes, mcStop>>

CreateServiceClient ==
    /\ mcRun = "started"
    /\ \/ mcRun' = "done" /\ mcClient' = TRUE
       \/ mcRun' = "failed" /\ UNCHANGED mcClient
    /\ UNCHANGED <<mcCloud, mcBatch, mcUnfit, mcRunning, mcHeld, mcVector, mcTimers, mcCancel,
                   mcActive, mcPushes, mcCall, mcFinishes, mcStop>>

\* PutMetrics up to the lock: refused when not running or not valid.
PutMetrics(r) ==
    /\ mcCall[r] = "none" /\ (mcRun = "done" \/ McEarlyPut)
    /\ \E valid \in BOOLEAN :
          IF mcRunning /\ valid
          THEN mcCall' = [mcCall EXCEPT ![r] = "checked"] /\ UNCHANGED mcFinishes
          ELSE /\ mcCall' = [mcCall EXCEPT ![r] = "refused"]
               /\ mcFinishes' = [mcFinishes EXCEPT ![r] = @ + 1]
    /\ UNCHANGED <<mcCloud, mcBatch, mcUnfit, mcRun, mcRunning, mcClient, mcHeld, mcVector,
                   mcTimers, mcCancel, mcActive, mcPushes, mcStop>>

AppendRequest(r) ==
    LET v == Append(mcVector, r) IN
    /\ mcCall[r] = "checked" /\ ~mcHeld
    /\ mcCall' = [mcCall EXCEPT ![r] = "accepted"]
    /\ IF ~mcBatch \/ Metrics(v) >= McBatchSize THEN RunMetricsBatchPush(v)
       ELSE mcVector' = v /\ UNCHANGED <<mcPushes, mcActive, mcFinishes>>
    /\ UNCHANGED <<mcCloud, mcBatch, mcUnfit, mcRun, mcRunning, mcClient, mcHeld, mcTimers,
                   mcCancel, mcStop>>

\* The timer fires: the next is set, and then the vector pushed.
FirePushTimer ==
    /\ mcTimers.set > 0
    /\ \E refused \in BOOLEAN :
          IF mcRunning /\ ~refused /\ mcTimers.scheduled < McMaxTimers
          THEN mcTimers' = [mcTimers EXCEPT !.fired = @ + 1, !.scheduled = @ + 1] /\ mcCancel' = TRUE
          ELSE mcTimers' = [mcTimers EXCEPT !.set = @ - 1, !.fired = @ + 1] /\ UNCHANGED mcCancel
    /\ NothingPushed
    /\ UNCHANGED <<mcCloud, mcBatch, mcUnfit, mcRun, mcRunning, mcClient, mcHeld, mcCall, mcStop>>

PushOnTimer ==
    /\ mcTimers.fired > 0 /\ ~mcHeld
    /\ mcTimers' = [mcTimers EXCEPT !.fired = @ - 1]
    /\ RunMetricsBatchPush(mcVector)
    /\ UNCHANGED <<mcCloud, mcBatch, mcUnfit, mcRun, mcRunning, mcClient, mcHeld, mcCancel,
                   mcCall, mcStop>>

\* The cloud answers a chunk: the count goes down, and then the contexts of
\* its requests are finished.
OnPushCallback(i) ==
    /\ mcActive' = mcActive - 1
    /\ mcPushes' = RemoveAt(mcPushes, i)
    /\ mcFinishes' = [r \in McRequests |-> mcFinishes[r]
                        + Cardinality({j \in DOMAIN mcPushes[i] : mcPushes[i][j] = r})]
    /\ UNCHANGED <<mcCloud, mcBatch, mcUnfit, mcRun, mcRunning, mcClient, mcHeld, mcVector,
                   mcTimers, mcCancel, mcCall, mcStop>>

\* Stop cancels the timer and pushes what is left, under the lock, and waits.
MetricStop ==
    /\ mcStop = "no" /\ mcRun \in {"done", "failed"} /\ ~mcHeld
    /\ McLatePut \/ \A r \in McRequests : mcCall[r] # "checked"
    /\ mcStop' = "waiting" /\ mcRunning' = FALSE
    /\ mcCancel' = FALSE
    /\ mcTimers' = [mcTimers EXCEPT !.set = IF mcCancel /\ @ > 0 THEN @ - 1 ELSE @]
    /\ IF mcBatch THEN RunMetricsBatchPush(mcVector) ELSE NothingPushed
    /\ UNCHANGED <<mcCloud, mcBatch, mcUnfit, mcRun, mcClient, mcHeld, mcCall>>

MetricStopReturns ==
    /\ mcStop = "waiting" /\ mcActive = 0 /\ mcStop' = "done"
    /\ UNCHANGED <<mcCloud, mcBatch, mcUnfit, mcRun, mcRunning, mcClient, mcHeld, mcVector,
                   mcTimers, mcCancel, mcActive, mcPushes, mcCall, mcFinishes>>

McNext ==
    \/ MetricRun \/ RunBatching \/ CreateServiceClient \/ MetricStop \/ MetricStopReturns
    \/ FirePushTimer \/ PushOnTimer
    \/ \E r \in McRequests : PutMetrics(r) \/ AppendRequest(r)
    \/ \E i \in DOMAIN mcPushes : OnPushCallback(i)

McSpec == McInit /\ [][McNext]_mcVars

-----------------------------------------------------------------------------
(* Properties.                                                              *)

McTypeOK ==
    /\ mcActive = Len(mcPushes)
    /\ mcTimers.set \in 0..McMaxTimers /\ mcTimers.fired \in 0..McMaxTimers
    /\ Range(mcVector) \subseteq McRequests

\* No request is answered twice, however its metrics were chunked; and when
\* Stop has returned and no timer is left to fire, every request that was
\* accepted has been answered.
McAnsweredOnce ==
    /\ \A r \in McRequests : mcFinishes[r] <= 1
    /\ mcStop = "done" /\ mcTimers.set = 0 /\ mcTimers.fired = 0 =>
          \A r \in McRequests : mcCall[r] \in {"accepted", "refused"} => mcFinishes[r] = 1

\* Nothing is pushed before the client of the service exists.
McClientIsThere == mcPushes # << >> => mcClient
================================================================================
