------------------------------ MODULE BlobStream ------------------------------
(***************************************************************************)
(* GetBlobStream and PutBlobStream of the two blob storage providers, one  *)
(* call at a time, with its caller. AwsS3ClientProvider downloads range by *)
(* range and uploads in parts of a minimal size; GcpCloudStorageClient-    *)
(* Provider reads from and writes to one stream of the client library,     *)
(* which it suspends while it waits for the caller. A byte of a blob is    *)
(* its version and its index; a portion of an upload is its number. The    *)
(* storage services are external, and an operation of theirs may fail.     *)
(*                                                                         *)
(* The contexts of streamed operations are a queue of messages between the *)
(* caller and a provider, the two flags they share, and the tasks of the   *)
(* executor that call the caller back. In a ConsumerStreamingContext the   *)
(* provider pushes responses; in a ProducerStreamingContext the caller     *)
(* pushes requests.                                                        *)
(***************************************************************************)
EXTENDS Naturals, Sequences, FiniteSets, SequencesExt

CONSTANT ScCapacity    \* the messages a queue holds

VARIABLES
    scDone,       \* is_marked_done
    scCancelled,  \* is_cancelled
    scQueue,      \* response_queue or request_queue
    scCalls,      \* the calls of the caller's callback that are due
    scEnds,       \* the results with which a call of Finish is scheduled
    scFinished    \* ghost: the results with which Finish was called

scVars == <<scDone, scCancelled, scQueue, scCalls, scEnds, scFinished>>

ScResults == {"Success", "Failure", "Cancelled", "Expired"}

ScInit ==
    /\ scDone = FALSE /\ scCancelled = FALSE /\ scQueue = <<>>
    /\ scCalls = 0 /\ scEnds = <<>> /\ scFinished = <<>>

-----------------------------------------------------------------------------
\* TryPushResponse and TryPushRequest enqueue the message when this holds, and fail
\* otherwise.
CanPush == ~scDone /\ ~scCancelled /\ Len(scQueue) < ScCapacity

\* Finish calls the callback, which takes its turn.
ScFinish(result) ==
    /\ scFinished' = Append(scFinished, result)
    /\ scCalls' = scCalls + 1

\* Marks the context done and schedules Finish, or calls it when the executor refuses;
\* before, the callback has become due for pushes messages.
FinishStreamingContext(result, pushes) ==
    /\ scDone' = TRUE
    /\ \/ /\ scEnds' = Append(scEnds, result)
          /\ scCalls' = scCalls + pushes
          /\ UNCHANGED scFinished
       \/ /\ scFinished' = Append(scFinished, result)
          /\ scCalls' = scCalls + pushes + 1
          /\ UNCHANGED scEnds

\* The executor runs a scheduled Finish.
RunFinish ==
    /\ scEnds # <<>>
    /\ ScFinish(Head(scEnds))
    /\ scEnds' = Tail(scEnds)
    /\ UNCHANGED <<scDone, scCancelled, scQueue>>

TryCancel ==
    /\ ~scCancelled
    /\ scCancelled' = TRUE
    /\ UNCHANGED <<scDone, scQueue, scCalls, scEnds, scFinished>>

MarkDone ==
    /\ ~scDone
    /\ scDone' = TRUE
    /\ UNCHANGED <<scCancelled, scQueue, scCalls, scEnds, scFinished>>

-----------------------------------------------------------------------------
CONSTANTS
    BsClouds,      \* "aws", "gcp"
    BsSizes,       \* the sizes of the blob that is read
    BsRanges,      \* the byte ranges asked for: <<>> for none, or <<begin, end>>
    BsMaxBytes,    \* values of max_bytes_per_response
    BsPortions,    \* the portions of an upload: the size of each
    BsMinimumPart, \* kMinimumPartSize
    BsTornReads,   \* a blob may be replaced between two ranges read from S3
    BsLatePush,    \* the caller may push and be done between the reads of queue and flag
    BsGcpRefusal   \* the executor may refuse a message's callback on GCP

VARIABLES
    bsCloud, bsCall,
    bsAsk,        \* the request: what the caller asks for
    bsPc,         \* the provider's next handler
    bsBlob,       \* the blob read: its size and its version
    bsTrack,      \* GetBlobStreamTracker
    bsGot,        \* the responses that the caller has taken
    bsNulls,      \* how often its callback found no response
    bsAccepted,   \* the portions whose push succeeded
    bsUpload,     \* PutBlobStreamTracker, and the part number of the request that calls back
    bsParts,      \* the parts that S3 has, or what the stream was given
    bsSession,    \* the upload at the service: none, open, suspended, closed
    bsStored,     \* the portions of the blob that is in storage
    bsExpired     \* the keepalive duration has passed

bsVars == <<bsCloud, bsCall, bsAsk, bsPc, bsBlob, bsTrack, bsGot, bsNulls, bsAccepted,
            bsUpload, bsParts, bsSession, bsStored, bsExpired, scVars>>

getVars == <<bsBlob, bsTrack, bsGot, bsNulls>>
putVars == <<bsAccepted, bsUpload, bsParts, bsSession, bsStored, bsExpired>>
fixedVars == <<bsCloud, bsCall, bsAsk>>

BsNumbers == 1..Len(BsPortions)
BsBytes(version, b, e) == [i \in 1..e - b + 1 |-> <<version, b + i - 1>>]
BsSize(portions) == FoldSeq(LAMBDA p, n : n + BsPortions[p], 0, portions)

BsAsks == [valid : BOOLEAN, range : BsRanges, max : BsMaxBytes, keepalive : BOOLEAN, other : BsNumbers \cup {0}]

BsInit ==
    /\ ScInit
    /\ bsCloud \in BsClouds
    /\ bsCall \in {"get", "put"}
    /\ bsAsk \in {a \in BsAsks :
         IF bsCall = "get" THEN a.keepalive /\ a.other = 0
         ELSE a.range = <<>> /\ a.max = CHOOSE m \in BsMaxBytes : TRUE}
    /\ bsBlob \in [size : IF bsCall = "get" THEN BsSizes ELSE {1}, version : {1}]
    /\ bsPc = "call"
    /\ bsTrack = [begin |-> 0, end |-> 0, remaining |-> 0, version |-> 0]
    /\ bsGot = <<>> /\ bsNulls = 0
    /\ bsAccepted = <<1>>
    /\ bsUpload = [next |-> 1, request |-> 0, held |-> <<>>, taken |-> 0, done |-> <<>>, result |-> "Failure"]
    /\ bsParts = <<>> /\ bsSession = "none" /\ bsStored = <<>> /\ bsExpired = FALSE

BsTypeOK ==
    /\ scDone \in BOOLEAN /\ scCancelled \in BOOLEAN
    /\ \A i \in DOMAIN scEnds : scEnds[i] \in ScResults
    /\ \A i \in DOMAIN scFinished : scFinished[i] \in ScResults
    /\ scCalls \in Nat /\ Len(scQueue) <= ScCapacity
    /\ bsPc \in {"call", "request", "open", "read", "creating", "init", "upload", "poll",
                 "empty", "write", "completing", "aborting", "end"}
    /\ bsTrack.remaining \in 0..bsBlob.size
    /\ bsUpload.next \in 1..Len(BsPortions) + 2 /\ bsUpload.request \in 0..bsUpload.next
    /\ bsSession \in {"none", "open", "suspended", "closed"}
    /\ \A i \in DOMAIN bsAccepted : bsAccepted[i] \in BsNumbers

-----------------------------------------------------------------------------
(* Downloading.                                                             *)

\* The context ends without a further message.
EndStream(result) ==
    /\ FinishStreamingContext(result, 0)
    /\ bsPc' = "end"
    /\ UNCHANGED <<scCancelled, scQueue>>

\* A request that is not valid is finished at once, without marking the context done;
\* so is one that the executor refuses.
RefuseStream ==
    /\ ScFinish("Failure")
    /\ bsPc' = "end"
    /\ UNCHANGED <<scDone, scCancelled, scQueue, scEnds>>

HasRange == bsAsk.range # <<>>
ValidateGetBlobRequest == bsAsk.valid /\ (HasRange => bsAsk.range[1] <= bsAsk.range[2])

\* end_byte_index of the request, whose default is zero.
EndIndex == IF HasRange THEN bsAsk.range[2] ELSE 0
BeginIndex == IF HasRange THEN bsAsk.range[1] ELSE 0

MinOf(a, b) == IF a < b THEN a ELSE b

S3GetBlobStream ==
    /\ bsTrack' = [bsTrack EXCEPT !.begin = BeginIndex,
         !.end = IF HasRange THEN MinOf(EndIndex, BeginIndex + bsAsk.max - 1) ELSE bsAsk.max - 1]
    /\ bsPc' = "request"
    /\ UNCHANGED scVars

GcsGetBlobStream ==
    /\ (bsPc' = "open" /\ UNCHANGED scVars) \/ RefuseStream
    /\ UNCHANGED bsTrack

GetBlobStream ==
    /\ bsCall = "get" /\ bsPc = "call"
    /\ IF ~ValidateGetBlobRequest THEN RefuseStream /\ UNCHANGED bsTrack
       ELSE IF bsCloud = "gcp" THEN GcsGetBlobStream ELSE S3GetBlobStream
    /\ UNCHANGED <<fixedVars, bsBlob, bsGot, bsNulls, putVars>>

\* The message m is in the queue and its callback scheduled; then the stream ends with
\* result, or goes on at pc.
PushAndEnd(m, result) ==
    /\ scQueue' = Append(scQueue, m)
    /\ FinishStreamingContext(result, IF result = "Success" THEN 1 ELSE 0)
    /\ bsPc' = "end"
    /\ UNCHANGED scCancelled

PushAndGoOn(m, pc) ==
    /\ scQueue' = Append(scQueue, m)
    /\ scCalls' = scCalls + 1
    /\ bsPc' = pc
    /\ UNCHANGED <<scDone, scCancelled, scEnds, scFinished>>

\* S3 truncates a range to the end of the blob.
OnGetObjectStreamCallback ==
    LET length == MinOf(bsTrack.end, bsBlob.size - 1) - bsTrack.begin + 1
        last == IF length < 1 + bsTrack.end - bsTrack.begin
                THEN bsTrack.begin + length - 1 ELSE bsTrack.end
        response == [begin |-> bsTrack.begin, end |-> last,
                     data |-> BsBytes(bsBlob.version, bsTrack.begin, bsTrack.begin + length - 1)]
        allDownloaded == last >= bsBlob.size - 1
        endReached == last = EndIndex
        newEnd == (last + 1) + (bsAsk.max - 1)
    IN
    /\ bsPc = "request"
    /\ \/ EndStream("Failure") /\ UNCHANGED bsTrack
       \/ /\ bsTrack.begin < bsBlob.size
          /\ scCancelled
          /\ EndStream("Cancelled") /\ UNCHANGED bsTrack
       \/ /\ bsTrack.begin < bsBlob.size
          /\ ~scCancelled
          /\ ~CanPush
          /\ EndStream("Failure") /\ UNCHANGED bsTrack
       \/ /\ bsTrack.begin < bsBlob.size
          /\ CanPush
          /\ \/ PushAndEnd(response, "Failure") /\ UNCHANGED bsTrack
             \/ /\ allDownloaded \/ endReached
                /\ PushAndEnd(response, "Success") /\ UNCHANGED bsTrack
             \/ /\ ~allDownloaded /\ ~endReached
                /\ PushAndGoOn(response, "request")
                /\ bsTrack' = [bsTrack EXCEPT !.begin = last + 1,
                     !.end = IF HasRange /\ EndIndex < newEnd THEN EndIndex ELSE newEnd]
    /\ UNCHANGED <<fixedVars, bsBlob, bsGot, bsNulls, putVars>>

\* The stream of the library reads one version of the blob. begin is last_end_byte_index + 1.
InitGetBlobStreamTracker ==
    /\ bsPc = "open"
    /\ \/ EndStream("Failure") /\ UNCHANGED bsTrack
       \/ /\ BeginIndex < bsBlob.size
          /\ bsTrack' = [begin |-> BeginIndex, end |-> 0, version |-> bsBlob.version,
               remaining |-> IF HasRange
                             THEN 1 + MinOf(EndIndex, bsBlob.size - 1) - BeginIndex
                             ELSE bsBlob.size]
          /\ bsPc' = "read"
          /\ UNCHANGED scVars
    /\ UNCHANGED <<fixedVars, bsBlob, bsGot, bsNulls, putVars>>

\* Mutant: a portion begins with the last byte of the one before.
ReadFromLastByte(t) ==
    LET n == MinOf(bsAsk.max, t.remaining)
    IN  [response |-> [begin |-> t.begin, end |-> t.begin + n - 1,
                       data |-> BsBytes(t.version, t.begin, t.begin + n - 1)],
         track |-> [t EXCEPT !.begin = @ + n - 1, !.remaining = @ - n]]

ReadNextPortion(t) ==
    LET n == MinOf(bsAsk.max, t.remaining)
    IN  [response |-> [begin |-> t.begin, end |-> t.begin + n - 1,
                       data |-> BsBytes(t.version, t.begin, t.begin + n - 1)],
         track |-> [t EXCEPT !.begin = @ + n, !.remaining = @ - n]]

\* After a message whose callback the executor refused the stream is finished and goes on.
GetBlobStreamInternal ==
    LET next == ReadNextPortion(bsTrack) IN
    /\ bsPc = "read"
    /\ \/ /\ scCancelled
          /\ EndStream("Cancelled") /\ UNCHANGED bsTrack
       \/ ~scCancelled /\ EndStream("Failure") /\ UNCHANGED bsTrack
       \/ /\ CanPush
          /\ bsTrack' = next.track
          /\ \E refused \in IF BsGcpRefusal THEN BOOLEAN ELSE {FALSE} :
               IF refused
               THEN /\ scQueue' = Append(scQueue, next.response)
                    /\ scDone' = TRUE
                    /\ scEnds' = scEnds \o IF next.track.remaining = 0
                                            THEN <<"Failure", "Success">> ELSE <<"Failure">>
                    /\ bsPc' = IF next.track.remaining = 0 THEN "end" ELSE "read"
                    /\ UNCHANGED <<scCancelled, scCalls, scFinished>>
               ELSE IF next.track.remaining = 0 THEN PushAndEnd(next.response, "Success")
               ELSE PushAndGoOn(next.response, "read")
    /\ UNCHANGED <<fixedVars, bsBlob, bsGot, bsNulls, putVars>>

\* The caller's callback: takes the next response, or finds none.
ProcessCallback ==
    /\ bsCall = "get" /\ scCalls > 0
    /\ scCalls' = scCalls - 1
    /\ IF scQueue # <<>>
       THEN /\ bsGot' = Append(bsGot, Head(scQueue))
            /\ scQueue' = Tail(scQueue)
            /\ UNCHANGED bsNulls
       ELSE /\ bsNulls' = bsNulls + 1
            /\ UNCHANGED <<bsGot, scQueue>>
    /\ UNCHANGED <<fixedVars, bsPc, bsBlob, bsTrack, putVars, scDone, scCancelled, scEnds, scFinished>>

\* Somebody writes another version of the blob.
ReplaceBlob ==
    /\ bsCall = "get" /\ bsPc # "call" /\ bsBlob.version = 1
    /\ bsCloud = "aws" => BsTornReads
    /\ bsBlob' = [bsBlob EXCEPT !.version = 2]
    /\ UNCHANGED <<fixedVars, bsPc, bsTrack, bsGot, bsNulls, putVars, scVars>>

-----------------------------------------------------------------------------
(* Uploading.                                                               *)

S3PutBlobStream == bsPc' = "creating" /\ UNCHANGED scVars

GcsPutBlobStream ==
    \/ bsPc' = "init" /\ UNCHANGED scVars
    \/ RefuseStream

PutBlobStream ==
    /\ bsCall = "put" /\ bsPc = "call"
    /\ IF ~bsAsk.valid THEN RefuseStream
       ELSE IF bsCloud = "aws" THEN S3PutBlobStream ELSE GcsPutBlobStream
    /\ UNCHANGED <<fixedVars, getVars, putVars>>

\* Looks again after five seconds, unless the executor refuses.
ScheduleAnotherPutBlobStreamPoll ==
    \/ bsPc' = "poll" /\ UNCHANGED scVars
    \/ EndStream("Failure")

\* UploadPartAsync of the portions as the next part; or their digest fails.
UploadPart(u, portions) ==
    \/ /\ bsUpload' = [u EXCEPT !.request = u.next, !.held = <<>>]
       /\ bsParts' = [n \in 1..u.next |-> IF n = u.next THEN portions ELSE bsParts[n]]
       /\ bsPc' = "upload"
       /\ UNCHANGED scVars
    \/ EndStream("Failure") /\ UNCHANGED <<bsUpload, bsParts>>

OnCreateMultipartUploadCallback ==
    /\ bsPc = "creating"
    /\ \/ EndStream("Failure") /\ UNCHANGED <<bsUpload, bsParts, bsSession>>
       \/ /\ bsSession' = "open"
          /\ IF ~bsAsk.keepalive THEN EndStream("Failure") /\ UNCHANGED <<bsUpload, bsParts>>
             ELSE IF BsPortions[1] < BsMinimumPart
             THEN /\ bsUpload' = [bsUpload EXCEPT !.held = <<1>>, !.request = 0]
                  /\ ScheduleAnotherPutBlobStreamPoll
                  /\ UNCHANGED bsParts
             ELSE UploadPart(bsUpload, <<1>>)
    /\ UNCHANGED <<fixedVars, getVars, bsAccepted, bsStored, bsExpired>>

AbortUpload(u, result) ==
    /\ bsUpload' = [u EXCEPT !.result = result]
    /\ bsPc' = "aborting"
    /\ UNCHANGED scVars

\* TryGetNextRequest.
TakeNext(u) ==
    IF scQueue = <<>>
    THEN /\ bsPc' = "empty" /\ bsUpload' = u
         /\ UNCHANGED scVars
    ELSE /\ bsPc' = "write" /\ bsUpload' = [u EXCEPT !.taken = Head(scQueue)]
         /\ scQueue' = Tail(scQueue)
         /\ UNCHANGED <<scDone, scCancelled, scCalls, scEnds, scFinished>>

\* Called when a part is uploaded, and after a wait with the request of the last one.
OnUploadPartCallback ==
    LET uploaded == bsUpload.next = bsUpload.request
        u == IF uploaded THEN [bsUpload EXCEPT !.done = Append(@, bsUpload.next), !.next = @ + 1]
             ELSE bsUpload
    IN
    /\ bsCloud = "aws" /\ bsPc \in {"upload", "poll"}
    /\ \/ uploaded /\ AbortUpload(bsUpload, "Failure")
       \/ scCancelled /\ AbortUpload(u, "Cancelled")
       \/ ~scCancelled /\ TakeNext(u)
    /\ UNCHANGED <<fixedVars, getVars, bsAccepted, bsParts, bsSession, bsStored, bsExpired>>

\* What is held is uploaded first, and its callback comes here again.
CompleteUpload ==
    IF bsUpload.held # <<>> THEN UploadPart(bsUpload, bsUpload.held)
    ELSE bsPc' = "completing" /\ UNCHANGED <<bsUpload, bsParts, scVars>>

\* OnUploadPartCallback has found no request.
NoRequest ==
    /\ bsCloud = "aws" /\ bsPc = "empty"
    /\ IF scDone THEN CompleteUpload
       ELSE /\ IF bsExpired THEN AbortUpload(bsUpload, "Expired")
               ELSE ScheduleAnotherPutBlobStreamPoll /\ UNCHANGED bsUpload
            /\ UNCHANGED bsParts
    /\ UNCHANGED <<fixedVars, getVars, bsAccepted, bsSession, bsStored, bsExpired>>

\* OnUploadPartCallback has a request: it becomes a part, with what is held, when they
\* are large enough together.
WriteRequest ==
    LET all == Append(bsUpload.held, bsUpload.taken) IN
    /\ bsCloud = "aws" /\ bsPc = "write"
    /\ IF bsUpload.taken = bsAsk.other THEN EndStream("Failure") /\ UNCHANGED <<bsUpload, bsParts>>
       ELSE IF BsSize(all) >= BsMinimumPart THEN UploadPart(bsUpload, all)
       ELSE /\ bsUpload' = [bsUpload EXCEPT !.held = all]
            /\ ScheduleAnotherPutBlobStreamPoll
            /\ UNCHANGED bsParts
    /\ UNCHANGED <<fixedVars, getVars, bsAccepted, bsSession, bsStored, bsExpired>>

\* S3 puts the parts together in the order of their numbers; all but the last have to
\* have the minimal size. The answer may be lost.
OnCompleteMultipartUploadCallback ==
    LET complete == \A i \in DOMAIN bsUpload.done :
                      i < Len(bsUpload.done) => BsSize(bsParts[bsUpload.done[i]]) >= BsMinimumPart
    IN
    /\ bsPc = "completing"
    /\ \/ /\ complete
          /\ bsStored' = FlattenSeq([i \in DOMAIN bsUpload.done |-> bsParts[bsUpload.done[i]]])
          /\ bsSession' = "closed"
          /\ EndStream("Success") \/ EndStream("Failure")
       \/ EndStream("Failure") /\ UNCHANGED <<bsStored, bsSession>>
    /\ UNCHANGED <<fixedVars, getVars, bsAccepted, bsUpload, bsParts, bsExpired>>

OnAbortMultipartUploadCallback ==
    /\ bsPc = "aborting"
    /\ bsSession' \in {"open", "closed"}
    /\ EndStream(bsUpload.result)
    /\ UNCHANGED <<fixedVars, getVars, bsAccepted, bsUpload, bsParts, bsStored, bsExpired>>

-----------------------------------------------------------------------------
\* What is written to a stream that is suspended is lost.
WriteToStream(session, p) == IF session = "open" THEN Append(bsParts, p) ELSE bsParts

\* The destructor of a stream that is still open finalizes the upload.
DestroyStream == bsStored' \in {bsStored} \cup IF bsSession = "open" THEN {bsParts} ELSE {}

RestoreUploadIfSuspended(session) == IF session = "suspended" THEN "open" ELSE session

InitPutBlobStream ==
    /\ bsPc = "init"
    /\ IF ~bsAsk.keepalive THEN EndStream("Failure") /\ UNCHANGED <<bsParts, bsSession>>
       ELSE /\ bsSession' = "open"
            /\ bsParts' = WriteToStream("open", 1)
            /\ \/ EndStream("Failure")
               \/ bsPc' = "poll" /\ UNCHANGED scVars
    /\ UNCHANGED <<fixedVars, getVars, bsAccepted, bsUpload, bsStored, bsExpired>>

PutBlobStreamInternal ==
    /\ bsCloud = "gcp" /\ bsPc = "poll"
    /\ \/ /\ scCancelled
          /\ EndStream("Cancelled")
          /\ bsSession' \in {RestoreUploadIfSuspended(bsSession), "closed"}
          /\ UNCHANGED bsUpload
       \/ /\ ~scCancelled
          /\ TakeNext(bsUpload)
          /\ UNCHANGED bsSession
    /\ UNCHANGED <<fixedVars, getVars, bsAccepted, bsParts, bsStored, bsExpired>>

\* PutBlobStreamInternal has found no request.
NoRequestToStream ==
    /\ bsCloud = "gcp" /\ bsPc = "empty"
    /\ IF scDone
       THEN \/ /\ bsStored' = IF RestoreUploadIfSuspended(bsSession) = "open" THEN bsParts ELSE bsStored
               /\ bsSession' = "closed"
               /\ EndStream("Success") \/ EndStream("Failure")
            \/ /\ EndStream("Failure")
               /\ bsSession' = RestoreUploadIfSuspended(bsSession)
               /\ UNCHANGED bsStored
       ELSE IF bsExpired
       THEN /\ EndStream("Expired")
            /\ bsSession' \in {bsSession, "closed"}
            /\ UNCHANGED bsStored
       ELSE /\ bsSession' = "suspended"
            /\ ScheduleAnotherPutBlobStreamPoll
            /\ UNCHANGED bsStored
    /\ UNCHANGED <<fixedVars, getVars, bsAccepted, bsUpload, bsParts, bsExpired>>

\* PutBlobStreamInternal has a request.
WriteRequestToStream ==
    /\ bsCloud = "gcp" /\ bsPc = "write"
    /\ IF bsUpload.taken = bsAsk.other
       THEN EndStream("Failure") /\ DestroyStream /\ UNCHANGED <<bsParts, bsSession>>
       ELSE /\ bsSession' = RestoreUploadIfSuspended(bsSession)
            /\ bsParts' = WriteToStream(bsSession', bsUpload.taken)
            /\ \/ EndStream("Failure")
               \/ bsPc' = "poll" /\ UNCHANGED scVars
            /\ UNCHANGED bsStored
    /\ UNCHANGED <<fixedVars, getVars, bsAccepted, bsUpload, bsExpired>>

-----------------------------------------------------------------------------
(* The caller of an upload.                                                 *)

PushRequest ==
    /\ bsCall = "put" /\ bsPc # "call" /\ CanPush
    /\ Len(bsAccepted) < Len(BsPortions)
    /\ bsAccepted' = Append(bsAccepted, Len(bsAccepted) + 1)
    /\ scQueue' = Append(scQueue, Len(bsAccepted) + 1)
    /\ UNCHANGED <<fixedVars, bsPc, getVars, bsUpload, bsParts, bsSession, bsStored, bsExpired,
                   scDone, scCancelled, scCalls, scEnds, scFinished>>

CallerIsDone ==
    /\ bsCall = "put" /\ bsPc # "call"
    /\ bsPc = "empty" /\ scQueue # <<>> => BsLatePush
    /\ MarkDone
    /\ UNCHANGED <<fixedVars, bsPc, getVars, putVars>>

CallerCancels ==
    /\ bsPc # "call" /\ TryCancel
    /\ UNCHANGED <<fixedVars, bsPc, getVars, putVars>>

Expire ==
    /\ bsCall = "put" /\ bsPc # "call" /\ ~bsExpired
    /\ bsExpired' = TRUE
    /\ UNCHANGED <<fixedVars, bsPc, getVars, bsAccepted, bsUpload, bsParts, bsSession, bsStored, scVars>>

BsRunFinish == RunFinish /\ UNCHANGED <<fixedVars, bsPc, getVars, putVars>>

BsProvider ==
    \/ OnGetObjectStreamCallback \/ InitGetBlobStreamTracker \/ GetBlobStreamInternal
    \/ OnCreateMultipartUploadCallback \/ OnUploadPartCallback \/ NoRequest \/ WriteRequest
    \/ OnCompleteMultipartUploadCallback \/ OnAbortMultipartUploadCallback
    \/ InitPutBlobStream \/ PutBlobStreamInternal \/ NoRequestToStream \/ WriteRequestToStream

\* What goes on by itself: the executors run what they are given and the services
\* answer.
BsProgress == BsProvider \/ BsRunFinish \/ ProcessCallback

BsNext ==
    \/ GetBlobStream \/ PutBlobStream \/ BsProgress
    \/ ReplaceBlob \/ PushRequest \/ CallerIsDone \/ CallerCancels \/ Expire

\* Time passes too: a stream that nobody feeds expires.
BsSpec == BsInit /\ [][BsNext]_bsVars /\ WF_bsVars(BsProgress) /\ WF_bsVars(Expire)

-----------------------------------------------------------------------------
(* Properties.                                                              *)

Ended(result) == \E i \in DOMAIN (scEnds \o scFinished) : (scEnds \o scFinished)[i] = result

\* A stream is finished once, whatever fails on the way, and a callback that finds no
\* response comes once, after Finish, when every response was taken.
StreamEndsOnce ==
    /\ Len(scEnds) + Len(scFinished) <= 1
    /\ bsNulls > 0 => bsNulls = 1 /\ scFinished # <<>> /\ scQueue = <<>>

\* A download that succeeds has given the caller every byte of the range it asked for,
\* of one version of the blob, in order and once, in responses that name their ranges.
DownloadIsWhole ==
    bsCall = "get" /\ Ended("Success") =>
        LET responses == bsGot \o scQueue
            data == FlattenSeq([i \in DOMAIN responses |-> responses[i].data])
            last == IF HasRange THEN MinOf(EndIndex, bsBlob.size - 1) ELSE bsBlob.size - 1
        IN  /\ \E v \in {1, 2} : data = BsBytes(v, BeginIndex, last)
            /\ \A i \in DOMAIN responses :
                 /\ responses[i].data[1][2] = responses[i].begin
                 /\ Last(responses[i].data)[2] = responses[i].end

\* An upload that succeeds has stored the first portion and every portion that the
\* caller could push, in order and once.
UploadIsWhole == bsCall = "put" /\ Ended("Success") => bsStored = bsAccepted

\* Every stream that was begun comes to an end, and its caller hears of it.
StreamEnds == bsPc # "call" ~> scFinished # <<>>

=============================================================================
