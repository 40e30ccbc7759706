------------------------------ MODULE CurlClient ------------------------------
(***************************************************************************)
(* Http1CurlClient and Http1CurlWrapper: one request, with its attempts.   *)
(* libcurl is external: it asks for the body of a PUT in portions of its   *)
(* buffer, and gives the response in lines of header and in portions of    *)
(* body. A body is a sequence of numbered bytes; of a header, and of an    *)
(* error message, only what the handlers tell apart is kept.               *)
(***************************************************************************)
EXTENDS Integers, Sequences, SequencesExt, FiniteSetsExt

CONSTANTS
    CuMethods,        \* the methods of the requests to consider
    CuSizes,          \* the sizes of their bodies
    CuBuffer,         \* the size of libcurl's buffer for uploads
    CuReplies,        \* the sizes of the bodies of the responses
    CuPortions,       \* the sizes of the portions a body is given in
    CuNumbers,        \* the first three digits of an error message, 0 for none
    CuTries           \* the number of attempts that the dispatcher makes

VARIABLES
    cuPc, cuRequest,
    cuTry,            \* retry_count
    cuSent,           \* what libcurl has sent of the body
    cuReply,          \* the response that the server gives to the attempt
    cuGiven,          \* how much of its body libcurl has given to the handler
    cuBody,           \* response.body
    cuFields,         \* response.headers
    cuResult, cuReturned, cuFinishes

cuVars == <<cuPc, cuRequest, cuTry, cuSent, cuReply, cuGiven, cuBody, cuFields, cuResult,
            cuReturned, cuFinishes>>

Bytes(from, to) == [i \in 1..(to - from + 1) |-> from + i - 1]

CuInit ==
    /\ cuPc = "new" /\ cuTry = 0
    /\ cuRequest \in [path : BOOLEAN, method : CuMethods, size : CuSizes, headers : {0, 1}]
    /\ cuSent = << >> /\ cuReply = 0 /\ cuGiven = 0 /\ cuBody = << >> /\ cuFields = {}
    /\ cuResult = "none" /\ cuReturned = "none" /\ cuFinishes = 0

\* MakeWrapper may find no handle; otherwise the dispatcher makes the attempt.
CurlPerformRequest ==
    /\ cuPc = "new"
    /\ \/ cuPc' = "done" /\ cuReturned' = "Retry"
       \/ cuPc' = "setup" /\ cuReturned' = "Success"
    /\ UNCHANGED <<cuRequest, cuTry, cuSent, cuReply, cuGiven, cuBody, cuFields, cuResult, cuFinishes>>

\* What the dispatcher makes of the result of an attempt that is not a success.
AttemptEnds(result) ==
    /\ IF result = "Retry" /\ cuTry + 1 < CuTries
       THEN cuPc' = "setup" /\ cuTry' = cuTry + 1 /\ UNCHANGED <<cuResult, cuFinishes>>
       ELSE cuPc' = "done" /\ cuResult' = "Failure" /\ cuFinishes' = cuFinishes + 1 /\ UNCHANGED cuTry
    /\ UNCHANGED <<cuRequest, cuSent, cuReply, cuGiven, cuBody, cuFields, cuReturned>>

\* libcurl may have no room for a header.
AddHeadersToRequest == IF cuRequest.headers = 0 THEN {"Success"} ELSE {"Success", "Retry"}

SetUpPostData == cuSent' = Bytes(1, cuRequest.size)
SetUpPutData == cuSent' = << >>

\* The options of the handle, in order; then the transfer.
WrapperPerformRequest ==
    /\ cuPc = "setup"
    /\ \/ /\ ~cuRequest.path \/ cuRequest.method = "UNKNOWN"
          /\ AttemptEnds("Failure")
       \/ /\ cuRequest.path /\ cuRequest.method # "UNKNOWN"
          /\ \E added \in AddHeadersToRequest :
                IF added = "Retry" THEN AttemptEnds("Retry")
                ELSE /\ cuPc' = "transfer" /\ cuReply' \in CuReplies /\ cuGiven' = 0
                     /\ cuBody' = << >> /\ cuFields' = {}
                     /\ IF cuRequest.method = "POST" THEN SetUpPostData ELSE SetUpPutData
                     /\ UNCHANGED <<cuRequest, cuTry, cuResult, cuReturned, cuFinishes>>

\* libcurl takes no more of a body than the size it was told.
Uploaded == IF cuRequest.method = "PUT" THEN Len(cuSent) = cuRequest.size ELSE TRUE

\* The handler of uploads is given a buffer: it always copies from the front.
RequestReadHandler ==
    /\ cuPc = "transfer" /\ ~Uploaded
    /\ LET portion == Bytes(1, Min({CuBuffer, cuRequest.size}))
           room == cuRequest.size - Len(cuSent)
       IN  cuSent' = cuSent \o SubSeq(portion, 1, Min({Len(portion), room}))
    /\ UNCHANGED <<cuPc, cuRequest, cuTry, cuReply, cuGiven, cuBody, cuFields, cuResult, cuReturned,
                   cuFinishes>>

\* A line of the header: only one with a colon before its end is a field.
ResponseHeaderHandler(line) ==
    /\ cuPc = "transfer" /\ Uploaded /\ cuGiven = 0
    /\ cuFields' = IF line = "field" THEN cuFields \cup {line} ELSE cuFields
    /\ UNCHANGED <<cuPc, cuRequest, cuTry, cuSent, cuReply, cuGiven, cuBody, cuResult, cuReturned,
                   cuFinishes>>

\* Mutant: a byte too few is kept.
DropsLastByte(n) ==
    /\ cuPc = "transfer" /\ Uploaded /\ cuGiven + n <= cuReply
    /\ cuGiven' = cuGiven + n /\ cuBody' = Bytes(cuGiven + 1, cuGiven + n - 1)
    /\ UNCHANGED <<cuPc, cuRequest, cuTry, cuSent, cuReply, cuFields, cuResult, cuReturned, cuFinishes>>

\* A portion of the body: a new vector for it.
ResponsePayloadHandler(n) ==
    /\ cuPc = "transfer" /\ Uploaded /\ cuGiven + n <= cuReply
    /\ cuGiven' = cuGiven + n /\ cuBody' = Bytes(cuGiven + 1, cuGiven + n)
    /\ UNCHANGED <<cuPc, cuRequest, cuTry, cuSent, cuReply, cuFields, cuResult, cuReturned, cuFinishes>>

\* The first three digits of the message are taken for the status.
GetExecutionResultFromCurlError(number) ==
    IF number = 0 \/ number >= 500 THEN "Retry"
    ELSE IF number < 400 THEN "Success"
    ELSE IF number \in {400, 401, 403, 404, 409} THEN "Failure" ELSE "Retry"

\* The transfer is complete: the response is the answer.
TransferDone ==
    /\ cuPc = "transfer" /\ Uploaded /\ cuGiven = cuReply
    /\ cuPc' = "done" /\ cuResult' = "Success" /\ cuFinishes' = cuFinishes + 1
    /\ UNCHANGED <<cuRequest, cuTry, cuSent, cuReply, cuGiven, cuBody, cuFields, cuReturned>>

\* It fails: a result that is a success then has no response, and reading it
\* ends the process.
TransferFails(number) ==
    /\ cuPc = "transfer"
    /\ IF GetExecutionResultFromCurlError(number) = "Success"
       THEN /\ cuPc' = "aborted"
            /\ UNCHANGED <<cuRequest, cuTry, cuSent, cuReply, cuGiven, cuBody, cuFields, cuResult,
                           cuReturned, cuFinishes>>
       ELSE AttemptEnds(GetExecutionResultFromCurlError(number))

CuNext ==
    \/ CurlPerformRequest \/ WrapperPerformRequest \/ RequestReadHandler \/ TransferDone
    \/ \E line \in {"field", "status", "blank", "no colon"} : ResponseHeaderHandler(line)
    \/ \E n \in CuPortions : ResponsePayloadHandler(n)
    \/ \E number \in CuNumbers : TransferFails(number)

CuSpec == CuInit /\ [][CuNext]_cuVars

-----------------------------------------------------------------------------
(* Properties.                                                              *)

\* A request that succeeds has sent its whole body, and its response holds the
\* whole body that the server gave, whatever portions and attempts it came in.
BodyIsWhole ==
    cuResult = "Success" =>
       /\ cuBody = Bytes(1, cuReply)
       /\ cuRequest.method \in {"PUT", "POST"} => cuSent = Bytes(1, cuRequest.size)

\* A request that the client takes is answered once, and the process survives
\* whatever message comes with a failure.
CuAnsweredOnce ==
    /\ cuPc # "aborted"
    /\ cuPc = "done" => cuFinishes = IF cuReturned = "Success" THEN 1 ELSE 0
================================================================================
