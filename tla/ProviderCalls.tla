----------------------------- MODULE ProviderCalls -----------------------------
(***************************************************************************)
(* The client providers of cpio, and how one calls another. An operation   *)
(* takes a context: it returns at once, with success or a failure, and     *)
(* finishes the context, which calls back whoever made the call. Some      *)
(* operations only return a failure, some finish the context and return    *)
(* it, and a callback can only finish. The module gives each operation as  *)
(* the list of the stages it goes through, and a machine that carries one  *)
(* call of it out, with every call it makes in turn. Requests, answers and *)
(* credentials are reduced to being well formed or not.                    *)
(***************************************************************************)
EXTENDS Naturals, FiniteSets, Sequences, SequencesExt, TLC

CONSTANTS
    PcClouds,         \* the clouds to consider
    PcSpared          \* operations, with their cloud, during which neither a
                      \* curl handle nor room in the queue of an executor lacks

VARIABLES
    pcCloud,          \* the cloud that the library is built for
    pcFrames,         \* the calls, the first one by the user
    pcEvents          \* what is to happen next, on some thread

pcVars == <<pcCloud, pcFrames, pcEvents>>

-----------------------------------------------------------------------------
(* Stages. how: what an operation does with a failure that it meets. It     *)
(* returns it, finishes its context with it, does both, or aborts.          *)

Stage(kind, of, how) == [kind |-> kind, of |-> of, how |-> how]

Check(what, how) == Stage(what, {}, how)          \* "request", "reply" or "handle"
Hand(how) == Stage("hand", {}, how)               \* goes on in an executor
Cloud == Stage("cloud", {}, "finish")             \* the cloud calls back
Ask(op, how) == Stage("ask", {op}, how)           \* another operation, with a context
Forward(ops) == Stage("forward", ops, "return")   \* the same, with the user's request
Call(op, how) == Stage("call", {op}, how)         \* a function
Await(op) == Stage("await", {op}, "return")       \* AsyncToSync
Fan(op) == Stage("fan", {op}, "both")             \* three calls at a time
MayReply == Stage("may reply", {}, "finish")
Reply == Stage("answer", {}, "finish")            \* finishes with success
ReturnSuccess == Stage("return", {}, "return")           \* a function returns success

\* Mutant: a malformed answer of the metadata server is only logged.
LogsMalformedReply == <<Ask("Http1PerformRequest", "both"), Check("reply", "return"), Reply>>

Execute(ops) == <<Forward(ops), Reply>>
AsyncToSync(op) == <<Await(op), ReturnSuccess>>
Http1PerformRequest == <<Check("handle", "return"), Cloud, Reply>>
Http2PerformRequest == <<Cloud, Reply>>

-----------------------------------------------------------------------------
(* Tokens and credentials.                                                  *)

AwsGetSessionToken == <<Ask("Http1PerformRequest", "both"), Reply>>
AwsGetSessionTokenForTargetAudience == <<Check("unimplemented", "return")>>
GcpGetSessionToken == <<Ask("Http1PerformRequest", "both"), Check("reply", "finish"), Reply>>
GcpGetSessionTokenForTargetAudience ==
    <<Ask("Http1PerformRequest", "return"), Check("reply", "finish"), Reply>>
AwsGetRoleCredentials == <<Cloud, Reply>>
GcpGetRoleCredentials == <<Check("unimplemented", "return")>>
AwsRoleCredentialsRun == <<Call("GetCurrentRegionCode", "return"), ReturnSuccess>>

-----------------------------------------------------------------------------
(* Instances.                                                               *)

AwsGetCurrentInstanceResourceName ==
    <<Ask("GetSessionToken", "both"), Ask("Http1PerformRequest", "finish"),
      Check("reply", "finish"), Reply>>
AwsGetCurrentInstanceResourceNameSync == AsyncToSync("GetCurrentInstanceResourceName")
AwsGetInstanceDetailsByResourceName ==
    <<Check("request", "both"), Cloud, Check("reply", "finish"), Reply>>
AwsGetInstanceDetailsByResourceNameSync == AsyncToSync("GetInstanceDetailsByResourceName")
AwsGetTagsByResourceName == <<Check("request", "both"), Cloud, Reply>>
\* A name that has no region is logged, and then read all the same.
ParseRegionFromResourceName == Check("reply", "abort")
AwsGetCurrentRegionCode ==
    <<Call("GetCurrentInstanceResourceNameSync", "return"), ParseRegionFromResourceName, ReturnSuccess>>

GcpGetCurrentInstanceResourceName == <<Fan("Http1PerformRequest"), Reply>>
GcpGetCurrentInstanceResourceNameSync == AsyncToSync("GetCurrentInstanceResourceName")
GcpGetInstanceDetailsByResourceName ==
    <<Check("request", "both"), Ask("GetSessionToken", "both"),
      Ask("Http2PerformRequest", "finish"), Check("reply", "finish"), Reply>>
GcpGetInstanceDetailsByResourceNameSync == AsyncToSync("GetInstanceDetailsByResourceName")
GcpGetTagsByResourceName ==
    <<Ask("GetSessionToken", "both"), Ask("Http2PerformRequest", "finish"),
      Check("reply", "finish"), Reply>>
ParseProjectIdFromInstanceResourceName == Check("reply", "abort")
GcpGetCurrentProjectId ==
    <<Call("GetCurrentInstanceResourceNameSync", "return"),
      ParseProjectIdFromInstanceResourceName, ReturnSuccess>>

\* The instance proceeds, is not waiting, or its lifecycle action is completed.
TryFinishInstanceTermination ==
    <<Check("request", "both"), Cloud, Check("reply", "finish"), MayReply, Cloud, Reply>>
AutoScalingRun == <<Call("GetCurrentRegionCode", "return"), ReturnSuccess>>

-----------------------------------------------------------------------------
(* Parameters and queues.                                                   *)

AwsParameterRun == <<Call("GetCurrentRegionCode", "return"), ReturnSuccess>>
GcpParameterInit == <<Call("GetCurrentProjectId", "return"), Check("reply", "return"), ReturnSuccess>>
AwsGetParameter == <<Check("request", "both"), Cloud, Check("reply", "finish"), Reply>>
GcpGetParameter == <<Check("request", "both"), Hand("both"), Cloud, Reply>>

\* A queue without a URL is not taken for a failure.
AwsQueueRun ==
    <<Check("request", "return"), Call("GetCurrentRegionCode", "return"),
      Check("reply", "return"), ReturnSuccess>>
AwsEnqueueMessage == <<Check("request", "both"), Cloud, Reply>>
AwsGetTopMessage == <<Cloud, Check("reply", "finish"), Reply>>
AwsUpdateMessageVisibilityTimeout == <<Check("request", "both"), Cloud, Reply>>
AwsDeleteMessage == <<Check("request", "both"), Cloud, Reply>>

GcpQueueInit == <<Check("request", "return"), ReturnSuccess>>
GcpQueueRun == <<Call("GetCurrentProjectId", "return"), Check("reply", "return"), ReturnSuccess>>
GcpEnqueueMessage ==
    <<Check("request", "both"), Hand("both"), Cloud, Check("reply", "finish"), Reply>>
GcpGetTopMessage == <<Hand("both"), Cloud, Check("reply", "finish"), Reply>>
GcpUpdateMessageVisibilityTimeout == <<Check("request", "both"), Hand("both"), Cloud, Reply>>
GcpDeleteMessage == <<Check("request", "both"), Hand("both"), Cloud, Reply>>

-----------------------------------------------------------------------------
(* Keys and ciphers.                                                        *)

AwsSignHttpRequest == <<Ask("GetRoleCredentials", "return"), Check("reply", "finish"), Reply>>
GcpSignHttpRequest == <<Ask("GetSessionTokenForTargetAudience", "return"), Reply>>
ParsePrivateKey == Check("reply", "finish")
FetchPrivateKey ==
    <<Ask("SignHttpRequest", "return"), Ask("Http2PerformRequest", "finish"), ParsePrivateKey, Reply>>

AwsKmsAeadDecrypt == Check("reply", "finish")
NonteeAwsDecrypt ==
    <<Check("request", "both"), Ask("GetAead", "return"), AwsKmsAeadDecrypt, Reply>>
NonteeAwsGetAead == <<Ask("CreateKmsClient", "return"), Check("reply", "finish"), Reply>>
NonteeAwsCreateKmsClient == <<Ask("GetRoleCredentials", "return"), Reply>>
DecryptUsingEnclavesKmstoolCli == Check("reply", "finish")
TeeAwsDecrypt ==
    <<Check("request", "both"), Ask("GetRoleCredentials", "return"),
      DecryptUsingEnclavesKmstoolCli, Reply>>
GcpKmsAeadDecrypt == Check("reply", "both")
GcpDecrypt == <<Check("request", "both"), GcpKmsAeadDecrypt, Reply>>

HpkeEncrypt == <<Check("request", "both"), Reply>>
HpkeDecrypt == <<Check("request", "both"), Reply>>
AeadEncrypt == <<Check("request", "both"), Reply>>
AeadDecrypt == <<Check("request", "both"), Reply>>

-----------------------------------------------------------------------------
(* The public clients, and the fetcher of configuration above them.         *)

InstanceClientGetCurrentInstanceResourceName == Execute({"GetCurrentInstanceResourceName"})
InstanceClientGetTagsByResourceName == Execute({"GetTagsByResourceName"})
InstanceClientGetInstanceDetailsByResourceName == Execute({"GetInstanceDetailsByResourceName"})
ParameterClientGetParameter == Execute({"GetParameter"})
CryptoClientHpkeEncrypt == Execute({"HpkeEncrypt"})
CryptoClientHpkeDecrypt == Execute({"HpkeDecrypt"})
CryptoClientAeadEncrypt == Execute({"AeadEncrypt"})
CryptoClientAeadDecrypt == Execute({"AeadDecrypt"})
KmsClientDecrypt == <<Forward({"Decrypt", "TeeDecrypt"}), Reply>>

\* GetConfiguration and its three callbacks.
GetConfiguration ==
    <<Ask("InstanceClient::GetCurrentInstanceResourceName", "return"),
      Ask("InstanceClient::GetInstanceDetailsByResourceName", "finish"),
      Check("reply", "finish"), Ask("ParameterClient::GetParameter", "finish"), Reply>>
\* A parameter that is not of its type is a failure.
ContextConvertCallback == <<Ask("GetConfiguration", "return"), Check("reply", "finish"), Reply>>
GetParameterByName == AsyncToSync("GetConfiguration")
GetSharedOptions == AsyncToSync("GetConfigurationConverted")
GetJobClientOptions == AsyncToSync("GetConfigurationConverted")
GetDatabaseAndQueueOptions == AsyncToSync("GetConfigurationConverted")
GetCryptoClientOptions == AsyncToSync("GetConfigurationConverted")

-----------------------------------------------------------------------------
(* The operations by name, as the factories of the two builds supply them.  *)

CommonOperations ==
    "Http1PerformRequest" :> Http1PerformRequest @@
    "Http2PerformRequest" :> Http2PerformRequest @@
    "FetchPrivateKey" :> FetchPrivateKey @@
    "HpkeEncrypt" :> HpkeEncrypt @@ "HpkeDecrypt" :> HpkeDecrypt @@
    "AeadEncrypt" :> AeadEncrypt @@ "AeadDecrypt" :> AeadDecrypt @@
    "InstanceClient::GetCurrentInstanceResourceName" :>
        InstanceClientGetCurrentInstanceResourceName @@
    "InstanceClient::GetTagsByResourceName" :> InstanceClientGetTagsByResourceName @@
    "InstanceClient::GetInstanceDetailsByResourceName" :>
        InstanceClientGetInstanceDetailsByResourceName @@
    "ParameterClient::GetParameter" :> ParameterClientGetParameter @@
    "CryptoClient::HpkeEncrypt" :> CryptoClientHpkeEncrypt @@
    "CryptoClient::HpkeDecrypt" :> CryptoClientHpkeDecrypt @@
    "CryptoClient::AeadEncrypt" :> CryptoClientAeadEncrypt @@
    "CryptoClient::AeadDecrypt" :> CryptoClientAeadDecrypt @@
    "KmsClient::Decrypt" :> KmsClientDecrypt @@
    "GetConfiguration" :> GetConfiguration @@
    "GetConfigurationConverted" :> ContextConvertCallback @@
    "GetParameterByName" :> GetParameterByName @@
    "GetSharedOptions" :> GetSharedOptions @@
    "GetJobClientOptions" :> GetJobClientOptions @@
    "GetDatabaseAndQueueOptions" :> GetDatabaseAndQueueOptions @@
    "GetCryptoClientOptions" :> GetCryptoClientOptions

AwsOperations ==
    "GetSessionToken" :> AwsGetSessionToken @@
    "GetSessionTokenForTargetAudience" :> AwsGetSessionTokenForTargetAudience @@
    "GetRoleCredentials" :> AwsGetRoleCredentials @@
    "RoleCredentialsProvider::Run" :> AwsRoleCredentialsRun @@
    "GetCurrentInstanceResourceName" :> AwsGetCurrentInstanceResourceName @@
    "GetCurrentInstanceResourceNameSync" :> AwsGetCurrentInstanceResourceNameSync @@
    "GetInstanceDetailsByResourceName" :> AwsGetInstanceDetailsByResourceName @@
    "GetInstanceDetailsByResourceNameSync" :> AwsGetInstanceDetailsByResourceNameSync @@
    "GetTagsByResourceName" :> AwsGetTagsByResourceName @@
    "GetCurrentRegionCode" :> AwsGetCurrentRegionCode @@
    "TryFinishInstanceTermination" :> TryFinishInstanceTermination @@
    "AutoScalingClientProvider::Run" :> AutoScalingRun @@
    "ParameterClientProvider::Run" :> AwsParameterRun @@
    "GetParameter" :> AwsGetParameter @@
    "QueueClientProvider::Run" :> AwsQueueRun @@
    "EnqueueMessage" :> AwsEnqueueMessage @@
    "GetTopMessage" :> AwsGetTopMessage @@
    "UpdateMessageVisibilityTimeout" :> AwsUpdateMessageVisibilityTimeout @@
    "DeleteMessage" :> AwsDeleteMessage @@
    "SignHttpRequest" :> AwsSignHttpRequest @@
    "Decrypt" :> NonteeAwsDecrypt @@ "TeeDecrypt" :> TeeAwsDecrypt @@
    "GetAead" :> NonteeAwsGetAead @@
    "CreateKmsClient" :> NonteeAwsCreateKmsClient

GcpOperations ==
    "GetSessionToken" :> GcpGetSessionToken @@
    "GetSessionTokenForTargetAudience" :> GcpGetSessionTokenForTargetAudience @@
    "GetRoleCredentials" :> GcpGetRoleCredentials @@
    "GetCurrentInstanceResourceName" :> GcpGetCurrentInstanceResourceName @@
    "GetCurrentInstanceResourceNameSync" :> GcpGetCurrentInstanceResourceNameSync @@
    "GetInstanceDetailsByResourceName" :> GcpGetInstanceDetailsByResourceName @@
    "GetInstanceDetailsByResourceNameSync" :> GcpGetInstanceDetailsByResourceNameSync @@
    "GetTagsByResourceName" :> GcpGetTagsByResourceName @@
    "GetCurrentProjectId" :> GcpGetCurrentProjectId @@
    "ParameterClientProvider::Init" :> GcpParameterInit @@
    "GetParameter" :> GcpGetParameter @@
    "QueueClientProvider::Init" :> GcpQueueInit @@
    "QueueClientProvider::Run" :> GcpQueueRun @@
    "EnqueueMessage" :> GcpEnqueueMessage @@
    "GetTopMessage" :> GcpGetTopMessage @@
    "UpdateMessageVisibilityTimeout" :> GcpUpdateMessageVisibilityTimeout @@
    "DeleteMessage" :> GcpDeleteMessage @@
    "SignHttpRequest" :> GcpSignHttpRequest @@
    "Decrypt" :> GcpDecrypt

Operations ==
    [aws |-> CommonOperations @@ AwsOperations, gcp |-> CommonOperations @@ GcpOperations]

-----------------------------------------------------------------------------
(* The machine. A frame is a call that is under way. at: its stage. site:   *)
(* the stage of the parent that made it, and waits: whether the parent      *)
(* returns what it returns. trusted: the request was made by a provider.    *)
(* scarce: a resource may lack. later: the operation has returned or will   *)
(* return what a call returns. The rest is told by its name.                *)

Frame(op, parent, site, waits, trusted, scarce) ==
    [op |-> op, parent |-> parent, at |-> 1, site |-> site, waits |-> waits,
     trusted |-> trusted, scarce |-> scarce /\ <<pcCloud, op>> \notin PcSpared,
     later |-> FALSE, returned |-> "no", finished |-> 0, got_failure |-> FALSE, left |-> 3]

\* Frame runs a stage, or hears of the call by the frame from that it made at one.
Event(what, frame, at, from, ok) ==
    [what |-> what, frame |-> frame, at |-> at, from |-> from, ok |-> ok]
Run(frame, at) == Event("run", frame, at, 0, TRUE)

PcState == [frames |-> pcFrames, events |-> pcEvents]

PcInit ==
    /\ pcCloud \in PcClouds
    /\ \E op \in DOMAIN Operations[pcCloud] :
          pcFrames = <<Frame(op, 0, 0, FALSE, FALSE, TRUE)>>
    /\ pcEvents = {Run(1, 1)}

StageOf(s, f, at) == Operations[pcCloud][s.frames[f].op][at]

\* What happened to frame f is for its parent to deal with.
Tell(s, f, what, ok) ==
    LET frame == s.frames[f] IN
    IF frame.parent = 0 THEN s
    ELSE [s EXCEPT !.events = @ \cup {Event(what, frame.parent, frame.site, f, ok)}]

Returns(s, f, ok) ==
    Tell([s EXCEPT !.frames[f].returned = IF ok THEN "success" ELSE "failure"], f, "returned", ok)

Finishes(s, f, ok) == Tell([s EXCEPT !.frames[f].finished = @ + 1], f, "answered", ok)

Aborts(s) == [s EXCEPT !.events = {}, !.frames = [f \in DOMAIN @ |-> [@[f] EXCEPT !.returned = "aborted"]]]

Fails(s, f, how) ==
    CASE how = "return" -> Returns(s, f, FALSE)
      [] how = "finish" -> Finishes(s, f, FALSE)
      [] how = "both" -> Returns(Finishes(s, f, FALSE), f, FALSE)
      [] how = "abort" -> Aborts(s)

\* The thread that leaves the operation behind returns its success.
Leaves(s, f) == IF s.frames[f].later THEN s ELSE Returns([s EXCEPT !.frames[f].later = TRUE], f, TRUE)

GoesOn(s, f) ==
    LET at == s.frames[f].at + 1 IN
    [s EXCEPT !.frames[f].at = at, !.events = @ \cup {Run(f, at)}]

Starts(s, f, op, trusted) ==
    LET frame == s.frames[f] IN
    [frames |-> Append([s.frames EXCEPT ![f].later = TRUE],
                       Frame(op, f, frame.at, ~frame.later, trusted, frame.scarce)),
     events |-> s.events \cup {Run(Len(s.frames) + 1, 1)}]

MayFail(frame, stage) ==
    \/ stage.kind \in {"reply", "cloud", "unimplemented"}
    \/ stage.kind = "request" /\ ~frame.trusted
    \/ stage.kind \in {"handle", "hand"} /\ frame.scarce

\* Mutant: each of the three calls that fails finishes the context.
FanFailsEachTime(s, f) == Finishes([s EXCEPT !.frames[f].got_failure = TRUE], f, FALSE)

\* The three calls of the metadata server share got_failure and a count.
FanFails(s, f) ==
    IF s.frames[f].got_failure THEN s
    ELSE Finishes([s EXCEPT !.frames[f].got_failure = TRUE], f, FALSE)

FanAnswers(s, f) ==
    IF s.frames[f].got_failure THEN s
    ELSE LET t == [s EXCEPT !.frames[f].left = @ - 1] IN
         IF t.frames[f].left = 0 THEN GoesOn(t, f) ELSE t

\* Frame f runs its stage: the states it may lead to.
Runs(s, f) ==
    LET frame == s.frames[f]
        stage == StageOf(s, f, frame.at)
        failure == IF MayFail(frame, stage) THEN {Fails(s, f, stage.how)} ELSE {}
        ops == stage.of \cap DOMAIN Operations[pcCloud]
    IN CASE stage.kind \in {"request", "reply", "handle"} -> {GoesOn(s, f)} \cup failure
         [] stage.kind = "unimplemented" -> failure
         [] stage.kind = "hand" -> {GoesOn(Leaves(s, f), f)} \cup failure
         [] stage.kind = "cloud" -> {GoesOn(Leaves(s, f), f), Finishes(Leaves(s, f), f, FALSE)}
         [] stage.kind = "may reply" -> {GoesOn(s, f), Finishes(s, f, TRUE)}
         [] stage.kind = "answer" -> {Finishes(Leaves(s, f), f, TRUE)}
         [] stage.kind = "return" -> {Returns(s, f, TRUE)}
         [] OTHER -> {Starts(s, f, op, stage.kind # "forward" \/ frame.trusted) : op \in ops}

\* A call that frame f made at stage at has returned.
HearsReturn(s, f, e) ==
    LET stage == StageOf(s, f, e.at) IN
    CASE stage.kind = "call" -> IF e.ok THEN GoesOn(s, f) ELSE Fails(s, f, stage.how)
      [] stage.kind = "await" -> IF e.ok THEN s ELSE Returns(s, f, FALSE)
      [] stage.kind = "fan" ->
            IF ~e.ok THEN Returns(FanFails(s, f), f, FALSE)
            ELSE IF Cardinality({c \in DOMAIN s.frames : s.frames[c].parent = f}) < 3
                 THEN Starts(s, f, "Http1PerformRequest", TRUE)
                 ELSE Returns(s, f, TRUE)
      [] OTHER -> IF ~e.ok THEN Fails(s, f, stage.how)
                  ELSE IF s.frames[e.from].waits THEN Returns(s, f, TRUE) ELSE s

\* The context of a call that frame f made is finished: its callback runs.
HearsAnswer(s, f, e) ==
    LET stage == StageOf(s, f, e.at) IN
    CASE stage.kind = "await" -> IF e.ok THEN GoesOn(s, f) ELSE Returns(s, f, FALSE)
      [] stage.kind = "fan" -> IF e.ok THEN FanAnswers(s, f) ELSE FanFails(s, f)
      [] stage.kind = "call" -> s
      [] OTHER -> IF e.ok THEN GoesOn(s, f) ELSE Finishes(s, f, FALSE)

Follows(e, s) ==
    CASE e.what = "run" -> Runs(s, e.frame)
      [] e.what = "returned" -> {HearsReturn(s, e.frame, e)}
      [] e.what = "answered" -> {HearsAnswer(s, e.frame, e)}

PcNext ==
    /\ \E e \in pcEvents :
          \E t \in Follows(e, [PcState EXCEPT !.events = @ \ {e}]) :
             pcFrames' = t.frames /\ pcEvents' = t.events
    /\ UNCHANGED pcCloud

PcSpec == PcInit /\ [][PcNext]_pcVars

-----------------------------------------------------------------------------
(* Properties.                                                              *)

PcTypeOK ==
    /\ pcCloud \in PcClouds
    /\ \A f \in DOMAIN pcFrames :
          /\ pcFrames[f].op \in DOMAIN Operations[pcCloud]
          /\ pcFrames[f].parent \in 0..(f - 1)
          /\ pcFrames[f].returned \in {"no", "success", "failure", "aborted"}
    /\ \A e \in pcEvents : e.frame \in DOMAIN pcFrames

\* No context of any call is finished twice: a second callback would answer a
\* caller that has gone on, or set a promise that is already set.
PcFinishedOnce == \A f \in DOMAIN pcFrames : pcFrames[f].finished <= 1

HasContext(frame) == Last(Operations[pcCloud][frame.op]).kind = "answer"

\* When nothing is left to happen every call has returned, and the context of
\* a call that returned success has been finished, once.
PcAnswered ==
    pcEvents = {} =>
       \A f \in DOMAIN pcFrames :
          /\ pcFrames[f].returned # "no"
          /\ pcFrames[f].returned = "success" /\ HasContext(pcFrames[f])
                => pcFrames[f].finished = 1
================================================================================
