--------------------------- MODULE ServerInstance ---------------------------
(***************************************************************************)
(* A server process: which instance main picks, how the instance builds    *)
(* its components, runs them one after another and stops them, with the    *)
(* first failure ending the call; and what goes on beside those calls: the *)
(* lease of the instance or of a partition is acquired, not acquired or    *)
(* lost, the partition is loaded by a task of its own while Stop may       *)
(* already unload it, and the lease of a virtual node runs and stops the   *)
(* applier of lease preferences.                                           *)
(*                                                                         *)
(* One partition stands for all: the entries of the partition manager's    *)
(* map do not depend on each other. The components of that partition are   *)
(* in siState next to those of the instance, under their names.            *)
(***************************************************************************)
EXTENDS Naturals, Sequences, SequencesExt

CONSTANTS
    SiConfigs,      \* what may be configured: sets of the absent configuration keys
    SiMaxFaults     \* bound: how many Init, Run and Stop of components fail

VARIABLES
    siServer,       \* the instance: kind, platform, configuration and flags; and if the process is up
    siState,        \* component -> none, ready, running, stopping, stopped or failed
    siCall,         \* the call of main that goes on, its next step, and how calls were answered
    siLease,        \* the lease of the instance or of its partition: none, other or held
    siVnode,        \* if the lease of a virtual node is held
    siForwards,     \* if socat forwards the traffic of the host port
    siTask,         \* where the task that loads the partition is
    siPartition,    \* the partition's entry in the map of the partition manager
    siFaults

siVars == <<siServer, siState, siCall, siLease, siVnode, siForwards, siTask, siPartition, siFaults>>

-----------------------------------------------------------------------------
(* What the instances are made of, and in which order they go through it.   *)

Each(op, components) == [i \in DOMAIN components |-> <<op, components[i]>>]

Executors == <<"async_executor", "io_async_executor">>
LockStore == <<"async_executor_for_lock", "io_async_executor_for_lock", "nosql_for_lock">>

SingleInit(shared) ==
    Each("Init", Executors \o <<"http2_client", "http1_client", "instance_client", "metric_client",
        "async_executor_for_lock", "io_async_executor_for_lock", "blob_for_journal", "nosql",
        "nosql_for_lock", "journal_service", "budget_key_provider", "token_cache", "pbs_client",
        "remote_tm", "transaction_manager", "authorization_proxy", "http_server", "front_end",
        "pass_thru_proxy", "health_http_server", "health_service", "blob_for_checkpoint",
        "checkpoint_service">>
        \o IF shared THEN <<"lease_manager", "traffic_forwarder">> ELSE << >>)

SingleRun(shared) ==
    Each("Run", Executors \o <<"http1_client", "http2_client", "instance_client", "metric_client",
        "pass_thru_proxy", "health_http_server", "health_service">>)
    \o (IF shared
        THEN Each("Run", <<"traffic_forwarder">> \o LockStore \o <<"lease_manager">>)
             \o <<<<"await", "lease">>, <<"Stop", "traffic_forwarder">>>>
        ELSE << >>)
    \o <<<<"Run", "blob_for_journal">>, <<"recover", "journal_service">>, <<"began", "is_running">>>>
    \o Each("Run", <<"nosql", "journal_service", "budget_key_provider", "token_cache",
        "pbs_client", "remote_tm", "transaction_manager", "authorization_proxy", "http_server",
        "front_end", "blob_for_checkpoint", "checkpoint_service">>)

SingleStop(shared) ==
    Each("Stop", <<"checkpoint_service", "blob_for_checkpoint", "health_service",
        "health_http_server", "pass_thru_proxy", "front_end", "http_server",
        "authorization_proxy", "remote_tm", "pbs_client", "token_cache", "transaction_manager",
        "budget_key_provider", "journal_service", "blob_for_journal", "nosql", "metric_client",
        "instance_client", "http2_client", "http1_client", "io_async_executor", "async_executor">>
        \o IF shared
           THEN <<"traffic_forwarder", "lease_manager", "nosql_for_lock",
                  "async_executor_for_lock", "io_async_executor_for_lock">>
           ELSE << >>)
    \o <<<<"ended", "is_running">>>>

V2Init ==
    Each("Init", Executors \o <<"http2_client", "http1_client", "instance_client", "metric_client",
        "async_executor_for_lock", "io_async_executor_for_lock", "blob_for_journal", "nosql",
        "nosql_for_lock", "token_cache", "pbs_client", "remote_tm", "authorization_proxy",
        "blob_for_checkpoint", "partition_manager", "request_router", "route_resolver",
        "http_server", "front_end", "pass_thru_proxy", "health_http_server", "health_service",
        "lease_manager">>)

V2Run ==
    Each("Run", Executors \o <<"http2_client", "http1_client", "instance_client", "metric_client",
        "async_executor_for_lock", "io_async_executor_for_lock", "blob_for_journal", "nosql",
        "nosql_for_lock", "token_cache", "pbs_client", "remote_tm", "authorization_proxy",
        "blob_for_checkpoint", "partition_manager", "request_router", "http_server", "front_end",
        "pass_thru_proxy", "health_http_server", "health_service", "lease_manager">>)

V2Stop ==
    <<<<"cancel", "load">>>> \o
    Each("Stop", <<"lease_manager", "health_http_server", "health_service", "pass_thru_proxy",
        "front_end", "http_server", "request_router", "partition_manager", "blob_for_checkpoint",
        "authorization_proxy", "remote_tm", "pbs_client", "token_cache", "nosql_for_lock",
        "nosql", "blob_for_journal", "io_async_executor_for_lock", "async_executor_for_lock",
        "metric_client", "instance_client", "http1_client", "http2_client", "io_async_executor",
        "async_executor">>)

MultiInit ==
    Each("Init", Executors \o <<"http2_client", "http2_client_for_forwarder", "http1_client",
        "instance_client", "metric_client", "blob_for_journal", "nosql_for_live_traffic",
        "nosql_for_background", "nosql_for_lock", "token_cache", "pbs_client", "remote_tm",
        "authorization_proxy", "blob_for_checkpoint", "partition_manager", "request_router",
        "route_resolver", "http_server", "front_end", "pass_thru_proxy", "health_http_server",
        "health_service", "partition_lease_event_sink", "partition_lease_manager",
        "vnode_lease_manager", "preference_applier">>)

MultiRun ==
    Each("Run", Executors \o <<"http2_client", "http2_client_for_forwarder", "http1_client",
        "instance_client", "metric_client", "blob_for_journal", "nosql_for_background",
        "nosql_for_live_traffic", "nosql_for_lock", "token_cache", "pbs_client", "remote_tm",
        "authorization_proxy", "blob_for_checkpoint", "partition_manager", "request_router",
        "http_server", "front_end", "pass_thru_proxy", "health_http_server", "health_service",
        "partition_lease_event_sink", "partition_lease_manager", "vnode_lease_manager">>)

MultiStop ==
    Each("Stop", <<"preference_applier", "vnode_lease_manager", "partition_lease_manager",
        "partition_lease_event_sink", "health_http_server", "health_service", "pass_thru_proxy",
        "front_end", "http_server", "request_router", "partition_manager", "blob_for_checkpoint",
        "authorization_proxy", "remote_tm", "pbs_client", "token_cache", "nosql_for_lock",
        "nosql_for_background", "nosql_for_live_traffic", "blob_for_journal", "metric_client",
        "instance_client", "http1_client", "http2_client", "http2_client_for_forwarder",
        "io_async_executor", "async_executor">>)

V3Init ==
    Each("Init", Executors \o <<"http1_client", "http2_client", "authorization_proxy",
        "instance_client", "metric_client", "pass_thru_proxy", "http_server",
        "health_http_server", "health_service", "budget_consumption_helper", "front_end">>)

V3Run ==
    Each("Run", Executors \o <<"http1_client", "http2_client", "authorization_proxy",
        "instance_client", "metric_client", "pass_thru_proxy", "http_server",
        "health_http_server", "health_service", "budget_consumption_helper", "front_end">>)

V3Stop ==
    Each("Stop", <<"front_end", "budget_consumption_helper", "health_service",
        "health_http_server", "http_server", "pass_thru_proxy", "metric_client",
        "instance_client", "authorization_proxy", "http2_client", "http1_client",
        "io_async_executor", "async_executor">>)


-----------------------------------------------------------------------------
(* Which component works through which: what its constructor is given.      *)

\* The clients of the platforms.
GcpUses ==
    ({"token_cache"} \X {"http1_client", "async_executor"})
      \cup ({"instance_client"} \X {"http1_client", "http2_client"})
      \cup ({"metric_client"} \X {"instance_client", "async_executor"})

AwsUses ==
    ({"token_cache"} \X {"async_executor", "io_async_executor"})
      \cup ({"instance_client"} \X {"http1_client", "async_executor", "io_async_executor"})
      \cup ({"metric_client"} \X {"instance_client", "async_executor", "io_async_executor"})

PlatformUses(platform) == IF platform = "gcp" THEN GcpUses ELSE AwsUses

\* Metrics are sent by tasks of the executor.
Metered(components) == components \X {"async_executor", "metric_client"}

\* The instance that only serves: without a journal and without partitions. The
\* requests of a server are handled by its front end.
V3Uses ==
    ({"http1_client", "budget_consumption_helper"} \X {"async_executor", "io_async_executor"})
      \cup ({"http2_client"} \X {"async_executor"})
      \cup ({"authorization_proxy"} \X {"async_executor", "http2_client"})
      \cup ({"http_server"} \X {"authorization_proxy", "front_end"})
      \cup ({"health_http_server"} \X {"async_executor", "pass_thru_proxy", "health_service"})
      \cup {<<"front_end", "budget_consumption_helper">>}
      \cup Metered({"http_server", "front_end", "health_service"})

\* The journal and the components around it, of a partition or of an instance.
PartitionUses(stores) ==
    ({"blob_for_journal", "blob_for_checkpoint"} \X {"async_executor", "io_async_executor"})
      \cup (stores \X {"async_executor", "io_async_executor"})
      \cup {<<"journal_service", "blob_for_journal">>}
      \cup ({"checkpoint_service"} \X {"journal_service", "blob_for_checkpoint"})
      \cup ({"budget_key_provider"} \X ({"journal_service"} \cup stores))
      \cup ({"transaction_manager"} \X {"budget_key_provider", "journal_service", "remote_tm"})
      \cup Metered({"journal_service", "checkpoint_service", "budget_key_provider",
                    "transaction_manager"})

\* The client of the other coordinator.
RemoteUses == {<<"remote_tm", "pbs_client">>} \cup ({"pbs_client"} \X {"http2_client", "token_cache"})

SingleUses ==
    (V3Uses \ {<<"front_end", "budget_consumption_helper">>})
      \cup PartitionUses({"nosql"}) \cup RemoteUses
      \cup ({"nosql_for_lock"} \X {"async_executor_for_lock", "io_async_executor_for_lock"})
      \cup ({"lease_manager"} \X {"nosql_for_lock"})
      \cup ({"front_end"} \X {"transaction_manager", "budget_key_provider"})

V2Uses ==
    (SingleUses \ ({"front_end"} \X {"transaction_manager", "budget_key_provider"}))
      \cup ({"front_end"} \X {"partition_manager"})
      \cup ({"http_server"} \X {"request_router", "partition_manager"})
      \cup ({"request_router"} \X {"http2_client"})
      \cup ({"lease_manager"} \X {"partition_manager", "async_executor"})

MultiUses ==
    (V3Uses \ {<<"front_end", "budget_consumption_helper">>})
      \cup PartitionUses({"nosql_for_live_traffic", "nosql_for_background"}) \cup RemoteUses
      \cup ({"http2_client_for_forwarder"} \X {"async_executor"})
      \cup ({"front_end"} \X {"partition_manager"})
      \cup ({"http_server"} \X {"request_router", "partition_manager"})
      \cup ({"request_router"} \X {"http2_client_for_forwarder"})
      \cup ({"partition_lease_event_sink"} \X {"partition_manager"})
      \cup Metered({"partition_lease_event_sink"})
      \cup ({"partition_lease_manager"} \X {"nosql_for_lock", "partition_lease_event_sink"})
      \cup ({"vnode_lease_manager"} \X {"nosql_for_lock"})
      \cup ({"preference_applier"} \X {"vnode_lease_manager", "partition_lease_manager"})

\* What goes on answering when it is not running: its Run and its Stop do
\* nothing, or only start and stop tasks beside the answers (metrics, and the
\* refresh of a token).
Answers ==
    {"http1_client", "remote_tm", "pbs_client", "pass_thru_proxy", "nosql", "nosql_for_lock",
     "nosql_for_live_traffic", "nosql_for_background", "blob_for_journal", "blob_for_checkpoint",
     "budget_consumption_helper", "request_router", "front_end", "health_service", "token_cache"}

\* What refuses Run when it runs and Stop when it does not.
Strict ==
    {"async_executor", "io_async_executor", "async_executor_for_lock", "io_async_executor_for_lock",
     "http_server", "health_http_server", "journal_service", "transaction_manager",
     "budget_key_provider", "checkpoint_service", "lease_manager", "partition_lease_manager",
     "vnode_lease_manager", "partition_manager", "preference_applier", "front_end",
     "health_service"}

-----------------------------------------------------------------------------

Kinds == {"single", "v2", "multi", "v3"}

Uses(kind, platform) ==
    PlatformUses(platform) \cup
    CASE kind = "single" -> SingleUses
      [] kind = "v2" -> V2Uses
      [] kind = "multi" -> MultiUses
      [] kind = "v3" -> V3Uses

Twice(relation) ==
    relation \cup
    {<<pair[1][1], pair[2][2]>> : pair \in {p \in relation \X relation : p[1][2] = p[2][1]}}

\* What a component of an instance reaches, through any number of others, and
\* has to be running for its work to go on.
Needs ==
    [kind \in Kinds, platform \in {"gcp", "aws"} |->
        {use \in Twice(Twice(Twice(Uses(kind, platform)))) : use[2] \notin Answers}]

\* The partition's components, in the order in which Load runs them.
PartitionRun == <<"journal_service", "budget_key_provider", "transaction_manager", "checkpoint_service">>
PartitionStop == <<"checkpoint_service", "transaction_manager", "budget_key_provider", "journal_service">>

Partitioned == siServer.kind \in {"v2", "multi"}

\* GetPBSInstanceConfigFromConfigProvider: the keys without a default, and those
\* of TLS when it is on.
ReadConfig(absent) ==
    /\ absent \cap {"kAsyncExecutorQueueSize", "kAsyncExecutorThreadsCount",
                    "kIOAsyncExecutorQueueSize", "kIOAsyncExecutorThreadsCount",
                    "kTransactionManagerCapacity", "kJournalServiceBucketName",
                    "kJournalServicePartitionName", "kPrivacyBudgetServiceHostAddress",
                    "kPrivacyBudgetServiceHostPort", "kPrivacyBudgetServiceHealthPort",
                    "kTotalHttp2ServerThreadsCount", "kPBSPartitionLockTableNameConfigName"} = {}
    /\ "kHttp2ServerUseTls" \in absent
         \/ absent \cap {"kHttp2ServerPrivateKeyFilePath", "kHttp2ServerCertificateFilePath"} = {}

\* ReadConfigurations of the factories. Only the one for GCP knows of requests
\* that are routed by their DNS name and need another authorizer.
ReadGcpConfig(absent) ==
    /\ absent \cap {"kBudgetKeyTableName", "kPBSPartitionLockTableNameConfigName",
                    "kAuthServiceEndpoint", "kServiceMetricsNamespace",
                    "kRemotePrivacyBudgetServiceClaimedIdentity",
                    "kRemotePrivacyBudgetServiceHostAddress",
                    "kRemotePrivacyBudgetServiceAuthServiceEndpoint"} = {}
    /\ "kHttpServerDnsRoutingEnabled" \in absent
         \/ absent \cap {"kAlternateAuthServiceEndpoint", "kAlternateCloudServiceRegion"} = {}

ReadAwsConfig(absent) ==
    absent \cap {"kRemotePrivacyBudgetServiceAssumeRoleArn",
                 "kRemotePrivacyBudgetServiceAssumeRoleExternalId", "kCloudServiceRegion",
                 "kAuthServiceEndpoint", "kServiceMetricsNamespace",
                 "kRemotePrivacyBudgetServiceCloudServiceRegion",
                 "kRemotePrivacyBudgetServiceAuthServiceEndpoint",
                 "kRemotePrivacyBudgetServiceClaimedIdentity",
                 "kRemotePrivacyBudgetServiceHostAddress"} = {}

ReadFactoryConfig(absent) ==
    IF siServer.platform = "gcp" THEN ReadGcpConfig(absent) ELSE ReadAwsConfig(absent)

\* The identifiers of partitions and virtual nodes are parsed.
ReadIds(absent) == "well_formed_ids" \notin absent

\* What Init does before it initialises components. The factory of the second
\* version is initialised by its caller.
Prepare ==
    CASE siServer.kind = "single" -> <<<<"read", "config">>, <<"read", "factory">>>>
      [] siServer.kind = "v2" -> <<<<"read", "config">>>>
      [] siServer.kind = "multi" -> <<<<"read", "factory">>, <<"read", "config">>, <<"read", "ids">>>>
      [] siServer.kind = "v3" ->
            <<<<"read", "config">>, <<"read", "factory">>, <<"construct", "budget_consumption_helper">>>>

Orders ==
    CASE siServer.kind = "single" ->
            [Init |-> SingleInit(siServer.shared), Run |-> SingleRun(siServer.shared),
             Stop |-> SingleStop(siServer.shared)]
      [] siServer.kind = "v2" -> [Init |-> V2Init, Run |-> V2Run, Stop |-> V2Stop]
      [] siServer.kind = "multi" -> [Init |-> MultiInit, Run |-> MultiRun, Stop |-> MultiStop]
      [] siServer.kind = "v3" -> [Init |-> V3Init, Run |-> V3Run, Stop |-> V3Stop]

Steps(call) == (IF call = "Init" THEN Prepare ELSE << >>) \o Orders[call]

Components == UNION {{use[1], use[2]} : use \in UNION {Uses(k, p) : k \in Kinds, p \in {"gcp", "aws"}}}
                \cup {"route_resolver", "traffic_forwarder"}

\* The instance that main picks, by its flags; or one that its owner made, who
\* may also stop it, as the tests do.
SiInit ==
    /\ \E partitioning, relaxed, embedded, shared \in BOOLEAN, platform \in {"gcp", "aws"},
          absent \in SiConfigs :
         /\ siServer \in
              {[kind |-> kind, platform |-> platform, absent |-> absent, shared |-> shared,
                embedded |-> embedded, up |-> TRUE, running |-> FALSE, recovered |-> FALSE] :
                 kind \in IF partitioning THEN {"multi"} \cup (IF embedded THEN {"v2"} ELSE {})
                          ELSE IF relaxed THEN {"v3"} ELSE {"single"}}
         /\ siServer.kind # "single" => ~shared
    /\ siState = [c \in Components |-> "none"]
    /\ siCall = [name |-> "Init", at |-> 1, done |-> {}, failed |-> {}]
    /\ siLease = "none"
    /\ siVnode = FALSE
    /\ siForwards = FALSE
    /\ siTask = "none"
    /\ siPartition = [entry |-> "absent", type |-> "Remote"]
    /\ siFaults = 0

-----------------------------------------------------------------------------
(* The calls of main: each goes through its steps, and returns when one     *)
(* fails.                                                                   *)

Step == Steps(siCall.name)[siCall.at]
StepIs(op) == siServer.up /\ siCall.name # "none" /\ Step[1] = op

Fault == siFaults < SiMaxFaults /\ siFaults' = siFaults + 1

\* The process ends: it aborts, or main throws.
Die == siServer' = [siServer EXCEPT !.up = FALSE]

Proceed ==
    siCall' = IF siCall.at < Len(Steps(siCall.name)) THEN [siCall EXCEPT !.at = @ + 1]
              ELSE [siCall EXCEPT !.name = "none", !.done = @ \cup {siCall.name}]

\* The macros return the failure of a component. Main throws when it is told.
Fail ==
    /\ siCall' = [siCall EXCEPT !.name = "none", !.failed = @ \cup {siCall.name}]
    /\ IF siServer.embedded THEN UNCHANGED siServer ELSE Die

Set(component, state) == siState' = [siState EXCEPT ![component] = state]

Read ==
    /\ StepIs("read")
    /\ IF CASE Step[2] = "config" -> ReadConfig(siServer.absent)
            [] Step[2] = "factory" -> ReadFactoryConfig(siServer.absent)
            [] Step[2] = "ids" -> ReadIds(siServer.absent)
       THEN Proceed /\ UNCHANGED siServer ELSE Fail
    /\ UNCHANGED <<siState, siLease, siVnode, siForwards, siTask, siPartition, siFaults>>

\* On GCP the helper needs a connection to Spanner; there is none for AWS.
ConstructHelper ==
    /\ StepIs("construct")
    /\ \/ siServer.platform = "gcp" /\ Proceed /\ UNCHANGED <<siServer, siFaults>>
       \/ siServer.platform = "gcp" /\ Fault /\ Fail
       \/ siServer.platform = "aws" /\ Fail /\ UNCHANGED siFaults
    /\ UNCHANGED <<siState, siLease, siVnode, siForwards, siTask, siPartition>>

InitComponent ==
    /\ StepIs("Init")
    /\ \/ Set(Step[2], "ready") /\ Proceed /\ UNCHANGED <<siServer, siFaults>>
       \/ Fault /\ Fail /\ UNCHANGED siState
    /\ UNCHANGED <<siLease, siVnode, siForwards, siTask, siPartition>>

\* A Run that fails may have started what the component runs.
RunComponent ==
    /\ StepIs("Run")
    /\ \/ Set(Step[2], "running") /\ Proceed /\ UNCHANGED <<siServer, siFaults>>
       \/ Fault /\ Fail /\ (Set(Step[2], "running") \/ UNCHANGED siState)
    /\ UNCHANGED <<siLease, siVnode, siForwards, siTask, siPartition>>

\* The executor waits for its tasks, also for those of the future, and the sink
\* for its task, which it cancels if it did not begin.
Waits(component) ==
    \/ component = "async_executor" /\ siServer.kind = "v2" /\ siTask # "none"
    \/ component = "partition_lease_event_sink" /\ siTask \notin {"none", "waiting"}

StopComponent ==
    /\ StepIs("Stop") /\ Step[2] # "partition_manager"
    /\ ~Waits(Step[2])
    /\ LET refuses == Step[2] \in Strict /\ siState[Step[2]] # "running" IN
       \/ ~refuses /\ Set(Step[2], "stopped") /\ Proceed /\ UNCHANGED <<siServer, siFaults>>
       \/ refuses /\ Fail /\ UNCHANGED <<siState, siFaults>>
       \/ ~refuses /\ Fault /\ Fail /\ (Set(Step[2], "stopped") \/ UNCHANGED siState)
    /\ siForwards' = (siForwards /\ Step[2] # "traffic_forwarder")
    /\ siTask' = IF Step[2] = "partition_lease_event_sink" THEN "none" ELSE siTask
    /\ UNCHANGED <<siLease, siVnode, siPartition>>

\* Run goes on when the lease is acquired, and after a wait of two durations of
\* the lease.
AwaitLease ==
    /\ StepIs("await") /\ siLease = "held"
    /\ Proceed
    /\ UNCHANGED <<siServer, siState, siLease, siVnode, siForwards, siTask, siPartition, siFaults>>

RecoverInstance ==
    /\ StepIs("recover")
    /\ \/ Proceed /\ siServer' = [siServer EXCEPT !.recovered = TRUE] /\ UNCHANGED siFaults
       \/ Fault /\ Fail
    /\ UNCHANGED <<siState, siLease, siVnode, siForwards, siTask, siPartition>>

MarkRunning ==
    /\ StepIs("began") \/ StepIs("ended")
    /\ siServer' = [siServer EXCEPT !.running = (Step[1] = "began")]
    /\ Proceed
    /\ UNCHANGED <<siState, siLease, siVnode, siForwards, siTask, siPartition, siFaults>>

\* The callback cancels the scheduled load, if it did not begin.
CancelLoad ==
    /\ StepIs("cancel")
    /\ siTask' = IF siTask = "waiting" THEN "none" ELSE siTask
    /\ Proceed
    /\ UNCHANGED <<siServer, siState, siLease, siVnode, siForwards, siPartition, siFaults>>

CallRun ==
    /\ siServer.up /\ siCall.name = "none" /\ "Init" \in siCall.done
    /\ "Run" \notin siCall.done \cup siCall.failed
    /\ siCall' = [siCall EXCEPT !.name = "Run", !.at = 1]
    /\ UNCHANGED <<siServer, siState, siLease, siVnode, siForwards, siTask, siPartition, siFaults>>

\* Main sleeps for ever; whoever owns the instance otherwise stops it, also after
\* a Run or a Stop that failed.
CallStop ==
    /\ siServer.up /\ siServer.embedded /\ siCall.name = "none"
    /\ "Run" \in siCall.done \cup siCall.failed /\ "Stop" \notin siCall.done
    /\ siCall' = IF siServer.kind = "single" /\ ~siServer.running
                 THEN [siCall EXCEPT !.failed = @ \cup {"Stop"}]
                 ELSE [siCall EXCEPT !.name = "Stop", !.at = 1]
    /\ UNCHANGED <<siServer, siState, siLease, siVnode, siForwards, siTask, siPartition, siFaults>>

-----------------------------------------------------------------------------
(* The partition manager and its partition.                                 *)

ManagerRuns == siState["partition_manager"] = "running"
NoPartition == [entry |-> "absent", type |-> "Remote"]

\* The first of components that is in one of states.
FirstIn(components, states) == SelectSeq(components, LAMBDA c : siState[c] \in states)[1]
AllIn(components, states) == \A c \in Range(components) : siState[c] \in states

\* Stop: is_running_ is cleared; then the map is gone through until it is empty,
\* and a partition that is loaded meanwhile is unloaded.
StopManager ==
    /\ StepIs("Stop") /\ Step[2] = "partition_manager"
    /\ siState["partition_manager"] # "stopping"
    /\ IF ManagerRuns THEN Set("partition_manager", "stopping") /\ UNCHANGED <<siCall, siServer>>
       ELSE Fail /\ UNCHANGED siState
    /\ UNCHANGED <<siLease, siVnode, siForwards, siTask, siPartition, siFaults>>

StopManagerConverges ==
    /\ StepIs("Stop") /\ Step[2] = "partition_manager"
    /\ siState["partition_manager"] = "stopping"
    /\ \/ /\ siPartition.entry = "absent"
          /\ Set("partition_manager", "stopped") /\ Proceed
          /\ UNCHANGED <<siServer, siPartition, siFaults>>
       \/ /\ siPartition.entry = "Loaded"
          /\ siPartition' = IF siPartition.type = "Remote" THEN NoPartition
                            ELSE [siPartition EXCEPT !.entry = "Unloading"]
          /\ UNCHANGED <<siServer, siState, siCall, siFaults>>
       \/ /\ siPartition.entry = "Unloading"
          /\ IF AllIn(PartitionStop, {"stopped"})
             THEN siPartition' = NoPartition /\ UNCHANGED <<siServer, siState, siCall, siFaults>>
             ELSE /\ UNCHANGED siPartition
                  /\ \/ /\ Set(FirstIn(PartitionStop, {"running"}), "stopped")
                        /\ UNCHANGED <<siServer, siCall, siFaults>>
                     \/ Fault /\ Fail /\ Set("partition_manager", "failed")
    /\ UNCHANGED <<siLease, siVnode, siForwards, siTask>>

\* The task that loads the partition begins when a duration of the lease passed:
\* on the executor, or on a thread of its own. Only the one of the second version
\* unloads the remote partition first.
TaskBegins ==
    /\ siServer.up /\ siTask = "waiting"
    /\ siTask' = IF siServer.kind = "v2" THEN "Unload" ELSE "Check"
    /\ UNCHANGED <<siServer, siState, siCall, siLease, siVnode, siForwards, siPartition, siFaults>>

\* UnloadPartition of a remote partition; that there is none is no failure.
TaskUnloads ==
    /\ siServer.up /\ siTask = "Unload"
    /\ IF ManagerRuns THEN siPartition' = NoPartition /\ siTask' = "Check" /\ UNCHANGED siServer
       ELSE Die /\ UNCHANGED <<siPartition, siTask>>
    /\ UNCHANGED <<siState, siCall, siLease, siVnode, siForwards, siFaults>>

\* LoadPartition: is_running_ is read, the entry is inserted, and is_running_ is
\* read again.
TaskChecks ==
    /\ siServer.up /\ siTask = "Check"
    /\ IF ManagerRuns THEN siTask' = "Insert" /\ UNCHANGED siServer ELSE Die /\ UNCHANGED siTask
    /\ UNCHANGED <<siState, siCall, siLease, siVnode, siForwards, siPartition, siFaults>>

TaskInserts ==
    /\ siServer.up /\ siTask = "Insert"
    /\ IF siPartition.entry = "absent"
       THEN /\ siPartition' = [entry |-> "Created", type |-> "Local"]
            /\ siTask' = "Recheck" /\ UNCHANGED siServer
       ELSE Die /\ UNCHANGED <<siPartition, siTask>>
    /\ UNCHANGED <<siState, siCall, siLease, siVnode, siForwards, siFaults>>

\* Mutant: is_running_ is not read again.
TaskNeverRechecks ==
    /\ siServer.up /\ siTask = "Recheck"
    /\ siTask' = "Init"
    /\ UNCHANGED <<siServer, siState, siCall, siLease, siVnode, siForwards, siPartition, siFaults>>

TaskRechecks ==
    /\ siServer.up /\ siTask = "Recheck"
    /\ IF ManagerRuns THEN siTask' = "Init" /\ UNCHANGED siPartition
       ELSE siTask' = "none" /\ siPartition' = NoPartition
    /\ UNCHANGED <<siServer, siState, siCall, siLease, siVnode, siForwards, siFaults>>

\* A load that fails ends the process.
TaskFails == siServer.up /\ siTask \in {"Init", "Recover", "Run"} /\ Fault /\ Die
               /\ UNCHANGED <<siState, siCall, siLease, siVnode, siForwards, siTask, siPartition>>

\* PBSPartition::Init makes the partition's components, and initialises them.
PartitionInit ==
    /\ siServer.up /\ siTask = "Init"
    /\ siState' = [c \in Components |-> IF c \in Range(PartitionRun) THEN "ready" ELSE siState[c]]
    /\ siPartition' = [siPartition EXCEPT !.entry = "Initialized"]
    /\ siServer' = [siServer EXCEPT !.recovered = FALSE]
    /\ siTask' = "Load"
    /\ UNCHANGED <<siCall, siLease, siVnode, siForwards, siFaults>>

\* PBSPartition::Load recovers the journal, and then runs the components.
PartitionLoads ==
    /\ siServer.up /\ siTask = "Load" /\ siPartition.entry = "Initialized"
    /\ siPartition' = [siPartition EXCEPT !.entry = "Loading"]
    /\ siTask' = "Recover"
    /\ UNCHANGED <<siServer, siState, siCall, siLease, siVnode, siForwards, siFaults>>

RecoverPartition ==
    /\ siServer.up /\ siTask = "Recover"
    /\ siServer' = [siServer EXCEPT !.recovered = TRUE]
    /\ siTask' = "Run"
    /\ UNCHANGED <<siState, siCall, siLease, siVnode, siForwards, siPartition, siFaults>>

PartitionRuns ==
    /\ siServer.up /\ siTask = "Run"
    /\ IF AllIn(PartitionRun, {"running"})
       THEN /\ siPartition' = [siPartition EXCEPT !.entry = "Loaded"]
            /\ siTask' = "none" /\ UNCHANGED siState
       ELSE /\ Set(FirstIn(PartitionRun, {"ready"}), "running")
            /\ UNCHANGED <<siPartition, siTask>>
    /\ UNCHANGED <<siServer, siCall, siLease, siVnode, siForwards, siFaults>>

-----------------------------------------------------------------------------
(* The leases.                                                              *)

LeaseManagerRuns ==
    siServer.up /\ siState[IF siServer.kind = "multi" THEN "partition_lease_manager" ELSE "lease_manager"]
                     = "running"

\* A single instance goes on with its Run; otherwise the load is scheduled, and
\* the sink unloads the remote partition before that.
LeaseAcquired ==
    /\ LeaseManagerRuns /\ siLease # "held"
    /\ siLease' = "held"
    /\ CASE siServer.kind = "single" -> UNCHANGED <<siServer, siTask, siPartition>>
         [] siServer.kind = "v2" -> siTask' = "waiting" /\ UNCHANGED <<siServer, siPartition>>
         [] siServer.kind = "multi" ->
              IF siTask = "none" /\ ManagerRuns
              THEN siTask' = "waiting" /\ siPartition' = NoPartition /\ UNCHANGED siServer
              ELSE Die /\ UNCHANGED <<siTask, siPartition>>
    /\ UNCHANGED <<siState, siCall, siVnode, siForwards, siFaults>>

\* Traffic goes to the holder of the lease: a single instance has it forwarded, the
\* others load the remote partition or refresh its address.
LeaseNotAcquired ==
    /\ LeaseManagerRuns /\ siLease # "held"
    /\ siLease' = "other"
    /\ IF siServer.kind = "single"
       THEN /\ UNCHANGED siPartition
            /\ \/ siForwards' = TRUE /\ UNCHANGED <<siServer, siFaults>>
               \/ Fault /\ Die /\ UNCHANGED siForwards
       ELSE /\ UNCHANGED <<siForwards, siFaults>>
            /\ IF ManagerRuns /\ siPartition \in {NoPartition, [NoPartition EXCEPT !.entry = "Loaded"]}
               THEN siPartition' = [NoPartition EXCEPT !.entry = "Loaded"] /\ UNCHANGED siServer
               ELSE Die /\ UNCHANGED siPartition
    /\ UNCHANGED <<siState, siCall, siVnode, siTask>>

\* The process ends; or the sink unloads the partition, unless it is loading.
LeaseLost ==
    /\ LeaseManagerRuns /\ siLease = "held"
    /\ siLease' = "none"
    /\ IF siServer.kind = "multi" /\ siTask \in {"none", "waiting"} /\ ManagerRuns
       THEN \/ /\ siTask' = "none" /\ siPartition' = NoPartition
               /\ siState' = [c \in Components |->
                                IF siPartition.entry = "Loaded" /\ c \in Range(PartitionStop)
                                THEN "stopped" ELSE siState[c]]
               /\ UNCHANGED <<siServer, siFaults>>
            \/ Fault /\ Die /\ UNCHANGED <<siTask, siPartition, siState>>
       ELSE Die /\ UNCHANGED <<siTask, siPartition, siState, siFaults>>
    /\ UNCHANGED <<siCall, siVnode, siForwards>>

\* The lease of a virtual node runs and stops the applier of lease preferences;
\* that it runs, or does not, already is logged.
VnodeLeaseTransition ==
    /\ siServer.up /\ siState["vnode_lease_manager"] = "running"
    /\ siVnode' = ~siVnode
    /\ Set("preference_applier",
           IF siVnode' THEN "running"
           ELSE IF siState["preference_applier"] = "running" THEN "stopped"
           ELSE siState["preference_applier"])
    /\ UNCHANGED <<siServer, siCall, siLease, siForwards, siTask, siPartition, siFaults>>

SiNext ==
    \/ Read \/ ConstructHelper \/ InitComponent \/ RunComponent \/ StopComponent
    \/ AwaitLease \/ RecoverInstance \/ MarkRunning \/ CancelLoad \/ CallRun \/ CallStop
    \/ StopManager \/ StopManagerConverges
    \/ TaskBegins \/ TaskUnloads \/ TaskChecks \/ TaskInserts \/ TaskRechecks \/ TaskFails
    \/ PartitionInit \/ PartitionLoads \/ RecoverPartition \/ PartitionRuns
    \/ LeaseAcquired \/ LeaseNotAcquired \/ LeaseLost \/ VnodeLeaseTransition

SiSpec == SiInit /\ [][SiNext]_siVars

-----------------------------------------------------------------------------

SiTypeOK ==
    /\ siServer.kind \in Kinds
    /\ siState \in [Components -> {"none", "ready", "running", "stopping", "stopped", "failed"}]
    /\ siTask \in {"none", "waiting", "Unload", "Check", "Insert", "Recheck", "Init", "Load",
                   "Recover", "Run"}
    /\ siPartition.entry \in {"absent", "Created", "Initialized", "Loading", "Loaded", "Unloading"}

Runs(component) == siState[component] = "running"

\* Nothing works through a component that is down: whatever runs, in whichever
\* order components are run and stopped, with failures on the way and leases that
\* come and go, finds all it needs running. Not so the applier: the lease of a
\* virtual node may run it again after Stop stopped it and before it stops the
\* manager of that lease.
NothingWorksThroughTheStopped ==
    siServer.up =>
      \A use \in Needs[siServer.kind, siServer.platform] :
         Runs(use[1]) /\ use[1] # "preference_applier" => Runs(use[2])

\* The journal is written, and requests are served from it, only by a process that
\* recovered it first, that still watches over its lease, and that does not
\* forward the traffic of its port.
ServesOnlyAsHolder ==
    siServer.up =>
      /\ \A c \in Range(PartitionRun) : Runs(c) => siServer.recovered
      /\ siServer.kind = "single" /\ Runs("http_server") =>
           ~siForwards /\ (siServer.shared => Runs("lease_manager") /\ siLease = "held")

\* A partition that takes requests has all its components, and when the partition
\* manager stopped none is left, although its task may still be at it. Nothing
\* runs after the Stop of an instance succeeded, again but for the applier.
StopLeavesNothing ==
    siServer.up =>
      /\ siPartition = [entry |-> "Loaded", type |-> "Local"] => AllIn(PartitionRun, {"running"})
      /\ Partitioned /\ siState["partition_manager"] = "stopped" =>
           AllIn(PartitionRun, {"none", "ready", "stopped"}) /\ siTask \notin {"Init", "Load", "Recover", "Run"}
      /\ "Stop" \in siCall.done => \A c \in Components \ {"preference_applier"} : ~Runs(c)

\* An instance is whole, in every order of its calls, failures, leases and loads.
\* (The states are well typed.)
InstanceIsWhole ==
    SiTypeOK /\ NothingWorksThroughTheStopped /\ ServesOnlyAsHolder /\ StopLeavesNothing

=============================================================================
