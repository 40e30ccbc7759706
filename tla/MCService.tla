------------------------------ MODULE MCService ------------------------------
(***************************************************************************)
(* The parts of a server around the engine, side by side: the HTTP server  *)
(* and the authorization of its requests, the two front ends, how requests *)
(* enter the transaction manager, the caches of budget keys and of their   *)
(* timeframe groups; the process with its components; and the libraries    *)
(* behind them: the dispatcher, the refresher of a partition's lease, and  *)
(* the clients of NoSQL databases. A                                       *)
(* behaviour is one of a single part, chosen in the initial state, while   *)
(* the others rest: the states of the run are the sum of the parts' and    *)
(* not their product.                                                      *)
(***************************************************************************)
EXTENDS TransactionManager, TimeframeCache, BudgetKeyCache, FrontEnd, BudgetConsumption, HttpServer,
        OperationDispatcher, PartitionLease, NoSqlDatabase, ServerInstance, TLC

CONSTANTS r1, r2, r3, s1, c1, c2

VARIABLE part

serverVars == <<vars, cacheVars, keyVars, feVars, cbVars, hsAllVars>>
libraryVars == <<dispatcherVars, leaseVars, nsVars>>
serviceVars == <<part, serverVars, libraryVars, siVars>>

ServiceInit ==
    /\ part \in {"manager", "groups", "keys", "frontend", "consumption", "http", "authorization",
                 "dispatcher", "lease", "nosql", "process"}
    /\ Init /\ CacheInit /\ KeyInit /\ FeInit /\ CbInit /\ HsInit
    /\ part # "http" => hsProxy = HsAwsProxy
    /\ DispatcherInit /\ LeaseInit /\ NsInit
    /\ part # "nosql" => nsProvider = "AwsDynamoDB" /\ nsRow = NsAbsent
    /\ SiInit
    /\ part # "process" =>
         siServer.kind = "single" /\ siServer.platform = "gcp" /\ siServer.absent = {}
           /\ ~siServer.shared /\ ~siServer.embedded
    /\ siServer.kind = "v2" => siServer.absent # {"kAuthServiceEndpoint"}
    /\ siServer.kind # "multi" => siServer.absent # {"well_formed_ids"}

ServerNext ==
    \/ /\ part = "manager" /\ Next
       /\ UNCHANGED <<cacheVars, keyVars, feVars, cbVars, hsAllVars>>
    \/ /\ part = "groups" /\ CacheNext
       /\ UNCHANGED <<vars, keyVars, feVars, cbVars, hsAllVars>>
    \/ /\ part = "keys" /\ KeyNext
       /\ UNCHANGED <<vars, cacheVars, feVars, cbVars, hsAllVars>>
    \/ /\ part = "frontend" /\ FeNext
       /\ UNCHANGED <<vars, cacheVars, keyVars, cbVars, hsAllVars>>
    \/ /\ part = "consumption" /\ CbNext
       /\ UNCHANGED <<vars, cacheVars, keyVars, feVars, hsAllVars>>
    \/ /\ part = "http" /\ HsNext
       /\ UNCHANGED <<vars, cacheVars, keyVars, feVars, cbVars>>
    \/ /\ part = "authorization" /\ AzNext /\ UNCHANGED hsVars
       /\ UNCHANGED <<vars, cacheVars, keyVars, feVars, cbVars>>

LibraryNext ==
    \/ /\ part = "dispatcher" /\ DispatcherNext
       /\ UNCHANGED <<leaseVars, nsVars>>
    \/ /\ part = "lease" /\ LeaseNext
       /\ UNCHANGED <<dispatcherVars, nsVars>>
    \/ /\ part = "nosql" /\ NsNext
       /\ UNCHANGED <<dispatcherVars, leaseVars>>

ServiceNext ==
    \/ ServerNext /\ UNCHANGED <<part, libraryVars, siVars>>
    \/ LibraryNext /\ UNCHANGED <<part, serverVars, siVars>>
    \/ part = "process" /\ SiNext /\ UNCHANGED <<part, serverVars, libraryVars>>

ServiceSpec ==
    /\ ServiceInit /\ [][ServiceNext]_serviceVars
    /\ \A c \in Calls : WF_vars(part = "manager" /\ pc[c] # "new" /\ Call(c))
    /\ WF_vars(part = "manager" /\ StopEngine)
    /\ WF_feVars(part = "frontend" /\ FeCallback)
    /\ \A c \in CbClients : WF_cbVars(part = "consumption" /\ CbStep(c))
    /\ \A r \in HsRequests :
         /\ WF_hsAllVars(part = "http" /\ AzStep(r) /\ UNCHANGED hsVars)
         /\ WF_hsAllVars(part = "http" /\ HsStep(r))
    /\ WF_dispatcherVars(part = "dispatcher" /\ TimePasses)
    /\ WF_dispatcherVars(part = "dispatcher" /\ DispatcherStep)
    /\ WF_leaseVars(part = "lease" /\ RoundStep)
    /\ WF_leaseVars(part = "lease" /\ EnforceLiveness)
    /\ SF_leaseVars(part = "lease" /\ LeaseTick)
    /\ SF_leaseVars(part = "lease" /\ TaskStep)
    /\ \A c \in NsCalls : WF_nsVars(part = "nosql" /\ NsStep(c))

-----------------------------------------------------------------------------
(* Instances.                                                               *)

MCSites == [o \in 1..4 |-> IF o = 4 THEN 0 ELSE IF o = 3 THEN 3 ELSE 1]

MCHeader(id, secret, timestamp, origin) ==
    [id |-> id, secret |-> secret, timestamp |-> timestamp, origin |-> origin]
MCHeaders == {MCHeader(TRUE, TRUE, TRUE, 0), MCHeader(TRUE, TRUE, FALSE, 2),
              MCHeader(FALSE, TRUE, TRUE, 0)}

MCKey(key, day, hour) == [key |-> key, day |-> day, hour |-> hour, tokens |-> 1, form |-> "ok"]
MCBody(version, groups) == [v |-> version, data |-> groups]
MCGroup(origin, keys) == [origin |-> origin, keys |-> keys]

\* Bodies of both versions, with one budget twice, no budget, a time that is
\* malformed, an origin twice, and origins of another site or of none.
MCFeBodies ==
    {MCBody("1.0", <<MCGroup(0, keys)>>) :
        keys \in {<<MCKey(1, 2, 1), MCKey(1, 1, 2), MCKey(1, 1, 1)>>,
                  <<MCKey(1, 1, 1), MCKey(1, 1, 1)>>,
                  <<[MCKey(1, 1, 1) EXCEPT !.form = "time"]>>,
                  << >>}}
      \cup {MCBody("2.0", groups) :
              groups \in {<<MCGroup(1, <<MCKey(1, 1, 1)>>), MCGroup(2, <<MCKey(1, 1, 1)>>)>>,
                          <<MCGroup(1, <<MCKey(1, 1, 1)>>), MCGroup(1, <<MCKey(2, 1, 1)>>)>>,
                          <<MCGroup(3, <<MCKey(1, 1, 1)>>)>>,
                          <<MCGroup(4, <<MCKey(1, 1, 1)>>)>>}}
      \cup {MCBody("3.0", << >>)}

MCCbHeaders == {MCHeader(TRUE, TRUE, TRUE, 1), MCHeader(TRUE, TRUE, FALSE, 1)}
MCCbBodies ==
    {MCBody("1.0", <<MCGroup(0, keys)>>) :
        keys \in {<<MCKey(1, 1, 1), MCKey(1, 1, 2)>>,
                  <<MCKey(1, 1, 2), MCKey(2, 1, 1)>>,
                  <<[MCKey(1, 1, 1) EXCEPT !.tokens = 2]>>,
                  <<MCKey(3, 1, 1)>>}}
MCBadRows == {<<<<1, 3>>, 1>>}

MCGcp == [cloud |-> "gcp", class |-> "AuthorizationProxy"]
MCAws == [cloud |-> "aws", class |-> "AuthorizationProxy"]
MCAwsAuthorizer == [cloud |-> "aws", class |-> "AwsAuthorizer"]
MCProxies == {MCGcp, MCAws, MCAwsAuthorizer}
MCServerProxies == {MCGcp, MCAws}
MCShapes == {[method |-> "POST", length |-> "fits"], [method |-> "PUT", length |-> "none"]}
MCTokens == {[cloud |-> "aws", id |-> 1]}

MCTables == [jobs |-> [partition |-> "id", sort |-> ""]]
MCGet == [table |-> "jobs", partition |-> "id", sort |-> "", typed |-> TRUE, required |-> << >>]
MCUpsert == [new |-> << >>] @@ MCGet
MCUpserts ==
    {[MCUpsert EXCEPT !.new = [body |-> 1]],
     [MCUpsert EXCEPT !.required = [version |-> 0], !.new = [version |-> 1]],
     [MCUpsert EXCEPT !.required = [version |-> 1], !.new = [version |-> 2]],
     [MCUpsert EXCEPT !.typed = FALSE], [MCUpsert EXCEPT !.sort = "time"]}
MCGets ==
    {[MCGet EXCEPT !.required = [version |-> 1]], [MCGet EXCEPT !.typed = FALSE],
     [MCGet EXCEPT !.table = "keys"], [MCGet EXCEPT !.partition = "name"]}
MCCreates == {MCGet, [MCGet EXCEPT !.table = ""]}

\* Nothing is absent; or what the factory, the instance or the parser of
\* identifiers asks for.
MCSiConfigs == {{}, {"kAuthServiceEndpoint"}, {"kHttp2ServerPrivateKeyFilePath"}, {"well_formed_ids"}}

-----------------------------------------------------------------------------

\* The type invariants of the parts.
ServiceTypeOK == TypeOK /\ CacheTypeOK /\ KeyTypeOK /\ FeTypeOK /\ CbTypeOK /\ HsTypeOK

\* The type invariants of the libraries.
LibraryTypeOK == DispatcherTypeOK /\ LeaseTypeOK /\ NsTypeOK

\* One of the requests with a token that is not cached asks for it to be
\* authorized, a request to the server is answered once, although its body and
\* its authorization come back on two threads, and so is a call of a database,
\* also when it is made up of several and one of them fails. (The states of the
\* parts are well typed.)
RequestsEndOnce ==
    OneRequestPerEntry /\ AnsweredOnce /\ NsFinishedOnce /\ ServiceTypeOK /\ LibraryTypeOK

\* A process is whole, whatever order its calls, failures, leases and loads come
\* in.
ProcessIsWhole == part = "process" => InstanceIsWhole

\* No one works on a copy of a key or of a group that is not the one in the
\* cache.
CachesServeOneCopy == UpdatesFollowLoads /\ OneLiveKey

\* What a client is told of its budgets, by either front end: the indices are
\* those of budgets that failed, or that were exhausted.
IndicesAreTrue == IndicesNameFailedBudgets /\ CbIndicesAreExhausted

\* A request to either front end or to the HTTP server that was taken is
\* answered, as long as the engine, Spanner and the executors do their part, and
\* Stop of the transaction manager returns. What the libraries started ends:
\* dispatched operations, the refresher's rounds, the release of a lease, and
\* database calls.
RequestsAreAnswered ==
    /\ FeAnswered /\ CbAnswered /\ HsAnswered /\ StopReturns
    /\ []<>(OperationSettled /\ LeaseSettled /\ NsSettled)

=============================================================================
