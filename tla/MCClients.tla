------------------------------- MODULE MCClients -------------------------------
(***************************************************************************)
(* What the processes of the system do to the services of the cloud they   *)
(* share, side by side: the nodes that lease a lock through a row of a     *)
(* database, the instances of PBS that serve under such a lock, the        *)
(* workers that process jobs from a queue and a table, and the clients of  *)
(* blobs, keys, metrics and web servers, with the calls they make of each  *)
(* other. A behaviour is one of a single part, chosen in the initial       *)
(* state, while the others rest.                                           *)
(***************************************************************************)
EXTENDS GlobalLease, JobClient, BlobClient, ProviderCalls, KeyClients,
        MetricClient, CurlClient

CONSTANTS
    n1, n2, w1, w2,
    MaxPlainTime,   \* bound on time where the lock is used without a lease manager
    LateStart,      \* when n2 starts, and the row is disallowed
    MaxLateWrites   \* bound on the writes under way of the instances

VARIABLE part

clientsVars == <<part, globalVars, jcVars, bcVars, pcVars, pkVars, puVars, mcVars, cuVars>>

\* The parts that rest have one initial state each.
Resting ==
    /\ part # "jobs" => jcRow = NsAbsent
    /\ part # "blobs" => bcClient = "core aws" /\ bcPageSize = 0
    /\ part # "calls" => pcCloud = "aws" /\ pcFrames[1].op = "GetSessionToken"
    /\ part # "private keys" => pkMethod = "id"
    /\ part # "metrics" => mcCloud = "gcp" /\ mcBatch
    /\ part # "curl" => cuRequest = [path |-> TRUE, method |-> "GET", size |-> 0, headers |-> 0]

ClientsInit ==
    /\ part \in {"lock", "instances", "jobs", "blobs", "calls", "private keys", "public keys", "metrics",
                 "curl"}
    /\ GlobalInit /\ JcInit /\ BcInit /\ PcInit /\ PkInit /\ PuInit /\ McInit /\ CuInit
    /\ Resting

\* Bounds: n1 starts at first and n2 later, and with it the row is disallowed.
MCTimes ==
    /\ \A n \in Nodes : stage[n] = "down" /\ stage'[n] # "down" =>
         now = IF n = n1 THEN 1 ELSE LateStart
    /\ disallowed' # disallowed => now = LateStart
    /\ Cardinality(writes') <= MaxLateWrites

ClientsNext ==
    \/ /\ part = "lock" /\ LockNext
       /\ now' <= MaxPlainTime /\ (disallowed' # disallowed => now = 1)
       /\ UNCHANGED instanceVars
       /\ UNCHANGED <<part, jcVars, bcVars, pcVars, pkVars, puVars, mcVars, cuVars>>
    \/ /\ part = "instances" /\ GlobalNext /\ MCTimes
       /\ UNCHANGED <<part, jcVars, bcVars, pcVars, pkVars, puVars, mcVars, cuVars>>
    \/ /\ part = "jobs" /\ JcNext
       /\ UNCHANGED <<part, globalVars, bcVars, pcVars, pkVars, puVars, mcVars, cuVars>>
    \/ /\ part = "blobs" /\ BcNext
       /\ UNCHANGED <<part, globalVars, jcVars, pcVars, pkVars, puVars, mcVars, cuVars>>
    \/ /\ part = "calls" /\ PcNext
       /\ UNCHANGED <<part, globalVars, jcVars, bcVars, pkVars, puVars, mcVars, cuVars>>
    \/ /\ part = "private keys" /\ PkNext
       /\ UNCHANGED <<part, globalVars, jcVars, bcVars, pcVars, puVars, mcVars, cuVars>>
    \/ /\ part = "public keys" /\ PuNext
       /\ UNCHANGED <<part, globalVars, jcVars, bcVars, pcVars, pkVars, mcVars, cuVars>>
    \/ /\ part = "metrics" /\ McNext
       /\ UNCHANGED <<part, globalVars, jcVars, bcVars, pcVars, pkVars, puVars, cuVars>>
    \/ /\ part = "curl" /\ CuNext
       /\ UNCHANGED <<part, globalVars, jcVars, bcVars, pcVars, pkVars, puVars, mcVars>>

ClientsSpec == ClientsInit /\ [][ClientsNext]_clientsVars

-----------------------------------------------------------------------------
(* Instances.                                                               *)

\* n2's clock is ahead by the whole bound.
SkewedClocks == [n \in Nodes |-> IF n = n2 THEN MaxSkew ELSE 0]

MCSpared ==
    {<<"aws", "GetCurrentInstanceResourceName">>, <<"gcp", "GetTagsByResourceName">>,
     <<"gcp", "GetInstanceDetailsByResourceName">>, <<"gcp", "GetConfiguration">>}

MCEndpoints == [id |-> 1, age |-> 2]

MCMetricSizes == <<1, 1, 2>>
MCBadMetrics == [aws |-> SUBSET {1, 3}, gcp |-> {{}}]

-----------------------------------------------------------------------------

\* Every client answers a call that it took once, whatever fails, in whatever
\* order the callbacks come: a context is never finished twice, and once all
\* has come to rest it has been finished.
ContextsFinishOnce ==
    /\ BcFinishedOnce /\ PcFinishedOnce /\ PcAnswered
    /\ PkFinishedOnce /\ PuFinishedOnce /\ McAnsweredOnce /\ CuAnsweredOnce

\* An answer that is a success is a whole one: a listing of blobs has the blobs
\* that were there all the time, a list of keys has every key that all the
\* endpoints sent, and the body of a request or of a response has all its bytes.
AnswersAreWhole == ListingIsComplete /\ PkListIsComplete /\ BodyIsWhole

================================================================================
