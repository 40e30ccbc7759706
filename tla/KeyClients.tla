------------------------------ MODULE KeyClients ------------------------------
(***************************************************************************)
(* PrivateKeyClientProvider::ListPrivateKeys. A private key is split over  *)
(* endpoints. The call asks every endpoint, for each key id or once for    *)
(* the keys of a maximal age; each split that comes back is decrypted, and *)
(* a key is put together when the last of its splits is there. The         *)
(* callbacks run on any thread and share the counters of the call; the one *)
(* that finds itself the last finishes the context. A step of the model is *)
(* one access to what is shared.                                           *)
(***************************************************************************)
EXTENDS Naturals, FiniteSets, Sequences

CONSTANTS
    PkEndpointCounts, \* endpoint_count_, for each listing method
    PkKeys,           \* the number of keys that there are
    PkMethods,        \* the listing methods to consider: "id", "age"
    PkLists,          \* the sets of keys that the endpoints may list
    PkDiffer,         \* whether one endpoint may list other keys than another
    PkTornMap         \* whether two threads that write private_key_id_map at
                      \* once may lose a key

VARIABLES
    pkMethod, pkList, \* listing_method, and what each fetch will list
    pkNext,           \* the next fetch that ListPrivateKeys makes
    pkReturned,       \* what it returned
    pkFetch,          \* each fetch and the thread of its callback
    pkSplit,          \* each split and the thread of its callback
    pkShared,         \* ListPrivateKeysStatus
    pkPlain,          \* finished_counter_key_id_map of each batch of endpoints
    pkMap,            \* private_key_id_map
    pkFinishes        \* the results that the context was finished with

pkVars == <<pkMethod, pkList, pkNext, pkReturned, pkFetch, pkSplit, pkShared, pkPlain, pkMap,
            pkFinishes>>

PkEndpoints == PkEndpointCounts[pkMethod]

\* A fetch is a number: the calls of a key id are made together.
PkCalls == IF pkMethod = "id" THEN PkKeys ELSE 1
PkFetches == 1..(PkKeys * PkEndpoints)
Batch(f) == ((f - 1) \div PkEndpoints) + 1
PkSplits == PkFetches \X (1..PkKeys)

PkInit ==
    /\ pkMethod \in PkMethods
    /\ \/ pkMethod = "id" /\ pkList = [f \in PkFetches |-> {Batch(f)}]
       \/ /\ pkMethod = "age"
          /\ pkList \in [PkFetches -> PkLists]
          /\ ~PkDiffer => \A f, g \in PkFetches : pkList[f] = pkList[g]
          /\ \A f \in PkFetches : f > PkEndpoints => pkList[f] = pkList[1]
    /\ pkNext = 1 /\ pkReturned = "no"
    /\ pkFetch = [f \in PkFetches |-> "none"]
    /\ pkSplit = [s \in PkSplits |-> [at |-> "none", prev |-> 0]]
    /\ pkShared = [got_failure |-> FALSE, got_empty |-> FALSE, expected |-> PkKeys,
                   splits |-> 0, finished |-> 0, fetched |-> 0]
    /\ pkPlain = [b \in 1..PkKeys |-> [k \in 1..PkKeys |-> 0]]
    /\ pkMap = {} /\ pkFinishes = << >>

Finished(result) == [result |-> result, keys |-> pkMap]

\* got_failure.compare_exchange_strong, and Finish for the one who set it.
PkFail ==
    /\ pkShared' = [pkShared EXCEPT !.got_failure = TRUE]
    /\ pkFinishes' = IF pkShared.got_failure THEN pkFinishes ELSE Append(pkFinishes, Finished("failure"))

-----------------------------------------------------------------------------
\* FetchPrivateKey is accepted, or refused and then no more are made.
ListPrivateKeys ==
    /\ pkReturned = "no"
    /\ IF pkNext > PkCalls * PkEndpoints
       THEN pkReturned' = "success" /\ UNCHANGED <<pkNext, pkFetch, pkShared, pkFinishes>>
       ELSE \/ /\ pkFetch' = [pkFetch EXCEPT ![pkNext] = "sent"]
               /\ pkNext' = pkNext + 1 /\ UNCHANGED <<pkReturned, pkShared, pkFinishes>>
            \/ PkFail /\ pkReturned' = "failure" /\ UNCHANGED <<pkNext, pkFetch>>
    /\ UNCHANGED <<pkMethod, pkList, pkSplit, pkPlain, pkMap>>

PkFetchTo(f, at) == pkFetch' = [pkFetch EXCEPT ![f] = at]

\* Mutant: the callback of a fetch does not look whether another has failed.
IgnoresFailureAndEmpty(f) ==
    /\ pkFetch[f] = "sent"
    /\ PkFetchTo(f, "entered")
    /\ UNCHANGED <<pkMethod, pkList, pkNext, pkReturned, pkSplit, pkShared, pkPlain, pkMap, pkFinishes>>

OnFetchPrivateKeyCallback(f) ==
    /\ pkFetch[f] = "sent"
    /\ PkFetchTo(f, IF pkShared.got_failure \/ pkShared.got_empty THEN "done" ELSE "entered")
    /\ UNCHANGED <<pkMethod, pkList, pkNext, pkReturned, pkSplit, pkShared, pkPlain, pkMap,
                   pkFinishes>>

\* The fetch failed; or its splits are counted.
CountSplits(f) ==
    /\ pkFetch[f] = "entered"
    /\ \/ PkFail /\ PkFetchTo(f, "done")
       \/ /\ pkShared' = [pkShared EXCEPT
                !.expected = IF pkMethod = "age" THEN Cardinality(pkList[f]) ELSE @,
                !.splits = @ + Cardinality(pkList[f])]
          /\ PkFetchTo(f, "counted") /\ UNCHANGED pkFinishes
    /\ UNCHANGED <<pkMethod, pkList, pkNext, pkReturned, pkSplit, pkPlain, pkMap>>

\* fetching_call_returned_count
CountFetch(f) ==
    /\ pkFetch[f] = "counted"
    /\ pkShared' = [pkShared EXCEPT !.fetched = @ + 1] /\ PkFetchTo(f, "fetched")
    /\ UNCHANGED <<pkMethod, pkList, pkNext, pkReturned, pkSplit, pkPlain, pkMap, pkFinishes>>

\* An empty list is the answer.
ReturnEmptyList(f) ==
    /\ pkFetch[f] = "fetched"
    /\ IF pkShared.expected # 0
       THEN PkFetchTo(f, "loop") /\ UNCHANGED <<pkShared, pkFinishes>>
       ELSE /\ PkFetchTo(f, "done")
            /\ pkShared' = [pkShared EXCEPT !.got_empty = TRUE]
            /\ pkFinishes' = IF pkShared.got_empty THEN pkFinishes ELSE Append(pkFinishes, Finished("empty"))
    /\ UNCHANGED <<pkMethod, pkList, pkNext, pkReturned, pkSplit, pkPlain, pkMap>>

\* The next key of the list: its data are wrong, or the decryption is refused;
\* or its split goes to the key management service.
DecryptNext(f) ==
    LET left == {k \in pkList[f] : pkSplit[<<f, k>>].at = "none"} IN
    /\ pkFetch[f] = "loop"
    /\ IF left = {} THEN PkFetchTo(f, "done") /\ UNCHANGED <<pkShared, pkFinishes, pkSplit>>
       ELSE LET k == CHOOSE k \in left : \A j \in left : k <= j IN
            \/ PkFail /\ PkFetchTo(f, "done") /\ UNCHANGED pkSplit
            \/ /\ pkSplit' = [pkSplit EXCEPT ![<<f, k>>].at = "sent"]
               /\ UNCHANGED <<pkShared, pkFinishes, pkFetch>>
    /\ UNCHANGED <<pkMethod, pkList, pkNext, pkReturned, pkPlain, pkMap>>

-----------------------------------------------------------------------------
PkSplitTo(s, at) == pkSplit' = [pkSplit EXCEPT ![s] = [at |-> at, prev |-> 0]]

OnDecrpytCallback(s) ==
    /\ pkSplit[s].at = "sent"
    /\ \/ pkShared.got_failure /\ PkSplitTo(s, "done") /\ UNCHANGED <<pkShared, pkFinishes>>
       \/ ~pkShared.got_failure /\ PkFail /\ PkSplitTo(s, "done")
       \/ ~pkShared.got_failure /\ PkSplitTo(s, "entered") /\ UNCHANGED <<pkShared, pkFinishes>>
    /\ UNCHANGED <<pkMethod, pkList, pkNext, pkReturned, pkFetch, pkPlain, pkMap>>

\* Under map_mutex; the last split of a key then puts it together.
StorePlaintext(s) ==
    LET b == Batch(s[1])  k == s[2] IN
    /\ pkSplit[s].at = "entered"
    /\ pkPlain' = [pkPlain EXCEPT ![b][k] = @ + 1]
    /\ PkSplitTo(s, IF pkPlain[b][k] = PkEndpoints - 1 THEN "last" ELSE "stored")
    /\ UNCHANGED <<pkMethod, pkList, pkNext, pkReturned, pkFetch, pkShared, pkMap, pkFinishes>>

\* GetPrivateKeyInfo, ReconstructXorKeysetHandle and Base64Encode may fail.
ReconstructKey(s) ==
    /\ pkSplit[s].at = "last"
    /\ \/ PkFail /\ PkSplitTo(s, "done")
       \/ PkSplitTo(s, "writing") /\ UNCHANGED <<pkShared, pkFinishes>>
    /\ UNCHANGED <<pkMethod, pkList, pkNext, pkReturned, pkFetch, pkPlain, pkMap>>

\* private_key_id_map has no lock of its own.
WriteKey(s) ==
    /\ pkSplit[s].at = "writing"
    /\ \E lost \in IF PkTornMap /\ \E t \in PkSplits \ {s} : pkSplit[t].at = "writing"
                   THEN BOOLEAN ELSE {FALSE} :
          pkMap' = IF lost THEN pkMap ELSE pkMap \cup {s[2]}
    /\ PkSplitTo(s, "stored")
    /\ UNCHANGED <<pkMethod, pkList, pkNext, pkReturned, pkFetch, pkShared, pkPlain, pkFinishes>>

\* finished_key_split_count
CountFinishedSplit(s) ==
    /\ pkSplit[s].at = "stored"
    /\ pkSplit' = [pkSplit EXCEPT ![s] = [at |-> "counted", prev |-> pkShared.finished]]
    /\ pkShared' = [pkShared EXCEPT !.finished = @ + 1]
    /\ UNCHANGED <<pkMethod, pkList, pkNext, pkReturned, pkFetch, pkPlain, pkMap, pkFinishes>>

\* Mutant: the last split is told by its count alone.
FinishOnLastOfFetched(s) ==
    /\ pkSplit[s].at = "counted" /\ PkSplitTo(s, "done")
    /\ pkFinishes' = IF pkSplit[s].prev = pkShared.splits - 1
                     THEN Append(pkFinishes, Finished("success")) ELSE pkFinishes
    /\ UNCHANGED <<pkMethod, pkList, pkNext, pkReturned, pkFetch, pkShared, pkPlain, pkMap>>

FinishOnLastSplit(s) ==
    /\ pkSplit[s].at = "counted" /\ PkSplitTo(s, "done")
    /\ pkFinishes' = IF /\ pkShared.fetched = PkCalls * PkEndpoints
                        /\ pkSplit[s].prev = pkShared.splits - 1
                     THEN Append(pkFinishes, Finished("success")) ELSE pkFinishes
    /\ UNCHANGED <<pkMethod, pkList, pkNext, pkReturned, pkFetch, pkShared, pkPlain, pkMap>>

PkNext ==
    \/ ListPrivateKeys
    \/ \E f \in PkFetches :
          \/ OnFetchPrivateKeyCallback(f) \/ CountSplits(f) \/ CountFetch(f)
          \/ ReturnEmptyList(f) \/ DecryptNext(f)
    \/ \E s \in PkSplits :
          \/ OnDecrpytCallback(s) \/ StorePlaintext(s) \/ ReconstructKey(s) \/ WriteKey(s)
          \/ CountFinishedSplit(s) \/ FinishOnLastSplit(s)

PkSpec == PkInit /\ [][PkNext]_pkVars

-----------------------------------------------------------------------------
(* Properties.                                                              *)

PkAtRest ==
    /\ pkReturned # "no"
    /\ \A f \in PkFetches : pkFetch[f] \in {"none", "done"}
    /\ \A s \in PkSplits : pkSplit[s].at \in {"none", "done"}

PkTypeOK ==
    /\ pkReturned \in {"no", "success", "failure"}
    /\ pkShared.fetched \in 0..(PkCalls * PkEndpoints)
    /\ pkShared.finished \in 0..pkShared.splits
    /\ pkMap \subseteq 1..PkKeys

\* The context of ListPrivateKeys is finished once: never twice, whatever the
\* endpoints answer and in whatever order, and always when all has come to rest.
PkFinishedOnce == Len(pkFinishes) <= 1 /\ (PkAtRest => Len(pkFinishes) = 1)

\* A list of keys that is returned has every key of which all endpoints sent
\* their splits.
PkListIsComplete ==
    \A i \in DOMAIN pkFinishes :
       pkFinishes[i].result = "success" =>
          \A f \in 1..(PkCalls * PkEndpoints) : pkList[f] \subseteq pkFinishes[i].keys

-----------------------------------------------------------------------------
(***************************************************************************)
(* PublicKeyClientProvider::ListPublicKeys asks every endpoint for the     *)
(* public keys; the first good answer is the answer of the call, and the   *)
(* last of the bad ones is, if all are bad. What an answer holds is left   *)
(* out, apart from whether it can be parsed.                               *)
(***************************************************************************)
CONSTANTS
    PuEndpoints,      \* the number of endpoints
    PuRefusals        \* whether PerformRequest may refuse some of the requests
                      \* and take others

VARIABLES
    puNext,           \* the endpoint to ask next, or what was returned
    puRequest,        \* each request
    puSuccess,        \* got_success_result
    puUnfinished,     \* unfinished_counter
    puFinishes        \* how often the context was finished

puVars == <<puNext, puRequest, puSuccess, puUnfinished, puFinishes>>

PuInit ==
    /\ puNext = 1 /\ puRequest = [e \in 1..PuEndpoints |-> "none"]
    /\ puSuccess = FALSE /\ puUnfinished = PuEndpoints /\ puFinishes = 0

\* Requests go to the endpoints in turn. All refused is a failure of the call.
PerformRequests ==
    /\ puNext \in 1..PuEndpoints
    /\ \E refused \in IF PuRefusals \/ puNext = 1 \/ puRequest[1] = "refused"
                      THEN BOOLEAN ELSE {FALSE} :
          /\ ~PuRefusals /\ puNext > 1 /\ puRequest[1] = "refused" => refused
          /\ puRequest' = [puRequest EXCEPT ![puNext] = IF refused THEN "refused" ELSE "sent"]
    /\ puNext' = puNext + 1
    /\ UNCHANGED <<puSuccess, puUnfinished, puFinishes>>

ListPublicKeys ==
    /\ puNext = PuEndpoints + 1 /\ puNext' = puNext + 1
    /\ puFinishes' = puFinishes
          + (IF \A e \in 1..PuEndpoints : puRequest[e] = "refused" THEN 1 ELSE 0)
    /\ UNCHANGED <<puRequest, puSuccess, puUnfinished>>

PuTo(e, at) == puRequest' = [puRequest EXCEPT ![e] = at]

\* The callback of a request: too late; failed or unreadable; or good.
OnPerformRequestCallback(e) ==
    /\ puRequest[e] = "sent"
    /\ IF puSuccess THEN PuTo(e, "done") ELSE PuTo(e, "failed") \/ PuTo(e, "good")
    /\ UNCHANGED <<puNext, puSuccess, puUnfinished, puFinishes>>

ExecutionResultCheckingHelper(e) ==
    /\ puRequest[e] = "failed" /\ PuTo(e, "done")
    /\ puUnfinished' = puUnfinished - 1
    /\ puFinishes' = puFinishes + (IF puUnfinished = 1 THEN 1 ELSE 0)
    /\ UNCHANGED <<puNext, puSuccess>>

TakeKeys(e) ==
    /\ puRequest[e] = "good" /\ PuTo(e, "done")
    /\ puSuccess' = TRUE
    /\ puFinishes' = puFinishes + (IF puSuccess THEN 0 ELSE 1)
    /\ UNCHANGED <<puNext, puUnfinished>>

PuNext ==
    \/ PerformRequests \/ ListPublicKeys
    \/ \E e \in 1..PuEndpoints :
          OnPerformRequestCallback(e) \/ ExecutionResultCheckingHelper(e) \/ TakeKeys(e)

PuSpec == PuInit /\ [][PuNext]_puVars

-----------------------------------------------------------------------------
(* Properties.                                                              *)

PuAtRest ==
    /\ puNext = PuEndpoints + 2
    /\ \A e \in 1..PuEndpoints : puRequest[e] \in {"done", "refused"}

PuTypeOK ==
    /\ puNext \in 1..(PuEndpoints + 2) /\ puSuccess \in BOOLEAN
    /\ puUnfinished \in 0..PuEndpoints

\* The context is finished once, however the answers of the endpoints come in,
\* good, bad or not at all.
PuFinishedOnce == puFinishes <= 1 /\ (PuAtRest => puFinishes = 1)
================================================================================
