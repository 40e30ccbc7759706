-------------------------- MODULE AuthorizationCache --------------------------
(***************************************************************************)
(* AuthorizationProxy and AwsAuthorizer: a caller's identity and token are *)
(* sent to the remote authorization service once, and the domain that it   *)
(* answers with is kept in an expiring map. The entry is in the map,       *)
(* without a domain, while the request is under way, and calls for it are  *)
(* told to retry. These maps do not extend the life of an entry when it is *)
(* used, and collect it in one step.                                       *)
(*                                                                         *)
(* A key is the identity with the token, and the cloud whose tokens have   *)
(* its form: the interceptor of a proxy makes a request only of those.     *)
(***************************************************************************)
EXTENDS Integers, ExpiringMap

CONSTANTS
    AzCalls,      \* the calls of Authorize
    AzKeys,       \* the keys: records with a cloud
    AzProxies,    \* the proxies: records with a cloud and their class
    AzMaxTries    \* bound: attempts the operation dispatcher makes

VARIABLES
    azCache,      \* the entry of each key in each proxy
    azLoaded,     \* whether the entry holds a domain
    azCall        \* the state of each call

azVars == <<azCache, azLoaded, azCall>>

AzNoCall == [pc |-> "none", proxy |-> CHOOSE p \in AzProxies : TRUE,
             key |-> CHOOSE k \in AzKeys : TRUE, tries |-> 0, result |-> "none"]

AzTypeOK ==
    /\ azCache \in [AzProxies \X AzKeys -> EntryType]
    /\ azLoaded \in [AzProxies \X AzKeys -> BOOLEAN]
    /\ azCall \in [AzCalls -> [pc : {"none", "dispatch", "http", "finished"}, proxy : AzProxies,
                               key : AzKeys, tries : 0..AzMaxTries,
                               result : {"none", "Success", "Failure"}]]

AzInit ==
    /\ azCache = [e \in AzProxies \X AzKeys |-> NoEntry]
    /\ azLoaded = [e \in AzProxies \X AzKeys |-> FALSE]
    /\ azCall = [c \in AzCalls |-> AzNoCall]

\* A call is given to the operation dispatcher.
AzDispatch(c, proxy, key) ==
    azCall' = [azCall EXCEPT ![c] = [AzNoCall EXCEPT !.pc = "dispatch", !.proxy = proxy, !.key = key]]

AzFinish(c, result) == azCall' = [azCall EXCEPT ![c].pc = "finished", ![c].result = result]

\* A result that the dispatcher tries again, until it has no attempts left.
AzRetry(c) ==
    \/ /\ azCall[c].tries < AzMaxTries
       /\ azCall' = [azCall EXCEPT ![c].tries = @ + 1]
    \/ azCall[c].tries = AzMaxTries /\ AzFinish(c, "Failure")

AzEntry(c) == <<azCall[c].proxy, azCall[c].key>>

AzErase(c) == azCache' = [azCache EXCEPT ![AzEntry(c)] = NoEntry]

\* The interceptors: the token has the parts that a token of their cloud has.
GcpPrepareRequest(key) == key.cloud = "gcp"

AwsPrepareRequest(key) == key.cloud = "aws"

PrepareRequest(proxy, key) ==
    IF proxy.cloud = "aws" THEN AwsPrepareRequest(key) ELSE GcpPrepareRequest(key)

AzDisableEviction(e) == [e EXCEPT !.is_evictable = FALSE]

AzEnableEviction(e) == [e EXCEPT !.is_evictable = TRUE]

\* Authorize: the entry is there, or it is made and the request sent. A new
\* entry does not expire before its eviction is disabled.
AzAuthorize(c) ==
    LET e == AzEntry(c) IN
    /\ azCall[c].pc = "dispatch"
    /\ \/ /\ azCache[e].present /\ azLoaded[e] /\ AzFinish(c, "Success")
          /\ UNCHANGED <<azCache, azLoaded>>
       \/ /\ azCache[e].present /\ ~azLoaded[e] /\ AzRetry(c)
          /\ UNCHANGED <<azCache, azLoaded>>
       \/ /\ ~azCache[e].present
          /\ PrepareRequest(azCall[c].proxy, azCall[c].key)
          /\ azCache' = [azCache EXCEPT ![e] = AzDisableEviction(NewEntry)]
          /\ azLoaded' = [azLoaded EXCEPT ![e] = FALSE]
          /\ azCall' = [azCall EXCEPT ![c].pc = "http"]

\* No request can be made of the token, or the http client refuses it: the
\* entry is erased again.
AzNotSent(c) ==
    /\ azCall[c].pc = "dispatch" /\ azCall[c].proxy.class = "AuthorizationProxy"
    /\ ~azCache[AzEntry(c)].present
    /\ \/ ~PrepareRequest(azCall[c].proxy, azCall[c].key) /\ AzFinish(c, "Failure")
       \/ PrepareRequest(azCall[c].proxy, azCall[c].key) /\ AzRetry(c)
    /\ UNCHANGED <<azCache, azLoaded>>

\* AwsAuthorizer checks the token before it inserts the entry. The entry is
\* erased when the http client refuses the request, which is not tried again,
\* and stays when the request cannot be signed.
AwsNotSent(c) ==
    LET e == AzEntry(c) IN
    /\ azCall[c].pc = "dispatch" /\ azCall[c].proxy.class = "AwsAuthorizer"
    /\ ~azCache[e].present
    /\ AzFinish(c, "Failure")
    /\ azLoaded' = [azLoaded EXCEPT ![e] = FALSE]
    /\ \/ UNCHANGED azCache
       \/ /\ PrepareRequest(azCall[c].proxy, azCall[c].key)
          /\ azCache' = [azCache EXCEPT ![e] = AzDisableEviction(NewEntry)]

\* The answer has a domain for the entry, if that is still in the map.
AzLoad(c) ==
    LET e == AzEntry(c) IN
    /\ azCache' = [azCache EXCEPT ![e] = IF @.present THEN AzEnableEviction(@) ELSE @]
    /\ azLoaded' = [azLoaded EXCEPT ![e] = azCache[e].present]
    /\ AzFinish(c, "Success")

AzHandleAuthorizeResponse(c) ==
    /\ azCall[c].pc = "http" /\ azCall[c].proxy.class = "AuthorizationProxy"
    /\ \/ AzErase(c) /\ AzFinish(c, "Failure") /\ UNCHANGED azLoaded
       \/ AzLoad(c)

\* An answer that cannot be parsed leaves the entry as it is.
AwsHandleHttpResponse(c) ==
    /\ azCall[c].pc = "http" /\ azCall[c].proxy.class = "AwsAuthorizer"
    /\ \/ AzErase(c) /\ AzFinish(c, "Failure") /\ UNCHANGED azLoaded
       \/ AzFinish(c, "Failure") /\ UNCHANGED <<azCache, azLoaded>>
       \/ AzLoad(c)

\* The garbage collector erases what has expired. The two callbacks before it
\* does agree at once.
AzCollect(e) ==
    /\ \/ azCache' = [azCache EXCEPT ![e] = IF @.present THEN EntryExpires(@) ELSE @]
       \/ Collects(azCache[e]) /\ azCache' = [azCache EXCEPT ![e] = NoEntry]
    /\ UNCHANGED <<azLoaded, azCall>>

AzStep(c) ==
    \/ AzAuthorize(c) \/ AzNotSent(c) \/ AzHandleAuthorizeResponse(c)
    \/ AwsNotSent(c) \/ AwsHandleHttpResponse(c)

\* A caller of any proxy.
AzCall(c) ==
    /\ azCall[c].pc = "none"
    /\ \E p \in AzProxies, k \in AzKeys : AzDispatch(c, p, k)
    /\ UNCHANGED <<azCache, azLoaded>>

\* Its callback has been called.
AzReturn(c) ==
    /\ azCall[c].pc = "finished"
    /\ azCall' = [azCall EXCEPT ![c] = AzNoCall]
    /\ UNCHANGED <<azCache, azLoaded>>

AzNext ==
    \/ \E c \in AzCalls : AzCall(c) \/ AzStep(c) \/ AzReturn(c)
    \/ \E e \in AzProxies \X AzKeys : AzCollect(e)

-----------------------------------------------------------------------------

\* While a request for a key is under way its entry stays in the map, without a
\* domain: the handler of the answer always finds it, on which the proxy relies
\* (authorization_proxy.cc:199 goes on to use the entry it did not find), and no
\* second request is sent for the key. And an entry of a proxy without a domain
\* has such a request, so its callers are not told to retry for ever.
OneRequestPerEntry ==
    /\ \A c \in AzCalls : azCall[c].pc = "http" =>
         /\ azCache[AzEntry(c)].present /\ ~azLoaded[AzEntry(c)]
         /\ \A d \in AzCalls \ {c} : azCall[d].pc = "http" => AzEntry(d) # AzEntry(c)
    /\ \A e \in AzProxies \X AzKeys :
         (e[1].class = "AuthorizationProxy" /\ azCache[e].present /\ ~azLoaded[e])
            => \E c \in AzCalls : azCall[c].pc = "http" /\ AzEntry(c) = e

=============================================================================
