------------------------------ MODULE HttpServer ------------------------------
(***************************************************************************)
(* Http2Server: a request is authorized while its body is still being      *)
(* received. Two callbacks, one on a thread of the executor and one on the *)
(* connection's, count down pending_callbacks, and the one that ends the   *)
(* count runs the handler; a failure is answered at once. A request for    *)
(* another server is forwarded when its body is complete. Answers are      *)
(* posted to the connection's thread, unless it has been closed. Metrics   *)
(* and TLS are left out.                                                   *)
(***************************************************************************)
EXTENDS AuthorizationCache, FiniteSets

CONSTANTS
    HsRequests,       \* the requests, each with its call of Authorize
    HsShapes,         \* the method and announced length that a request may have
    HsPaths,          \* the paths (with their method) that a request may have
    HsRouting,        \* whether requests are forwarded
    HsDnsRouting,     \* kHttpServerDnsRoutingEnabled, with an AWS proxy
    HsOtel,           \* kOtelServerMetricsEnabled
    HsOwnProxies,     \* the proxies that a server may be made with
    HsAwsProxy        \* the proxy for AWS tokens

VARIABLES
    hsRunning,        \* is_running_
    hsHandlers,       \* the paths with a handler
    hsProxy,          \* authorization_proxy_
    hsActive,         \* active_requests_
    hsReq,            \* each request and its Http2SynchronizationContext
    hsCallback        \* where its two calls of OnHttp2PendingCallback are

hsVars == <<hsRunning, hsHandlers, hsProxy, hsActive, hsReq, hsCallback>>
hsAllVars == <<azVars, hsVars>>

\* kind: what was decided of the request. body: what has come of its body.
\* handled, answers: the calls of its handler and of OnHttp2Response. waits:
\* the handler or the other server has still to answer. sent: what Send sent.
HsNewRequest ==
    [kind |-> "none", pending |-> 0, failed |-> FALSE, body |-> "open", authorized |-> FALSE,
     handled |-> 0, waits |-> FALSE, answers |-> 0, sent |-> 0, closed |-> FALSE]

HsTypeOK ==
    /\ AzTypeOK
    /\ hsRunning \in BOOLEAN /\ hsHandlers \subseteq HsPaths /\ hsProxy \in AzProxies
    /\ hsActive \subseteq HsRequests
    /\ hsReq \in [HsRequests ->
         [kind : {"none", "refused", "local", "routed"}, pending : -1..2, failed : BOOLEAN,
          body : {"open", "over", "end"}, authorized : BOOLEAN, handled : 0..1, waits : BOOLEAN,
          answers : 0..2, sent : 0..2, closed : BOOLEAN]]
    /\ hsCallback \in [HsRequests \X {"authorization", "body"} -> {"none", "count", "check"}]

HsInit ==
    /\ AzInit
    /\ hsRunning = FALSE
    /\ hsHandlers = {}
    /\ hsProxy \in HsOwnProxies
    /\ hsActive = {}
    /\ hsReq = [r \in HsRequests |-> HsNewRequest]
    /\ hsCallback = [k \in HsRequests \X {"authorization", "body"} |-> "none"]

\* Only before the server runs, and once for each path and method.
RegisterResourceHandler(path) ==
    /\ ~hsRunning /\ path \notin hsHandlers
    /\ hsHandlers' = hsHandlers \cup {path}
    /\ UNCHANGED <<azVars, hsRunning, hsProxy, hsActive, hsReq, hsCallback>>

HsRun ==
    /\ ~hsRunning
    /\ hsRunning' = TRUE
    /\ UNCHANGED <<azVars, hsHandlers, hsProxy, hsActive, hsReq, hsCallback>>

\* The threads of the connections end, and with them all the requests.
HsStop ==
    /\ hsRunning
    /\ hsRunning' = FALSE
    /\ hsReq' = [r \in HsRequests |-> IF hsReq[r].kind = "none" THEN hsReq[r]
                                  ELSE [hsReq[r] EXCEPT !.closed = TRUE]]
    /\ UNCHANGED <<azVars, hsHandlers, hsProxy, hsActive, hsCallback>>

-----------------------------------------------------------------------------

\* OnHttp2Response: posted to the connection's thread.
HsAnswer(q) == [q EXCEPT !.answers = @ + 1, !.waits = FALSE]

IsRequestForwardingEnabled == HsRouting

\* The token has a field that only an AWS token has.
UseAwsAuthorizationProxy(key) == key.cloud = HsAwsProxy.cloud

\* The proxy to use is a reference to the server's: choosing the other one
\* assigns to the server's.
HsProxyFor(key) ==
    IF HsDnsRouting /\ UseAwsAuthorizationProxy(key) THEN HsAwsProxy ELSE hsProxy

\* SetSyncContext, and the call of Authorize is dispatched.
HandleHttp2Request(r, key) ==
    /\ hsReq' = [hsReq EXCEPT ![r].kind = "local", ![r].pending = 2]
    /\ hsActive' = hsActive \cup {r}
    /\ hsProxy' = HsProxyFor(key)
    /\ AzDispatch(r, hsProxy', key)
    /\ UNCHANGED <<azCache, azLoaded>>

\* The method is known, and a POST announces a body that is not too long.
UnwrapNgHttp2Request(shape) ==
    \/ shape.method = "GET"
    \/ shape.method = "POST" /\ shape.length = "fits"

\* Answered before any callback for the connection is set.
HsRefused(r) ==
    /\ hsReq' = [hsReq EXCEPT ![r] = [HsAnswer(@) EXCEPT !.kind = "refused"]]
    /\ hsActive' = IF HsOtel THEN hsActive \cup {r} ELSE hsActive
    /\ UNCHANGED <<azVars, hsProxy>>

\* The resolver of routes may find none, this server, or another one.
RouteOrHandleHttp2Request(r, key) ==
    \/ HandleHttp2Request(r, key)
    \/ IsRequestForwardingEnabled /\ HsRefused(r)
    \/ /\ IsRequestForwardingEnabled
       /\ hsReq' = [hsReq EXCEPT ![r].kind = "routed"]
       /\ hsActive' = IF HsOtel THEN hsActive \cup {r} ELSE hsActive
       /\ UNCHANGED <<azVars, hsProxy>>

OnHttp2Request(r, shape, path, key) ==
    /\ hsRunning /\ hsReq[r].kind = "none"
    /\ IF UnwrapNgHttp2Request(shape) /\ path \in hsHandlers
       THEN RouteOrHandleHttp2Request(r, key)
       ELSE HsRefused(r)
    /\ UNCHANGED <<hsRunning, hsHandlers, hsCallback>>

\* OnHttp2PendingCallback, first part: a failure is answered once.
HsPendingCallback(r, k, q, ok) ==
    IF r \in hsActive
    THEN /\ hsReq' = [hsReq EXCEPT ![r] = IF ok \/ q.failed THEN q
                                          ELSE [HsAnswer(q) EXCEPT !.failed = TRUE]]
         /\ hsCallback' = [hsCallback EXCEPT ![r, k] = "count"]
    ELSE hsReq' = [hsReq EXCEPT ![r] = q] /\ UNCHANGED hsCallback

\* The second: pending_callbacks.fetch_sub(1).
HsCountDown(r, k) ==
    /\ hsCallback[r, k] = "count"
    /\ hsReq' = [hsReq EXCEPT ![r].pending = @ - 1]
    /\ hsCallback' = [hsCallback EXCEPT ![r, k] = IF hsReq[r].pending = 1 THEN "check" ELSE "none"]
    /\ UNCHANGED <<azVars, hsRunning, hsHandlers, hsProxy, hsActive>>

\* Mutant: the handler is called whatever the callbacks were told.
HandlerAlways(q) == TRUE

\* "If it is failed, the callback has been called before."
HsCallsHandler(q) == ~q.failed

\* The third: the handler is called, and answered for if it returns a failure.
HsCheck(r, k) ==
    /\ hsCallback[r, k] = "check"
    /\ hsCallback' = [hsCallback EXCEPT ![r, k] = "none"]
    /\ \/ ~HsCallsHandler(hsReq[r]) /\ UNCHANGED hsReq
       \/ /\ HsCallsHandler(hsReq[r])
          /\ \/ hsReq' = [hsReq EXCEPT ![r].handled = @ + 1, ![r].waits = TRUE]
             \/ hsReq' = [hsReq EXCEPT ![r] = [HsAnswer(@) EXCEPT !.handled = @ + 1]]
    /\ UNCHANGED <<azVars, hsRunning, hsHandlers, hsProxy, hsActive>>

HsOnAuthorizationCallback(r) ==
    LET ok == azCall[r].result = "Success" IN
    /\ azCall[r].pc = "finished"
    /\ HsPendingCallback(r, "authorization", [hsReq[r] EXCEPT !.authorized = ok], ok)
    /\ azCall' = [azCall EXCEPT ![r] = AzNoCall]
    /\ UNCHANGED <<azCache, azLoaded, hsRunning, hsHandlers, hsProxy, hsActive>>

\* OnRequestBodyDataChunkReceived calls back at the end of the body, which may
\* be short, and also for a chunk that does not fit, of which one is modelled.
HsBodyChunks(q) ==
    {[body |-> "end", ok |-> ok] : ok \in BOOLEAN}
        \cup (IF q.body = "open" THEN {[body |-> "over", ok |-> FALSE]} ELSE {})

HsReceiving(r) == ~hsReq[r].closed /\ hsReq[r].body # "end"

HsOnLocalBody(r) ==
    /\ hsReq[r].kind = "local" /\ HsReceiving(r) /\ hsCallback[r, "body"] = "none"
    /\ \E chunk \in HsBodyChunks(hsReq[r]) :
          HsPendingCallback(r, "body", [hsReq[r] EXCEPT !.body = chunk.body], chunk.ok)
    /\ UNCHANGED <<azVars, hsRunning, hsHandlers, hsProxy, hsActive>>

\* OnHttp2RequestDataObtainedRoutedRequest: a body that is not complete, or a
\* request that the router refuses, is answered.
HsOnRoutedBody(r) ==
    /\ hsReq[r].kind = "routed" /\ HsReceiving(r)
    /\ \E chunk \in HsBodyChunks(hsReq[r]) :
         LET q == [hsReq[r] EXCEPT !.body = chunk.body] IN
         \/ hsReq' = [hsReq EXCEPT ![r] = HsAnswer(q)]
         \/ chunk.ok /\ hsReq' = [hsReq EXCEPT ![r] = [q EXCEPT !.waits = TRUE]]
    /\ UNCHANGED <<azVars, hsRunning, hsHandlers, hsProxy, hsActive, hsCallback>>

\* OnRoutingResponseReceived, or the callback of the handler.
HsOnAnswer(r) ==
    /\ hsReq[r].waits
    /\ hsReq' = [hsReq EXCEPT ![r] = HsAnswer(@)]
    /\ UNCHANGED <<azVars, hsRunning, hsHandlers, hsProxy, hsActive, hsCallback>>

\* The connection's thread runs Send, which does nothing on a closed one.
HsSend(r) ==
    /\ hsReq[r].sent < hsReq[r].answers /\ ~hsReq[r].closed
    /\ hsReq' = [hsReq EXCEPT ![r].sent = @ + 1]
    /\ UNCHANGED <<azVars, hsRunning, hsHandlers, hsProxy, hsActive, hsCallback>>

\* OnClose: OnHttp2Cleanup for a request that is handled here; the one of a
\* routed request erases nothing, and a refused request has none. It comes on
\* the connection's thread, when no chunk is being handled.
HsOnClose(r) ==
    /\ hsRunning /\ hsReq[r].kind # "none" /\ ~hsReq[r].closed
    /\ hsCallback[r, "body"] = "none"
    /\ hsReq' = [hsReq EXCEPT ![r].closed = TRUE]
    /\ hsActive' = IF hsReq[r].kind = "local" THEN hsActive \ {r} ELSE hsActive
    /\ UNCHANGED <<azVars, hsRunning, hsHandlers, hsProxy, hsCallback>>

HsStep(r) ==
    \/ HsOnAuthorizationCallback(r)
    \/ \E k \in {"authorization", "body"} : HsCountDown(r, k) \/ HsCheck(r, k)
    \/ HsOnAnswer(r)
    \/ HsSend(r)

HsNext ==
    \/ \E path \in HsPaths : RegisterResourceHandler(path)
    \/ HsRun
    \/ HsStop
    \/ \E r \in HsRequests :
         \/ \E shape \in HsShapes, path \in HsPaths, key \in AzKeys :
              OnHttp2Request(r, shape, path, key)
         \/ AzStep(r) /\ UNCHANGED hsVars
         \/ HsOnLocalBody(r) \/ HsOnRoutedBody(r)
         \/ HsStep(r)
         \/ HsOnClose(r)
    \/ \E e \in AzProxies \X AzKeys : AzCollect(e) /\ UNCHANGED hsVars

HsSpec ==
    /\ HsInit /\ [][HsNext]_hsAllVars
    /\ \A r \in HsRequests :
         /\ WF_hsAllVars(AzStep(r) /\ UNCHANGED hsVars)
         /\ WF_hsAllVars(HsStep(r))

-----------------------------------------------------------------------------

\* However the two callbacks of a request that is handled here interleave, and
\* whether one or both fail, it is answered at most once, and its handler is
\* called at most once, and only if the request is authorized and its body
\* complete (http2_server.cc:712).
AnsweredOnce ==
    \A r \in HsRequests : hsReq[r].kind = "local" =>
       /\ hsReq[r].answers + (IF hsReq[r].waits THEN 1 ELSE 0) <= 1
       /\ hsReq[r].handled > 0 => hsReq[r].authorized /\ hsReq[r].body = "end"

\* A request that is handled or routed is answered once its body has come,
\* unless its connection is closed.
HsAnswered ==
    \A r \in HsRequests :
       (hsReq[r].kind \in {"local", "routed"} /\ hsReq[r].body = "end")
          ~> (hsReq[r].sent > 0 \/ hsReq[r].closed)

\* A request whose token is not one of AWS is not given to the proxy for AWS
\* tokens, and one whose token is, is (http2_server.cc:106).
ProxyMatchesToken ==
    \A c \in HsRequests : azCall[c].pc # "none" =>
       (azCall[c].proxy = HsAwsProxy <=> UseAwsAuthorizationProxy(azCall[c].key))

=============================================================================
