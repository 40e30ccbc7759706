------------------------------ MODULE HttpClient ------------------------------
(***************************************************************************)
(* HttpClient, its pool of connections to one host, and HttpConnection.    *)
(* Each connection has a thread that runs the handlers posted to its       *)
(* io_service one by one; calls are executed, and dropped connections      *)
(* recycled, by the threads of the callers. The network is external: a     *)
(* session connects or not, is dropped at any time, and its streams are    *)
(* answered, closed, or forgotten with it. The operation dispatcher makes  *)
(* a call again as long as it is told to retry. Headers, bodies and        *)
(* metrics are left out.                                                   *)
(*                                                                         *)
(* The pool is stopped when no thread is making or recycling connections:  *)
(* two threads would join the same worker. Init of a recycled connection,  *)
(* whose result is ignored, succeeds.                                      *)
(***************************************************************************)
EXTENDS Naturals, Sequences, FiniteSets

CONSTANTS
    HcCalls,      \* the calls of PerformRequest
    HcForms,      \* what a request may be like: "good", "uri", "method", "escape"
    HcWidth,      \* max_connections_per_host_
    HcTries       \* the attempts that the operation dispatcher makes of each

VARIABLES
    hcRunning,    \* is_running_ of the pool
    hcEntry,      \* the pool's entry of the host: none, starting, initialized
    hcCounter,    \* order_counter, modulo HcWidth
    hcLock,       \* connection_lock_: the call that recycles, or none
    hcConn,       \* the connections
    hcPending,    \* pending_network_calls_ of each
    hcStreams,    \* the streams of its session
    hcCall,       \* the calls
    hcFinished,   \* ghost: how often each attempt of a call was finished
    hcStop        \* the connection that Stop of the pool has come to

hcVars == <<hcRunning, hcEntry, hcCounter, hcLock, hcConn, hcPending, hcStreams, hcCall,
            hcFinished, hcStop>>

HcConns == 1..HcWidth
HcIds == UNION {{k} \X (1..HcTries[k]) : k \in HcCalls}     \* the request ids: a fresh one for each attempt
HcCodes == {"OK", "client error", "server error", "UNKNOWN"}
HcNobody == "nobody"

HcHandlers == ({"send"} \X HcIds) \cup {<<"created">>, <<"error">>, <<"shutdown">>, <<"stop">>}

HcTypeOK ==
    /\ hcRunning \in BOOLEAN
    /\ hcEntry \in {"none", "starting", "initialized"}
    /\ hcCounter \in 0..HcWidth - 1
    /\ hcLock \in HcCalls \cup {HcNobody}
    /\ \A c \in HcConns :
         /\ hcConn[c].ready \in BOOLEAN /\ hcConn[c].dropped \in BOOLEAN
         /\ hcConn[c].session \in {"none", "connecting", "up", "down"}
         /\ hcConn[c].worker \in BOOLEAN
         /\ \A i \in DOMAIN hcConn[c].io : hcConn[c].io[i] \in HcHandlers
         /\ hcPending[c] \subseteq HcIds
         /\ hcStreams[c] \subseteq HcIds \X HcCodes
    /\ \A k \in HcCalls :
         /\ hcCall[k].pc \in {"new", "get", "starting", "recycle", "joining", "joined",
                              "select", "execute", "checked", "out", "retry", "done"}
         /\ hcCall[k].conn \in HcConns /\ hcCall[k].try \in 1..HcTries[k]
         /\ hcCall[k].result \in {"none", "Success", "Failure", "Retry"}
         /\ hcCall[k].form \in HcForms
    /\ hcFinished \in [HcIds -> 0..2]
    /\ hcStop \in 0..HcWidth + 1

-----------------------------------------------------------------------------
(* Finishing a call.                                                        *)

\* The calls of the attempts in ids have come to an end, with the same result.
\* The dispatcher makes another attempt after a Retry.
DispatcherCallback(ids, result) ==
    [k \in HcCalls |->
        IF <<k, hcCall[k].try>> \notin ids THEN hcCall[k]
        ELSE IF result = "Retry" /\ hcCall[k].try < HcTries[k]
             THEN [hcCall[k] EXCEPT !.pc = "retry"]
             ELSE [hcCall[k] EXCEPT !.pc = "done", !.result = result]]

FinishContexts(ids, result) ==
    /\ hcCall' = DispatcherCallback(ids, result)
    /\ hcFinished' = [i \in HcIds |-> hcFinished[i] + IF i \in ids THEN 1 ELSE 0]

HcAttempt(k) == <<k, hcCall[k].try>>

\* PerformRequest's operation returns without having taken the request on.
HcRefuse(k, result) == FinishContexts({HcAttempt(k)}, result)

-----------------------------------------------------------------------------
(* HttpConnection.                                                          *)

NewConnection ==
    [ready |-> FALSE, dropped |-> FALSE, session |-> "none", worker |-> FALSE, io |-> << >>]

PostHandler(conn, handler) == [conn EXCEPT !.io = Append(@, handler)]

\* Init makes a new io_service, and a session unless it fails before.
ConnectionInit(conn, ok) ==
    [conn EXCEPT !.io = << >>, !.session = IF ok THEN "connecting" ELSE @]

ConnectionRun(conn) == [conn EXCEPT !.worker = TRUE]

\* Stop up to the join of the worker.
ConnectionStop(conn) ==
    LET shut == IF conn.session # "none" THEN PostHandler(conn, <<"shutdown">>) ELSE conn
    IN PostHandler([shut EXCEPT !.ready = FALSE], <<"stop">>)

\* Mutant: the calls that are cancelled stay in the map.
CancelAndKeep(c, dropped) ==
    /\ FinishContexts(hcPending[c], IF dropped THEN "Retry" ELSE "Failure")
    /\ UNCHANGED hcPending

CancelPendingCallbacks(c, dropped) ==
    /\ FinishContexts(hcPending[c], IF dropped THEN "Retry" ELSE "Failure")
    /\ hcPending' = [hcPending EXCEPT ![c] = {}]

ConnectionReset(conn) == [conn EXCEPT !.ready = FALSE, !.dropped = FALSE, !.session = "none"]

IsReady(c) == hcConn[c].ready
IsDropped(c) == hcConn[c].dropped

OnConnectionCreated(c) ==
    /\ hcConn' = [hcConn EXCEPT ![c].ready = TRUE, ![c].io = Tail(@)]
    /\ UNCHANGED <<hcPending, hcStreams, hcCall, hcFinished>>

OnConnectionError(c) ==
    /\ hcConn' = [hcConn EXCEPT ![c].ready = FALSE, ![c].dropped = TRUE, ![c].io = Tail(@)]
    /\ CancelPendingCallbacks(c, TRUE)
    /\ UNCHANGED hcStreams

\* An entry that is no longer pending has been finished.
EraseAndFinish(c, id, result) ==
    IF id \in hcPending[c]
    THEN /\ hcPending' = [hcPending EXCEPT ![c] = @ \ {id}]
         /\ FinishContexts({id}, result)
    ELSE UNCHANGED <<hcPending, hcCall, hcFinished>>

SendHttpRequest(c, id) ==
    LET form == hcCall[id[1]].form
        done == [hcConn EXCEPT ![c].io = Tail(@)]
    IN \/ /\ form \in {"method", "escape"}
          /\ EraseAndFinish(c, id, "Failure")
          /\ hcConn' = done /\ UNCHANGED hcStreams
       \/ /\ form = "good" /\ hcConn[c].session = "down"
          /\ EraseAndFinish(c, id, "Retry")
          /\ hcConn' = IF id \in hcPending[c] THEN [done EXCEPT ![c] = PostHandler(@, <<"error">>)]
                       ELSE done
          /\ UNCHANGED hcStreams
       \/ /\ form = "good" /\ hcConn[c].session \in {"connecting", "up"}
          /\ hcStreams' = [hcStreams EXCEPT ![c] = @ \cup {<<id, "UNKNOWN">>}]
          /\ hcConn' = done /\ UNCHANGED <<hcPending, hcCall, hcFinished>>

Shutdown(c) ==
    /\ hcConn' = [hcConn EXCEPT ![c].session = "down", ![c].io = Tail(@)]
    /\ hcStreams' = [hcStreams EXCEPT ![c] = {}]
    /\ UNCHANGED <<hcPending, hcCall, hcFinished>>

\* io_service_->stop(): the worker returns and what was posted after is not run.
IoStop(c) ==
    /\ hcConn' = [hcConn EXCEPT ![c].worker = FALSE, ![c].io = << >>]
    /\ UNCHANGED <<hcPending, hcStreams, hcCall, hcFinished>>

\* The worker runs the next handler.
HcWorker(c) ==
    /\ hcConn[c].worker /\ hcConn[c].io # << >>
    /\ LET handler == Head(hcConn[c].io)
       IN \/ handler[1] = "created" /\ OnConnectionCreated(c)
          \/ handler[1] = "error" /\ OnConnectionError(c)
          \/ handler[1] = "send" /\ SendHttpRequest(c, handler[2])
          \/ handler[1] = "shutdown" /\ Shutdown(c)
          \/ handler[1] = "stop" /\ IoStop(c)
    /\ UNCHANGED <<hcRunning, hcEntry, hcCounter, hcLock, hcStop>>

ConvertHttpStatusCodeToExecutionResult(code) ==
    CASE code = "OK" -> "Success"
      [] code = "client error" -> "Failure"
      [] code = "server error" -> "Retry"
      [] code = "UNKNOWN" -> "Unknown"

\* The result of a stream that was closed, in order or with an error.
CloseResult(code, error) ==
    LET result == ConvertHttpStatusCodeToExecutionResult(code)
    IN IF error /\ result \in {"Success", "Unknown"} THEN "Retry"
       ELSE IF result = "Unknown" THEN "Failure" ELSE result

OnResponseCallback(c, stream, code) ==
    /\ stream \in hcStreams[c] /\ stream[2] = "UNKNOWN"
    /\ hcStreams' = [hcStreams EXCEPT ![c] = (@ \ {stream}) \cup {<<stream[1], code>>}]
    /\ UNCHANGED <<hcConn, hcPending, hcCall, hcFinished>>

\* A stream ends in order once it was answered.
OnRequestResponseClosed(c, stream, error) ==
    /\ stream \in hcStreams[c] /\ (error \/ stream[2] # "UNKNOWN")
    /\ hcStreams' = [hcStreams EXCEPT ![c] = @ \ {stream}]
    /\ EraseAndFinish(c, stream[1], CloseResult(stream[2], error))
    /\ UNCHANGED hcConn

\* The network answers on the thread of the connection.
HcStream(c) ==
    /\ hcConn[c].worker /\ hcConn[c].session = "up"
    /\ \E stream \in hcStreams[c] :
         \/ \E code \in HcCodes \ {"UNKNOWN"} : OnResponseCallback(c, stream, code)
         \/ \E error \in BOOLEAN : OnRequestResponseClosed(c, stream, error)
    /\ UNCHANGED <<hcRunning, hcEntry, hcCounter, hcLock, hcStop>>

HcConnect(c) ==
    /\ hcConn[c].worker /\ hcConn[c].session = "connecting"
    /\ hcConn' = [hcConn EXCEPT ![c] = PostHandler([@ EXCEPT !.session = "up"], <<"created">>)]
    /\ UNCHANGED <<hcRunning, hcEntry, hcCounter, hcLock, hcPending, hcStreams, hcCall,
                   hcFinished, hcStop>>

\* The session fails, is dropped by the other side, or hears nothing for
\* http2_read_timeout_in_sec_.
HcDrop(c) ==
    /\ hcConn[c].worker /\ hcConn[c].session \in {"connecting", "up"}
    /\ hcConn' = [hcConn EXCEPT ![c] = PostHandler([@ EXCEPT !.session = "down"], <<"error">>)]
    /\ hcStreams' = [hcStreams EXCEPT ![c] = {}]
    /\ UNCHANGED <<hcRunning, hcEntry, hcCounter, hcLock, hcPending, hcCall, hcFinished,
                   hcStop>>

-----------------------------------------------------------------------------
(* HttpConnectionPool and HttpClient.                                       *)

HcGoTo(k, pc) == hcCall' = [hcCall EXCEPT ![k].pc = pc]

\* The next connection in turn; one that was dropped is recycled first.
PickConnection(k) ==
    LET c == hcCounter + 1
    IN /\ hcCounter' = (hcCounter + 1) % HcWidth
       /\ hcCall' = [hcCall EXCEPT ![k].conn = c,
                       ![k].pc = IF IsDropped(c) THEN "recycle" ELSE "execute"]

GetConnection(k) ==
    /\ hcCall[k].pc = "get"
    /\ \/ /\ ~hcRunning \/ hcCall[k].form = "uri"
          /\ HcRefuse(k, "Failure") /\ UNCHANGED <<hcEntry, hcCounter>>
       \/ /\ hcRunning /\ hcCall[k].form # "uri"
          /\ \/ /\ hcEntry = "none" /\ hcEntry' = "starting"
                /\ HcGoTo(k, "starting") /\ UNCHANGED <<hcCounter, hcFinished>>
             \/ /\ hcEntry = "starting"
                /\ HcRefuse(k, "Retry") /\ UNCHANGED <<hcEntry, hcCounter>>
             \/ /\ hcEntry = "initialized"
                /\ PickConnection(k) /\ UNCHANGED <<hcEntry, hcFinished>>
    /\ UNCHANGED <<hcRunning, hcLock, hcConn, hcPending, hcStreams, hcStop>>

\* The caller that has put in the entry makes its connections; when one fails
\* those before it are stopped and the entry goes.
CreateHttpConnections(k) ==
    /\ hcCall[k].pc = "starting"
    /\ \/ /\ hcConn' = [c \in HcConns |-> ConnectionRun(ConnectionInit(NewConnection, TRUE))]
          /\ hcEntry' = "initialized"
          /\ PickConnection(k) /\ UNCHANGED hcFinished
       \/ /\ hcEntry' = "none"
          /\ HcRefuse(k, "Failure") /\ UNCHANGED <<hcConn, hcCounter>>
    /\ UNCHANGED <<hcRunning, hcLock, hcPending, hcStreams, hcStop>>

\* RecycleConnection, up to the join in Stop.
RecycleConnection(k) ==
    LET c == hcCall[k].conn
    IN /\ hcCall[k].pc = "recycle" /\ hcLock = HcNobody
       /\ \/ /\ ~IsDropped(c)
             /\ HcGoTo(k, "select") /\ UNCHANGED <<hcLock, hcConn>>
          \/ /\ IsDropped(c) /\ hcLock' = k
             /\ hcConn' = [hcConn EXCEPT ![c] = ConnectionStop(@)]
             /\ HcGoTo(k, "joining")
       /\ UNCHANGED <<hcRunning, hcEntry, hcCounter, hcPending, hcStreams, hcFinished, hcStop>>

\* The worker is joined: the rest of Stop.
RecycleJoined(k) ==
    LET c == hcCall[k].conn
    IN /\ hcCall[k].pc = "joining" /\ ~hcConn[c].worker
       /\ hcCall' = [DispatcherCallback(hcPending[c], "Retry") EXCEPT ![k].pc = "joined"]
       /\ hcFinished' = [i \in HcIds |-> hcFinished[i] + IF i \in hcPending[c] THEN 1 ELSE 0]
       /\ hcPending' = [hcPending EXCEPT ![c] = {}]
       /\ UNCHANGED <<hcRunning, hcEntry, hcCounter, hcLock, hcConn, hcStreams, hcStop>>

\* Reset, Init and Run.
RecycleRestart(k) ==
    LET c == hcCall[k].conn
    IN /\ hcCall[k].pc = "joined" /\ hcLock' = HcNobody
       /\ hcConn' = [hcConn EXCEPT ![c] = ConnectionRun(ConnectionInit(ConnectionReset(@), TRUE))]
       /\ HcGoTo(k, "select")
       /\ UNCHANGED <<hcRunning, hcEntry, hcCounter, hcPending, hcStreams, hcFinished, hcStop>>

\* The connections from c on, in turn.
HcFrom(c) == [i \in HcConns |-> ((c + i - 2) % HcWidth) + 1]

\* A recycled connection is seldom ready: the next one that is takes its place.
SelectReady(k) ==
    LET order == HcFrom(hcCall[k].conn)
        ready == {i \in HcConns : IsReady(order[i])}
    IN /\ hcCall[k].pc = "select"
       /\ \/ /\ ready = {} /\ HcRefuse(k, "Retry")
          \/ \E i \in ready :
               /\ \A j \in ready : i <= j
               /\ hcCall' = [hcCall EXCEPT ![k].pc = "execute", ![k].conn = order[i]]
               /\ UNCHANGED hcFinished
       /\ UNCHANGED <<hcRunning, hcEntry, hcCounter, hcLock, hcConn, hcPending, hcStreams,
                      hcStop>>

\* Execute finds out whether the connection is ready ...
ExecuteCheck(k) ==
    /\ hcCall[k].pc = "execute"
    /\ \/ IsReady(hcCall[k].conn) /\ HcGoTo(k, "checked") /\ UNCHANGED hcFinished
       \/ ~IsReady(hcCall[k].conn) /\ HcRefuse(k, "Retry")
    /\ UNCHANGED <<hcRunning, hcEntry, hcCounter, hcLock, hcConn, hcPending, hcStreams, hcStop>>

\* ... and hands the request over. An io_service that has stopped keeps what is
\* posted to it, and runs none of it.
ExecutePost(k) ==
    LET c == hcCall[k].conn
    IN /\ hcCall[k].pc = "checked"
       /\ hcPending' = [hcPending EXCEPT ![c] = @ \cup {HcAttempt(k)}]
       /\ hcConn' = [hcConn EXCEPT ![c] = PostHandler(@, <<"send", HcAttempt(k)>>)]
       /\ HcGoTo(k, "out")
       /\ UNCHANGED <<hcRunning, hcEntry, hcCounter, hcLock, hcStreams, hcFinished, hcStop>>

PerformRequest(k) ==
    /\ hcCall[k].pc = "new"
    /\ HcGoTo(k, "get")
    /\ UNCHANGED <<hcRunning, hcEntry, hcCounter, hcLock, hcConn, hcPending, hcStreams,
                   hcFinished, hcStop>>

\* The dispatcher's pause is over.
PerformAgain(k) ==
    /\ hcCall[k].pc = "retry"
    /\ hcCall' = [hcCall EXCEPT ![k].pc = "get", ![k].try = @ + 1]
    /\ UNCHANGED <<hcRunning, hcEntry, hcCounter, hcLock, hcConn, hcPending, hcStreams,
                   hcFinished, hcStop>>

\* Stop of the pool, one connection after the other.
PoolStop ==
    /\ \A k \in HcCalls : hcCall[k].pc \notin {"starting", "recycle", "joining", "joined"}
    /\ hcStop = 0 /\ hcRunning
    /\ hcRunning' = FALSE
    /\ \/ /\ hcEntry = "initialized" /\ hcStop' = 1
          /\ hcConn' = [hcConn EXCEPT ![1] = ConnectionStop(@)]
       \/ hcEntry = "none" /\ hcStop' = HcWidth + 1 /\ UNCHANGED hcConn
    /\ UNCHANGED <<hcEntry, hcCounter, hcLock, hcPending, hcStreams, hcCall, hcFinished>>

PoolStopJoined ==
    /\ hcStop \in HcConns /\ ~hcConn[hcStop].worker
    /\ CancelPendingCallbacks(hcStop, IsDropped(hcStop))
    /\ hcStop' = hcStop + 1
    /\ hcConn' = [c \in HcConns |-> IF c = hcStop + 1 THEN ConnectionStop(hcConn[c]) ELSE hcConn[c]]
    /\ UNCHANGED <<hcRunning, hcEntry, hcCounter, hcLock, hcStreams>>

-----------------------------------------------------------------------------

HcInit ==
    /\ hcRunning = TRUE /\ hcEntry = "none" /\ hcCounter = 0 /\ hcLock = HcNobody
    /\ hcConn = [c \in HcConns |-> NewConnection]
    /\ hcPending = [c \in HcConns |-> {}] /\ hcStreams = [c \in HcConns |-> {}]
    /\ \E form \in [HcCalls -> HcForms] :
         hcCall = [k \in HcCalls |-> [pc |-> "new", conn |-> 1, try |-> 1, result |-> "none",
                                      form |-> form[k]]]
    /\ hcFinished = [i \in HcIds |-> 0]
    /\ hcStop = 0

\* What a thread that has called PerformRequest does.
HcCaller(k) ==
    \/ GetConnection(k) \/ CreateHttpConnections(k)
    \/ RecycleConnection(k) \/ RecycleJoined(k) \/ RecycleRestart(k) \/ SelectReady(k)
    \/ ExecuteCheck(k) \/ ExecutePost(k)
    \/ PerformAgain(k)

HcNetwork(c) == HcConnect(c) \/ HcStream(c) \/ HcDrop(c)

\* What goes on by itself once calls were made: some thread or the network.
HcProgress ==
    \/ \E k \in HcCalls : HcCaller(k)
    \/ \E c \in HcConns : HcWorker(c) \/ HcNetwork(c)
    \/ PoolStopJoined

HcNext == HcProgress \/ PoolStop \/ \E k \in HcCalls : PerformRequest(k)

HcSpec == HcInit /\ [][HcNext]_hcVars /\ WF_hcVars(HcProgress)

-----------------------------------------------------------------------------

\* The worker, the callers that recycle, Stop and the network all finish calls
\* that are pending, and none is finished twice: who erases it finishes it.
HcFinishedOnce == \A i \in HcIds : hcFinished[i] <= 1

\* A call is answered while the pool runs, though its connection drops and is
\* recycled under it; and one that was handed over is answered though the pool
\* is stopped.
HcAnswered ==
    /\ []<>(hcStop # 0 \/ \A k \in HcCalls : hcCall[k].pc \in {"new", "done"})
    /\ \A k \in HcCalls : (hcCall[k].pc = "out" /\ hcStop = 0) ~> hcCall[k].pc # "out"

=============================================================================
