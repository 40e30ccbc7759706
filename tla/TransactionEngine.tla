-------------------------- MODULE TransactionEngine --------------------------
(***************************************************************************)
(* One privacy-budget transaction, run by a client against the two         *)
(* coordinators (cc/core/transaction_manager/src/transaction_engine.cc,    *)
(* one instance per coordinator, with is_coordinated_remotely = true).     *)
(*                                                                         *)
(* The client drives both coordinators through the phases in lock step.    *)
(* Each coordinator journals a phase before it runs the phase's commands,  *)
(* refuses a request whose timestamp is not the transaction's last one,    *)
(* and, once the transaction has expired, queries its peer and rolls the   *)
(* transaction forward or aborts it on both sides. Coordinators crash and  *)
(* recover from the journal; requests and replies are lost, delayed and    *)
(* delivered twice.                                                        *)
(*                                                                         *)
(* The effect of a coordinator's commands on its budget keys is abstracted *)
(* to one value: free, held (the keys carry this transaction's lock) or    *)
(* spent. Timestamps are abstracted to a counter per coordinator.          *)
(***************************************************************************)
EXTENDS TransactionPhases

CONSTANTS
    Coordinators,   \* the two coordinators
    MaxCrashes,     \* bound on the crashes of all coordinators together
    Faults          \* the faults that may happen, of FaultKinds

\* lateRequest: a request of the client arrives after the transaction timeout.
\* notifyFails: the commands of Notify or Abort exhaust their retries.
\* recommitFails: a Commit that is run again, on keys that already carry the
\*                transaction's lock, fails.
FaultKinds == {"lateRequest", "notifyFails", "recommitFails"}

ASSUME EngineAssumption ==
    /\ \E a, b \in Coordinators : a # b /\ Coordinators = {a, b}
    /\ MaxCrashes \in Nat
    /\ Faults \subseteq FaultKinds

VARIABLES
    txn,        \* struct Transaction of each coordinator
    pc,         \* who works on the transaction, and how far it got
    req,        \* remote_phase_context: the request being executed
    journal,    \* what the coordinator's journal holds of the transaction
    budget,     \* effect of the coordinator's commands
    view,       \* last answer of the peer to a resolving coordinator
    peerReq,    \* ExecutePhase requests sent by resolving coordinators
    client,     \* the client's own engine: its phase and outcome
    cmd,        \* the client's command for each coordinator
    clientReq,  \* requests the client has sent
    timedOut,   \* the transaction timeout has passed since Begin
    crashes

coordVars  == <<txn, pc, req, journal, budget, view, peerReq>>
clientVars == <<client, cmd, clientReq>>
vars == <<txn, pc, req, journal, budget, view, peerReq, client, cmd, clientReq,
          timedOut, crashes>>

Peer(c) == CHOOSE d \in Coordinators : d # c

\* is_waiting_for_remote is TRUE exactly when pc is "idle".
PCs == {"idle", "logTxn", "log", "exec", "proceed",
        "status", "gotStatus", "rollRemote", "down"}

Requests ==
    [to : Coordinators, phase : ExecutionPhases, ts : Nat,
     from : {"client", "peer", "self", "recovery"}]

NoView == [kind |-> "none", phase |-> "Unknown", failed |-> FALSE, ts |-> 0]

\* An entry that is not in active_transactions_map_. ts survives: it stands for
\* the wall clock, which never returns a value twice.
Absent(ts) ==
    [exists |-> FALSE, phase |-> "NotStarted", failed |-> FALSE,
     phaseFailed |-> FALSE, ts |-> ts, blocked |-> FALSE, expired |-> FALSE]

\* What recovery can know of the transaction: nothing; its TRANSACTION_LOG; that
\* and its last TRANSACTION_PHASE_LOG.
NoJournal == [logged |-> FALSE, phase |-> "NotStarted", failed |-> FALSE]

SerializeTransaction == [NoJournal EXCEPT !.logged = TRUE]

SerializeState(t) == [logged |-> TRUE, phase |-> t.phase, failed |-> t.failed]

NoReq(c) == [to |-> c, phase |-> "Unknown", ts |-> 0, from |-> "self"]

TypeOK ==
    /\ txn \in [Coordinators ->
                  [exists : BOOLEAN, phase : Phases, failed : BOOLEAN,
                   phaseFailed : BOOLEAN, ts : Nat, blocked : BOOLEAN,
                   expired : BOOLEAN]]
    /\ pc \in [Coordinators -> PCs]
    /\ req \in [Coordinators -> Requests]
    /\ journal \in [Coordinators ->
                      [logged : BOOLEAN, phase : Phases, failed : BOOLEAN]]
    /\ budget \in [Coordinators -> {"free", "held", "spent"}]
    /\ view \in [Coordinators ->
                   [kind : {"none", "found", "notFound", "unexpired", "rolled"},
                    phase : ExecutionPhases, failed : BOOLEAN, ts : Nat]]
    /\ peerReq \subseteq Requests
    /\ client \in [phase : Phases \cup {"Done"}, failed : BOOLEAN]
    /\ cmd \in [Coordinators ->
                  [state : {"sent", "status", "ok", "failed"}, ts : Nat]]
    /\ clientReq \subseteq Requests
    /\ timedOut \in BOOLEAN
    /\ crashes \in 0..MaxCrashes

ClientRequest(c, phase, ts) ==
    [to |-> c, phase |-> phase, ts |-> ts, from |-> "client"]

Init ==
    /\ txn = [c \in Coordinators |-> Absent(0)]
    /\ pc = [c \in Coordinators |-> "idle"]
    /\ req = [c \in Coordinators |-> NoReq(c)]
    /\ journal = [c \in Coordinators |-> NoJournal]
    /\ budget = [c \in Coordinators |-> "free"]
    /\ view = [c \in Coordinators |-> NoView]
    /\ peerReq = {}
    /\ client = [phase |-> "Begin", failed |-> FALSE]
    /\ cmd = [c \in Coordinators |-> [state |-> "sent", ts |-> 0]]
    /\ clientReq = {ClientRequest(c, "Begin", 0) : c \in Coordinators}
    /\ timedOut = FALSE
    /\ crashes = 0

-----------------------------------------------------------------------------
(* The client. Its engine coordinates locally and has one command per       *)
(* coordinator; a phase ends when both commands have called back.           *)

\* The coordinator answers requests: its partition is loaded. It is not while a
\* recovered transaction runs its phase again.
Up(c) ==
    /\ pc[c] # "down"
    /\ ~(req[c].from = "recovery" /\ pc[c] \in {"log", "exec", "proceed"})

\* Is the client still waiting for the answer to request r?
Awaits(r) ==
    /\ r.from = "client"
    /\ cmd[r.to].state = "sent"
    /\ client.phase = ToTransactionPhase(r.phase)
    /\ r.phase = "Begin" \/ cmd[r.to].ts = r.ts

\* ClientConsumeBudgetCommand: the commands of a phase, sent to both.
SendPhase(phase) ==
    /\ cmd' = [c \in Coordinators |-> [cmd[c] EXCEPT !.state = "sent"]]
    /\ clientReq' = clientReq \cup
         {ClientRequest(c, ToTransactionExecutionPhase(phase), cmd[c].ts)
            : c \in Coordinators}

\* Both commands answered: ProceedToNextPhase of the client's engine. Committed
\* and Aborted have no commands, so it goes straight on to End.
ClientProceeds ==
    /\ \A c \in Coordinators : cmd[c].state \in {"ok", "failed"}
    /\ client.phase \notin {"Done", "Unknown"}
    /\ LET failed == \E c \in Coordinators : cmd[c].state = "failed"
           next == NextPhase(client.phase, IF failed THEN "Failure" ELSE "Success")
       IN IF client.phase = "End"
          THEN /\ client' = [client EXCEPT !.phase = "Done"]
               /\ UNCHANGED <<cmd, clientReq>>
          ELSE /\ client' = [phase  |-> IF next \in {"Committed", "Aborted"}
                                        THEN "End" ELSE next,
                             failed |-> client.failed \/ failed]
               /\ IF next = "Unknown"
                  THEN UNCHANGED <<cmd, clientReq>>
                  ELSE SendPhase(client'.phase)
    /\ UNCHANGED <<coordVars, timedOut, crashes>>

\* The dispatcher's retries are spent, the context expired, or the client's own
\* engine timed the phase out: the command reports a failure.
ClientGivesUp(c) ==
    /\ cmd[c].state \in {"sent", "status"}
    /\ cmd' = [cmd EXCEPT ![c].state = "failed"]
    /\ UNCHANGED <<coordVars, client, clientReq, timedOut, crashes>>

\* The coordinator answered 412: ask for the status, and run the same phase
\* again with the timestamp it returns.
ClientGetsStatus(c) ==
    /\ cmd[c].state = "status"
    /\ Up(c)
    /\ IF txn[c].exists
       THEN /\ cmd' = [cmd EXCEPT ![c] = [state |-> "sent", ts |-> txn[c].ts]]
            /\ clientReq' = clientReq \cup
                 {ClientRequest(c, ToTransactionExecutionPhase(client.phase),
                                txn[c].ts)}
       ELSE /\ cmd' = [cmd EXCEPT ![c].state = "failed"]
            /\ UNCHANGED clientReq
    /\ UNCHANGED <<coordVars, client, timedOut, crashes>>

\* May a request of the client still arrive?
ClientReaches == "lateRequest" \in Faults \/ ~timedOut

-----------------------------------------------------------------------------
(* Requests at a coordinator.                                               *)

\* Execute: a new transaction is entered in the map and its content journalled.
\* A repeated Begin can arrive only while the client still waits for its answer.
BeginTransaction(c) ==
    LET r == ClientRequest(c, "Begin", 0)
    IN /\ Up(c) /\ ClientReaches
       /\ txn[c].ts = 0 \/ Awaits(r)
       /\ IF txn[c].exists
          THEN \* ALREADY_EXISTS: the client's Begin fails
               /\ Awaits(r)
               /\ cmd' = [cmd EXCEPT ![c].state = "failed"]
               /\ UNCHANGED <<txn, pc>>
          ELSE /\ txn' = [txn EXCEPT ![c] =
                            [Absent(@.ts + 1) EXCEPT !.exists = TRUE]]
               /\ pc' = [pc EXCEPT ![c] = "logTxn"]
               /\ UNCHANGED cmd
       /\ UNCHANGED <<req, journal, budget, view, peerReq, client, clientReq,
                      timedOut, crashes>>

\* The transaction log is durable: NotStarted -> Begin, the transaction is
\* unlocked, and the front end runs the Begin phase with the timestamp it got.
OnLogTransactionCallback(c) ==
    /\ pc[c] = "logTxn"
    /\ journal' = [journal EXCEPT ![c] = SerializeTransaction]
    /\ txn' = [txn EXCEPT ![c].phase = NextPhase(@, "Success"), ![c].ts = @ + 1]
    /\ pc' = [pc EXCEPT ![c] = "idle"]
    /\ clientReq' = clientReq \cup {ClientRequest(c, "Begin", txn[c].ts + 1)}
    /\ UNCHANGED <<req, budget, view, peerReq, client, cmd, timedOut, crashes>>

\* The tests of ExecutePhaseInternal on a locked transaction.
TimestampMatches(c, r) == txn[c].ts = r.ts

PhaseAllowed(c, exec) ==
    LET phase == txn[c].phase
    IN /\ phase # "Unknown" /\ exec # "Unknown"
       /\ exec \in {"Begin", "Prepare", "Commit", "Notify"}
            => phase = ToTransactionPhase(exec)
       /\ exec = "Abort" => CanProceedToAbortAtPhase(phase)
       /\ exec = "End" => CanProceedToEndAtPhase(phase)

\* ExecutePhaseInternal past its tests: enter the phase, remember the request,
\* and start the phase, which all but Begin do by journalling it.
StartPhase(c, r) ==
    /\ txn' = [txn EXCEPT
                 ![c].phase = CASE r.phase = "Abort" -> "AbortNotify"
                                [] r.phase = "End"   -> "End"
                                [] OTHER             -> @,
                 ![c].failed = @ \/ r.phase = "Abort",
                 ![c].phaseFailed = @ /\ r.phase # "Abort"]
    /\ req' = [req EXCEPT ![c] = r]
    /\ pc' = [pc EXCEPT ![c] = IF r.phase = "Begin" THEN "exec" ELSE "log"]

Arrived(c) ==
    {r \in clientReq : /\ r.to = c
                       /\ ClientReaches
                       /\ r.phase = "Begin" => r.ts > 0}
      \cup {r \in peerReq : r.to = c}

ExecutePhase(c, r) ==
    /\ Up(c) /\ r \in Arrived(c)
    /\ txn[c].exists
    /\ pc[c] = "idle"               \* LockRemotelyCoordinatedTransaction
    /\ TimestampMatches(c, r)
    /\ PhaseAllowed(c, r.phase)
    /\ StartPhase(c, r)
    /\ UNCHANGED <<journal, budget, view, peerReq, clientVars, timedOut, crashes>>

\* A refusal the requester learns of. A locked transaction answers 503, which
\* the requester's dispatcher retries: no state changes, so no action.
RefusePhase(c, r) ==
    /\ Up(c) /\ r \in Arrived(c)
    /\ \/ ~txn[c].exists
       \/ /\ pc[c] = "idle"
          /\ ~(TimestampMatches(c, r) /\ PhaseAllowed(c, r.phase))
    /\ Awaits(r)
    /\ cmd' = [cmd EXCEPT ![c].state =
                 IF /\ txn[c].exists
                    /\ ~TimestampMatches(c, r)
                    /\ r.phase # "Begin"
                 THEN "status" ELSE "failed"]
    /\ UNCHANGED <<coordVars, client, clientReq, timedOut, crashes>>

-----------------------------------------------------------------------------
(* Running a phase.                                                         *)

\* LogState...: the phase is durable before its commands run. A failed write is
\* dispatched again until it succeeds.
OnLogStateCallback(c) ==
    /\ pc[c] = "log"
    /\ journal' = [journal EXCEPT ![c] = SerializeState(txn[c])]
    /\ pc' = [pc EXCEPT ![c] = "exec"]
    /\ UNCHANGED <<txn, req, budget, view, peerReq, clientVars, timedOut, crashes>>

\* What the commands of a phase may do to the budget: <<result, new budget>>.
\* Begin and End have no effect. Commit takes the lock, or fails having taken
\* it or not; Notify consumes what is held, Abort gives it back; both succeed
\* without effect when the lock is not this transaction's.
Locked(b) == IF b = "free" THEN "held" ELSE b

\* Mutant: Abort runs the commands of Notify.
AbortConsumes(phase, b) ==
    CASE phase = "Prepare" -> {<<"Success", b>>, <<"Failure", b>>}
      [] phase = "Commit" -> {<<"Success", Locked(b)>>, <<"Failure", Locked(b)>>}
      [] phase \in {"CommitNotify", "AbortNotify"} ->
           {<<"Success", IF b = "held" THEN "spent" ELSE b>>}
      [] OTHER -> {<<"Success", b>>}

CommandOutcomes(phase, b) ==
    CASE phase = "Prepare" -> {<<"Success", b>>, <<"Failure", b>>}
      [] phase = "Commit" ->
           {<<"Success", Locked(b)>>} \cup
             {<<"Failure", x>> : x \in IF b = "free" \/ "recommitFails" \in Faults
                                       THEN {b, Locked(b)} ELSE {}}
      [] phase \in {"CommitNotify", "AbortNotify"} ->
           LET after == IF b # "held" THEN b
                        ELSE IF phase = "CommitNotify" THEN "spent" ELSE "free"
           IN {<<"Success", after>>} \cup
                {<<"Failure", x>> : x \in IF "notifyFails" \in Faults
                                          THEN {b, after} ELSE {}}
      [] OTHER -> {<<"Success", b>>}

\* ExecuteDistributedPhase up to the last OnPhaseCallback.
ExecuteDistributedPhase(c) ==
    /\ pc[c] = "exec"
    /\ \E o \in CommandOutcomes(txn[c].phase, budget[c]) :
         /\ budget' = [budget EXCEPT ![c] = o[2]]
         /\ txn' = [txn EXCEPT ![c].phaseFailed = (o[1] = "Failure")]
    /\ pc' = [pc EXCEPT ![c] = "proceed"]
    /\ UNCHANGED <<req, journal, view, peerReq, clientVars, timedOut, crashes>>

\* remote_phase_context.Finish(): the answer reaches the requester, if it still
\* waits for it and the answer is not lost. A resolving peer waits in
\* "rollRemote" for the request it sent; a "self" request has no listener.
Answer(c, ok, ts) ==
    LET r == req[c]
        d == Peer(c)
    IN \/ UNCHANGED <<cmd, view>>
       \/ /\ Awaits(r)
          /\ cmd' = [cmd EXCEPT ![c] = IF ok THEN [state |-> "ok", ts |-> ts]
                                       ELSE [@ EXCEPT !.state = "failed"]]
          /\ UNCHANGED view
       \/ /\ r.from = "peer" /\ pc[d] = "rollRemote"
          /\ view[d].kind = "found" /\ view[d].ts = r.ts
          /\ ok
          /\ view' = [view EXCEPT ![d].kind = "rolled", ![d].phase = r.phase]
          /\ UNCHANGED cmd

UnlockRemotelyCoordinatedTransaction(c) == pc' = [pc EXCEPT ![c] = "idle"]

\* ProceedToNextPhase of a phase before End: advance, take a new timestamp,
\* answer the requester, and then unlock. A request that the answer provokes
\* finds the transaction locked for a moment: 503, as in RefusePhase.
ProceedToNextPhase(c) ==
    /\ pc[c] = "proceed" /\ txn[c].phase # "End"
    /\ LET t == txn[c]
           ok == ~t.phaseFailed
       IN /\ txn' = [txn EXCEPT
                       ![c].phase = NextPhase(t.phase, IF ok THEN "Success" ELSE "Failure"),
                       ![c].failed = t.failed \/ t.phaseFailed,
                       ![c].phaseFailed = FALSE,
                       ![c].ts = t.ts + 1]
          /\ Answer(c, ok, t.ts + 1)
    /\ UnlockRemotelyCoordinatedTransaction(c)
    /\ UNCHANGED <<req, journal, budget, peerReq, client, clientReq, timedOut, crashes>>

\* ProceedToNextPhase of End: answer, and erase the transaction from the map.
FinishEnd(c) ==
    /\ pc[c] = "proceed" /\ txn[c].phase = "End"
    /\ txn' = [txn EXCEPT ![c] = Absent(@.ts + 1)]
    /\ Answer(c, TRUE, txn[c].ts + 1)
    /\ pc' = [pc EXCEPT ![c] = "idle"]
    /\ UNCHANGED <<req, journal, budget, peerReq, client, clientReq, timedOut, crashes>>

-----------------------------------------------------------------------------
(* Resolution of an expired transaction with the peer.                      *)

TimeOut ==
    /\ ~timedOut
    /\ timedOut' = TRUE
    /\ UNCHANGED <<coordVars, clientVars, crashes>>

\* expiration_time passes. It counts from Begin, or from the last recovery.
Expire(c) ==
    /\ timedOut /\ txn[c].exists /\ ~txn[c].expired
    /\ txn' = [txn EXCEPT ![c].expired = TRUE]
    /\ UNCHANGED <<pc, req, journal, budget, view, peerReq, clientVars, timedOut,
                   crashes>>

\* The map's garbage collector finds the expired transaction.
ResolveTransaction(c) ==
    /\ Up(c) /\ txn[c].exists /\ txn[c].expired /\ ~txn[c].blocked
    /\ pc[c] = "idle"
    /\ pc' = [pc EXCEPT ![c] = "status"]
    /\ UNCHANGED <<txn, req, journal, budget, view, peerReq, clientVars, timedOut,
                   crashes>>

\* GetTransactionStatus of the peer, which takes no lock there.
GetTransactionStatus(c) ==
    LET d == Peer(c)
        t == txn[d]
    IN /\ pc[c] = "status" /\ Up(d)
       /\ view' = [view EXCEPT ![c] =
            CASE ~t.exists  -> [NoView EXCEPT !.kind = "notFound"]
              [] ~t.expired -> [NoView EXCEPT !.kind = "unexpired"]
              [] OTHER -> [kind   |-> "found",
                           phase  |-> ToTransactionExecutionPhase(t.phase),
                           failed |-> t.failed \/ t.phaseFailed,
                           ts     |-> t.ts]]
       /\ pc' = [pc EXCEPT ![c] = "gotStatus"]
       /\ UNCHANGED <<txn, req, journal, budget, peerReq, clientVars, timedOut, crashes>>

\* Give the transaction back for another round of garbage collection.
Release(c, blocked) ==
    /\ pc' = [pc EXCEPT ![c] = "idle"]
    /\ txn' = [txn EXCEPT ![c].blocked = blocked]
    /\ UNCHANGED req

\* ExecutePhaseInternal by the resolving coordinator itself, with the timestamp
\* it just read: unlocked again when the phase is refused.
ExecuteOwn(c, exec) ==
    IF PhaseAllowed(c, exec)
    THEN StartPhase(c, [to |-> c, phase |-> exec, ts |-> txn[c].ts, from |-> "self"])
    ELSE Release(c, txn[c].blocked)

GetTransactionStatusFails(c) ==
    /\ pc[c] = "status"
    /\ Release(c, txn[c].blocked)
    /\ UNCHANGED <<journal, budget, view, peerReq, clientVars, timedOut, crashes>>

OnRemoteTransactionNotFound(c) ==
    /\ pc[c] = "gotStatus" /\ view[c].kind = "notFound"
    /\ IF txn[c].phase \in {"Begin", "Prepare", "Aborted", "Committed", "End"}
       THEN ExecuteOwn(c, "End")
       ELSE Release(c, TRUE)
    /\ view' = [view EXCEPT ![c] = NoView]
    /\ UNCHANGED <<journal, budget, peerReq, clientVars, timedOut, crashes>>

\* Mutant: the outcome of the peer is not looked at.
RollForwardBlindly(phase, remoteExec, remoteFailed) ==
    ToTransactionExecutionPhase(phase)

\* What the local transaction executes to follow a peer that is ahead.
RollForwardPhase(phase, remoteExec, remoteFailed) ==
    LET exec == ToTransactionExecutionPhase(phase)
    IN IF /\ exec # "End"
          /\ remoteExec = "Abort" \/ (remoteExec = "End" /\ remoteFailed)
       THEN "Abort" ELSE exec

\* OnGetRemoteTransactionStatusCallback when it does not involve the peer again:
\* leave the transaction, block it, or follow the peer.
OnGetRemoteTransactionStatusCallback(c) ==
    LET local == txn[c].phase
        v == view[c]
        remote == ToTransactionPhase(v.phase)
        sync == LocalAndRemoteTransactionsInSync(local, remote)
    IN /\ pc[c] = "gotStatus" /\ v.kind \in {"found", "unexpired"}
       /\ \/ /\ v.kind = "unexpired"
             /\ Release(c, txn[c].blocked)
          \/ /\ v.kind = "found" /\ ~sync
             /\ Release(c, TRUE)
          \/ /\ v.kind = "found" /\ sync
             /\ Ahead(local, remote) \/ txn[c].phaseFailed
             /\ Release(c, txn[c].blocked)
          \/ /\ v.kind = "found" /\ sync
             /\ Ahead(remote, local) /\ ~txn[c].phaseFailed
             /\ ExecuteOwn(c, RollForwardPhase(local, v.phase, v.failed))
       /\ view' = [view EXCEPT ![c] = NoView]
       /\ UNCHANGED <<journal, budget, peerReq, clientVars, timedOut, crashes>>

\* Both in the same phase: have the peer execute it (or Abort) first.
RollForwardLocalAndRemoteTransactions(c) ==
    LET phase == txn[c].phase
        exec == IF CanCancel(phase) THEN "Abort" ELSE ToTransactionExecutionPhase(phase)
    IN /\ pc[c] = "gotStatus" /\ view[c].kind = "found"
       /\ phase = ToTransactionPhase(view[c].phase)
       /\ LocalAndRemoteTransactionsInSync(phase, phase)
       /\ ~txn[c].phaseFailed
       /\ peerReq' = peerReq \cup
            {[to |-> Peer(c), phase |-> exec, ts |-> view[c].ts, from |-> "peer"]}
       /\ pc' = [pc EXCEPT ![c] = "rollRemote"]
       /\ UNCHANGED <<txn, req, journal, budget, view, clientVars, timedOut, crashes>>

\* The peer executed the phase: execute it here. Or it refused, or its answer
\* was lost, and the transaction is left as it is.
OnRollForwardRemoteTransactionCallback(c) ==
    /\ pc[c] = "rollRemote"
    /\ \/ /\ view[c].kind = "rolled"
          /\ ExecuteOwn(c, view[c].phase)
       \/ /\ view[c].kind = "found"
          /\ Release(c, txn[c].blocked)
    /\ view' = [view EXCEPT ![c] = NoView]
    /\ UNCHANGED <<journal, budget, peerReq, clientVars, timedOut, crashes>>

-----------------------------------------------------------------------------
(* Crash and recovery.                                                      *)

Crash(c) ==
    /\ crashes < MaxCrashes
    /\ pc[c] # "down"
    /\ crashes' = crashes + 1
    /\ pc' = [pc EXCEPT ![c] = "down"]
    /\ txn' = [txn EXCEPT ![c] = Absent(@.ts)]
    /\ req' = [req EXCEPT ![c] = NoReq(c)]
    /\ view' = [view EXCEPT ![c] = NoView]
    /\ UNCHANGED <<journal, budget, peerReq, clientVars, timedOut>>

\* Mutant: recovery forgets the logged phase.
RecoveredAtBegin(j, ts) == [Absent(ts) EXCEPT !.exists = TRUE, !.phase = "Begin"]

\* OnJournalServiceRecoverCallback rebuilds the transaction from its logs, locked,
\* with a new timestamp and a new expiration time.
RecoveredTransaction(j, ts) ==
    [Absent(ts) EXCEPT
       !.exists = TRUE, !.failed = j.failed,
       !.phase = IF j.phase = "NotStarted" THEN "Begin" ELSE j.phase]

\* ProceedToNextPhaseAfterRecovery executes the logged phase again, logging it
\* again unless it is Begin.
ResumeAt(j) == IF j.phase = "NotStarted" THEN "exec" ELSE "log"

\* Recovery and Run: a transaction whose End was logged is gone.
Recover(c) ==
    LET j == journal[c]
    IN /\ pc[c] = "down"
       /\ IF j.logged /\ j.phase # "End"
          THEN /\ txn' = [txn EXCEPT ![c] = RecoveredTransaction(j, @.ts + 1)]
               /\ pc' = [pc EXCEPT ![c] = ResumeAt(j)]
               /\ req' = [req EXCEPT ![c].from = "recovery"]
          ELSE /\ pc' = [pc EXCEPT ![c] = "idle"]
               /\ UNCHANGED <<txn, req>>
       /\ UNCHANGED <<journal, budget, view, peerReq, clientVars, timedOut, crashes>>

-----------------------------------------------------------------------------
CoordinatorStep(c) ==
    \/ BeginTransaction(c)
    \/ OnLogTransactionCallback(c)
    \/ \E r \in clientReq \cup peerReq : ExecutePhase(c, r) \/ RefusePhase(c, r)
    \/ OnLogStateCallback(c)
    \/ ExecuteDistributedPhase(c)
    \/ ProceedToNextPhase(c)
    \/ FinishEnd(c)

ResolutionStep(c) ==
    \/ Expire(c)
    \/ ResolveTransaction(c)
    \/ GetTransactionStatus(c)
    \/ GetTransactionStatusFails(c)
    \/ OnRemoteTransactionNotFound(c)
    \/ OnGetRemoteTransactionStatusCallback(c)
    \/ RollForwardLocalAndRemoteTransactions(c)
    \/ OnRollForwardRemoteTransactionCallback(c)

Next ==
    \/ ClientProceeds
    \/ TimeOut
    \/ \E c \in Coordinators :
         \/ ClientGivesUp(c)
         \/ ClientGetsStatus(c)
         \/ CoordinatorStep(c)
         \/ ResolutionStep(c)
         \/ Crash(c)
         \/ Recover(c)

Spec == Init /\ [][Next]_vars

-----------------------------------------------------------------------------
(* Properties.                                                              *)

\* Once one coordinator has spent the budget, the other has spent it too or
\* still holds it for the transaction: it has not given it back. This is the
\* consensus that ResolveTransaction is documented to reach.
Agreement ==
    \A c \in Coordinators : budget[c] = "spent" => budget[Peer(c)] # "free"

\* The client's verdict is the coordinators': a transaction that ended well for
\* the client is spent on both, one that it counts as failed before Notify is
\* spent on neither.
ClientVerdict ==
    /\ client.phase \in {"End", "Done"} /\ ~client.failed
         => \A c \in Coordinators : budget[c] = "spent"
    /\ client.phase \in {"AbortNotify", "End", "Done"} /\ client.failed
         => \A c \in Coordinators : budget[c] # "spent"

\* A journalled phase is never behind the one journalled before it for the same
\* transaction: recovery refuses such a log ("This should never happen").
JournalNeverStale ==
    [][\A c \in Coordinators :
         journal'[c].phase # "NotStarted"
           => ~Ahead(journal[c].phase, journal'[c].phase)]_vars

\* Once the abort is journalled the budget is not spent any more, whatever
\* crashes, recoveries and late requests follow.
AbortIsFinal ==
    [][\A c \in Coordinators :
         journal[c].phase = "AbortNotify" /\ budget'[c] = "spent"
           => budget[c] = "spent"]_vars

\* A transaction that resolution blocks for manual repair (its blocked flag, set when
\* the phases are out of sync) holds budget only when a coordinator has journalled how it ends: a
\* Notify or Abort gave up, and what is left to do is known.
BlockedHasVerdict ==
    \A c \in Coordinators :
        txn[c].blocked /\ budget[c] = "held"
          => \E d \in Coordinators : journal[d].phase \in {"CommitNotify", "AbortNotify"}

=============================================================================
