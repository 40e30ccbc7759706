---------------------- MODULE TransactionAgreementProofs ----------------------
(***************************************************************************)
(* Proofs that the two coordinators agree and that the client's verdict is *)
(* theirs, for any number of crashes, when no request of the client        *)
(* arrives after the timeout and a Commit that is run again succeeds.      *)
(*                                                                         *)
(* The argument. A coordinator starts to spend its budget (Commits) only   *)
(* on a Notify of the client, before the timeout, or after its peer did.   *)
(* The client sends Notify when both have answered Commit; from then on,   *)
(* and until the timeout, and for good once one of them commits, both are  *)
(* Bound: they hold or have spent their budget, and neither the client,    *)
(* nor the peer, nor their own resolution can make them abort.             *)
(***************************************************************************)
EXTENDS TransactionEngineProofs

-----------------------------------------------------------------------------
(* What the steps do to a coordinator's transaction t, progress p, journal  *)
(* j and budget b.                                                          *)

\* What the commands have done to the budget.
BudgetOK(t, p, b) ==
    /\ p = "proceed" /\ t.phase = "Commit" /\ ~t.phaseFailed => b # "free"
    /\ p = "proceed" /\ t.phase = "CommitNotify" /\ ~t.phaseFailed => b = "spent"
    /\ t.exists /\ t.phase = "Committed" => b = "spent"

\* The coordinator has prepared: it does not end any more as if nothing had
\* been asked of it.
Prepared(t, p, j, b) ==
    /\ j.phase # "NotStarted" /\ p # "logTxn"
    /\ t.exists => /\ t.phase # "Begin"
                   /\ t.phase = "Prepare" => Works(p)
                   /\ t.phase = "End" /\ ~t.failed => b = "spent"

\* The coordinator executes Commit, or has.
PastPrepare(t, p, j) ==
    \/ j.phase \in {"Commit", "CommitNotify"}
    \/ t.exists /\ t.phase \in {"CommitNotify", "Committed"}
    \/ Works(p) /\ t.phase = "Commit"

\* The coordinator is about to spend its budget, or has.
Commits(t, p, j, b) ==
    \/ b = "spent"
    \/ j.phase = "CommitNotify"
    \/ p = "log" /\ t.phase = "CommitNotify"

\* The coordinator holds its budget or has spent it, and is past any abort.
Holds(t, p, j, b) ==
    /\ b # "free"
    /\ j.phase \in {"Commit", "CommitNotify", "End"} /\ ~j.failed
    /\ j.phase = "Commit" => b = "held"
    /\ p # "logTxn"
    /\ t.exists =>
         /\ t.phase \in {"Commit", "CommitNotify", "Committed", "End", "Unknown"}
         /\ t.failed => t.phase = "Unknown"
         /\ t.phaseFailed => t.phase = "CommitNotify"
         /\ t.phase = "Commit" => Works(p)
         /\ t.phase = "CommitNotify" /\ ~Works(p) => j.phase = "Commit"

\* What every move from (t, p, j, b) to (u, q, k, d) keeps, where e is the phase
\* that it enters, if it enters one.
Grows(t, p, j, b, u, q, k, d, e) ==
    /\ e # "Notify" /\ Commits(u, q, k, d) => Commits(t, p, j, b)
    /\ e # "Commit" /\ PastPrepare(u, q, k) => PastPrepare(t, p, j)
    /\ b = "spent" => d = "spent"
    /\ u.ts >= t.ts

\* What every move but the start of a transaction keeps.
Keeps(t, p, j, b, u, q, k, d, e) ==
    /\ Grows(t, p, j, b, u, q, k, d, e)
    /\ Prepared(t, p, j, b) => Prepared(u, q, k, d)
    /\ e # "Abort" /\ Holds(t, p, j, b) => Holds(u, q, k, d)

\* The value a budget takes.
Budgets == {"free", "held", "spent"}

\* Moves of a coordinator that enters no phase.
NoPhase == "none"

\* A request that is accepted enters its phase.
LEMMA EnteredMove ==
    ASSUME NEW t \in Transactions, NEW p \in PCs, NEW j \in Journals, NEW b \in Budgets,
           NEW e \in ExecutionPhases,
           CoordinatorOK(t, p, j), BudgetOK(t, p, b), t.exists, Resting(p),
           t.phase # "Unknown" /\ e # "Unknown",
           e \in {"Begin", "Prepare", "Commit", "Notify"} => t.phase = ToTransactionPhase(e),
           e = "Abort" => CanProceedToAbortAtPhase(t.phase),
           e = "End" => CanProceedToEndAtPhase(t.phase)
    PROVE  LET u == Entered(t, e)
               q == IF e = "Begin" THEN "exec" ELSE "log"
           IN  BudgetOK(u, q, b) /\ Keeps(t, p, j, b, u, q, j, b, e)
<1> DEFINE u == Entered(t, e)
           q == IF e = "Begin" THEN "exec" ELSE "log"
<1>1. /\ u.exists = t.exists /\ u.ts = t.ts
      /\ u.phase = ToTransactionPhase(e)
      /\ e = "Abort" => u.failed /\ ~u.phaseFailed
      /\ e # "Abort" => u.failed = t.failed /\ u.phaseFailed = t.phaseFailed
    BY Zenon DEF Entered, Transactions, ToTransactionPhase, ExecutionPhases
<1>2. /\ q \in {"log", "exec"} /\ (q = "exec" <=> e = "Begin")
    BY Zenon
<1> HIDE DEF u, q
<1>3. BudgetOK(u, q, b)
    BY Zenon, <1>1, <1>2 DEF BudgetOK, ToTransactionPhase, ExecutionPhases
<1>4. e # "Notify" /\ Commits(u, q, j, b) => Commits(t, p, j, b)
    BY Zenon, <1>1, <1>2 DEF Commits, Resting, ToTransactionPhase, ExecutionPhases
<1>5. e # "Commit" /\ PastPrepare(u, q, j) => PastPrepare(t, p, j)
    BY Zenon, <1>1, <1>2 DEF PastPrepare, Works, ToTransactionPhase, ExecutionPhases
<1>6. Prepared(t, p, j, b) => Prepared(u, q, j, b)
    BY Zenon, <1>1, <1>2 DEF Prepared, Works, Resting, ToTransactionPhase, ExecutionPhases,
       CanProceedToEndAtPhase, CoordinatorOK, ProgressOK, FailureOK, BudgetOK
<1>7. e # "Abort" /\ Holds(t, p, j, b) => Holds(u, q, j, b)
    BY Zenon, <1>1, <1>2 DEF Holds, Works, Resting, ToTransactionPhase, ExecutionPhases,
       CanProceedToEndAtPhase, CoordinatorOK, ProgressOK
<1>8. u.ts >= t.ts
    BY <1>1 DEF Transactions
<1>9. Keeps(t, p, j, b, u, q, j, b, e)
    BY Zenon, <1>4, <1>5, <1>6, <1>7, <1>8 DEF Keeps, Grows
<1> QED
    BY Zenon, <1>3, <1>9 DEF u, q

\* Setting expired, blocked or the last access time changes no phase.
LEMMA FlagsMove ==
    ASSUME NEW t \in Transactions, NEW j, NEW b, NEW p, NEW q, NEW u \in Transactions,
           SameButFlags(t, u), BudgetOK(t, p, b), p = q \/ (Resting(p) /\ Resting(q))
    PROVE  BudgetOK(u, q, b) /\ Keeps(t, p, j, b, u, q, j, b, NoPhase)
<1>1. BudgetOK(u, q, b)
    BY Zenon DEF BudgetOK, Resting, SameButFlags
<1>2. /\ Commits(u, q, j, b) => Commits(t, p, j, b)
      /\ PastPrepare(u, q, j) => PastPrepare(t, p, j)
    BY Zenon DEF Commits, PastPrepare, Resting, Works, SameButFlags
<1>3. Prepared(t, p, j, b) => Prepared(u, q, j, b)
    BY Zenon DEF Prepared, Resting, Works, SameButFlags
<1>4. Holds(t, p, j, b) => Holds(u, q, j, b)
    BY Zenon DEF Holds, Resting, Works, SameButFlags
<1> QED
    BY <1>1, <1>2, <1>3, <1>4 DEF Keeps, Grows, SameButFlags, Transactions

\* The state that was about to be logged is in the journal.
LEMMA LoggedMove ==
    ASSUME NEW t \in Transactions, NEW j \in Journals, NEW b \in Budgets,
           CoordinatorOK(t, "log", j), BudgetOK(t, "log", b)
    PROVE  /\ BudgetOK(t, "exec", b)
           /\ Keeps(t, "log", j, b, t, "exec", SerializeState(t), b, NoPhase)
<1> DEFINE k == SerializeState(t)
<1>1. k.phase = t.phase /\ k.failed = t.failed
    BY Zenon DEF SerializeState
<1> HIDE DEF k
<1>2. t.exists /\ t.phase \in Executed \ {"Begin"}
    BY Zenon DEF CoordinatorOK, ProgressOK, Works, Executed
<1>3. BudgetOK(t, "exec", b)
    BY Zenon DEF BudgetOK
<1>4. /\ Commits(t, "exec", k, b) => Commits(t, "log", j, b)
      /\ PastPrepare(t, "exec", k) => PastPrepare(t, "log", j)
    BY Zenon, <1>1, <1>2 DEF Commits, PastPrepare, Works
<1>5. Prepared(t, "log", j, b) => Prepared(t, "exec", k, b)
    BY Zenon, <1>1, <1>2 DEF Prepared, Works, Executed
<1>6. Holds(t, "log", j, b) => Holds(t, "exec", k, b)
  <2> SUFFICES ASSUME Holds(t, "log", j, b) PROVE Holds(t, "exec", k, b)
      BY Zenon
  <2>1. t.phase = "Commit" => j.phase = "Commit"
      BY <1>2, RankTable DEF CoordinatorOK, JournalOK, Ahead, Holds
  <2> QED
      BY Zenon, <1>1, <1>2, <2>1 DEF Holds, Works, Executed
<1> QED
    BY <1>3, <1>4, <1>5, <1>6 DEF Keeps, Grows, k, Transactions

\* The commands run. Under the faults assumed, a Commit fails only if nothing is
\* held, so a coordinator that holds its budget does not fail to commit.
LEMMA RanMove ==
    ASSUME Faults \subseteq {"notifyFails"},
           NEW t \in Transactions, NEW j \in Journals, NEW b \in Budgets,
           CoordinatorOK(t, "exec", j), BudgetOK(t, "exec", b),
           Commits(t, "exec", j, b) => Holds(t, "exec", j, b),
           NEW o \in CommandOutcomes(t.phase, b), NEW u \in Transactions,
           u = [t EXCEPT !.phaseFailed = (o[1] = "Failure")]
    PROVE  /\ BudgetOK(u, "proceed", o[2])
           /\ Keeps(t, "exec", j, b, u, "proceed", j, o[2], NoPhase)
<1>1. /\ u.exists = t.exists /\ u.phase = t.phase /\ u.failed = t.failed /\ u.ts = t.ts
      /\ u.phaseFailed <=> o[1] = "Failure"
    BY Zenon DEF Transactions
<1>2. /\ t.exists /\ t.phase \in Executed /\ (t.phase # "Begin" => j.phase = t.phase)
    BY Zenon DEF CoordinatorOK, ProgressOK, JournalOK, Works
<1>3. /\ b = "spent" => o[2] = "spent"
      /\ o[2] = "spent" => b = "spent" \/ t.phase = "CommitNotify"
      /\ t.phase = "Commit" => o[2] = b \/ o[2] = "held"
      /\ t.phase = "Commit" /\ b = "held" => o[1] = "Success"
      /\ t.phase = "Commit" /\ o[1] # "Failure" => o[2] # "free"
      /\ t.phase = "CommitNotify" /\ b # "free" => o[2] # "free"
      /\ t.phase = "CommitNotify" /\ b # "free" /\ o[1] # "Failure" => o[2] = "spent"
      /\ t.phase \in {"Begin", "Prepare", "End"} => o[2] = b
      /\ t.phase = "End" => o[1] = "Success"
    BY DEF CommandOutcomes, Locked, Budgets
<1>4. BudgetOK(u, "proceed", o[2])
    BY Zenon, <1>1, <1>2, <1>3 DEF BudgetOK, Commits, Holds, Executed
<1>5. Commits(u, "proceed", j, o[2]) => Commits(t, "exec", j, b)
    BY Zenon, <1>1, <1>2, <1>3 DEF Commits
<1>6. PastPrepare(u, "proceed", j) => PastPrepare(t, "exec", j)
    BY Zenon, <1>1 DEF PastPrepare, Works
<1>7. Prepared(t, "exec", j, b) => Prepared(u, "proceed", j, o[2])
    BY Zenon, <1>1, <1>2, <1>3 DEF Prepared, Works
<1>8. Holds(t, "exec", j, b) => Holds(u, "proceed", j, o[2])
    BY Zenon, <1>1, <1>2, <1>3 DEF Holds, Works, Executed
<1> QED
    BY <1>1, <1>3, <1>4, <1>5, <1>6, <1>7, <1>8 DEF Keeps, Grows, Transactions

\* The phase is over and the transaction proceeds to the next.
LEMMA ProceededMove ==
    ASSUME NEW t \in Transactions, NEW j \in Journals, NEW b \in Budgets,
           CoordinatorOK(t, "proceed", j), BudgetOK(t, "proceed", b), t.phase # "End"
    PROVE  /\ BudgetOK(Proceeded(t), "idle", b)
           /\ Keeps(t, "proceed", j, b, Proceeded(t), "idle", j, b, NoPhase)
<1> DEFINE u == Proceeded(t)
<1>1. /\ u.exists = t.exists /\ u.ts = t.ts + 1 /\ ~u.phaseFailed
      /\ u.failed <=> (t.failed \/ t.phaseFailed)
      /\ u.phase = NextPhase(t.phase, IF t.phaseFailed THEN "Failure" ELSE "Success")
    BY Zenon DEF Proceeded, Transactions
<1> HIDE DEF u
<1>2. /\ t.exists /\ t.phase \in Executed \ {"End"} /\ (t.phase # "Begin" => j.phase = t.phase)
      /\ t.phaseFailed => t.phase # "Begin"
    BY Zenon DEF CoordinatorOK, ProgressOK, FailureOK, JournalOK, Works, Executed
<1>3. /\ ~t.phaseFailed => u.phase = NextPhaseOnSuccess(t.phase)
      /\ t.phaseFailed => u.phase = NextPhaseOnFailure(t.phase)
    BY Zenon, <1>1, <1>2 DEF NextPhase, Executed
<1>4. /\ u.phase = "CommitNotify" => t.phase = "Commit"
      /\ u.phase = "Committed" => t.phase = "CommitNotify" /\ ~t.phaseFailed
      /\ u.phase # "Begin" /\ u.phase # "End" /\ (u.phase = "Prepare" => t.phase = "Begin")
      /\ t.phase = "Commit" /\ ~t.phaseFailed => u.phase = "CommitNotify"
      /\ t.phase = "CommitNotify" => u.phase \in {"Committed", "Unknown"}
      /\ t.phase = "CommitNotify" /\ t.phaseFailed => u.phase = "Unknown"
    BY Zenon, <1>2, <1>3 DEF NextPhaseOnSuccess, NextPhaseOnFailure, Executed
<1>5. BudgetOK(u, "idle", b)
    BY Zenon, <1>1, <1>4 DEF BudgetOK
<1>6. /\ Commits(u, "idle", j, b) => Commits(t, "proceed", j, b)
      /\ PastPrepare(u, "idle", j) => PastPrepare(t, "proceed", j)
    BY Zenon, <1>1, <1>2, <1>4 DEF Commits, PastPrepare, Works
<1>7. Prepared(t, "proceed", j, b) => Prepared(u, "idle", j, b)
    BY Zenon, <1>1, <1>2, <1>4 DEF Prepared, Works
<1>8. Holds(t, "proceed", j, b) => Holds(u, "idle", j, b)
    BY Zenon, <1>1, <1>2, <1>4 DEF Holds, Works, Executed
<1> QED
    BY <1>1, <1>5, <1>6, <1>7, <1>8 DEF Keeps, Grows, u, Transactions

\* The transaction goes: it ended, or the coordinator crashed.
LEMMA AbsentMove ==
    ASSUME NEW t \in Transactions, NEW p, NEW q \in {"idle", "down"}, NEW j \in Journals,
           NEW b \in Budgets, NEW n \in Nat, n >= t.ts
    PROVE  /\ BudgetOK(Absent(n), q, b)
           /\ Keeps(t, p, j, b, Absent(n), q, j, b, NoPhase)
<1>1. ~Absent(n).exists /\ Absent(n).ts = n
    BY Zenon DEF Absent
<1> QED
    BY Zenon, <1>1 DEF BudgetOK, Keeps, Grows, Commits, PastPrepare, Prepared, Holds, Works

\* A restarted coordinator resumes what its journal holds, or has nothing.
LEMMA RecoveredMove ==
    ASSUME NEW t \in Transactions, NEW j \in Journals, NEW b \in Budgets,
           CoordinatorOK(t, "down", j)
    PROVE  LET u == RecoveredTransaction(j, t.ts + 1)
               q == ResumeAt(j)
           IN  /\ j.logged /\ j.phase # "End"
                    => BudgetOK(u, q, b) /\ Keeps(t, "down", j, b, u, q, j, b, NoPhase)
               /\ BudgetOK(t, "idle", b) /\ Keeps(t, "down", j, b, t, "idle", j, b, NoPhase)
<1> DEFINE u == RecoveredTransaction(j, t.ts + 1)
           q == ResumeAt(j)
<1>1. ~t.exists
    BY Zenon DEF CoordinatorOK, ProgressOK
<1>2. /\ u.exists /\ u.ts = t.ts + 1 /\ ~u.phaseFailed /\ (u.failed <=> j.failed)
      /\ u.phase = IF j.phase = "NotStarted" THEN "Begin" ELSE j.phase
    BY Zenon DEF RecoveredTransaction, Absent, Journals
<1>3. /\ q = IF j.phase = "NotStarted" THEN "exec" ELSE "log"
    BY Zenon DEF ResumeAt
<1> HIDE DEF u, q
<1>4. ASSUME j.logged, j.phase # "End"
      PROVE  BudgetOK(u, q, b) /\ Keeps(t, "down", j, b, u, q, j, b, NoPhase)
  <2>1. j.phase \in (Executed \ {"Begin"}) \cup {"NotStarted"}
      BY Zenon DEF CoordinatorOK, RecordOK
  <2>2. BudgetOK(u, q, b)
      BY Zenon, <1>2, <1>3, <2>1 DEF BudgetOK, Executed
  <2>3. /\ Commits(u, q, j, b) => Commits(t, "down", j, b)
        /\ PastPrepare(u, q, j) => PastPrepare(t, "down", j)
      BY Zenon, <1>2, <1>3, <2>1 DEF Commits, PastPrepare, Executed
  <2>4. Prepared(t, "down", j, b) => Prepared(u, q, j, b)
      BY Zenon, <1>2, <1>3, <1>4, <2>1 DEF Prepared, Works
  <2>5. Holds(t, "down", j, b) => Holds(u, q, j, b)
      BY Zenon, <1>2, <1>3, <1>4 DEF Holds, Works
  <2> QED
      BY <1>2, <2>2, <2>3, <2>4, <2>5 DEF Keeps, Grows, Transactions
<1>5. BudgetOK(t, "idle", b) /\ Keeps(t, "down", j, b, t, "idle", j, b, NoPhase)
    BY <1>1 DEF BudgetOK, Keeps, Grows, Commits, PastPrepare, Prepared, Holds, Works, Transactions
<1> QED
    BY Zenon, <1>4, <1>5 DEF u, q

-----------------------------------------------------------------------------
(* The invariant.                                                           *)

PreparedAt(c) == Prepared(txn[c], pc[c], journal[c], budget[c])
PastPrepareAt(c) == PastPrepare(txn[c], pc[c], journal[c])
CommitsAt(c) == Commits(txn[c], pc[c], journal[c], budget[c])
HoldsAt(c) == Holds(txn[c], pc[c], journal[c], budget[c])

\* The client has sent a request for the phase.
Sent(exec) == \E r \in clientReq : r.phase = exec

\* The request that a coordinator executes is for the phase it is in.
RequestOK(c) ==
    /\ req[c].to = c
    /\ Works(pc[c]) /\ req[c].from # "recovery" => txn[c].phase = ToTransactionPhase(req[c].phase)
    /\ req[c].from = "peer" => req[c].phase \in {"Abort", "End"}

\* Nothing is resolved before the timeout.
TimeoutOK ==
    ~timedOut => /\ peerReq = {}
                 /\ \A c \in Coordinators :
                      /\ pc[c] \notin {"status", "gotStatus", "rollRemote"}
                      /\ ~txn[c].expired

\* Resolution asks a peer to abort or to end, with a timestamp the peer has had.
PeerReqOK ==
    \A r \in peerReq : /\ r.phase \in {"Abort", "End"} /\ r.from = "peer"
                       /\ r.ts <= txn[r.to].ts

\* The client goes for the commit or for the abort, not for both.
ClientOK ==
    /\ \A r \in clientReq : r.from = "client"
    /\ client.phase \in Executed \cup {"Done", "Unknown"}
    /\ client.failed => client.phase \in {"AbortNotify", "End", "Done", "Unknown"}
    /\ client.phase = "AbortNotify" => client.failed
    /\ Sent("Notify") => client.phase \in {"CommitNotify", "Unknown"}
                           \/ (client.phase \in {"End", "Done"} /\ ~client.failed)
    /\ Sent("Abort") => client.phase \in {"AbortNotify", "Unknown"}
                           \/ (client.phase \in {"End", "Done"} /\ client.failed)
    /\ ~(Sent("Notify") /\ Sent("Abort"))
    /\ client.phase = "CommitNotify" => Sent("Notify")
    /\ Sent("Commit") => client.phase \notin {"Begin", "Prepare"}
    /\ client.phase = "Commit" => Sent("Commit")

\* The client sends Commit when both have prepared.
PreparedOK ==
    /\ Sent("Commit") => \A c \in Coordinators : PreparedAt(c)
    /\ client.phase = "Prepare" => \A c \in Coordinators : cmd[c].state = "ok" => PreparedAt(c)

\* What a resolving coordinator has seen of its peer: when it saw Notify, the
\* peer does not commit unless it has a new timestamp; when it saw the end of a
\* transaction that it is about to notify itself, the peer has spent its budget.
ViewOK(c) ==
    LET v == view[c]
        t == txn[Peer(c)]
    IN  /\ v.kind # "none" => pc[c] \in {"gotStatus", "rollRemote"}
        /\ v.kind = "rolled" => v.phase \in {"Abort", "End"}
        /\ v.ts <= t.ts
        /\ v.kind = "found" /\ v.phase = "Notify" =>
             /\ Sent("Commit")
             /\ t.exists /\ v.ts = t.ts => t.phase \in {"CommitNotify", "AbortNotify"}
        /\ v.kind = "found" /\ v.phase = "End" /\ ~v.failed /\ txn[c].phase = "CommitNotify"
             => budget[Peer(c)] = "spent"

\* Neither the peer nor the coordinator's own resolution makes it abort.
Bound(c) ==
    /\ HoldsAt(c)
    /\ txn[c].exists /\ ~Works(pc[c]) =>
         \A r \in peerReq : ~(r.to = c /\ r.phase = "Abort" /\ r.ts = txn[c].ts)
    /\ view[c].kind = "found" => /\ view[c].phase # "Abort"
                                 /\ ~(view[c].phase = "End" /\ view[c].failed)
    /\ view[c].kind = "rolled" => view[c].phase # "Abort"

\* A coordinator commits, or a Notify of the client may have one do so.
Armed == (\E c \in Coordinators : CommitsAt(c)) \/ (~timedOut /\ Sent("Notify"))

BoundOK ==
    /\ Armed => Sent("Notify")
    /\ Armed => \A c \in Coordinators : Bound(c)
    /\ ~timedOut /\ client.phase = "Commit" =>
         \A c \in Coordinators : cmd[c].state = "ok" => Bound(c)

\* What the client knows of the budgets.
VerdictOK ==
    /\ client.phase = "CommitNotify" =>
         \A c \in Coordinators : cmd[c].state = "ok" => budget[c] = "spent"
    /\ client.phase \in {"End", "Done"} /\ ~client.failed =>
         \A c \in Coordinators : budget[c] = "spent"

\* The inductive invariant.
AgreementInv ==
    /\ LocalInv
    /\ \A c \in Coordinators :
         /\ BudgetOK(txn[c], pc[c], budget[c])
         /\ RequestOK(c)
         /\ PastPrepareAt(c) => Sent("Commit")
         /\ ViewOK(c)
    /\ TimeoutOK /\ PeerReqOK /\ ClientOK /\ PreparedOK /\ BoundOK /\ VerdictOK

\* Agreement and ClientVerdict follow.
LEMMA AgreementFollows == AgreementInv => Agreement /\ ClientVerdict
<1> SUFFICES ASSUME AgreementInv PROVE Agreement /\ ClientVerdict
    BY Zenon
<1>1. \A c \in Coordinators : budget[c] = "spent" => CommitsAt(c)
    BY Zenon DEF CommitsAt, Commits
<1>2. Agreement
    BY Zenon, <1>1, Peers DEF Agreement, AgreementInv, BoundOK, Armed, Bound, HoldsAt, Holds
<1>3. ClientVerdict
    BY Zenon, <1>1 DEF ClientVerdict, AgreementInv, BoundOK, Armed, ClientOK, VerdictOK
<1> QED
    BY Zenon, <1>2, <1>3

-----------------------------------------------------------------------------
(* The steps of a coordinator.                                              *)

\* How coordinator c comes to enter phase e: a request of the client before the
\* timeout, one of the peer, or its own resolution.
Enters(c, e) ==
    /\ txn[c].exists /\ Resting(pc[c]) /\ PhaseAllowed(c, e)
    /\ \/ ~timedOut /\ Sent(e)
       \/ \E r \in peerReq : r.to = c /\ r.phase = e /\ r.ts = txn[c].ts
       \/ e = "End"
       \/ LET v == view[c]
              remote == ToTransactionPhase(v.phase)
          IN  /\ v.kind = "found"
              /\ LocalAndRemoteTransactionsInSync(txn[c].phase, remote)
              /\ Ahead(remote, txn[c].phase)
              /\ e = RollForwardPhase(txn[c].phase, v.phase, v.failed)
       \/ view[c].kind = "rolled" /\ e = view[c].phase

\* What a step of c does to c.
MovesBy(c, e) ==
    /\ BudgetOK(txn'[c], pc'[c], budget'[c])
    /\ Grows(txn[c], pc[c], journal[c], budget[c],
             txn'[c], pc'[c], journal'[c], budget'[c], e)
    /\ client.phase # "Begin" =>
         Keeps(txn[c], pc[c], journal[c], budget[c],
               txn'[c], pc'[c], journal'[c], budget'[c], e)
    /\ e # NoPhase => e \in ExecutionPhases /\ Enters(c, e)

\* The values that the invariant speaks of are in range.
LEMMA ValuesInRange ==
    ASSUME AgreementInv, NEW c \in Coordinators
    PROVE  /\ Types /\ txn[c] \in Transactions /\ pc[c] \in PCs /\ journal[c] \in Journals
           /\ budget[c] \in Budgets /\ view[c] \in Views
           /\ CoordinatorOK(txn[c], pc[c], journal[c])
           /\ BudgetOK(txn[c], pc[c], budget[c])
           /\ CommitsAt(c) => HoldsAt(c)
BY Zenon DEF AgreementInv, LocalInv, Types, Budgets, BoundOK, Armed, Bound

\* A phase is entered.
LEMMA StartMoves ==
    ASSUME AgreementInv, NEW c \in Coordinators, NEW r \in Requests, StartPhase(c, r),
           UNCHANGED <<journal, budget>>, Enters(c, r.phase)
    PROVE  MovesBy(c, r.phase)
<1>1. /\ Types /\ txn[c] \in Transactions /\ pc[c] \in PCs /\ journal[c] \in Journals
      /\ budget[c] \in Budgets /\ CoordinatorOK(txn[c], pc[c], journal[c])
      /\ BudgetOK(txn[c], pc[c], budget[c]) /\ r.phase \in ExecutionPhases
    BY Zenon, ValuesInRange DEF Requests
<1>2. txn' = [txn EXCEPT ![c] = Entered(txn[c], r.phase)]
    BY Zenon, <1>1, StartPhaseValue
<1>3. /\ txn'[c] = Entered(txn[c], r.phase)
      /\ pc'[c] = IF r.phase = "Begin" THEN "exec" ELSE "log"
    BY Zenon, <1>1, <1>2 DEF StartPhase, Types
<1>4. /\ txn[c].phase # "Unknown" /\ r.phase # "Unknown"
      /\ r.phase \in {"Begin", "Prepare", "Commit", "Notify"}
           => txn[c].phase = ToTransactionPhase(r.phase)
      /\ r.phase = "Abort" => CanProceedToAbortAtPhase(txn[c].phase)
      /\ r.phase = "End" => CanProceedToEndAtPhase(txn[c].phase)
    BY Zenon DEF Enters, PhaseAllowed
<1>5. /\ BudgetOK(txn'[c], pc'[c], budget[c])
      /\ Keeps(txn[c], pc[c], journal[c], budget[c],
               txn'[c], pc'[c], journal[c], budget[c], r.phase)
    BY <1>1, <1>3, <1>4, EnteredMove DEF Enters
<1> QED
    BY Zenon, <1>1, <1>5 DEF MovesBy, Keeps

\* The flags or the step of the resolution change.
LEMMA RestMoves ==
    ASSUME AgreementInv, NEW c \in Coordinators, txn'[c] \in Transactions,
           SameButFlags(txn[c], txn'[c]),
           pc[c] = pc'[c] \/ (Resting(pc[c]) /\ Resting(pc'[c])),
           UNCHANGED <<journal, budget>>
    PROVE  MovesBy(c, NoPhase)
BY Zenon, ValuesInRange, FlagsMove DEF MovesBy, Keeps

\* ExecuteOwn and Release of a resolving coordinator.
LEMMA OwnMoves ==
    ASSUME AgreementInv, NEW c \in Coordinators, Resting(pc[c]), UNCHANGED <<journal, budget>>,
           \/ \E b \in BOOLEAN : Release(c, b)
           \/ \E e \in ExecutionPhases : ExecuteOwn(c, e) /\ (PhaseAllowed(c, e) => Enters(c, e))
    PROVE  \E e : MovesBy(c, e)
<1>1. Types /\ txn[c] \in Transactions
    BY Zenon, ValuesInRange
<1>2. ASSUME NEW b \in BOOLEAN, Release(c, b)
      PROVE  MovesBy(c, NoPhase)
  <2>1. txn' = [txn EXCEPT ![c] = [@ EXCEPT !.blocked = b]]
      BY Zenon, <1>1, <1>2, ReleaseValue
  <2>2. txn'[c] = [txn[c] EXCEPT !.blocked = b] /\ pc'[c] = "idle"
      BY Zenon, <1>1, <1>2, <2>1 DEF Release, Types
  <2>3. Resting(pc'[c])
      BY Zenon, <2>2 DEF Resting
  <2>4. txn'[c] \in Transactions /\ SameButFlags(txn[c], txn'[c])
      BY <1>1, <2>2, FlagUpdates
  <2> QED
      BY Zenon, <2>3, <2>4, RestMoves
<1>3. ASSUME NEW e \in ExecutionPhases, ExecuteOwn(c, e), PhaseAllowed(c, e) => Enters(c, e)
      PROVE  \E f : MovesBy(c, f)
  <2> DEFINE r == [to |-> c, phase |-> e, ts |-> txn[c].ts, from |-> "self"]
  <2>1. CASE Release(c, txn[c].blocked)
      BY Zenon, <1>1, <1>2, <2>1 DEF Transactions
  <2>2. CASE PhaseAllowed(c, e) /\ StartPhase(c, r) /\ r \in Requests
    <3>1. r.phase = e
        BY Zenon
    <3> QED
        BY Zenon, <1>3, <2>2, <3>1, StartMoves
  <2> QED
      BY Zenon, <1>1, <1>3, <2>1, <2>2, ExecuteOwnValue
<1> QED
    BY Zenon, <1>2, <1>3

\* Each step of a coordinator moves it so.
LEMMA CoordinatorMoves ==
    ASSUME Faults \subseteq {"notifyFails"}, AgreementInv, NEW c \in Coordinators,
           CoordinatorStep(c)
    PROVE  \E e : MovesBy(c, e)
<1>1. /\ Types /\ txn[c] \in Transactions /\ pc[c] \in PCs /\ journal[c] \in Journals
      /\ budget[c] \in Budgets /\ CoordinatorOK(txn[c], pc[c], journal[c])
      /\ BudgetOK(txn[c], pc[c], budget[c]) /\ (CommitsAt(c) => HoldsAt(c))
    BY Zenon, ValuesInRange
<1>2. Types' /\ txn'[c] \in Transactions
    BY Zenon, <1>1, CoordinatorTypes DEF Types
<1>3. ASSUME UNCHANGED <<txn, pc, journal, budget>>
      PROVE  \E e : MovesBy(c, e)
    BY Zenon, <1>1, <1>3, RestMoves DEF SameButFlags
<1>4. CASE BeginTransaction(c)
  <2>1. CASE UNCHANGED <<txn, pc>>
      BY Zenon, <1>3, <1>4, <2>1 DEF BeginTransaction
  <2>2. CASE /\ ~txn[c].exists
             /\ txn' = [txn EXCEPT ![c] = [Absent(@.ts + 1) EXCEPT !.exists = TRUE]]
             /\ pc' = [pc EXCEPT ![c] = "logTxn"]
    <3>1. /\ txn'[c].exists /\ txn'[c].phase = "NotStarted" /\ txn'[c].ts = txn[c].ts + 1
          /\ pc'[c] = "logTxn" /\ journal'[c] = journal[c] /\ budget'[c] = budget[c]
        BY Zenon, <1>1, <1>4, <2>2 DEF BeginTransaction, Types, Absent
    <3>2. BudgetOK(txn'[c], pc'[c], budget'[c])
        BY Zenon, <3>1 DEF BudgetOK
    <3>3. Grows(txn[c], pc[c], journal[c], budget[c],
                txn'[c], pc'[c], journal'[c], budget'[c], NoPhase)
        BY <1>1, <3>1 DEF Grows, Commits, PastPrepare, Works, Transactions
    <3>4. ASSUME client.phase # "Begin" PROVE journal[c].phase = "NotStarted"
      <4>1. ~Awaits(ClientRequest(c, "Begin", 0))
          BY Zenon, <3>4 DEF Awaits, ClientRequest, ToTransactionPhase
      <4>2. txn[c].ts = 0
          BY Zenon, <1>4, <4>1 DEF BeginTransaction
      <4> QED
          BY <1>1, <4>2 DEF CoordinatorOK, RecordOK, JournalOK
    <3> QED
        BY Zenon, <3>2, <3>3, <3>4 DEF MovesBy, Keeps, Prepared, Holds
  <2> QED
      BY Zenon, <1>4, <2>1, <2>2 DEF BeginTransaction
<1>5. CASE OnLogTransactionCallback(c)
  <2>1. pc[c] = "logTxn" /\ txn[c].phase = "NotStarted" /\ txn[c].exists
      BY Zenon, <1>1, <1>5 DEF OnLogTransactionCallback, CoordinatorOK, ProgressOK
  <2>2. /\ txn'[c].exists /\ txn'[c].phase = "Begin" /\ txn'[c].ts = txn[c].ts + 1
        /\ pc'[c] = "idle" /\ budget'[c] = budget[c] /\ journal'[c].phase = "NotStarted"
      BY Zenon, <1>1, <1>5, <2>1 DEF OnLogTransactionCallback, Types, Transactions, NextPhase,
         NextPhaseOnSuccess, SerializeTransaction, NoJournal
  <2>3. BudgetOK(txn'[c], pc'[c], budget'[c])
      BY Zenon, <2>2 DEF BudgetOK
  <2>4. Keeps(txn[c], pc[c], journal[c], budget[c],
              txn'[c], pc'[c], journal'[c], budget'[c], NoPhase)
      BY <1>1, <2>1, <2>2 DEF Keeps, Grows, Commits, PastPrepare, Prepared, Holds, Works,
         Transactions
  <2> QED
      BY Zenon, <2>3, <2>4 DEF MovesBy, Keeps
<1>6. ASSUME NEW r \in clientReq \cup peerReq, ExecutePhase(c, r)
      PROVE  \E e : MovesBy(c, e)
  <2>1. r \in Requests
      BY Zenon, <1>1 DEF Types
  <2>2. Enters(c, r.phase)
      BY Zenon, <1>6 DEF ExecutePhase, Enters, Arrived, ClientReaches, Sent, Resting, TimestampMatches
  <2> QED
      BY Zenon, <1>6, <2>1, <2>2, StartMoves DEF ExecutePhase
<1>7. ASSUME NEW r, RefusePhase(c, r)
      PROVE  \E e : MovesBy(c, e)
    BY Zenon, <1>3, <1>7 DEF RefusePhase, coordVars
<1>8. CASE OnLogStateCallback(c)
  <2>1. /\ txn'[c] = txn[c] /\ pc[c] = "log" /\ pc'[c] = "exec"
        /\ journal'[c] = SerializeState(txn[c]) /\ budget'[c] = budget[c]
      BY Zenon, <1>1, <1>8 DEF OnLogStateCallback, Types
  <2> QED
      BY Zenon, <1>1, <2>1, LoggedMove DEF MovesBy, Keeps
<1>9. CASE ExecuteDistributedPhase(c)
  <2>1. PICK o \in CommandOutcomes(txn[c].phase, budget[c]) :
           /\ budget' = [budget EXCEPT ![c] = o[2]]
           /\ txn' = [txn EXCEPT ![c].phaseFailed = (o[1] = "Failure")]
      BY Zenon, <1>9 DEF ExecuteDistributedPhase
  <2>2. /\ pc[c] = "exec" /\ pc'[c] = "proceed" /\ journal'[c] = journal[c]
        /\ budget'[c] = o[2] /\ txn'[c] = [txn[c] EXCEPT !.phaseFailed = (o[1] = "Failure")]
      BY Zenon, <1>1, <1>9, <2>1 DEF ExecuteDistributedPhase, Types
  <2>3. Commits(txn[c], "exec", journal[c], budget[c])
          => Holds(txn[c], "exec", journal[c], budget[c])
      BY Zenon, <1>1, <2>2 DEF CommitsAt, HoldsAt
  <2>4. /\ BudgetOK(txn'[c], "proceed", o[2])
        /\ Keeps(txn[c], "exec", journal[c], budget[c],
                 txn'[c], "proceed", journal[c], o[2], NoPhase)
      BY <1>1, <1>2, <2>2, <2>3, RanMove
  <2>5. MovesBy(c, NoPhase)
      BY Zenon, <2>2, <2>4 DEF MovesBy, Keeps
  <2> QED
      BY Zenon, <2>5
<1>10. CASE ProceedToNextPhase(c)
  <2>1. txn' = [txn EXCEPT ![c] = Proceeded(txn[c])]
      BY Zenon, <1>1, <1>10, ProceedValue
  <2>2. /\ txn'[c] = Proceeded(txn[c]) /\ pc[c] = "proceed" /\ pc'[c] = "idle"
        /\ journal'[c] = journal[c] /\ budget'[c] = budget[c] /\ txn[c].phase # "End"
      BY Zenon, <1>1, <1>10, <2>1 DEF ProceedToNextPhase, Types, UnlockRemotelyCoordinatedTransaction
  <2> QED
      BY Zenon, <1>1, <2>2, ProceededMove DEF MovesBy, Keeps
<1>11. CASE FinishEnd(c)
  <2>1. /\ txn'[c] = Absent(txn[c].ts + 1) /\ pc'[c] = "idle"
        /\ journal'[c] = journal[c] /\ budget'[c] = budget[c]
        /\ txn[c].ts + 1 \in Nat /\ txn[c].ts + 1 >= txn[c].ts
      BY <1>1, <1>11 DEF FinishEnd, Types, Transactions
  <2>2. /\ BudgetOK(txn'[c], pc'[c], budget'[c])
        /\ Keeps(txn[c], pc[c], journal[c], budget[c],
                 txn'[c], pc'[c], journal'[c], budget'[c], NoPhase)
      BY Zenon, <1>1, <2>1, AbsentMove
  <2>3. MovesBy(c, NoPhase)
      BY Zenon, <2>2 DEF MovesBy, Keeps
  <2> QED
      BY Zenon, <2>3
<1> QED
    BY Zenon, <1>4, <1>5, <1>6, <1>7, <1>8, <1>9, <1>10, <1>11 DEF CoordinatorStep

\* The resolution of an expired transaction moves its coordinator alone.
LEMMA ResolutionMoves ==
    ASSUME AgreementInv, NEW c \in Coordinators, ResolutionStep(c)
    PROVE  \E e : MovesBy(c, e)
<1>1. /\ Types /\ txn[c] \in Transactions /\ view[c] \in Views
      /\ txn[c].blocked \in BOOLEAN /\ view[c].phase \in ExecutionPhases
      /\ txn[c].phase \in Phases /\ CoordinatorOK(txn[c], pc[c], journal[c])
    BY Zenon, ValuesInRange DEF Transactions, Views
<1>2. Resting(pc[c]) /\ pc[c] # "idle" => txn[c].exists
    BY Zenon, <1>1 DEF CoordinatorOK, ProgressOK, Resting
<1>3. ASSUME Resting(pc[c]), Resting(pc'[c]), UNCHANGED <<txn, journal, budget>>
      PROVE  \E e : MovesBy(c, e)
    BY Zenon, <1>1, <1>3, RestMoves DEF SameButFlags
<1>4. CASE Expire(c)
  <2>1. txn'[c] = [txn[c] EXCEPT !.expired = TRUE] /\ UNCHANGED <<pc, journal, budget>>
      BY Zenon, <1>1, <1>4 DEF Expire, Types
  <2>2. txn'[c] \in Transactions /\ SameButFlags(txn[c], txn'[c])
      BY Zenon, <1>1, <2>1, FlagUpdates
  <2> QED
      BY Zenon, <2>1, <2>2, RestMoves
<1>5. CASE ResolveTransaction(c)
    BY Zenon, <1>1, <1>3, <1>5 DEF ResolveTransaction, Types, Resting
<1>6. CASE GetTransactionStatus(c)
    BY Zenon, <1>1, <1>3, <1>6 DEF GetTransactionStatus, Types, Resting
<1>7. CASE GetTransactionStatusFails(c)
    BY Zenon, <1>1, <1>7, OwnMoves DEF GetTransactionStatusFails, Resting
<1>8. CASE OnRemoteTransactionNotFound(c)
  <2>1. /\ Resting(pc[c]) /\ txn[c].exists /\ UNCHANGED <<journal, budget>>
        /\ ExecuteOwn(c, "End") \/ Release(c, TRUE)
      BY Zenon, <1>2, <1>8 DEF OnRemoteTransactionNotFound, Resting
  <2>2. "End" \in ExecutionPhases /\ (PhaseAllowed(c, "End") => Enters(c, "End"))
      BY Zenon, <2>1 DEF ExecutionPhases, Enters
  <2> QED
      BY Zenon, <2>1, <2>2, OwnMoves
<1>9. CASE OnGetRemoteTransactionStatusCallback(c)
  <2> DEFINE e == RollForwardPhase(txn[c].phase, view[c].phase, view[c].failed)
  <2>1. e \in ExecutionPhases
      BY Zenon, <1>1, PhaseConversions DEF RollForwardPhase, ExecutionPhases
  <2>2. Resting(pc[c]) /\ txn[c].exists /\ UNCHANGED <<journal, budget>>
      BY Zenon, <1>2, <1>9 DEF OnGetRemoteTransactionStatusCallback, Resting
  <2>3. \/ Release(c, txn[c].blocked) \/ Release(c, TRUE)
        \/ /\ ExecuteOwn(c, e) /\ view[c].kind = "found"
           /\ LocalAndRemoteTransactionsInSync(txn[c].phase, ToTransactionPhase(view[c].phase))
           /\ Ahead(ToTransactionPhase(view[c].phase), txn[c].phase)
      BY Zenon, <1>9 DEF OnGetRemoteTransactionStatusCallback
  <2>4. \/ \E b \in BOOLEAN : Release(c, b)
        \/ ExecuteOwn(c, e) /\ (PhaseAllowed(c, e) => Enters(c, e))
      BY Zenon, <1>1, <2>2, <2>3 DEF Enters
  <2> HIDE DEF e
  <2> QED
      BY Zenon, <2>1, <2>2, <2>4, OwnMoves
<1>10. CASE RollForwardLocalAndRemoteTransactions(c)
    BY Zenon, <1>1, <1>3, <1>10 DEF RollForwardLocalAndRemoteTransactions, Types, Resting
<1>11. CASE OnRollForwardRemoteTransactionCallback(c)
  <2>1. /\ Resting(pc[c]) /\ txn[c].exists /\ UNCHANGED <<journal, budget>>
        /\ \/ view[c].kind = "rolled" /\ ExecuteOwn(c, view[c].phase)
           \/ Release(c, txn[c].blocked)
      BY Zenon, <1>2, <1>11 DEF OnRollForwardRemoteTransactionCallback, Resting
  <2>2. view[c].kind = "rolled" /\ PhaseAllowed(c, view[c].phase) => Enters(c, view[c].phase)
      BY Zenon, <2>1 DEF Enters
  <2> QED
      BY Zenon, <1>1, <2>1, <2>2, OwnMoves
<1> QED
    BY Zenon, <1>4, <1>5, <1>6, <1>7, <1>8, <1>9, <1>10, <1>11 DEF ResolutionStep

\* So do a crash and the recovery from it.
LEMMA CrashMoves ==
    ASSUME AgreementInv, NEW c \in Coordinators, Crash(c) \/ Recover(c)
    PROVE  \E e : MovesBy(c, e)
<1>1. /\ Types /\ txn[c] \in Transactions /\ journal[c] \in Journals /\ budget[c] \in Budgets
      /\ CoordinatorOK(txn[c], pc[c], journal[c])
    BY Zenon, ValuesInRange
<1>2. CASE Crash(c)
  <2>1. /\ txn'[c] = Absent(txn[c].ts) /\ pc'[c] = "down" /\ journal'[c] = journal[c]
        /\ budget'[c] = budget[c] /\ txn[c].ts \in Nat /\ txn[c].ts >= txn[c].ts
      BY <1>1, <1>2 DEF Crash, Types, Transactions
  <2>2. /\ BudgetOK(txn'[c], pc'[c], budget'[c])
        /\ Keeps(txn[c], pc[c], journal[c], budget[c],
                 txn'[c], pc'[c], journal'[c], budget'[c], NoPhase)
      BY Zenon, <1>1, <2>1, AbsentMove
  <2>3. MovesBy(c, NoPhase)
      BY Zenon, <2>2 DEF MovesBy, Keeps
  <2> QED
      BY Zenon, <2>3
<1>3. CASE Recover(c)
  <2>1. /\ pc[c] = "down" /\ journal'[c] = journal[c] /\ budget'[c] = budget[c]
        /\ journal[c].logged /\ journal[c].phase # "End" =>
             /\ txn'[c] = RecoveredTransaction(journal[c], txn[c].ts + 1)
             /\ pc'[c] = ResumeAt(journal[c])
        /\ ~(journal[c].logged /\ journal[c].phase # "End") =>
             txn'[c] = txn[c] /\ pc'[c] = "idle"
      BY Zenon, <1>1, <1>3 DEF Recover, Types
  <2>2. /\ BudgetOK(txn'[c], pc'[c], budget'[c])
        /\ Keeps(txn[c], pc[c], journal[c], budget[c],
                 txn'[c], pc'[c], journal'[c], budget'[c], NoPhase)
      BY Zenon, <1>1, <2>1, RecoveredMove
  <2>3. MovesBy(c, NoPhase)
      BY Zenon, <2>2 DEF MovesBy, Keeps
  <2> QED
      BY Zenon, <2>3
<1> QED
    BY Zenon, <1>2, <1>3

\* Following the peer: what the phase a coordinator enters tells of the peer.
LEMMA FollowedPeer ==
    ASSUME NEW local \in Phases, NEW exec \in ExecutionPhases, NEW failed \in BOOLEAN,
           LocalAndRemoteTransactionsInSync(local, ToTransactionPhase(exec)),
           Ahead(ToTransactionPhase(exec), local)
    PROVE  LET e == RollForwardPhase(local, exec, failed)
           IN  /\ e = "Notify" => local = "CommitNotify" /\ exec = "End" /\ ~failed
               /\ e = "Commit" => exec = "Notify"
               /\ e = "Abort" => local = "AbortNotify" \/ exec = "Abort"
                                   \/ (exec = "End" /\ failed)
<1> DEFINE e == RollForwardPhase(local, exec, failed)
<1>1. /\ e = "Notify" => local = "CommitNotify" /\ exec # "Abort" /\ ~(exec = "End" /\ failed)
      /\ e = "Commit" => local = "Commit" /\ exec # "Abort" /\ ~(exec = "End" /\ failed)
      /\ e = "Abort" => local = "AbortNotify" \/ exec = "Abort" \/ (exec = "End" /\ failed)
    BY Zenon, PhaseTable DEF RollForwardPhase, ToTransactionExecutionPhase
<1>2. local = "CommitNotify" /\ exec # "Abort" => exec = "End"
    BY RankTable DEF Ahead, LocalAndRemoteTransactionsInSync, ToTransactionPhase, ExecutionPhases
<1>3. local = "Commit" /\ exec # "Abort" => exec = "Notify"
    BY RankTable DEF Ahead, LocalAndRemoteTransactionsInSync, ToTransactionPhase, ExecutionPhases
<1> QED
    BY Zenon, <1>1, <1>2, <1>3

\* Nobody notifies unless it was armed, or commits unless Commit was sent; and
\* nothing makes a bound coordinator abort.
LEMMA EntersOnlyIf ==
    ASSUME AgreementInv, NEW c \in Coordinators
    PROVE  /\ Enters(c, "Notify") => Armed
           /\ Enters(c, "Commit") => Sent("Commit")
           /\ Bound(c) /\ ~Sent("Abort") => ~Enters(c, "Abort")
<1>1. /\ txn[c].phase \in Phases /\ view[c].phase \in ExecutionPhases /\ view[c].failed \in BOOLEAN
    BY Zenon, ValuesInRange DEF Transactions, Views
<1>2. /\ ViewOK(c) /\ PeerReqOK /\ TimeoutOK
    BY Zenon DEF AgreementInv
<1> DEFINE Follows(e) ==
             /\ view[c].kind = "found"
             /\ LocalAndRemoteTransactionsInSync(txn[c].phase, ToTransactionPhase(view[c].phase))
             /\ Ahead(ToTransactionPhase(view[c].phase), txn[c].phase)
             /\ e = RollForwardPhase(txn[c].phase, view[c].phase, view[c].failed)
<1>3. \A e : Enters(c, e) =>
         /\ txn[c].exists /\ Resting(pc[c]) /\ PhaseAllowed(c, e)
         /\ \/ ~timedOut /\ Sent(e)
            \/ \E r \in peerReq : r.to = c /\ r.phase = e /\ r.ts = txn[c].ts
            \/ e = "End"
            \/ Follows(e)
            \/ view[c].kind = "rolled" /\ e = view[c].phase
    BY Zenon DEF Enters
<1>4. /\ Follows("Notify") => /\ txn[c].phase = "CommitNotify" /\ view[c].kind = "found"
                              /\ view[c].phase = "End" /\ ~view[c].failed
      /\ Follows("Commit") => view[c].kind = "found" /\ view[c].phase = "Notify"
      /\ Follows("Abort") => /\ view[c].kind = "found"
                             /\ txn[c].phase = "AbortNotify" \/ view[c].phase = "Abort"
                                  \/ (view[c].phase = "End" /\ view[c].failed)
    BY <1>1, FollowedPeer
<1> HIDE DEF Follows
<1>5. \A r \in peerReq : r.phase \in {"Abort", "End"}
    BY Zenon, <1>2 DEF PeerReqOK
<1>6. view[c].kind = "rolled" => view[c].phase \in {"Abort", "End"}
    BY Zenon, <1>2 DEF ViewOK
<1>7. ASSUME Enters(c, "Notify") PROVE Armed
  <2>1. CASE ~timedOut /\ Sent("Notify")
      BY Zenon, <2>1 DEF Armed
  <2>2. CASE Follows("Notify")
    <3>1. budget[Peer(c)] = "spent"
        BY Zenon, <1>2, <1>4, <2>2 DEF ViewOK
    <3> QED
        BY Zenon, <3>1, Peers DEF Armed, CommitsAt, Commits
  <2> QED
      BY <1>3, <1>5, <1>6, <1>7, <2>1, <2>2
<1>8. ASSUME Enters(c, "Commit") PROVE Sent("Commit")
  <2>1. Follows("Commit") => Sent("Commit")
      BY Zenon, <1>2, <1>4 DEF ViewOK
  <2> QED
      BY <1>3, <1>5, <1>6, <1>8, <2>1
<1>9. ASSUME Enters(c, "Abort"), Bound(c), ~Sent("Abort") PROVE FALSE
  <2>1. ~Works(pc[c]) /\ txn[c].exists /\ txn[c].phase # "AbortNotify"
      BY Zenon, <1>3, <1>9 DEF Resting, Works, Bound, HoldsAt, Holds
  <2> QED
      BY Zenon, <1>3, <1>4, <1>9, <2>1 DEF Bound
<1> QED
    BY Zenon, <1>7, <1>8, <1>9

-----------------------------------------------------------------------------
(* What a step of a coordinator does to the rest of the state.              *)

CStep(c) == CoordinatorStep(c) \/ ResolutionStep(c) \/ Crash(c) \/ Recover(c)

\* The client takes no part, and hears at most that a Begin was sent for it.
LEMMA ClientApart ==
    ASSUME NEW c \in Coordinators, CStep(c), ClientOK
    PROVE  /\ UNCHANGED <<client, timedOut>>
           /\ \A e : e # "Begin" => (Sent(e)' <=> Sent(e))
           /\ ClientOK'
<1>1. ASSUME UNCHANGED <<client, timedOut>>,
             clientReq' = clientReq
               \/ \E n : clientReq' = clientReq \cup {ClientRequest(c, "Begin", n)}
      PROVE  /\ UNCHANGED <<client, timedOut>>
             /\ \A e : e # "Begin" => (Sent(e)' <=> Sent(e))
             /\ ClientOK'
  <2>1. \A e : e # "Begin" => (Sent(e)' <=> Sent(e))
      BY <1>1 DEF Sent, ClientRequest
  <2>2. \A r \in clientReq' : r.from = "client"
      BY <1>1 DEF ClientOK, ClientRequest
  <2>3. /\ (Sent("Notify")' <=> Sent("Notify")) /\ (Sent("Abort")' <=> Sent("Abort"))
        /\ (Sent("Commit")' <=> Sent("Commit"))
      BY Zenon, <2>1
  <2> HIDE DEF Sent
  <2> QED
      BY Zenon, <1>1, <2>1, <2>2, <2>3 DEF ClientOK
<1>2. ASSUME CoordinatorStep(c)
      PROVE  /\ UNCHANGED <<client, timedOut>>
             /\ clientReq' = clientReq
                  \/ \E n : clientReq' = clientReq \cup {ClientRequest(c, "Begin", n)}
    BY Zenon, <1>2 DEF CoordinatorStep, BeginTransaction, OnLogTransactionCallback, ExecutePhase,
       RefusePhase, OnLogStateCallback, ExecuteDistributedPhase, ProceedToNextPhase, FinishEnd,
       clientVars
<1>3. ASSUME ResolutionStep(c)
      PROVE  UNCHANGED <<client, timedOut, clientReq>>
    BY Zenon, <1>3 DEF ResolutionStep, Expire, ResolveTransaction, GetTransactionStatus,
       GetTransactionStatusFails, OnRemoteTransactionNotFound,
       OnGetRemoteTransactionStatusCallback, RollForwardLocalAndRemoteTransactions,
       OnRollForwardRemoteTransactionCallback, clientVars
<1>4. ASSUME Crash(c) \/ Recover(c)
      PROVE  UNCHANGED <<client, timedOut, clientReq>>
    BY Zenon, <1>4 DEF Crash, Recover, clientVars
<1> QED
    BY Zenon, <1>1, <1>2, <1>3, <1>4 DEF CStep

\* The coordinator answers the client's request for the phase it has executed.
Answers(c) ==
    /\ ProceedToNextPhase(c) \/ FinishEnd(c)
    /\ ~txn[c].phaseFailed /\ Awaits(req[c])

\* A command of the client succeeds only by such an answer.
LEMMA OkIsAnswered ==
    ASSUME LocalInv, NEW c \in Coordinators, CStep(c), NEW x \in Coordinators,
           cmd'[x].state = "ok", cmd[x].state # "ok"
    PROVE  x = c /\ Answers(c)
<1>1. ASSUME NEW ok, NEW n, Answer(c, ok, n)
      PROVE  x = c /\ ok /\ Awaits(req[c])
  <2>1. cmd' # cmd
      BY Zenon
  <2>2. /\ Awaits(req[c])
        /\ cmd' = [cmd EXCEPT ![c] = IF ok THEN [state |-> "ok", ts |-> n]
                                     ELSE [@ EXCEPT !.state = "failed"]]
      BY Zenon, <1>1, <2>1 DEF Answer
  <2> QED
      BY <2>2 DEF LocalInv, Types, Commands
<1>2. CASE ProceedToNextPhase(c)
    BY Zenon, <1>1, <1>2 DEF ProceedToNextPhase, Answers
<1>3. CASE FinishEnd(c)
  <2>1. x = c /\ Awaits(req[c])
      BY Zenon, <1>1, <1>3 DEF FinishEnd
  <2>2. ~txn[c].phaseFailed
      BY Zenon, <1>3 DEF FinishEnd, LocalInv, CoordinatorOK, FailureOK
  <2> QED
      BY Zenon, <1>3, <2>1, <2>2 DEF Answers
<1>4. ASSUME \/ BeginTransaction(c) \/ \E r : RefusePhase(c, r)
      PROVE  FALSE
    BY <1>4 DEF BeginTransaction, RefusePhase, LocalInv, Types, Commands
<1>5. ASSUME \/ OnLogTransactionCallback(c) \/ OnLogStateCallback(c)
             \/ ExecuteDistributedPhase(c) \/ \E r : ExecutePhase(c, r)
      PROVE  FALSE
    BY Zenon, <1>5 DEF OnLogTransactionCallback, ExecutePhase, OnLogStateCallback,
       ExecuteDistributedPhase, clientVars
<1>6. ASSUME ResolutionStep(c) \/ Crash(c) \/ Recover(c) PROVE FALSE
    BY <1>6 DEF ResolutionStep, Expire, ResolveTransaction, GetTransactionStatus,
       GetTransactionStatusFails, OnRemoteTransactionNotFound,
       OnGetRemoteTransactionStatusCallback, RollForwardLocalAndRemoteTransactions,
       OnRollForwardRemoteTransactionCallback, Crash, Recover, clientVars
<1> QED
    BY Zenon, <1>2, <1>3, <1>4, <1>5, <1>6 DEF CStep, CoordinatorStep

\* The request in execution stays the one of the phase in execution.
LEMMA RequestKeeps ==
    ASSUME AgreementInv, NEW c \in Coordinators, CStep(c)
    PROVE  RequestOK(c)'
<1>1. /\ Types /\ txn[c] \in Transactions /\ req[c] \in Requests /\ RequestOK(c)
      /\ view[c].phase \in ExecutionPhases /\ txn[c].phase \in Phases
      /\ CoordinatorOK(txn[c], pc[c], journal[c])
    BY Zenon, ValuesInRange DEF AgreementInv, Types, Transactions, Views
<1>2. ASSUME NEW r \in Requests, r.to = c, StartPhase(c, r), PhaseAllowed(c, r.phase),
             r.from = "peer" => r.phase \in {"Abort", "End"}
      PROVE  RequestOK(c)'
  <2>1. txn' = [txn EXCEPT ![c] = Entered(txn[c], r.phase)]
      BY Zenon, <1>1, <1>2, StartPhaseValue
  <2>2. txn'[c] = Entered(txn[c], r.phase) /\ req'[c] = r
      BY Zenon, <1>1, <1>2, <2>1 DEF StartPhase, Types
  <2>3. Entered(txn[c], r.phase).phase = ToTransactionPhase(r.phase)
      BY Zenon, <1>1, <1>2 DEF Entered, PhaseAllowed, ToTransactionPhase, ExecutionPhases, Requests,
         Transactions
  <2> QED
      BY Zenon, <1>2, <2>2, <2>3 DEF RequestOK
<1>3. ASSUME req'[c] = req[c], ~Works(pc'[c]) PROVE RequestOK(c)'
    BY Zenon, <1>1, <1>3 DEF RequestOK
<1>4. ASSUME NEW b, Release(c, b) PROVE RequestOK(c)'
    BY Zenon, <1>1, <1>3, <1>4 DEF Release, Types, Works
<1>5. ASSUME NEW e \in ExecutionPhases, ExecuteOwn(c, e) PROVE RequestOK(c)'
  <2>1. CASE Release(c, txn[c].blocked)
      BY Zenon, <1>4, <2>1
  <2>2. CASE /\ PhaseAllowed(c, e)
             /\ StartPhase(c, [to |-> c, phase |-> e, ts |-> txn[c].ts, from |-> "self"])
             /\ [to |-> c, phase |-> e, ts |-> txn[c].ts, from |-> "self"] \in Requests
      BY Zenon, <1>2, <2>2
  <2> QED
      BY Zenon, <1>1, <1>5, <2>1, <2>2, ExecuteOwnValue
<1>6. CASE BeginTransaction(c)
  <2>1. req'[c] = req[c] /\ (pc'[c] = "logTxn" \/ UNCHANGED <<pc, txn>>)
      BY Zenon, <1>1, <1>6 DEF BeginTransaction, Types
  <2> QED
      BY Zenon, <1>1, <1>3, <2>1 DEF RequestOK, Works
<1>7. CASE OnLogTransactionCallback(c)
    BY Zenon, <1>1, <1>3, <1>7 DEF OnLogTransactionCallback, Types, Works
<1>8. ASSUME NEW r \in clientReq \cup peerReq, ExecutePhase(c, r) PROVE RequestOK(c)'
  <2>1. r \in Requests /\ r.to = c
      BY Zenon, <1>1, <1>8 DEF Types, ExecutePhase, Arrived
  <2>2. r.from = "peer" => r.phase \in {"Abort", "End"}
      BY Zenon DEF AgreementInv, ClientOK, PeerReqOK
  <2> QED
      BY Zenon, <1>2, <1>8, <2>1, <2>2 DEF ExecutePhase
<1>9. ASSUME NEW r, RefusePhase(c, r) PROVE RequestOK(c)'
    BY Zenon, <1>1, <1>9 DEF RefusePhase, coordVars, RequestOK
<1>10. CASE OnLogStateCallback(c)
    BY Zenon, <1>1, <1>10 DEF OnLogStateCallback, Types, RequestOK, Works
<1>11. CASE ExecuteDistributedPhase(c)
  <2>1. /\ req'[c] = req[c] /\ pc[c] = "exec" /\ txn'[c].phase = txn[c].phase
      BY <1>1, <1>11 DEF ExecuteDistributedPhase, Types, Transactions
  <2> QED
      BY <1>1, <2>1 DEF RequestOK, Works
<1>12. CASE ProceedToNextPhase(c) \/ FinishEnd(c)
    BY Zenon, <1>1, <1>3, <1>12 DEF ProceedToNextPhase, FinishEnd, Types, Works,
       UnlockRemotelyCoordinatedTransaction
<1>13. CASE Expire(c)
  <2>1. req'[c] = req[c] /\ pc' = pc /\ txn'[c].phase = txn[c].phase
      BY Zenon, <1>1, <1>13 DEF Expire, Types, Transactions
  <2> QED
      BY Zenon, <1>1, <2>1 DEF RequestOK
<1>14. CASE ResolveTransaction(c) \/ GetTransactionStatus(c)
              \/ RollForwardLocalAndRemoteTransactions(c)
    BY Zenon, <1>1, <1>3, <1>14 DEF ResolveTransaction, GetTransactionStatus, Types, Works,
       RollForwardLocalAndRemoteTransactions
<1>15. CASE GetTransactionStatusFails(c) \/ OnRemoteTransactionNotFound(c)
              \/ OnRollForwardRemoteTransactionCallback(c)
    BY Zenon, <1>1, <1>4, <1>5, <1>15 DEF GetTransactionStatusFails, OnRemoteTransactionNotFound,
       OnRollForwardRemoteTransactionCallback, ExecutionPhases
<1>16. CASE OnGetRemoteTransactionStatusCallback(c)
  <2>1. RollForwardPhase(txn[c].phase, view[c].phase, view[c].failed) \in ExecutionPhases
      BY Zenon, <1>1, PhaseConversions DEF RollForwardPhase, ExecutionPhases
  <2> QED
      BY Zenon, <1>4, <1>5, <1>16, <2>1 DEF OnGetRemoteTransactionStatusCallback
<1>17. CASE Crash(c)
    BY Zenon, <1>1, <1>17 DEF Crash, Types, NoReq, RequestOK, Works
<1>18. CASE Recover(c)
  <2>1. CASE UNCHANGED req /\ pc'[c] = "idle"
      BY Zenon, <1>3, <2>1 DEF Works
  <2>2. CASE req' = [req EXCEPT ![c].from = "recovery"]
      BY Zenon, <1>1, <2>2 DEF RequestOK, Types, Requests
  <2> QED
      BY Zenon, <1>1, <1>18, <2>1, <2>2 DEF Recover, Types
<1> QED
    BY <1>6, <1>7, <1>8, <1>9, <1>10, <1>11, <1>12, <1>13, <1>14, <1>15, <1>16, <1>17, <1>18
       DEF CStep, CoordinatorStep, ResolutionStep

\* Nothing is resolved before the timeout, and peers are not asked.
LEMMA NoResolutionYet ==
    ASSUME AgreementInv, NEW c \in Coordinators, ~timedOut
    PROVE  ~ResolutionStep(c)
<1>1. pc[c] \notin {"status", "gotStatus", "rollRemote"} /\ ~txn[c].expired
    BY Zenon DEF AgreementInv, TimeoutOK
<1> QED
    BY Zenon, <1>1 DEF ResolutionStep, Expire, ResolveTransaction, GetTransactionStatus,
       GetTransactionStatusFails, OnRemoteTransactionNotFound,
       OnGetRemoteTransactionStatusCallback, RollForwardLocalAndRemoteTransactions,
       OnRollForwardRemoteTransactionCallback

\* peerReq grows only when a coordinator asks its peer.
LEMMA PeerRequests ==
    ASSUME NEW c \in Coordinators, CStep(c)
    PROVE  peerReq' = peerReq \/ RollForwardLocalAndRemoteTransactions(c)
<1>1. ASSUME CoordinatorStep(c) PROVE peerReq' = peerReq
    BY Zenon, <1>1 DEF CoordinatorStep, BeginTransaction, OnLogTransactionCallback, ExecutePhase,
       RefusePhase, OnLogStateCallback, ExecuteDistributedPhase, ProceedToNextPhase, FinishEnd,
       coordVars
<1>2. ASSUME ResolutionStep(c), ~RollForwardLocalAndRemoteTransactions(c)
      PROVE  peerReq' = peerReq
    BY Zenon, <1>2 DEF ResolutionStep, Expire, ResolveTransaction, GetTransactionStatus,
       GetTransactionStatusFails, OnRemoteTransactionNotFound,
       OnGetRemoteTransactionStatusCallback, OnRollForwardRemoteTransactionCallback
<1> QED
    BY Zenon, <1>1, <1>2 DEF CStep, Crash, Recover

\* No coordinator resolves anything before the timeout.
LEMMA TimeoutKeeps ==
    ASSUME AgreementInv, NEW c \in Coordinators, CStep(c)
    PROVE  TimeoutOK'
<1> SUFFICES ASSUME ~timedOut'
             PROVE  /\ peerReq' = {}
                    /\ \A x \in Coordinators :
                         /\ pc'[x] \notin {"status", "gotStatus", "rollRemote"}
                         /\ ~txn'[x].expired
    BY Zenon DEF TimeoutOK
<1>1. ~timedOut /\ ~ResolutionStep(c)
    BY ClientApart, NoResolutionYet DEF AgreementInv
<1>2. peerReq' = {}
    BY Zenon, <1>1, PeerRequests DEF AgreementInv, TimeoutOK, ResolutionStep
<1>3. /\ Types /\ txn[c] \in Transactions /\ journal[c] \in Journals
      /\ pc[c] \notin {"status", "gotStatus", "rollRemote"} /\ ~txn[c].expired
    BY Zenon, <1>1, ValuesInRange DEF AgreementInv, TimeoutOK
<1>4. pc'[c] \notin {"status", "gotStatus", "rollRemote"} /\ ~txn'[c].expired
  <2>1. CASE BeginTransaction(c)
      BY <1>3, <2>1 DEF BeginTransaction, Types, Absent
  <2>2. CASE OnLogTransactionCallback(c)
      BY Zenon, <1>3, <2>2 DEF OnLogTransactionCallback, Types, Transactions
  <2>3. ASSUME NEW r \in clientReq \cup peerReq, ExecutePhase(c, r)
        PROVE  pc'[c] \notin {"status", "gotStatus", "rollRemote"} /\ ~txn'[c].expired
    <3>1. r \in Requests /\ StartPhase(c, r)
        BY Zenon, <1>3, <2>3 DEF Types, ExecutePhase
    <3>2. txn' = [txn EXCEPT ![c] = Entered(txn[c], r.phase)]
        BY Zenon, <1>3, <3>1, StartPhaseValue
    <3>3. Entered(txn[c], r.phase).expired = txn[c].expired
        BY Zenon, <1>3 DEF Entered, Transactions
    <3> QED
        BY Zenon, <1>3, <3>1, <3>2, <3>3 DEF StartPhase, Types
  <2>4. ASSUME NEW r, RefusePhase(c, r)
        PROVE  pc'[c] \notin {"status", "gotStatus", "rollRemote"} /\ ~txn'[c].expired
      BY Zenon, <1>3, <2>4 DEF RefusePhase, coordVars
  <2>5. CASE OnLogStateCallback(c)
      BY Zenon, <1>3, <2>5 DEF OnLogStateCallback, Types
  <2>6. CASE ExecuteDistributedPhase(c)
      BY <1>3, <2>6 DEF ExecuteDistributedPhase, Types, Transactions
  <2>7. CASE ProceedToNextPhase(c)
      BY Zenon, <1>3, <2>7 DEF ProceedToNextPhase, UnlockRemotelyCoordinatedTransaction, Types,
         Transactions
  <2>8. CASE FinishEnd(c)
      BY Zenon, <1>3, <2>8 DEF FinishEnd, Types, Absent
  <2>9. CASE Crash(c)
      BY Zenon, <1>3, <2>9 DEF Crash, Types, Absent
  <2>10. CASE Recover(c)
    <3>1. CASE journal[c].logged /\ journal[c].phase # "End"
      <4>1. /\ txn'[c] = RecoveredTransaction(journal[c], txn[c].ts + 1)
            /\ pc'[c] = ResumeAt(journal[c])
          BY Zenon, <1>3, <2>10, <3>1 DEF Recover, Types
      <4>2. ~RecoveredTransaction(journal[c], txn[c].ts + 1).expired
          BY Zenon DEF RecoveredTransaction, Absent
      <4> QED
          BY Zenon, <4>1, <4>2 DEF ResumeAt
    <3>2. CASE ~(journal[c].logged /\ journal[c].phase # "End")
        BY <1>3, <2>10, <3>2 DEF Recover, Types
    <3> QED
        BY Zenon, <3>1, <3>2
  <2> QED
      BY <1>1, <2>1, <2>2, <2>3, <2>4, <2>5, <2>6, <2>7, <2>8, <2>9, <2>10
         DEF CStep, CoordinatorStep
<1>5. \A x \in Coordinators : x # c => pc'[x] = pc[x] /\ txn'[x] = txn[x]
    BY Zenon, <1>3, OneMoves DEF CStep, OthersKeep
<1> QED
    BY Zenon, <1>1, <1>2, <1>4, <1>5 DEF AgreementInv, TimeoutOK

\* Each step of a coordinator moves it.
LEMMA Moves ==
    ASSUME Faults \subseteq {"notifyFails"}, AgreementInv, NEW c \in Coordinators, CStep(c)
    PROVE  /\ OthersKeep(c) /\ Types'
           /\ \E e : MovesBy(c, e)
           /\ \A x \in Coordinators : txn'[x].ts >= txn[x].ts /\ txn[x].ts \in Nat
                                      /\ txn'[x].ts \in Nat
           /\ \A x \in Coordinators : budget[x] = "spent" => budget'[x] = "spent"
<1>1. Types
    BY Zenon DEF AgreementInv, LocalInv
<1>2. OthersKeep(c)
    BY Zenon, <1>1, OneMoves DEF CStep
<1>3. Types'
    BY Zenon, <1>1, CoordinatorTypes, ResolutionTypes, CrashTypes DEF CStep
<1>4. \E e : MovesBy(c, e)
    BY Zenon, CoordinatorMoves, ResolutionMoves, CrashMoves DEF CStep
<1>5. \A x \in Coordinators : txn[x].ts \in Nat /\ txn'[x].ts \in Nat
    BY Zenon, <1>1, <1>3 DEF Types, Transactions
<1>6. txn'[c].ts >= txn[c].ts /\ (budget[c] = "spent" => budget'[c] = "spent")
    BY Zenon, <1>4 DEF MovesBy, Grows
<1> QED
    BY <1>2, <1>3, <1>4, <1>5, <1>6 DEF OthersKeep


\* The timestamp identifies the phase: while it lasts, the transaction keeps its
\* phase or leaves it for the abort or, where that is allowed, for the end.
LEMMA PhaseChanges ==
    ASSUME AgreementInv, NEW c \in Coordinators, CStep(c),
           txn'[c].exists, txn'[c].ts = txn[c].ts
    PROVE  /\ txn[c].exists
           /\ \/ txn'[c].phase = txn[c].phase
              \/ txn'[c].phase = "AbortNotify"
              \/ txn'[c].phase = "End" /\ CanProceedToEndAtPhase(txn[c].phase)
<1> DEFINE Goal == /\ txn[c].exists
                   /\ \/ txn'[c].phase = txn[c].phase
                      \/ txn'[c].phase = "AbortNotify"
                      \/ txn'[c].phase = "End" /\ CanProceedToEndAtPhase(txn[c].phase)
<1>1. /\ Types /\ txn[c] \in Transactions /\ journal[c] \in Journals /\ txn[c].ts \in Nat
      /\ txn[c].ts + 1 # txn[c].ts /\ txn \in [Coordinators -> Transactions]
    BY ValuesInRange DEF Transactions, Types
<1>2. ASSUME SameButFlags(txn[c], txn'[c]) PROVE Goal
    BY Zenon, <1>2 DEF SameButFlags
<1>3. ASSUME NEW r \in Requests, StartPhase(c, r), PhaseAllowed(c, r.phase), txn[c].exists
      PROVE  Goal
  <2>1. txn' = [txn EXCEPT ![c] = Entered(txn[c], r.phase)]
      BY Zenon, <1>1, <1>3, StartPhaseValue
  <2>2. /\ txn'[c].phase = Entered(txn[c], r.phase).phase
      BY Zenon, <1>1, <2>1
  <2> QED
      BY Zenon, <1>1, <1>3, <2>2 DEF Entered, Transactions, PhaseAllowed
<1>4. ASSUME NEW b \in BOOLEAN, Release(c, b) PROVE Goal
  <2>1. txn'[c] = [txn[c] EXCEPT !.blocked = b]
      BY Zenon, <1>1, <1>4 DEF Release
  <2>2. SameButFlags(txn[c], txn'[c])
      BY Zenon, <1>1, <2>1, FlagUpdates
  <2> QED
      BY Zenon, <1>2, <2>2
<1>5. txn[c].blocked \in BOOLEAN
    BY Zenon, <1>1 DEF Transactions
<1>6. ASSUME NEW e \in ExecutionPhases, ExecuteOwn(c, e), txn[c].exists PROVE Goal
  <2> DEFINE r == [to |-> c, phase |-> e, ts |-> txn[c].ts, from |-> "self"]
  <2>1. r \in Requests /\ r.phase = e
      BY Zenon, <1>1 DEF Requests
  <2>2. \/ PhaseAllowed(c, e) /\ StartPhase(c, r)
        \/ Release(c, txn[c].blocked)
      BY Zenon, <1>6 DEF ExecuteOwn
  <2> HIDE DEF r
  <2> QED
      BY Zenon, <1>3, <1>4, <1>5, <1>6, <2>1, <2>2
<1>7. CoordinatorOK(txn[c], pc[c], journal[c]) /\ ViewOK(c)
    BY ValuesInRange DEF AgreementInv
<1>8. CASE CoordinatorStep(c)
  <2>1. CASE BeginTransaction(c)
      BY Zenon, <1>1, <2>1 DEF BeginTransaction, Absent
  <2>2. CASE OnLogTransactionCallback(c)
    <3>1. txn'[c].ts = txn[c].ts + 1
        BY Zenon, <1>1, <2>2 DEF OnLogTransactionCallback, Transactions
    <3> QED
        BY Zenon, <1>1, <3>1
  <2>3. ASSUME NEW r \in clientReq \cup peerReq, ExecutePhase(c, r) PROVE Goal
    <3>1. r \in Requests /\ StartPhase(c, r) /\ PhaseAllowed(c, r.phase) /\ txn[c].exists
        BY Zenon, <1>1, <2>3 DEF Types, ExecutePhase
    <3> QED
        BY Zenon, <1>3, <3>1
  <2>4. ASSUME NEW r, RefusePhase(c, r) \/ OnLogStateCallback(c) PROVE Goal
      BY Zenon, <2>4 DEF RefusePhase, OnLogStateCallback, coordVars
  <2>5. CASE ExecuteDistributedPhase(c)
      BY <1>1, <2>5 DEF ExecuteDistributedPhase, Transactions
  <2>6. CASE ProceedToNextPhase(c)
    <3>1. txn'[c].ts = txn[c].ts + 1
        BY Zenon, <1>1, <2>6 DEF ProceedToNextPhase, Transactions
    <3> QED
        BY Zenon, <1>1, <3>1
  <2>7. CASE FinishEnd(c)
      BY Zenon, <1>1, <2>7 DEF FinishEnd, Absent
  <2> QED
      BY <1>8, <2>1, <2>2, <2>3, <2>4, <2>5, <2>6, <2>7 DEF CoordinatorStep
<1>9. CASE ResolutionStep(c)
  <2>1. txn[c].exists
    <3>1. pc[c] \in {"status", "gotStatus", "rollRemote"} => txn[c].exists
        BY Zenon, <1>7 DEF CoordinatorOK, ProgressOK
    <3> QED
        BY Zenon, <1>9, <3>1 DEF ResolutionStep, Expire, ResolveTransaction, GetTransactionStatus,
           GetTransactionStatusFails, OnRemoteTransactionNotFound,
           OnGetRemoteTransactionStatusCallback, RollForwardLocalAndRemoteTransactions,
           OnRollForwardRemoteTransactionCallback
  <2>2. CASE Expire(c)
    <3>1. txn'[c] = [txn[c] EXCEPT !.expired = TRUE]
        BY Zenon, <1>1, <2>2 DEF Expire
    <3>2. SameButFlags(txn[c], txn'[c])
        BY Zenon, <1>1, <3>1, FlagUpdates
    <3> QED
        BY Zenon, <1>2, <3>2
  <2>3. CASE ResolveTransaction(c) \/ GetTransactionStatus(c)
               \/ RollForwardLocalAndRemoteTransactions(c)
      BY Zenon, <2>1, <2>3 DEF ResolveTransaction, GetTransactionStatus,
         RollForwardLocalAndRemoteTransactions
  <2>4. CASE GetTransactionStatusFails(c)
    <3>1. Release(c, txn[c].blocked)
        BY Zenon, <2>4 DEF GetTransactionStatusFails
    <3> QED
        BY Zenon, <3>1, <1>4, <1>5
  <2>5. CASE OnRemoteTransactionNotFound(c)
    <3>1. ExecuteOwn(c, "End") \/ Release(c, TRUE)
        BY Zenon, <2>5 DEF OnRemoteTransactionNotFound
    <3>2. "End" \in ExecutionPhases
        BY Zenon DEF ExecutionPhases
    <3> QED
        BY Zenon, <1>4, <1>6, <2>1, <3>1, <3>2
  <2>6. CASE OnGetRemoteTransactionStatusCallback(c)
    <3> DEFINE e == RollForwardPhase(txn[c].phase, view[c].phase, view[c].failed)
    <3>1. Release(c, txn[c].blocked) \/ Release(c, TRUE) \/ ExecuteOwn(c, e)
        BY Zenon, <2>6 DEF OnGetRemoteTransactionStatusCallback
    <3>2. e \in ExecutionPhases
        BY Zenon, <1>1, PhaseConversions DEF RollForwardPhase, Transactions, ExecutionPhases
    <3> HIDE DEF e
    <3> QED
        BY <1>4, <1>5, <1>6, <2>1, <3>1, <3>2
  <2>7. CASE OnRollForwardRemoteTransactionCallback(c)
    <3>1. Release(c, txn[c].blocked) \/ ExecuteOwn(c, view[c].phase)
        BY Zenon, <2>7 DEF OnRollForwardRemoteTransactionCallback
    <3>2. view[c].phase \in ExecutionPhases
        BY Zenon, <1>1 DEF Types, Views
    <3> QED
        BY <1>4, <1>5, <1>6, <2>1, <3>1, <3>2
  <2> QED
      BY Zenon, <1>9, <2>2, <2>3, <2>4, <2>5, <2>6, <2>7 DEF ResolutionStep
<1>10. CASE Crash(c)
    BY Zenon, <1>1, <1>10 DEF Crash, Absent
<1>11. CASE Recover(c)
  <2>1. CASE journal[c].logged /\ journal[c].phase # "End"
    <3>1. txn'[c] = RecoveredTransaction(journal[c], txn[c].ts + 1)
        BY <1>1, <1>11, <2>1 DEF Recover
    <3>2. txn'[c].ts = txn[c].ts + 1
        BY <3>1 DEF RecoveredTransaction, Absent
    <3> QED
        BY Zenon, <1>1, <3>2
  <2>2. CASE ~(journal[c].logged /\ journal[c].phase # "End")
      BY Zenon, <1>11, <2>2 DEF Recover
  <2> QED
      BY Zenon, <2>1, <2>2
<1> QED
    BY Zenon, <1>8, <1>9, <1>10, <1>11 DEF CStep


\* What a coordinator knows of its peer it forgets, or it keeps it and stays in
\* the resolution and in its phase; or it is told anew.
LEMMA OwnView ==
    ASSUME AgreementInv, NEW c \in Coordinators, CStep(c), ~GetTransactionStatus(c)
    PROVE  \/ view'[c] = NoView
           \/ /\ view'[c] = view[c]
              /\ view[c].kind # "none" => /\ pc'[c] \in {"gotStatus", "rollRemote"}
                                          /\ txn'[c].phase = txn[c].phase
<1> DEFINE Goal == \/ view'[c] = NoView
                   \/ /\ view'[c] = view[c]
                      /\ view[c].kind # "none" => /\ pc'[c] \in {"gotStatus", "rollRemote"}
                                                  /\ txn'[c].phase = txn[c].phase
<1>1. /\ Types /\ txn[c] \in Transactions /\ txn \in [Coordinators -> Transactions]
      /\ view \in [Coordinators -> Views] /\ pc \in [Coordinators -> PCs]
      /\ view[c].kind # "none" => pc[c] \in {"gotStatus", "rollRemote"}
      /\ pc[c] \in {"gotStatus", "rollRemote"} => txn[c].exists
      /\ Peer(c) # c
    BY Zenon, ValuesInRange, Peers DEF AgreementInv, ViewOK, CoordinatorOK, ProgressOK, Types
<1>2. CASE CoordinatorStep(c)
  <2>1. CASE BeginTransaction(c)
      BY Zenon, <1>1, <2>1 DEF BeginTransaction
  <2>2. ASSUME NEW r, ExecutePhase(c, r) PROVE Goal
      BY Zenon, <1>1, <2>2 DEF ExecutePhase
  <2>3. ASSUME NEW r, RefusePhase(c, r) PROVE Goal
      BY Zenon, <1>1, <2>3 DEF RefusePhase, coordVars
  <2>4. CASE OnLogTransactionCallback(c) \/ OnLogStateCallback(c) \/ ExecuteDistributedPhase(c)
      BY Zenon, <1>1, <2>4 DEF OnLogTransactionCallback, OnLogStateCallback, ExecuteDistributedPhase
  <2>5. CASE ProceedToNextPhase(c) \/ FinishEnd(c)
    <3>1. pc[c] = "proceed" /\ \E ok, n : Answer(c, ok, n)
        BY Zenon, <2>5 DEF ProceedToNextPhase, FinishEnd
    <3>2. view'[c] = view[c]
        BY Zenon, <1>1, <3>1 DEF Answer
    <3> QED
        BY Zenon, <1>1, <3>1, <3>2
  <2> QED
      BY Zenon, <1>2, <2>1, <2>2, <2>3, <2>4, <2>5 DEF CoordinatorStep
<1>3. CASE ResolutionStep(c)
  <2>1. CASE Expire(c)
    <3>1. view' = view /\ pc' = pc /\ txn' = [txn EXCEPT ![c].expired = TRUE]
        BY Zenon, <2>1 DEF Expire
    <3>2. txn'[c].phase = txn[c].phase
        BY Zenon, <1>1, <3>1 DEF Transactions
    <3> QED
        BY Zenon, <1>1, <3>1, <3>2
  <2>2. CASE ResolveTransaction(c) \/ GetTransactionStatusFails(c)
      BY Zenon, <1>1, <2>2 DEF ResolveTransaction, GetTransactionStatusFails
  <2>3. CASE RollForwardLocalAndRemoteTransactions(c)
      BY Zenon, <1>1, <2>3 DEF RollForwardLocalAndRemoteTransactions
  <2>4. CASE OnRemoteTransactionNotFound(c) \/ OnGetRemoteTransactionStatusCallback(c)
               \/ OnRollForwardRemoteTransactionCallback(c)
      BY Zenon, <1>1, <2>4 DEF OnRemoteTransactionNotFound, OnGetRemoteTransactionStatusCallback,
         OnRollForwardRemoteTransactionCallback
  <2> QED
      BY Zenon, <1>3, <2>1, <2>2, <2>3, <2>4 DEF ResolutionStep
<1>4. CASE Crash(c) \/ Recover(c)
    BY <1>1, <1>4 DEF Crash, Recover
<1> QED
    BY Zenon, <1>2, <1>3, <1>4 DEF CStep

\* A coordinator changes what its peer knows only by answering the peer.
LEMMA PeerView ==
    ASSUME AgreementInv, NEW c \in Coordinators, CStep(c)
    PROVE  LET d == Peer(c)
           IN \/ view'[d] = view[d]
              \/ /\ pc[c] = "proceed" /\ ~txn[c].phaseFailed /\ req[c].from = "peer"
                 /\ pc[d] = "rollRemote" /\ view[d].kind = "found"
                 /\ view'[d] = [view[d] EXCEPT !.kind = "rolled", !.phase = req[c].phase]
<1> DEFINE d == Peer(c)
<1>1. /\ view \in [Coordinators -> Views] /\ d # c /\ d \in Coordinators
      /\ CoordinatorOK(txn[c], pc[c], journal[c])
    BY Zenon, ValuesInRange, Peers DEF Types
<1>2. CASE ProceedToNextPhase(c) \/ FinishEnd(c)
  <2>1. /\ pc[c] = "proceed"
        /\ \E n : Answer(c, ~txn[c].phaseFailed, n)
    <3>1. CASE ProceedToNextPhase(c)
        BY Zenon, <3>1 DEF ProceedToNextPhase
    <3>2. CASE FinishEnd(c)
      <4>1. ~txn[c].phaseFailed /\ pc[c] = "proceed" /\ Answer(c, TRUE, txn[c].ts + 1)
          BY Zenon, <1>1, <3>2 DEF FinishEnd, CoordinatorOK, FailureOK
      <4>2. (~txn[c].phaseFailed) = TRUE
          BY Zenon, <4>1
      <4> QED
          BY Zenon, <4>1, <4>2
    <3> QED
        BY Zenon, <1>2, <3>1, <3>2
  <2>2. PICK n : Answer(c, ~txn[c].phaseFailed, n)
      BY <2>1
  <2> QED
      BY Zenon, <1>1, <2>1, <2>2 DEF Answer, Views
<1>3. CASE CoordinatorStep(c) /\ ~(ProceedToNextPhase(c) \/ FinishEnd(c))
    BY Zenon, <1>3 DEF CoordinatorStep, BeginTransaction, OnLogTransactionCallback, ExecutePhase,
       RefusePhase, OnLogStateCallback, ExecuteDistributedPhase, coordVars
<1>4. CASE ResolutionStep(c)
    BY Zenon, <1>1, <1>4 DEF ResolutionStep, Expire, ResolveTransaction, GetTransactionStatus,
       GetTransactionStatusFails, OnRemoteTransactionNotFound,
       OnGetRemoteTransactionStatusCallback, RollForwardLocalAndRemoteTransactions,
       OnRollForwardRemoteTransactionCallback
<1>5. CASE Crash(c) \/ Recover(c)
    BY Zenon, <1>1, <1>5 DEF Crash, Recover
<1> QED
    BY Zenon, <1>2, <1>3, <1>4, <1>5 DEF CStep

\* A resolving coordinator asks the peer to abort or to end.
LEMMA AskedPhase ==
    ASSUME AgreementInv, NEW c \in Coordinators, RollForwardLocalAndRemoteTransactions(c)
    PROVE  \E e \in {"Abort", "End"} :
             /\ e = "Abort" => txn[c].phase \in {"Begin", "Prepare", "Commit", "CommitNotify", "AbortNotify"}
             /\ peerReq' = peerReq \cup
                  {[to |-> Peer(c), phase |-> e, ts |-> view[c].ts, from |-> "peer"]}
<1>1. txn[c].phase \in Phases /\ view[c].phase \in ExecutionPhases
    BY Zenon, ValuesInRange DEF Transactions, Views
<1>2. txn[c].phase = ToTransactionPhase(view[c].phase)
      /\ LocalAndRemoteTransactionsInSync(txn[c].phase, txn[c].phase)
    BY Zenon DEF RollForwardLocalAndRemoteTransactions
<1>3. txn[c].phase \in {"Begin", "Prepare", "Commit", "CommitNotify", "AbortNotify", "End"}
    BY Zenon, <1>1, <1>2 DEF ToTransactionPhase, LocalAndRemoteTransactionsInSync, ExecutionPhases
<1> DEFINE e == IF CanCancel(txn[c].phase) THEN "Abort"
                ELSE ToTransactionExecutionPhase(txn[c].phase)
<1>4. /\ e \in {"Abort", "End"}
      /\ e = "Abort" => txn[c].phase \in {"Begin", "Prepare", "Commit", "CommitNotify", "AbortNotify"}
    BY Zenon, <1>3 DEF CanCancel, ToTransactionExecutionPhase
<1>5. peerReq' = peerReq \cup
         {[to |-> Peer(c), phase |-> e, ts |-> view[c].ts, from |-> "peer"]}
    BY Zenon DEF RollForwardLocalAndRemoteTransactions
<1> HIDE DEF e
<1> QED
    BY Zenon, <1>4, <1>5

\* The requests of a resolution are for Abort or End, and never from the future.
LEMMA PeerReqKeeps ==
    ASSUME Faults \subseteq {"notifyFails"}, AgreementInv, NEW c \in Coordinators, CStep(c)
    PROVE  PeerReqOK'
<1>1. /\ \A x \in Coordinators : txn'[x].ts >= txn[x].ts /\ txn[x].ts \in Nat
                                  /\ txn'[x].ts \in Nat
      /\ PeerReqOK /\ Types /\ ViewOK(c) /\ view[c].ts \in Nat /\ Peer(c) \in Coordinators
    BY Zenon, Moves, ValuesInRange, Peers DEF AgreementInv, Views
<1>2. \A r \in peerReq : /\ r.phase \in {"Abort", "End"} /\ r.from = "peer"
                         /\ r.ts <= txn'[r.to].ts
  <2> SUFFICES ASSUME NEW r \in peerReq
               PROVE  /\ r.phase \in {"Abort", "End"} /\ r.from = "peer"
                      /\ r.ts <= txn'[r.to].ts
      BY Zenon
  <2>1. r.to \in Coordinators /\ r.ts \in Nat
      BY Zenon, <1>1 DEF Types, Requests
  <2> QED
      BY <1>1, <2>1 DEF PeerReqOK
<1>3. CASE peerReq' = peerReq
    BY Zenon, <1>2, <1>3 DEF PeerReqOK
<1>4. CASE RollForwardLocalAndRemoteTransactions(c)
  <2>1. PICK e \in {"Abort", "End"} :
           peerReq' = peerReq \cup
             {[to |-> Peer(c), phase |-> e, ts |-> view[c].ts, from |-> "peer"]}
      BY Zenon, <1>4, AskedPhase
  <2>2. view[c].ts <= txn[Peer(c)].ts
      BY Zenon, <1>1 DEF ViewOK
  <2>3. view[c].ts <= txn'[Peer(c)].ts
      BY <1>1, <2>2
  <2> QED
      BY <1>2, <2>1, <2>3 DEF PeerReqOK
<1> QED
    BY Zenon, <1>3, <1>4, PeerRequests


\* What a coordinator is told of its peer is true of the peer.
LEMMA ToldView ==
    ASSUME AgreementInv, NEW c \in Coordinators, GetTransactionStatus(c)
    PROVE  ViewOK(c)'
<1> DEFINE d == Peer(c)
           t == txn[Peer(c)]
           v == view'[c]
<1>1. /\ d \in Coordinators /\ t \in Transactions /\ txn[c].exists
      /\ CoordinatorOK(t, pc[d], journal[d]) /\ BudgetOK(t, pc[d], budget[d])
      /\ \A x \in Coordinators : PastPrepareAt(x) => Sent("Commit")
      /\ Sent("Commit") => PreparedAt(d)
    BY Zenon, ValuesInRange, Peers DEF AgreementInv, PreparedOK, CoordinatorOK, ProgressOK,
       GetTransactionStatus
<1>2. /\ txn' = txn /\ budget' = budget /\ pc'[c] = "gotStatus" /\ (Sent("Commit")' <=> Sent("Commit"))
    BY Zenon, ValuesInRange DEF GetTransactionStatus, Types, clientVars, Sent
<1>3. /\ v.kind \in {"found", "notFound", "unexpired"}
      /\ v.ts = 0 \/ v.ts = t.ts
      /\ v.kind = "found" => /\ t.exists /\ v.phase = ToTransactionExecutionPhase(t.phase)
                             /\ ~v.failed => ~t.failed
    BY Zenon, ValuesInRange DEF GetTransactionStatus, NoView, Types
<1> HIDE DEF v
<1>4. v.ts <= t.ts
    BY <1>1, <1>3 DEF Transactions
<1>5. ASSUME v.kind = "found", v.phase = "Notify"
      PROVE  Sent("Commit") /\ t.phase = "CommitNotify"
  <2>1. t.phase = "CommitNotify" /\ t.exists
      BY Zenon, <1>1, <1>3, <1>5, PhaseTable DEF ToTransactionExecutionPhase, Transactions
  <2> QED
      BY Zenon, <1>1, <2>1 DEF PastPrepareAt, PastPrepare
<1>6. ASSUME v.kind = "found", v.phase = "End", ~v.failed, txn[c].phase = "CommitNotify"
      PROVE  budget[d] = "spent"
  <2>1. t.phase \in {"Committed", "Aborted", "End"} /\ t.exists /\ ~t.failed
      BY Zenon, <1>1, <1>3, <1>6, PhaseTable DEF ToTransactionExecutionPhase, Transactions
  <2>2. PreparedAt(d)
      BY Zenon, <1>1, <1>6 DEF PastPrepareAt, PastPrepare
  <2> QED
      BY Zenon, <1>1, <2>1, <2>2 DEF PreparedAt, Prepared, BudgetOK, CoordinatorOK, FailureOK
<1> QED
    BY Zenon, <1>2, <1>3, <1>4, <1>5, <1>6 DEF ViewOK, v

\* The peers' views of each other stay true.
LEMMA ViewKeeps ==
    ASSUME Faults \subseteq {"notifyFails"}, AgreementInv, NEW c \in Coordinators, CStep(c),
           NEW x \in Coordinators
    PROVE  ViewOK(x)'
<1>1. /\ \A y \in Coordinators : txn'[y].ts >= txn[y].ts /\ txn[y].ts \in Nat
                                  /\ txn'[y].ts \in Nat
      /\ \A y \in Coordinators : budget[y] = "spent" => budget'[y] = "spent"
      /\ OthersKeep(c) /\ Types /\ ViewOK(x) /\ view[x] \in Views
      /\ Sent("Commit")' <=> Sent("Commit")
    BY Zenon, Moves, ValuesInRange, ClientApart DEF AgreementInv
<1>2. /\ Peer(c) \in Coordinators /\ Peer(c) # c /\ Peer(Peer(c)) = c
      /\ x = c \/ x = Peer(c)
    BY Zenon, Peers
<1>3. CASE x = c
  <2>1. CASE GetTransactionStatus(c)
      BY Zenon, <1>3, <2>1, ToldView
  <2>2. CASE view'[c] = NoView
    <3>1. 0 <= txn'[Peer(c)].ts
        BY <1>1, <1>2
    <3> QED
        BY <1>3, <2>2, <3>1 DEF ViewOK, NoView
  <2>3. CASE /\ view'[c] = view[c]
             /\ view[c].kind # "none" => /\ pc'[c] \in {"gotStatus", "rollRemote"}
                                         /\ txn'[c].phase = txn[c].phase
    <3>1. txn'[Peer(c)] = txn[Peer(c)] /\ budget'[Peer(c)] = budget[Peer(c)]
        BY Zenon, <1>1, <1>2 DEF OthersKeep
    <3> QED
        BY <1>1, <1>3, <2>3, <3>1 DEF ViewOK
  <2> QED
      BY Zenon, <2>1, <2>2, <2>3, OwnView
<1>4. CASE x = Peer(c)
  <2>1. txn'[x] = txn[x] /\ pc'[x] = pc[x] /\ Peer(x) = c
      BY Zenon, <1>1, <1>2, <1>4 DEF OthersKeep
  <2>2. view[x].ts \in Nat /\ view[x].ts <= txn[c].ts /\ view[x].ts <= txn'[c].ts
      BY <1>1, <2>1 DEF ViewOK, Views
  <2>3. CASE view'[x] = view[x]
    <3>1. ASSUME view[x].kind = "found", view[x].phase = "Notify"
          PROVE  /\ Sent("Commit")'
                 /\ txn'[c].exists /\ view[x].ts = txn'[c].ts
                      => txn'[c].phase \in {"CommitNotify", "AbortNotify"}
      <4>1. Sent("Commit")'
          BY Zenon, <1>1, <3>1 DEF ViewOK
      <4>2. ASSUME txn'[c].exists, view[x].ts = txn'[c].ts
            PROVE  txn'[c].phase \in {"CommitNotify", "AbortNotify"}
        <5>1. txn'[c].ts = txn[c].ts /\ view[x].ts = txn[c].ts
            BY <1>1, <2>2, <4>2
        <5>2. /\ txn[c].exists
              /\ \/ txn'[c].phase = txn[c].phase
                 \/ txn'[c].phase = "AbortNotify"
                 \/ txn'[c].phase = "End" /\ CanProceedToEndAtPhase(txn[c].phase)
            BY Zenon, <4>2, <5>1, PhaseChanges
        <5>3. txn[c].phase \in {"CommitNotify", "AbortNotify"}
            BY <1>1, <2>1, <3>1, <5>1, <5>2 DEF ViewOK
        <5> QED
            BY Zenon, <5>2, <5>3 DEF CanProceedToEndAtPhase
      <4> QED
          BY Zenon, <4>1, <4>2
    <3>2. budget[c] = "spent" => budget'[c] = "spent"
        BY Zenon, <1>1
    <3> QED
        BY Zenon, <1>1, <2>1, <2>2, <2>3, <3>1, <3>2 DEF ViewOK
  <2>4. CASE /\ req[c].from = "peer" /\ pc[x] = "rollRemote"
             /\ view'[x] = [view[x] EXCEPT !.kind = "rolled", !.phase = req[c].phase]
    <3>1. req[c].phase \in {"Abort", "End"}
        BY <2>4 DEF AgreementInv, RequestOK
    <3>2. view'[x].kind = "rolled" /\ view'[x].phase = req[c].phase /\ view'[x].ts = view[x].ts
        BY Zenon, <1>1, <2>4 DEF Views
    <3> QED
        BY Zenon, <2>1, <2>2, <2>4, <3>1, <3>2 DEF ViewOK
  <2> QED
      BY Zenon, <1>4, <2>3, <2>4, PeerView
<1> QED
    BY Zenon, <1>2, <1>3, <1>4


\* When a phase is over, the transaction has a new timestamp.
LEMMA PhaseOver ==
    ASSUME AgreementInv, NEW c \in Coordinators, CStep(c),
           Works(pc[c]), ~Works(pc'[c]), txn'[c].exists
    PROVE  txn'[c].ts = txn[c].ts + 1
<1>1. /\ Types /\ txn[c] \in Transactions /\ txn \in [Coordinators -> Transactions]
      /\ pc \in [Coordinators -> PCs] /\ CoordinatorOK(txn[c], pc[c], journal[c])
    BY Zenon, ValuesInRange DEF Types
<1>2. pc[c] \in {"log", "exec", "proceed"} /\ pc'[c] # pc[c] /\ txn[c].exists
    BY Zenon, <1>1 DEF Works, CoordinatorOK, ProgressOK
<1>3. CASE ProceedToNextPhase(c)
    BY Zenon, <1>1, <1>3 DEF ProceedToNextPhase, Transactions
<1>4. CASE FinishEnd(c)
    BY <1>1, <1>4 DEF FinishEnd, Absent
<1>5. CASE Crash(c)
    BY Zenon, <1>1, <1>5 DEF Crash, Absent
<1>6. ~ResolutionStep(c) /\ ~Recover(c)
    BY Zenon, <1>2 DEF ResolutionStep, Expire, ResolveTransaction, GetTransactionStatus,
       GetTransactionStatusFails, OnRemoteTransactionNotFound, Recover,
       OnGetRemoteTransactionStatusCallback, RollForwardLocalAndRemoteTransactions,
       OnRollForwardRemoteTransactionCallback
<1>7. ~(OnLogStateCallback(c) \/ ExecuteDistributedPhase(c))
    BY Zenon, <1>1 DEF OnLogStateCallback, ExecuteDistributedPhase, Works
<1>8. ~(BeginTransaction(c) \/ OnLogTransactionCallback(c))
    BY Zenon, <1>2 DEF BeginTransaction, OnLogTransactionCallback
<1>9. \A r : ~(ExecutePhase(c, r) \/ RefusePhase(c, r))
    BY Zenon, <1>2 DEF ExecutePhase, RefusePhase, coordVars
<1> QED
    BY Zenon, <1>3, <1>4, <1>5, <1>6, <1>7, <1>8, <1>9 DEF CStep, CoordinatorStep

\* A coordinator that has not notified holds its budget and has journalled Commit.
LEMMA RestsUncommitted ==
    ASSUME NEW c, HoldsAt(c), txn[c].exists, txn[c].phase = "CommitNotify", ~Works(pc[c])
    PROVE  ~CommitsAt(c)
BY DEF HoldsAt, Holds, CommitsAt, Commits, Works

\* When all are bound and one commits, resolution asks none to abort.
LEMMA NoAbortAsked ==
    ASSUME AgreementInv, NEW c \in Coordinators, RollForwardLocalAndRemoteTransactions(c), Armed,
           NEW r \in peerReq' \ peerReq, r.phase = "Abort",
           txn[Peer(c)].exists, ~Works(pc[Peer(c)]), r.ts = txn[Peer(c)].ts
    PROVE  FALSE
<1> DEFINE d == Peer(c)
<1>1. /\ d \in Coordinators /\ HoldsAt(c) /\ HoldsAt(d) /\ ViewOK(c)
      /\ pc[c] = "gotStatus" /\ view[c].kind = "found" /\ txn[c].exists /\ timedOut
      /\ view[c].phase \in ExecutionPhases
    BY Zenon, ValuesInRange, Peers DEF AgreementInv, BoundOK, Bound, TimeoutOK, CoordinatorOK, ProgressOK,
       RollForwardLocalAndRemoteTransactions, Views
<1>2. PICK e \in {"Abort", "End"} :
         /\ e = "Abort" => txn[c].phase \in {"Begin", "Prepare", "Commit", "CommitNotify", "AbortNotify"}
         /\ peerReq' = peerReq \cup
              {[to |-> Peer(c), phase |-> e, ts |-> view[c].ts, from |-> "peer"]}
    BY AskedPhase
<1>3. e = "Abort" /\ view[c].ts = txn[d].ts
    BY <1>2
<1>4. txn[c].phase = "CommitNotify" /\ ~Works(pc[c])
    BY Zenon, <1>1, <1>2, <1>3 DEF HoldsAt, Holds, Works
<1>5. view[c].phase = "Notify"
    BY Zenon, <1>1, <1>4 DEF RollForwardLocalAndRemoteTransactions, ToTransactionPhase, ExecutionPhases
<1>6. txn[d].phase \in {"CommitNotify", "AbortNotify"}
    BY Zenon, <1>1, <1>3, <1>5 DEF ViewOK
<1>7. txn[d].phase = "CommitNotify"
    BY Zenon, <1>1, <1>6 DEF HoldsAt, Holds
<1>8. ~CommitsAt(c) /\ ~CommitsAt(d)
    BY Zenon, <1>1, <1>4, <1>7, RestsUncommitted
<1> QED
    BY Zenon, <1>1, <1>8, Peers DEF Armed

\* What is told of a coordinator that holds its budget is not an abort.
LEMMA NoAbortTold ==
    ASSUME AgreementInv, NEW c \in Coordinators, GetTransactionStatus(c), Armed
    PROVE  /\ view'[c].kind = "found" => /\ view'[c].phase # "Abort"
                                         /\ ~(view'[c].phase = "End" /\ view'[c].failed)
           /\ view'[c].kind # "rolled"
<1> DEFINE t == txn[Peer(c)]
           v == view'[c]
<1>1. Peer(c) \in Coordinators /\ HoldsAt(Peer(c))
    BY Zenon, Peers DEF AgreementInv, BoundOK, Bound
<1>2. /\ v.kind \in {"found", "notFound", "unexpired"}
      /\ v.kind = "found" => /\ t.exists /\ v.phase = ToTransactionExecutionPhase(t.phase)
                             /\ v.failed <=> (t.failed \/ t.phaseFailed)
    BY Zenon, ValuesInRange DEF GetTransactionStatus, NoView, Types
<1> HIDE DEF v
<1>3. t.exists => /\ t.phase \in {"Commit", "CommitNotify", "Committed", "End", "Unknown"}
                  /\ t.failed => t.phase = "Unknown"
                  /\ t.phaseFailed => t.phase = "CommitNotify"
    BY Zenon, <1>1 DEF HoldsAt, Holds
<1>4. v.kind = "found" => /\ v.phase # "Abort"
                          /\ ~(v.phase = "End" /\ v.failed)
    BY Zenon, <1>2, <1>3 DEF ToTransactionExecutionPhase
<1> QED
    BY Zenon, <1>2, <1>4 DEF v

\* A bound coordinator stays bound, while the client does not ask for an abort
\* and, once it timed out, one coordinator commits.
LEMMA BoundKeeps ==
    ASSUME Faults \subseteq {"notifyFails"}, AgreementInv, NEW c \in Coordinators, CStep(c),
           NEW x \in Coordinators, Bound(x), client.phase # "Begin", ~Sent("Abort"),
           timedOut => Armed
    PROVE  Bound(x)'
<1>1. /\ Types /\ Types' /\ OthersKeep(c) /\ TimeoutOK /\ PeerReqOK /\ view[x] \in Views
      /\ \E e : MovesBy(c, e)
      /\ \A y \in Coordinators : txn'[y].ts >= txn[y].ts /\ txn[y].ts \in Nat
                                 /\ txn'[y].ts \in Nat
    BY Zenon, Moves, ValuesInRange DEF AgreementInv
<1>2. /\ Peer(c) \in Coordinators /\ Peer(c) # c /\ (x = c \/ x = Peer(c))
    BY Zenon, Peers
<1>3. CASE x = c
  <2>1. HoldsAt(x)'
    <3>1. PICK e : MovesBy(c, e)
        BY Zenon, <1>1
    <3>2. ~Enters(c, "Abort")
        BY Zenon, <1>3, EntersOnlyIf
    <3>3. e # "Abort"
        BY Zenon, <3>1, <3>2 DEF MovesBy, NoPhase
    <3> QED
        BY Zenon, <1>3, <3>1, <3>3 DEF MovesBy, Keeps, HoldsAt, Bound
  <2>2. ASSUME txn'[c].exists, ~Works(pc'[c]),
               NEW r \in peerReq', r.to = c, r.phase = "Abort", r.ts = txn'[c].ts
        PROVE  FALSE
    <3>1. r \in peerReq
      <4>1. CASE peerReq' = peerReq
          BY Zenon, <4>1
      <4>2. CASE RollForwardLocalAndRemoteTransactions(c)
          BY <1>2, <2>2, <4>2 DEF RollForwardLocalAndRemoteTransactions
      <4> QED
          BY Zenon, <4>1, <4>2, PeerRequests
    <3>2. r.ts <= txn[c].ts /\ r.ts \in Nat
        BY Zenon, <1>1, <2>2, <3>1 DEF PeerReqOK, Types, Requests
    <3>3. txn'[c].ts = txn[c].ts
      <4>1. txn'[c].ts >= txn[c].ts /\ txn[c].ts \in Nat /\ txn'[c].ts \in Nat
          BY Zenon, <1>1
      <4>2. txn'[c].ts <= txn[c].ts
          BY <2>2, <3>2
      <4> QED
          BY <4>1, <4>2
    <3>4. txn[c].exists
        BY Zenon, <2>2, <3>3, PhaseChanges
    <3>5. ~Works(pc[c])
        BY <1>1, <2>2, <3>3, PhaseOver
    <3> QED
        BY <1>3, <2>2, <3>1, <3>3, <3>4, <3>5 DEF Bound
  <2>3. /\ view'[c].kind = "found" => /\ view'[c].phase # "Abort"
                                      /\ ~(view'[c].phase = "End" /\ view'[c].failed)
        /\ view'[c].kind = "rolled" => view'[c].phase # "Abort"
    <3>1. CASE GetTransactionStatus(c)
      <4>1. timedOut
          BY Zenon, <1>1, <3>1 DEF TimeoutOK, GetTransactionStatus
      <4> QED
          BY Zenon, <3>1, <4>1, NoAbortTold
    <3>2. CASE view'[c] = NoView
        BY <3>2 DEF NoView
    <3>3. CASE view'[c] = view[c]
        BY Zenon, <1>3, <3>3 DEF Bound
    <3> QED
        BY Zenon, <3>1, <3>2, <3>3, OwnView
  <2> QED
      BY Zenon, <1>3, <2>1, <2>2, <2>3 DEF Bound
<1>4. CASE x = Peer(c)
  <2>1. /\ txn'[x] = txn[x] /\ pc'[x] = pc[x] /\ journal'[x] = journal[x]
        /\ budget'[x] = budget[x]
      BY Zenon, <1>1, <1>2, <1>4 DEF OthersKeep
  <2>2. HoldsAt(x)'
      BY <2>1 DEF HoldsAt, Bound
  <2>3. ASSUME txn[x].exists, ~Works(pc[x]),
               NEW r \in peerReq', r.to = x, r.phase = "Abort", r.ts = txn[x].ts
        PROVE  FALSE
    <3>1. r \notin peerReq
        BY Zenon, <2>3 DEF Bound
    <3>2. RollForwardLocalAndRemoteTransactions(c)
        BY <2>3, <3>1, PeerRequests
    <3>3. timedOut
        BY <1>1, <3>2 DEF TimeoutOK, RollForwardLocalAndRemoteTransactions
    <3> QED
        BY <1>4, <2>3, <3>1, <3>2, <3>3, NoAbortAsked
  <2>4. /\ view'[x].kind = "found" => /\ view'[x].phase # "Abort"
                                      /\ ~(view'[x].phase = "End" /\ view'[x].failed)
        /\ view'[x].kind = "rolled" => view'[x].phase # "Abort"
    <3>1. CASE view'[x] = view[x]
        BY <3>1 DEF Bound
    <3>2. CASE /\ pc[c] = "proceed" /\ req[c].from = "peer" /\ pc[x] = "rollRemote"
               /\ view'[x] = [view[x] EXCEPT !.kind = "rolled", !.phase = req[c].phase]
      <4>1. timedOut
          BY Zenon, <1>1, <3>2 DEF TimeoutOK
      <4>2. HoldsAt(c)
          BY <4>1 DEF AgreementInv, BoundOK, Bound
      <4>3. txn[c].exists /\ txn[c].phase = ToTransactionPhase(req[c].phase)
          BY Zenon, <3>2, ValuesInRange DEF AgreementInv, RequestOK, CoordinatorOK, ProgressOK, Works
      <4>4. req[c].phase # "Abort"
          BY Zenon, <4>2, <4>3 DEF HoldsAt, Holds, ToTransactionPhase
      <4>5. view'[x].kind = "rolled" /\ view'[x].phase = req[c].phase
          BY <1>1, <3>2 DEF Views
      <4> QED
          BY Zenon, <4>4, <4>5
    <3> QED
        BY Zenon, <1>4, <3>1, <3>2, PeerView
  <2> QED
      BY Zenon, <2>1, <2>2, <2>3, <2>4 DEF Bound
<1> QED
    BY Zenon, <1>2, <1>3, <1>4


\* The answer to the client says that the phase of the client has succeeded.
LEMMA Answered ==
    ASSUME AgreementInv, NEW c \in Coordinators, CStep(c), Answers(c),
           client.phase \in {"Prepare", "Commit", "CommitNotify"}
    PROVE  /\ txn[c].phase = client.phase /\ journal[c].phase = client.phase
           /\ ~journal[c].failed /\ ~txn[c].phaseFailed /\ pc[c] = "proceed"
           /\ BudgetOK(txn[c], pc[c], budget[c])
           /\ txn'[c].phase = NextPhaseOnSuccess(client.phase)
           /\ ~txn'[c].failed /\ ~txn'[c].phaseFailed /\ txn'[c].ts = txn[c].ts + 1
           /\ txn[c].ts \in Nat
           /\ pc'[c] = "idle" /\ journal'[c] = journal[c] /\ budget'[c] = budget[c]
           /\ peerReq' = peerReq /\ view'[c].kind = "none"
<1>1. /\ Types /\ txn[c] \in Transactions /\ CoordinatorOK(txn[c], pc[c], journal[c])
      /\ pc \in [Coordinators -> PCs] /\ txn \in [Coordinators -> Transactions]
      /\ BudgetOK(txn[c], pc[c], budget[c]) /\ RequestOK(c) /\ ViewOK(c)
    BY Zenon, ValuesInRange DEF AgreementInv, Types
<1>2. pc[c] = "proceed" /\ ~txn[c].phaseFailed
    BY DEF Answers, ProceedToNextPhase, FinishEnd
<1>3. client.phase = ToTransactionPhase(req[c].phase) /\ req[c].from = "client"
    BY Zenon DEF Answers, Awaits
<1>4. txn[c].phase = client.phase
    BY Zenon, <1>1, <1>2, <1>3 DEF RequestOK, Works
<1>5. ProceedToNextPhase(c)
    BY <1>4 DEF Answers, FinishEnd
<1>6. journal[c].phase = client.phase /\ ~journal[c].failed /\ ~txn[c].failed
    BY <1>1, <1>2, <1>4 DEF CoordinatorOK, JournalOK, RecordOK, FailureOK
<1>7. txn'[c] = Proceeded(txn[c])
    BY Zenon, <1>1, <1>5, ProceedValue
<1>8. /\ txn'[c].phase = NextPhase(client.phase, "Success")
      /\ ~txn'[c].failed /\ ~txn'[c].phaseFailed /\ txn'[c].ts = txn[c].ts + 1
    BY <1>1, <1>2, <1>4, <1>6, <1>7 DEF Proceeded, Transactions
<1>9. txn'[c].phase = NextPhaseOnSuccess(client.phase)
    BY Zenon, <1>8 DEF NextPhase
<1>10. pc'[c] = "idle" /\ journal'[c] = journal[c] /\ budget'[c] = budget[c] /\ peerReq' = peerReq
    BY Zenon, <1>1, <1>5 DEF ProceedToNextPhase, UnlockRemotelyCoordinatedTransaction
<1>11. view'[c].kind = "none"
  <2>1. ~GetTransactionStatus(c) /\ view[c].kind = "none"
      BY Zenon, <1>1, <1>2 DEF GetTransactionStatus, ViewOK
  <2> QED
      BY <2>1, OwnView DEF NoView
<1> QED
    BY <1>1, <1>2, <1>4, <1>6, <1>8, <1>9, <1>10, <1>11 DEF Transactions

\* A coordinator that has prepared stays prepared.
LEMMA PreparedKeeps ==
    ASSUME Faults \subseteq {"notifyFails"}, AgreementInv, NEW c \in Coordinators, CStep(c)
    PROVE  PreparedOK'
<1>1. /\ OthersKeep(c) /\ \E e : MovesBy(c, e)
      /\ client' = client /\ (Sent("Commit")' <=> Sent("Commit"))
      /\ ClientOK /\ PreparedOK /\ LocalInv
    BY Zenon, Moves, ClientApart DEF AgreementInv
<1>2. ASSUME NEW x \in Coordinators, PreparedAt(x), client.phase # "Begin"
      PROVE  PreparedAt(x)'
    BY Zenon, <1>1, <1>2 DEF PreparedAt, OthersKeep, MovesBy, Keeps
<1>3. Sent("Commit")' => \A x \in Coordinators : PreparedAt(x)'
    BY Zenon, <1>1, <1>2 DEF ClientOK, PreparedOK
<1>4. ASSUME client.phase = "Prepare", NEW x \in Coordinators, cmd'[x].state = "ok"
      PROVE  PreparedAt(x)'
  <2>1. CASE cmd[x].state = "ok"
      BY <1>1, <1>2, <1>4, <2>1 DEF PreparedOK
  <2>2. CASE cmd[x].state # "ok"
    <3>1. x = c /\ Answers(c)
        BY Zenon, <1>1, <1>4, <2>2, OkIsAnswered
    <3>2. /\ journal'[c].phase = "Prepare" /\ pc'[c] = "idle" /\ txn'[c].phase = "Commit"
        BY <1>4, <3>1, Answered DEF NextPhaseOnSuccess
    <3> QED
        BY Zenon, <3>1, <3>2 DEF PreparedAt, Prepared
  <2> QED
      BY Zenon, <2>1, <2>2
<1> QED
    BY Zenon, <1>1, <1>3, <1>4 DEF PreparedOK

\* Once a coordinator may commit, both stay bound.
LEMMA BoundOKKeeps ==
    ASSUME Faults \subseteq {"notifyFails"}, AgreementInv, NEW c \in Coordinators, CStep(c)
    PROVE  BoundOK'
<1>1. /\ OthersKeep(c) /\ \E e : MovesBy(c, e) /\ LocalInv
      /\ client' = client /\ timedOut' = timedOut /\ (Sent("Notify")' <=> Sent("Notify"))
      /\ ClientOK /\ BoundOK /\ TimeoutOK /\ Types
    BY Zenon, Moves, ClientApart, ValuesInRange DEF AgreementInv
<1>2. Armed' => Armed
  <2>1. ASSUME NEW x \in Coordinators, CommitsAt(x)' PROVE Armed
    <3>1. CASE x # c
        BY Zenon, <1>1, <2>1, <3>1 DEF OthersKeep, CommitsAt, Armed
    <3>2. CASE x = c
      <4>1. PICK e : MovesBy(c, e)
          BY Zenon, <1>1
      <4>2. CASE e = "Notify"
        <5>1. Enters(c, "Notify")
            BY <4>1, <4>2 DEF MovesBy, NoPhase
        <5> QED
            BY Zenon, <5>1, EntersOnlyIf
      <4>3. CASE e # "Notify"
          BY Zenon, <2>1, <3>2, <4>1, <4>3 DEF MovesBy, Grows, CommitsAt, Armed
      <4> QED
          BY Zenon, <4>2, <4>3
    <3> QED
        BY Zenon, <3>1, <3>2
  <2> QED
      BY Zenon, <1>1, <2>1 DEF Armed
<1>3. Armed => \A x \in Coordinators : Bound(x)'
  <2>1. Armed => client.phase # "Begin" /\ ~Sent("Abort")
      BY Zenon, <1>1 DEF ClientOK, BoundOK
  <2>2. Armed => \A x \in Coordinators : Bound(x)
      BY Zenon, <1>1 DEF BoundOK
  <2> QED
      BY Zenon, <2>1, <2>2, BoundKeeps
<1>4. ASSUME ~timedOut, client.phase = "Commit", NEW x \in Coordinators, cmd'[x].state = "ok"
      PROVE  Bound(x)'
  <2>1. ~Sent("Abort") /\ ~Sent("Notify")
      BY <1>1, <1>4 DEF ClientOK
  <2>2. CASE cmd[x].state = "ok"
    <3>1. Bound(x)
        BY Zenon, <1>1, <1>4, <2>2 DEF BoundOK
    <3> QED
        BY Zenon, <1>4, <2>1, <3>1, BoundKeeps
  <2>3. CASE cmd[x].state # "ok"
    <3>1. x = c /\ Answers(c)
        BY Zenon, <1>1, <1>4, <2>3, OkIsAnswered
    <3>2. /\ txn[c].phase = "Commit" /\ journal[c].phase = "Commit"
          /\ ~journal[c].failed /\ ~txn[c].phaseFailed /\ pc[c] = "proceed"
          /\ BudgetOK(txn[c], pc[c], budget[c])
          /\ txn'[c].phase = "CommitNotify" /\ ~txn'[c].failed /\ ~txn'[c].phaseFailed
          /\ pc'[c] = "idle" /\ journal'[c] = journal[c] /\ budget'[c] = budget[c]
          /\ peerReq' = peerReq /\ view'[c].kind = "none"
        BY <1>4, <3>1, Answered DEF NextPhaseOnSuccess
    <3>3. budget[c] = "held"
      <4>1. budget[c] # "free"
          BY Zenon, <3>2 DEF BudgetOK
      <4>2. ~Armed
          BY Zenon, <1>1, <2>1 DEF BoundOK
      <4>3. budget[c] # "spent"
          BY Zenon, <4>2 DEF Armed, CommitsAt, Commits
      <4> QED
          BY Zenon, <1>1, <4>1, <4>3 DEF Types
    <3>4. peerReq' = {}
        BY Zenon, <1>1, <1>4, <3>2 DEF TimeoutOK
    <3>5. HoldsAt(c)'
        BY Zenon, <3>2, <3>3 DEF HoldsAt, Holds
    <3> QED
        BY <3>1, <3>2, <3>4, <3>5 DEF Bound
  <2> QED
      BY Zenon, <2>2, <2>3
<1>5. Armed' => Sent("Notify")'
    BY Zenon, <1>1, <1>2 DEF BoundOK
<1>6. Armed' => \A x \in Coordinators : Bound(x)'
    BY Zenon, <1>2, <1>3
<1>7. ~timedOut' /\ client'.phase = "Commit" =>
         \A x \in Coordinators : cmd'[x].state = "ok" => Bound(x)'
    BY Zenon, <1>1, <1>4
<1> QED
    BY Zenon, <1>5, <1>6, <1>7 DEF BoundOK

\* A budget that the client counts as spent is spent.
LEMMA VerdictKeeps ==
    ASSUME Faults \subseteq {"notifyFails"}, AgreementInv, NEW c \in Coordinators, CStep(c)
    PROVE  VerdictOK'
<1>1. /\ \A x \in Coordinators : budget[x] = "spent" => budget'[x] = "spent"
      /\ client' = client /\ LocalInv /\ VerdictOK
    BY Zenon, Moves, ClientApart DEF AgreementInv
<1>2. ASSUME client.phase = "CommitNotify", NEW x \in Coordinators, cmd'[x].state = "ok"
      PROVE  budget'[x] = "spent"
  <2>1. CASE cmd[x].state = "ok"
      BY Zenon, <1>1, <1>2, <2>1 DEF VerdictOK
  <2>2. CASE cmd[x].state # "ok"
    <3>1. x = c /\ Answers(c)
        BY <1>1, <1>2, <2>2, OkIsAnswered
    <3>2. /\ txn[c].phase = "CommitNotify" /\ ~txn[c].phaseFailed /\ pc[c] = "proceed"
          /\ BudgetOK(txn[c], pc[c], budget[c]) /\ budget'[c] = budget[c]
        BY <1>2, <3>1, Answered
    <3> QED
        BY Zenon, <3>1, <3>2 DEF BudgetOK
  <2> QED
      BY Zenon, <2>1, <2>2
<1> QED
    BY Zenon, <1>1, <1>2 DEF VerdictOK


\* A step of a coordinator keeps the invariant.
LEMMA CoordinatorKeeps ==
    ASSUME Faults \subseteq {"notifyFails"}, AgreementInv, NEW c \in Coordinators, CStep(c)
    PROVE  AgreementInv'
<1>1. /\ OthersKeep(c) /\ \E e : MovesBy(c, e) /\ LocalInv
      /\ (Sent("Commit")' <=> Sent("Commit")) /\ ClientOK'
    BY Zenon, Moves, ClientApart DEF AgreementInv
<1>2. LocalInv'
    BY Zenon, <1>1, NextLocal DEF CStep, Next
<1>3. \A x \in Coordinators : BudgetOK(txn'[x], pc'[x], budget'[x])
    BY Zenon, <1>1 DEF OthersKeep, MovesBy, AgreementInv
<1>4. \A x \in Coordinators : RequestOK(x)'
  <2>1. RequestOK(c)'
      BY Zenon, RequestKeeps
  <2>2. ASSUME NEW x \in Coordinators, x # c PROVE RequestOK(x)'
      BY <1>1, <2>2 DEF OthersKeep, RequestOK, AgreementInv
  <2> QED
      BY Zenon, <2>1, <2>2
<1>5. \A x \in Coordinators : PastPrepareAt(x)' => Sent("Commit")'
  <2>1. ASSUME NEW x \in Coordinators, x # c, PastPrepareAt(x)' PROVE Sent("Commit")
      BY Zenon, <1>1, <2>1 DEF OthersKeep, PastPrepareAt, AgreementInv
  <2>2. ASSUME PastPrepareAt(c)' PROVE Sent("Commit")
    <3>1. PICK e : MovesBy(c, e)
        BY Zenon, <1>1
    <3>2. CASE e = "Commit"
      <4>1. Enters(c, "Commit")
          BY Zenon, <3>1, <3>2 DEF MovesBy, NoPhase
      <4> QED
          BY Zenon, <4>1, EntersOnlyIf
    <3>3. CASE e # "Commit"
      <4>1. PastPrepareAt(c)
          BY Zenon, <2>2, <3>1, <3>3 DEF MovesBy, Grows, PastPrepareAt
      <4> QED
          BY Zenon, <4>1 DEF AgreementInv
    <3> QED
        BY Zenon, <3>2, <3>3
  <2> QED
      BY Zenon, <1>1, <2>1, <2>2
<1>6. \A x \in Coordinators : ViewOK(x)'
    BY ViewKeeps
<1>7. TimeoutOK' /\ PeerReqOK' /\ PreparedOK' /\ BoundOK' /\ VerdictOK'
    BY TimeoutKeeps, PeerReqKeeps, PreparedKeeps, BoundOKKeeps, VerdictKeeps
<1> QED
    BY Zenon, <1>1, <1>2, <1>3, <1>4, <1>5, <1>6, <1>7 DEF AgreementInv

-----------------------------------------------------------------------------
(* The client.                                                              *)

\* A step of the client leaves the coordinators alone: what is left to show is
\* what the invariant says of the client.
LEMMA ClientFrame ==
    ASSUME AgreementInv, [Next]_vars, UNCHANGED coordVars, timedOut => timedOut',
           Sent("Commit") => Sent("Commit")',
           ClientOK', PreparedOK', BoundOK', VerdictOK'
    PROVE  AgreementInv'
<1>1. LocalInv'
    BY Zenon, NextLocal DEF AgreementInv
<1>2. \A c \in Coordinators :
         /\ BudgetOK(txn'[c], pc'[c], budget'[c])
         /\ RequestOK(c)'
         /\ PastPrepareAt(c)' => Sent("Commit")'
    BY Zenon DEF AgreementInv, coordVars, RequestOK, PastPrepareAt
<1>3. \A c \in Coordinators : ViewOK(c)'
    BY Zenon DEF AgreementInv, coordVars, ViewOK
<1>4. TimeoutOK' /\ PeerReqOK'
    BY Zenon DEF AgreementInv, coordVars, TimeoutOK, PeerReqOK
<1> QED
    BY Zenon, <1>1, <1>2, <1>3, <1>4 DEF AgreementInv

\* The predicates on coordinators, where the coordinators are left alone.
LEMMA CoordinatorsRest ==
    ASSUME UNCHANGED coordVars, NEW c
    PROVE  /\ PreparedAt(c)' <=> PreparedAt(c)
           /\ CommitsAt(c)' <=> CommitsAt(c)
           /\ Bound(c)' <=> Bound(c)
BY Zenon DEF coordVars, PreparedAt, CommitsAt, HoldsAt, Bound

\* The client waits, and at most repeats a request.
LEMMA ClientWaits ==
    ASSUME AgreementInv, UNCHANGED <<coordVars, client>>, timedOut => timedOut',
           \A c \in Coordinators : cmd'[c].state = "ok" => cmd[c].state = "ok",
           \/ clientReq' = clientReq
           \/ \E c, n : clientReq' = clientReq \cup
                {ClientRequest(c, ToTransactionExecutionPhase(client.phase), n)}
    PROVE  ClientOK' /\ PreparedOK' /\ BoundOK' /\ VerdictOK'
             /\ (Sent("Commit") => Sent("Commit")')
<1>1. /\ ClientOK /\ PreparedOK /\ BoundOK /\ VerdictOK /\ client' = client
    BY Zenon DEF AgreementInv
<1>2. /\ \A e : Sent(e) => Sent(e)'
      /\ \A e : Sent(e)' => Sent(e) \/ e = ToTransactionExecutionPhase(client.phase)
      /\ \A r \in clientReq' : r.from = "client"
  <2> DEFINE exec == ToTransactionExecutionPhase(client.phase)
  <2>1. \/ clientReq' = clientReq
        \/ \E c, n : clientReq' = clientReq \cup {ClientRequest(c, exec, n)}
      BY Zenon
  <2> HIDE DEF exec
  <2>2. \A c, n : ClientRequest(c, exec, n).phase = exec /\ ClientRequest(c, exec, n).from = "client"
      BY Zenon DEF ClientRequest
  <2>3. /\ clientReq \subseteq clientReq'
        /\ \A r \in clientReq' : r \in clientReq \/ (r.phase = exec /\ r.from = "client")
      BY Zenon, <2>1, <2>2
  <2>4. \A r \in clientReq : r.from = "client"
      BY Zenon, <1>1 DEF ClientOK
  <2>5. \A e : Sent(e) => Sent(e)'
      BY Zenon, <2>3 DEF Sent
  <2>6. \A e : Sent(e)' => Sent(e) \/ e = exec
      BY Zenon, <2>3 DEF Sent
  <2>7. \A r \in clientReq' : r.from = "client"
      BY <2>3, <2>4
  <2> QED
      BY Zenon, <2>5, <2>6, <2>7 DEF exec
<1>3. /\ Sent("Notify")' <=> Sent("Notify")
      /\ Sent("Commit")' <=> Sent("Commit")
      /\ Sent("Abort")' => Sent("Abort") \/ client.phase = "AbortNotify"
  <2>1. /\ "Notify" = ToTransactionExecutionPhase(client.phase) => client.phase = "CommitNotify"
        /\ "Commit" = ToTransactionExecutionPhase(client.phase) => client.phase = "Commit"
        /\ "Abort" = ToTransactionExecutionPhase(client.phase) => client.phase = "AbortNotify"
      BY <1>1 DEF ToTransactionExecutionPhase, ClientOK, Executed
  <2>2. /\ client.phase = "CommitNotify" => Sent("Notify")
        /\ client.phase = "Commit" => Sent("Commit")
      BY Zenon, <1>1 DEF ClientOK
  <2> QED
      BY Zenon, <1>2, <2>1, <2>2
<1>4. ClientOK'
  <2>1. ~(Sent("Notify")' /\ Sent("Abort")')
      BY <1>1, <1>3 DEF ClientOK
  <2>2. /\ Sent("Abort")' => client'.phase \in {"AbortNotify", "Unknown"}
                              \/ (client'.phase \in {"End", "Done"} /\ client'.failed)
      BY Zenon, <1>1, <1>3 DEF ClientOK
  <2> QED
      BY Zenon, <1>1, <1>2, <1>3, <2>1, <2>2 DEF ClientOK
<1>5. PreparedOK'
    BY Zenon, <1>1, <1>3, CoordinatorsRest DEF PreparedOK
<1>6. Armed' => Armed
    BY <1>3, CoordinatorsRest DEF Armed
<1>7. BoundOK'
    BY Zenon, <1>1, <1>3, <1>6, CoordinatorsRest DEF BoundOK
<1>8. VerdictOK'
    BY Zenon, <1>1 DEF VerdictOK, coordVars
<1> QED
    BY <1>3, <1>4, <1>5, <1>7, <1>8


\* Where the client's own engine goes when both commands have called back.
ClientTurn(p, q, ok, failed) ==
    \/ p = "Begin" /\ ok /\ q = "Prepare" /\ ~failed
    \/ p = "Prepare" /\ ok /\ q = "Commit" /\ ~failed
    \/ p = "Commit" /\ ok /\ q = "CommitNotify" /\ ~failed
    \/ p = "CommitNotify" /\ ok /\ q = "End" /\ ~failed
    \/ p = "AbortNotify" /\ q = "End" /\ failed
    \/ p \in {"Begin", "Prepare"} /\ q = "End" /\ failed
    \/ p = "Commit" /\ q = "AbortNotify" /\ failed

\* The client proceeds: it is done, it does not know, or it sends the next phase.
LEMMA ClientMoves ==
    ASSUME AgreementInv, ClientProceeds
    PROVE  \/ /\ client.phase = "End" /\ client'.phase = "Done"
              /\ client'.failed = client.failed /\ UNCHANGED <<cmd, clientReq>>
           \/ /\ client.phase \in {"CommitNotify", "AbortNotify"} /\ client'.phase = "Unknown"
              /\ client'.failed /\ UNCHANGED <<cmd, clientReq>>
           \/ /\ ClientTurn(client.phase, client'.phase,
                            \A c \in Coordinators : cmd[c].state = "ok",
                            client'.failed)
              /\ SendPhase(client'.phase)
<1> DEFINE bad == \E c \in Coordinators : cmd[c].state = "failed"
           ok == \A c \in Coordinators : cmd[c].state = "ok"
           next == NextPhase(client.phase, IF bad THEN "Failure" ELSE "Success")
<1>1. /\ client.phase \in Executed /\ client.failed \in BOOLEAN
      /\ client \in [phase : Phases \cup {"Done"}, failed : BOOLEAN]
      /\ client.failed => client.phase \in {"AbortNotify", "End"}
      /\ client.phase = "AbortNotify" => client.failed
    BY Zenon DEF AgreementInv, ClientOK, ClientProceeds, LocalInv, Types, Executed
<1>2. bad \/ ok
    BY Zenon DEF ClientProceeds
<1>3. CASE client.phase = "End"
    BY <1>1, <1>3 DEF ClientProceeds
<1>4. CASE client.phase # "End"
  <2>1. /\ client' = [phase |-> IF next \in {"Committed", "Aborted"} THEN "End" ELSE next,
                      failed |-> client.failed \/ bad]
        /\ IF next = "Unknown" THEN UNCHANGED <<cmd, clientReq>> ELSE SendPhase(client'.phase)
      BY Zenon, <1>4 DEF ClientProceeds
  <2>2. next = IF bad THEN NextPhaseOnFailure(client.phase) ELSE NextPhaseOnSuccess(client.phase)
      BY Zenon, <1>1 DEF NextPhase, Executed
  <2>3. client'.failed <=> (client.failed \/ bad)
      BY Zenon, <2>1
  <2>4. client'.phase = IF next \in {"Committed", "Aborted"} THEN "End" ELSE next
      BY Zenon, <2>1
  <2>5. CASE bad
    <3>1. \/ client.phase \in {"Begin", "Prepare"} /\ next = "Aborted"
          \/ client.phase = "Commit" /\ next = "AbortNotify"
          \/ client.phase \in {"CommitNotify", "AbortNotify"} /\ next = "Unknown"
        BY <1>1, <1>4, <2>2, <2>5 DEF NextPhaseOnFailure, Executed
    <3> HIDE DEF next, bad, ok
    <3> QED
        BY <2>1, <2>3, <2>4, <2>5, <3>1 DEF ClientTurn
  <2>6. CASE ~bad
    <3>1. \/ client.phase = "Begin" /\ next = "Prepare"
          \/ client.phase = "Prepare" /\ next = "Commit"
          \/ client.phase = "Commit" /\ next = "CommitNotify"
          \/ client.phase = "CommitNotify" /\ next = "Committed"
          \/ client.phase = "AbortNotify" /\ next = "Aborted"
        BY <1>1, <1>4, <2>2, <2>6 DEF NextPhaseOnSuccess, Executed
    <3> HIDE DEF next, bad
    <3>2. ok
        BY Zenon, <1>2, <2>6
    <3> HIDE DEF ok
    <3>3. ClientTurn(client.phase, client'.phase, ok, client'.failed)
        BY Zenon, <1>1, <2>3, <2>4, <2>6, <3>1, <3>2 DEF ClientTurn
    <3> QED
        BY Zenon, <2>1, <3>1, <3>3 DEF ok
  <2> QED
      BY Zenon, <2>5, <2>6
<1> QED
    BY <1>3, <1>4

\* Sending a phase adds its request, and every command waits again.
LEMMA PhaseSent ==
    ASSUME NEW q, SendPhase(q), ClientOK, Types
    PROVE  /\ \A e : Sent(e)' <=> Sent(e) \/ e = ToTransactionExecutionPhase(q)
           /\ \A r \in clientReq' : r.from = "client"
           /\ \A c \in Coordinators : cmd'[c].state = "sent"
<1>1. PICK a \in Coordinators : TRUE
    BY Zenon, EngineAssumption
<1>2. \A e : Sent(e)' <=> Sent(e) \/ e = ToTransactionExecutionPhase(q)
  <2> DEFINE exec == ToTransactionExecutionPhase(q)
  <2>1. clientReq' = clientReq \cup {ClientRequest(c, exec, cmd[c].ts) : c \in Coordinators}
      BY Zenon DEF SendPhase
  <2> HIDE DEF exec
  <2>2. ClientRequest(a, exec, cmd[a].ts) \in clientReq'
      BY Zenon, <2>1
  <2>3. \A c : ClientRequest(c, exec, cmd[c].ts).phase = exec
      BY Zenon DEF ClientRequest
  <2>4. Sent(exec)'
      BY Zenon, <2>2, <2>3 DEF Sent
  <2>5. \A e : Sent(e) => Sent(e)'
      BY Zenon, <2>1 DEF Sent
  <2>6. \A e : Sent(e)' => Sent(e) \/ e = exec
      BY Zenon, <2>1, <2>3 DEF Sent
  <2> QED
      BY Zenon, <2>4, <2>5, <2>6 DEF exec
<1>3. \A r \in clientReq' : r.from = "client"
    BY DEF SendPhase, ClientOK, ClientRequest
<1>4. \A c \in Coordinators : cmd'[c].state = "sent"
    BY Zenon DEF SendPhase, Types, Commands
<1> QED
    BY <1>2, <1>3, <1>4

\* The client proceeds: Commit goes out when both have prepared, Notify when both
\* hold their budgets, and the verdict is good when both have spent them.
LEMMA ProceedKeeps ==
    ASSUME AgreementInv, ClientProceeds
    PROVE  ClientOK' /\ PreparedOK' /\ BoundOK' /\ VerdictOK'
             /\ (Sent("Commit") => Sent("Commit")')
<1> DEFINE ok == \A c \in Coordinators : cmd[c].state = "ok"
<1>1. /\ ClientOK /\ PreparedOK /\ BoundOK /\ VerdictOK /\ Types
      /\ UNCHANGED coordVars /\ timedOut' = timedOut /\ budget' = budget
    BY Zenon, ValuesInRange DEF AgreementInv, ClientProceeds, coordVars, LocalInv
<1>2. CASE /\ client.phase = "End" /\ client'.phase = "Done"
           /\ client'.failed = client.failed /\ UNCHANGED <<cmd, clientReq>>
  <2>1. \A e : Sent(e)' <=> Sent(e)
      BY Zenon, <1>2 DEF Sent
  <2>2. ClientOK'
      BY Zenon, <1>1, <1>2, <2>1 DEF ClientOK, Executed
  <2>3. PreparedOK'
      BY <1>1, <1>2, <2>1, CoordinatorsRest DEF PreparedOK
  <2>4. BoundOK'
    <3>1. Armed' <=> Armed
        BY Zenon, <1>1, <2>1, CoordinatorsRest DEF Armed
    <3> QED
        BY <1>1, <1>2, <2>1, <3>1, CoordinatorsRest DEF BoundOK
  <2>5. VerdictOK'
      BY <1>1, <1>2 DEF VerdictOK
  <2> QED
      BY Zenon, <2>1, <2>2, <2>3, <2>4, <2>5
<1>3. CASE /\ client.phase \in {"CommitNotify", "AbortNotify"} /\ client'.phase = "Unknown"
           /\ client'.failed /\ UNCHANGED <<cmd, clientReq>>
  <2>1. \A e : Sent(e)' <=> Sent(e)
      BY Zenon, <1>3 DEF Sent
  <2>2. ClientOK'
      BY <1>1, <1>3, <2>1 DEF ClientOK, Executed
  <2>3. PreparedOK'
      BY <1>1, <1>3, <2>1, CoordinatorsRest DEF PreparedOK
  <2>4. BoundOK'
    <3>1. Armed' <=> Armed
        BY <1>1, <2>1, CoordinatorsRest DEF Armed
    <3> QED
        BY Zenon, <1>1, <1>3, <2>1, <3>1, CoordinatorsRest DEF BoundOK
  <2>5. VerdictOK'
      BY <1>1, <1>3 DEF VerdictOK
  <2> QED
      BY Zenon, <2>1, <2>2, <2>3, <2>4, <2>5
<1>4. CASE /\ ClientTurn(client.phase, client'.phase, ok, client'.failed)
           /\ SendPhase(client'.phase)
  <2> HIDE DEF ok
  <2>1. /\ \A e : Sent(e)' <=> Sent(e) \/ e = ToTransactionExecutionPhase(client'.phase)
        /\ \A r \in clientReq' : r.from = "client"
        /\ \A c \in Coordinators : cmd'[c].state = "sent"
      BY <1>1, <1>4, PhaseSent
  <2>2. /\ Sent("Notify")' <=> Sent("Notify") \/ client'.phase = "CommitNotify"
        /\ Sent("Commit")' <=> Sent("Commit") \/ client'.phase = "Commit"
        /\ Sent("Abort")' <=> Sent("Abort") \/ client'.phase = "AbortNotify"
      BY Zenon, <1>4, <2>1 DEF ToTransactionExecutionPhase, ClientTurn
  <2>3. ClientOK'
      BY Zenon, <1>1, <1>4, <2>1, <2>2 DEF ClientOK, ClientTurn, Executed
  <2>4. PreparedOK'
    <3>1. Sent("Commit")' => \A c \in Coordinators : PreparedAt(c)
        BY Zenon, <1>1, <1>4, <2>2 DEF PreparedOK, ClientTurn, ok
    <3> QED
        BY <1>1, <2>1, <3>1, CoordinatorsRest DEF PreparedOK
  <2>5. BoundOK'
    <3>1. Armed' => Armed \/ (~timedOut /\ client'.phase = "CommitNotify")
        BY <1>1, <2>2, CoordinatorsRest DEF Armed
    <3>2. ~timedOut /\ client'.phase = "CommitNotify" => \A c \in Coordinators : Bound(c)
        BY Zenon, <1>1, <1>4 DEF BoundOK, ClientTurn, ok
    <3>3. Armed' => Sent("Notify")' /\ \A c \in Coordinators : Bound(c)'
        BY Zenon, <1>1, <2>2, <3>1, <3>2, CoordinatorsRest DEF BoundOK
    <3> QED
        BY Zenon, <2>1, <3>3 DEF BoundOK
  <2>6. VerdictOK'
    <3>1. client'.phase \in {"End", "Done"} /\ ~client'.failed =>
             \A c \in Coordinators : budget'[c] = "spent"
        BY <1>1, <1>4 DEF VerdictOK, ClientTurn, ok
    <3> QED
        BY <2>1, <3>1 DEF VerdictOK
  <2> QED
      BY Zenon, <2>2, <2>3, <2>4, <2>5, <2>6
<1> QED
    BY Zenon, <1>2, <1>3, <1>4, ClientMoves


-----------------------------------------------------------------------------
(* The theorems.                                                            *)

\* The coordinators and the client start with nothing decided.
LEMMA InitAgreement == Init => AgreementInv
<1> SUFFICES ASSUME Init PROVE AgreementInv
    BY Zenon
<1>1. LocalInv
    BY Zenon, InitLocal
<1>2. ASSUME NEW c \in Coordinators
      PROVE  /\ txn[c] = Absent(0) /\ pc[c] = "idle" /\ req[c] = NoReq(c)
             /\ journal[c] = NoJournal /\ budget[c] = "free" /\ view[c] = NoView
             /\ cmd[c].state = "sent"
    BY Zenon, <1>2 DEF Init
<1>3. /\ peerReq = {} /\ client.phase = "Begin" /\ ~client.failed /\ ~timedOut
      /\ \A r \in clientReq : r.from = "client" /\ r.phase = "Begin"
    BY DEF Init, ClientRequest
<1>4. ~Sent("Notify") /\ ~Sent("Abort") /\ ~Sent("Commit")
    BY Zenon, <1>3 DEF Sent
<1>5. ASSUME NEW c \in Coordinators
      PROVE  /\ BudgetOK(txn[c], pc[c], budget[c])
             /\ RequestOK(c) /\ ~PastPrepareAt(c) /\ ViewOK(c) /\ ~CommitsAt(c)
             /\ pc[c] \notin {"status", "gotStatus", "rollRemote"} /\ ~txn[c].expired
  <2>1. /\ txn[c].phase = "NotStarted" /\ ~txn[c].exists /\ ~txn[c].expired
        /\ journal[c].phase = "NotStarted"
        /\ view[c].kind = "none" /\ view[c].ts = 0
        /\ req[c].to = c /\ req[c].from = "self"
    <3>1. /\ txn[c] = Absent(0) /\ req[c] = NoReq(c) /\ journal[c] = NoJournal
          /\ view[c] = NoView
        BY Zenon, <1>2
    <3>2. Absent(0).phase = "NotStarted" /\ ~Absent(0).exists /\ ~Absent(0).expired
        BY Zenon DEF Absent
    <3>3. NoReq(c).to = c /\ NoReq(c).from = "self"
        BY Zenon DEF NoReq
    <3>4. NoJournal.phase = "NotStarted" /\ NoView.kind = "none" /\ NoView.ts = 0
        BY Zenon DEF NoJournal, NoView
    <3> QED
        BY Zenon, <3>1, <3>2, <3>3, <3>4
  <2>2. txn[Peer(c)].ts = 0
      BY <1>2, Peers DEF Absent
  <2> QED
      BY <1>2, <2>1, <2>2 DEF BudgetOK, RequestOK, PastPrepareAt, PastPrepare, ViewOK,
         CommitsAt, Commits, Works
<1>6. TimeoutOK /\ PeerReqOK
    BY Zenon, <1>3, <1>5 DEF TimeoutOK, PeerReqOK
<1>7. ClientOK
    BY Zenon, <1>3, <1>4 DEF ClientOK, Executed
<1>8. PreparedOK /\ VerdictOK
    BY Zenon, <1>3, <1>4 DEF PreparedOK, VerdictOK
<1>9. BoundOK
    BY Zenon, <1>3, <1>4, <1>5 DEF BoundOK, Armed
<1> QED
    BY Zenon, <1>1, <1>5, <1>6, <1>7, <1>8, <1>9 DEF AgreementInv

\* Every step keeps the invariant.
LEMMA NextAgreement ==
    ASSUME Faults \subseteq {"notifyFails"}
    PROVE  AgreementInv /\ [Next]_vars => AgreementInv'
<1> SUFFICES ASSUME AgreementInv, [Next]_vars PROVE AgreementInv'
    BY Zenon
<1>1. CASE ClientProceeds
  <2>1. UNCHANGED coordVars /\ (timedOut => timedOut')
      BY Zenon, <1>1 DEF ClientProceeds
  <2> QED
      BY <1>1, <2>1, ProceedKeeps, ClientFrame
<1>2. CASE TimeOut
  <2>1. UNCHANGED <<coordVars, client>> /\ (timedOut => timedOut')
        /\ clientReq' = clientReq /\ cmd' = cmd
      BY Zenon, <1>2 DEF TimeOut, clientVars
  <2> QED
      BY Zenon, <2>1, ClientWaits, ClientFrame
<1>3. ASSUME NEW c \in Coordinators, ClientGivesUp(c) PROVE AgreementInv'
  <2>1. UNCHANGED <<coordVars, client>> /\ (timedOut => timedOut') /\ clientReq' = clientReq
      BY Zenon, <1>3 DEF ClientGivesUp
  <2>2. \A x \in Coordinators : cmd'[x].state = "ok" => cmd[x].state = "ok"
      BY <1>3, ValuesInRange DEF ClientGivesUp, Types, Commands
  <2> QED
      BY Zenon, <2>1, <2>2, ClientWaits, ClientFrame
<1>4. ASSUME NEW c \in Coordinators, ClientGetsStatus(c) PROVE AgreementInv'
  <2>1. UNCHANGED <<coordVars, client>> /\ (timedOut => timedOut')
      BY Zenon, <1>4 DEF ClientGetsStatus
  <2>2. \A x \in Coordinators : cmd'[x].state = "ok" => cmd[x].state = "ok"
      BY <1>4, ValuesInRange DEF ClientGetsStatus, Types, Commands
  <2>3. \/ clientReq' = clientReq
        \/ \E x, n : clientReq' = clientReq \cup
                {ClientRequest(x, ToTransactionExecutionPhase(client.phase), n)}
      BY Zenon, <1>4 DEF ClientGetsStatus
  <2> QED
      BY Zenon, <2>1, <2>2, <2>3, ClientWaits, ClientFrame
<1>5. ASSUME NEW c \in Coordinators, CStep(c) PROVE AgreementInv'
    BY Zenon, <1>5, CoordinatorKeeps
<1>6. CASE UNCHANGED vars
  <2>1. UNCHANGED <<coordVars, client>> /\ (timedOut => timedOut')
        /\ clientReq' = clientReq /\ cmd' = cmd
      BY Zenon, <1>6 DEF vars, coordVars
  <2> QED
      BY Zenon, <2>1, ClientWaits, ClientFrame
<1> QED
    BY Zenon, <1>1, <1>2, <1>3, <1>4, <1>5, <1>6 DEF Next, CStep

\* The agreement invariant holds throughout, while commands that fail are those
\* of Notify and Abort and no request of the client outlives its timeout.
THEOREM AgreementInvariance ==
    ASSUME Faults \subseteq {"notifyFails"}
    PROVE  Spec => []AgreementInv
BY InitAgreement, NextAgreement, PTL DEF Spec

\* Once one coordinator has spent the budget (Notify ran) the other has not given
\* it back and never will: TransactionEngine's ResolveTransaction reaches one
\* outcome for every interleaving, any number of crashes and failing Notifies.
THEOREM CoordinatorsAgree ==
    ASSUME Faults \subseteq {"notifyFails"}
    PROVE  Spec => []Agreement
<1>1. AgreementInv => Agreement
    BY Zenon, AgreementFollows
<1> QED
    BY <1>1, AgreementInvariance, PTL

\* What the client counts as ended well is spent on both coordinators, and what
\* it counts as failed before Notify is spent on none.
THEOREM VerdictIsTrue ==
    ASSUME Faults \subseteq {"notifyFails"}
    PROVE  Spec => []ClientVerdict
<1>1. AgreementInv => ClientVerdict
    BY Zenon, AgreementFollows
<1> QED
    BY <1>1, AgreementInvariance, PTL

=============================================================================
