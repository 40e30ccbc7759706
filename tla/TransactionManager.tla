-------------------------- MODULE TransactionManager --------------------------
(***************************************************************************)
(* How requests enter and leave the transaction engine, and how the        *)
(* component is started and stopped around them                            *)
(* (cc/core/transaction_manager, TransactionManager). Execute and          *)
(* ExecutePhase are alike: they hand the request to the executor.          *)
(* GetTransactionStatus calls the engine on the caller's thread and is not *)
(* subject to the limit.                                                   *)
(*                                                                         *)
(* The engine is external to this module: it answers every request it was  *)
(* given in the end, successfully or not.                                  *)
(***************************************************************************)
EXTENDS Integers, FiniteSets

CONSTANTS
    Requests,        \* Execute and ExecutePhase calls
    StatusRequests,  \* GetTransactionStatus calls
    MaxTransactions, \* max_concurrent_transactions_
    MaxRuns          \* bound on the number of times the component is started

Calls == Requests \cup StatusRequests

ASSUME ManagerAssumption ==
    /\ IsFiniteSet(Calls)
    /\ Requests \cap StatusRequests = {}
    /\ MaxTransactions \in Nat
    /\ MaxRuns \in Nat

VARIABLES
    pc,         \* where each call is
    count,      \* active_transactions_count_
    started,    \* started_
    lifecycle,  \* the progress of Run and Stop
    runs        \* how often Run was called

vars == <<pc, count, started, lifecycle, runs>>

TypeOK ==
    /\ pc \in [Calls -> {"new", "checked", "counted", "task", "engine", "finished",
                         "rejected", "done"}]
    /\ count \in Nat
    /\ started \in BOOLEAN
    /\ lifecycle \in {"stopped", "starting", "running", "draining"}
    /\ runs \in 0..MaxRuns

Init ==
    /\ pc = [c \in Calls |-> "new"]
    /\ count = 0
    /\ started = FALSE
    /\ lifecycle = "stopped"
    /\ runs = 0

GoTo(c, p) == pc' = [pc EXCEPT ![c] = p]

-----------------------------------------------------------------------------
\* The limit is looked at before the request is counted.
CheckLimit(c) ==
    /\ c \in Requests
    /\ pc[c] = "new"
    /\ GoTo(c, IF count >= MaxTransactions THEN "done" ELSE "checked")
    /\ UNCHANGED <<count, started, lifecycle, runs>>

IncrementActiveTransactionsCount(c) ==
    /\ pc[c] = "checked" \/ (c \in StatusRequests /\ pc[c] = "new")
    /\ count' = count + 1
    /\ GoTo(c, "counted")
    /\ UNCHANGED <<started, lifecycle, runs>>

\* A request that finds the component started goes to the executor, which may
\* refuse it, and a status call goes straight to the engine.
CheckStarted(c) ==
    /\ pc[c] = "counted"
    /\ \/ ~started /\ GoTo(c, "rejected")
       \/ started /\ c \in Requests /\ (GoTo(c, "task") \/ GoTo(c, "rejected"))
       \/ started /\ c \in StatusRequests /\ GoTo(c, "engine")
    /\ UNCHANGED <<count, started, lifecycle, runs>>

\* The executor runs the task.
RunTask(c) ==
    /\ pc[c] = "task"
    /\ GoTo(c, "engine")
    /\ UNCHANGED <<count, started, lifecycle, runs>>

\* Mutant: the request is uncounted before its callback is through.
FinishUncounted(c) ==
    /\ pc[c] = "engine"
    /\ count' = count - 1
    /\ GoTo(c, "finished")
    /\ UNCHANGED <<started, lifecycle, runs>>

\* The engine has called back: the caller's context is finished and metrics are
\* written while the request still counts.
FinishTransaction(c) ==
    /\ pc[c] = "engine"
    /\ GoTo(c, "finished")
    /\ UNCHANGED <<count, started, lifecycle, runs>>

\* Mutant: a request that was refused keeps counting.
DecrementFinished(c) ==
    /\ pc[c] \in {"finished", "rejected"}
    /\ count' = count - (IF pc[c] = "rejected" THEN 0 ELSE 1)
    /\ GoTo(c, "done")
    /\ UNCHANGED <<started, lifecycle, runs>>

DecrementActiveTransactionsCount(c) ==
    /\ pc[c] \in {"finished", "rejected"}
    /\ count' = count - 1
    /\ GoTo(c, "done")
    /\ UNCHANGED <<started, lifecycle, runs>>

-----------------------------------------------------------------------------
\* Run opens the component before it starts the engine.
Run ==
    /\ ~started
    /\ lifecycle = "stopped"
    /\ runs < MaxRuns
    /\ runs' = runs + 1
    /\ started' = TRUE
    /\ lifecycle' = "starting"
    /\ UNCHANGED <<pc, count>>

\* The engine runs, or its Run fails, which leaves the component open all the same.
RunEngine ==
    /\ lifecycle = "starting"
    /\ lifecycle' = "running"
    /\ UNCHANGED <<pc, count, started, runs>>

\* Mutant: Stop leaves the component open while it waits.
StopLater ==
    /\ started
    /\ lifecycle = "running"
    /\ lifecycle' = "draining"
    /\ UNCHANGED <<pc, count, started, runs>>

Stop ==
    /\ started
    /\ lifecycle = "running"
    /\ started' = FALSE
    /\ lifecycle' = "draining"
    /\ UNCHANGED <<pc, count, runs>>

\* Stop waits until nothing is counted and stops the engine.
StopEngine ==
    /\ lifecycle = "draining"
    /\ count = 0
    /\ lifecycle' = "stopped"
    /\ UNCHANGED <<pc, count, started, runs>>

Call(c) ==
    \/ CheckLimit(c) \/ IncrementActiveTransactionsCount(c) \/ CheckStarted(c)
    \/ RunTask(c) \/ FinishTransaction(c) \/ DecrementActiveTransactionsCount(c)

Next ==
    \/ \E c \in Calls : Call(c)
    \/ Run \/ RunEngine \/ Stop \/ StopEngine

\* A call that has begun goes on, and the thread in Stop looks again and again.
Fairness ==
    /\ \A c \in Calls : WF_vars(pc[c] # "new" /\ Call(c))
    /\ WF_vars(StopEngine)

Spec == Init /\ [][Next]_vars /\ Fairness

-----------------------------------------------------------------------------
Inside == {c \in Calls : pc[c] \in {"counted", "task", "engine", "finished", "rejected"}}

\* The count is exact in every interleaving: it is neither lost nor taken back
\* twice on any of the ways out (Execute, ExecutePhase, GetTransactionStatus).
CountIsExact == count = Cardinality(Inside)

\* When Stop has returned no request is left in the executor, in the engine or in
\* its callback ("race between transactions entering the component and someone
\* stopping the component"), and none gets there before the next Run.
StopDrains ==
    lifecycle = "stopped" => \A c \in Calls : pc[c] \notin {"task", "engine", "finished"}

\* Stop returns: no way through Execute, ExecutePhase or GetTransactionStatus leaves
\* the count above zero for good, whatever arrived before or while Stop waits.
StopReturns == lifecycle = "draining" ~> lifecycle = "stopped"

=============================================================================
