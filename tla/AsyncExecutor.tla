---------------------------- MODULE AsyncExecutor ----------------------------
(***************************************************************************)
(* The thread pool under every service: for each thread of the pool one    *)
(* urgent executor, which runs tasks at or after their timestamp, and one  *)
(* normal executor with a queue of high and one of normal priority.        *)
(* Schedule reads the running flags without the mutex that guards the      *)
(* queues, so it may overlap Stop. The workers' condition variables are    *)
(* modelled with the notifications they may miss.                          *)
(***************************************************************************)
EXTENDS Integers, Sequences, FiniteSets

CONSTANTS
    Threads,    \* indices of the pool
    Tasks,      \* 1..n, numbered in the order in which they are scheduled
    QueueCap,   \* capacity of each queue
    MaxTime     \* bound: the last tick of the clock

Never == MaxTime + 1    \* UINT64_MAX and the wait of ten years

Urgent == Threads \X {"urgent"}
Normal == Threads \X {"normal"}
Executors == Urgent \cup Normal

VARIABLES
    clock,
    dropOnStop,   \* drop_tasks_on_stop_
    accepting,    \* running_ of the pool
    task,
    thread,       \* per executor: is_running_ and its thread
    stop,         \* the call of Stop: how many executors it has stopped
    settled       \* history: the tasks accepted before Stop was called

executorVars == <<clock, dropOnStop, accepting, task, thread, stop, settled>>

NoExecutor == <<0, "none">>

ExecutorTypeOK ==
    /\ clock \in 0..MaxTime
    /\ dropOnStop \in BOOLEAN /\ accepting \in BOOLEAN
    /\ task \in [Tasks -> [state : {"new", "checked", "queued", "refused", "popped",
                                    "running", "done", "skipped", "dropped"},
                           on : Executors \cup {NoExecutor}, at : 0..MaxTime,
                           high : BOOLEAN, cancelled : BOOLEAN, seq : Nat]]
    /\ thread \in [Executors -> [running : BOOLEAN,
                                 pc : {"off", "started", "loop", "blocked", "busy", "exited"},
                                 next : 0..Never, wakeAt : 0..Never,
                                 update : BOOLEAN, notified : BOOLEAN]]
    /\ stop \in [pc : {"none", "signal", "wait", "done"}, left : Seq(Executors)]
    /\ settled \subseteq Tasks

Queued(e) == {t \in Tasks : task[t].state = "queued" /\ task[t].on = e}

ExecutorInit ==
    /\ clock = 0
    /\ dropOnStop = FALSE
    /\ accepting = FALSE
    /\ task = [t \in Tasks |-> [state |-> "new", on |-> NoExecutor, at |-> 0,
                                high |-> FALSE, cancelled |-> FALSE, seq |-> 0]]
    /\ thread = [e \in Executors |-> [running |-> FALSE, pc |-> "off", next |-> Never,
                                      wakeAt |-> Never, update |-> FALSE, notified |-> FALSE]]
    /\ stop = [pc |-> "none", left |-> <<>>]
    /\ settled = {}

Tick ==
    /\ clock < MaxTime
    /\ clock' = clock + 1
    /\ UNCHANGED <<dropOnStop, accepting, task, thread, stop, settled>>

\* Every executor gets its thread, then the pool accepts tasks. The service
\* runs an executor once, and was built to drop its tasks on Stop or not to.
RunExecutor ==
    /\ ~accepting /\ stop.pc = "none"
    /\ dropOnStop' \in BOOLEAN
    /\ thread' = [e \in Executors |-> [thread[e] EXCEPT !.running = TRUE, !.pc = "started"]]
    /\ accepting' = TRUE
    /\ UNCHANGED <<clock, task, stop, settled>>

-----------------------------------------------------------------------------
(* Scheduling.                                                              *)

\* Any executor of the pool: the three balancing schemes and the affinity to
\* the calling thread only choose among them.
PickTaskExecutor(pool) == pool

\* Schedule up to the point where the task is built: both running flags have
\* been read. Urgent tasks and those with a timestamp go to the urgent pool.
ScheduleCheck(t) ==
    \E urgent \in BOOLEAN :
    \E e \in PickTaskExecutor(IF urgent THEN Urgent ELSE Normal), at \in 0..MaxTime,
       high \in BOOLEAN :
        /\ urgent => ~high
        /\ ~urgent => at = 0
        /\ task[t].state = "new" /\ \A u \in 1..(t - 1) : task[u].state # "new"
        /\ task' = [task EXCEPT ![t] =
                     [@ EXCEPT !.state = IF accepting /\ thread[e].running
                                         THEN "checked" ELSE "refused",
                               !.on = e, !.at = at, !.high = high]]
        /\ UNCHANGED <<clock, dropOnStop, accepting, thread, stop, settled>>

\* Mutant: the worker is not told that it waits for too long.
PushQuietly(w, at) == [w EXCEPT !.notified = TRUE]

\* What pushing a task with this timestamp tells the worker.
Push(w, at) ==
    [w EXCEPT !.notified = TRUE,
              !.next = IF at < @ THEN at ELSE @,
              !.update = @ \/ at < w.next]

\* ScheduleFor of an urgent executor, under its mutex.
ScheduleFor(t) ==
    LET e == task[t].on IN
    /\ task[t].state = "checked" /\ e \in Urgent
    /\ IF Cardinality(Queued(e)) >= QueueCap
       THEN /\ task' = [task EXCEPT ![t].state = "refused"]
            /\ UNCHANGED thread
       ELSE /\ task' = [task EXCEPT ![t].state = "queued"]
            /\ thread' = [thread EXCEPT ![e] = Push(@, task[t].at)]
    /\ UNCHANGED <<clock, dropOnStop, accepting, stop, settled>>

\* Schedule of a normal executor: a push on one of its two bounded queues,
\* outside the mutex.
ScheduleNormal(t) ==
    LET e == task[t].on
        same == {u \in Queued(e) : task[u].high = task[t].high} IN
    /\ task[t].state = "checked" /\ e \in Normal
    /\ IF Cardinality(same) >= QueueCap
       THEN /\ task' = [task EXCEPT ![t].state = "refused"]
            /\ UNCHANGED thread
       ELSE /\ task' = [task EXCEPT ![t].state = "queued", ![t].seq = Cardinality(same)]
            /\ thread' = [thread EXCEPT ![e].notified = TRUE]
    /\ UNCHANGED <<clock, dropOnStop, accepting, stop, settled>>

\* The cancellation callback of a task with a timestamp. It waits while the
\* task executes; after it, it sets a flag that nobody reads any more.
Cancel(t) ==
    /\ task[t].on \in Urgent /\ ~task[t].cancelled
    /\ task[t].state \in {"queued", "popped"}
    /\ task' = [task EXCEPT ![t].cancelled = TRUE]
    /\ UNCHANGED <<clock, dropOnStop, accepting, thread, stop, settled>>

-----------------------------------------------------------------------------
(* The workers.                                                             *)

WorkerStarts(e) ==
    /\ thread[e].pc = "started"
    /\ thread' = [thread EXCEPT ![e].pc = "blocked"]
    /\ UNCHANGED <<clock, dropOnStop, accepting, task, stop, settled>>

\* The predicate an urgent worker waits for.
UrgentPredicate(w) == ~w.running \/ w.update \/ clock > w.next

\* wait_for returns: the predicate held when the wait began ("loop"), a
\* notification found it true, or the time is over.
Woken(w, predicate) ==
    \/ w.pc = "loop"
    \/ w.pc = "blocked" /\ ((w.notified /\ predicate) \/ clock >= w.wakeAt)

\* The wait an urgent worker begins next: it does not block if its predicate
\* already holds.
BeginWait(w) ==
    [w EXCEPT !.pc = IF UrgentPredicate(w) THEN "loop" ELSE "blocked", !.notified = FALSE]

\* The task on top of the priority queue, without the cancelled tasks before it.
Live(e) == {t \in Queued(e) : ~task[t].cancelled}
IsTop(t, e) == t \in Live(e) /\ \A u \in Live(e) : task[t].at <= task[u].at

\* The cancelled tasks popped on the way to the top.
Discarded(e) ==
    {t \in Queued(e) : task[t].cancelled /\ \A u \in Live(e) : task[t].at <= task[u].at}

\* Mutant: a worker that is stopped leaves at once.
LeaveAtOnce(e) == ~thread[e].running

\* A worker leaves when it is stopped and its queue is empty.
Leaves(e) == Live(e) = {} /\ ~thread[e].running

\* Mutant: the worker runs the first task without looking at the clock.
DueAnyTime(t) == TRUE

Due(t) == clock >= task[t].at

\* One round of an urgent worker, from the wait to the next one or to the
\* execution of the task on top, all under the mutex.
UrgentRound(e) ==
    LET w == [thread[e] EXCEPT !.update = FALSE]
        discard(f) == [t \in Tasks |-> IF t \in Discarded(e) THEN [f[t] EXCEPT !.state = "skipped"]
                                                             ELSE f[t]]
    IN
    /\ e \in Urgent
    /\ Woken(thread[e], UrgentPredicate(thread[e]))
    /\ \/ /\ Leaves(e)
          /\ thread' = [thread EXCEPT ![e] = [w EXCEPT !.pc = "exited"]]
          /\ task' = discard(task)
       \/ /\ ~Leaves(e) /\ Live(e) = {}
          /\ thread' = [thread EXCEPT ![e] =
                         BeginWait([w EXCEPT !.next = Never, !.wakeAt = Never])]
          /\ task' = discard(task)
       \/ \E t \in Live(e) :
            /\ ~Leaves(e) /\ IsTop(t, e) /\ ~Due(t)
            /\ thread' = [thread EXCEPT ![e] =
                           BeginWait([w EXCEPT !.next = task[t].at, !.wakeAt = task[t].at])]
            /\ task' = discard(task)
       \/ \E t \in Live(e) :
            /\ ~Leaves(e) /\ IsTop(t, e) /\ Due(t)
            /\ thread' = [thread EXCEPT ![e] = [w EXCEPT !.next = task[t].at, !.pc = "busy"]]
            /\ task' = [discard(task) EXCEPT ![t].state = "popped"]
    /\ UNCHANGED <<clock, dropOnStop, accepting, stop, settled>>

\* The next task of a normal worker: the oldest of the high ones, else the
\* oldest of the normal ones.
IsFirst(t, e) ==
    /\ t \in Queued(e)
    /\ \A u \in Queued(e) :
         \/ task[t].high /\ ~task[u].high
         \/ task[t].high = task[u].high /\ task[t].seq <= task[u].seq

\* One round of a normal worker. Its wait also ends after five milliseconds,
\* which stands for a notification it missed.
NormalRound(e) ==
    /\ e \in Normal
    /\ thread[e].pc = "blocked"
    /\ \/ /\ Leaves(e)
          /\ thread' = [thread EXCEPT ![e].pc = "exited"]
          /\ UNCHANGED task
       \/ \E t \in Queued(e) :
            /\ ~Leaves(e) /\ IsFirst(t, e)
            /\ thread' = [thread EXCEPT ![e].pc = "busy"]
            /\ task' = [u \in Tasks |->
                         IF u = t THEN [task[u] EXCEPT !.state = "popped"]
                         ELSE IF u \in Queued(e) /\ task[u].high = task[t].high
                              THEN [task[u] EXCEPT !.seq = @ - 1] ELSE task[u]]
    /\ UNCHANGED <<clock, dropOnStop, accepting, stop, settled>>

\* Execute begins: a task cancelled after it was popped is skipped.
Execute(e) ==
    \E t \in Tasks :
        /\ thread[e].pc = "busy" /\ task[t].on = e /\ task[t].state = "popped"
        /\ task' = [task EXCEPT ![t].state = IF task[t].cancelled THEN "skipped" ELSE "running"]
        /\ thread' = [thread EXCEPT ![e].pc = IF task[t].cancelled
                                              THEN (IF e \in Urgent THEN "loop" ELSE "blocked")
                                              ELSE @]
        /\ UNCHANGED <<clock, dropOnStop, accepting, stop, settled>>

\* Execute returns. An urgent worker does not block before its next round.
Executed(e) ==
    \E t \in Tasks :
        /\ thread[e].pc = "busy" /\ task[t].on = e /\ task[t].state = "running"
        /\ task' = [task EXCEPT ![t].state = "done"]
        /\ thread' = [thread EXCEPT ![e].pc = IF e \in Urgent THEN "loop" ELSE "blocked"]
        /\ UNCHANGED <<clock, dropOnStop, accepting, stop, settled>>

-----------------------------------------------------------------------------
(* Stop: one executor after the other, the urgent one of a thread first.     *)

StopOrder == CHOOSE s \in [1..Cardinality(Executors) -> Executors] :
    /\ \A e \in Executors : \E i \in DOMAIN s : s[i] = e
    /\ \A i, j \in DOMAIN s : i < j => \/ s[i][1] < s[j][1]
                                       \/ s[i][1] = s[j][1] /\ s[i] \in Urgent

StopCalled ==
    /\ accepting /\ stop.pc = "none"
    /\ accepting' = FALSE
    /\ stop' = [pc |-> "signal", left |-> StopOrder]
    /\ settled' = {t \in Tasks : task[t].state \in {"queued", "popped", "running"}}
    /\ UNCHANGED <<clock, dropOnStop, task, thread>>

\* Mutant: the worker is not notified.
StopExecutorQuietly ==
    LET e == Head(stop.left) IN
    /\ stop.pc = "signal"
    /\ thread' = [thread EXCEPT ![e].running = FALSE]
    /\ task' = [t \in Tasks |-> IF dropOnStop /\ t \in Queued(e)
                                THEN [task[t] EXCEPT !.state = "dropped"] ELSE task[t]]
    /\ stop' = [stop EXCEPT !.pc = "wait"]
    /\ UNCHANGED <<clock, dropOnStop, accepting, settled>>

\* Stop of a single executor up to its wait for the thread.
StopExecutor ==
    LET e == Head(stop.left) IN
    /\ stop.pc = "signal"
    /\ thread' = [thread EXCEPT ![e].running = FALSE, ![e].notified = TRUE]
    /\ task' = [t \in Tasks |-> IF dropOnStop /\ t \in Queued(e)
                                THEN [task[t] EXCEPT !.state = "dropped"] ELSE task[t]]
    /\ stop' = [stop EXCEPT !.pc = "wait"]
    /\ UNCHANGED <<clock, dropOnStop, accepting, settled>>

\* The thread has started and stopped.
ExecutorStopped ==
    /\ stop.pc = "wait"
    /\ thread[Head(stop.left)].pc = "exited"
    /\ stop' = [pc |-> IF Len(stop.left) = 1 THEN "done" ELSE "signal", left |-> Tail(stop.left)]
    /\ UNCHANGED <<clock, dropOnStop, accepting, task, thread, settled>>

-----------------------------------------------------------------------------

WorkerStep(e) ==
    \/ WorkerStarts(e)
    \/ UrgentRound(e)
    \/ NormalRound(e)
    \/ Execute(e)
    \/ Executed(e)

StopStep == StopExecutor \/ ExecutorStopped

ExecutorNext ==
    \/ Tick
    \/ RunExecutor
    \/ \E t \in Tasks : ScheduleCheck(t) \/ ScheduleFor(t) \/ ScheduleNormal(t) \/ Cancel(t)
    \/ \E e \in Executors : WorkerStep(e)
    \/ StopCalled
    \/ StopStep

\* Time passes, threads are scheduled, tasks and the stopping thread go on.
ExecutorFairness ==
    /\ WF_executorVars(Tick)
    /\ \A e \in Executors : WF_executorVars(WorkerStep(e))
    /\ WF_executorVars(StopStep)

ExecutorSpec == ExecutorInit /\ [][ExecutorNext]_executorVars /\ ExecutorFairness

-----------------------------------------------------------------------------
(* Properties.                                                              *)

\* Stop returns only when every task that had been accepted before it was
\* called has run or was cancelled, unless the executor drops its tasks. (A
\* call of Schedule that overlaps Stop may leave a task in a queue nobody
\* serves any more.)
StopRunsSettledTasks ==
    stop.pc = "done" =>
        \A t \in settled : \/ task[t].state \in {"done", "skipped"}
                           \/ dropOnStop /\ task[t].state = "dropped"

\* A task never starts before its timestamp, nor after its cancellation callback
\* has returned.
StartsOnTime ==
    [][\A t \in Tasks : task[t].state # "running" /\ task'[t].state = "running" =>
          clock >= task[t].at /\ ~task[t].cancelled]_executorVars

\* Where the executor has to come to again and again. No wake-up is lost: tasks
\* leave the queue of a running executor. Stop returns, also when it is called
\* before the threads have started.
ExecutorSettled ==
    /\ accepting => \A t \in Tasks : task[t].state # "queued"
    /\ stop.pc \in {"none", "done"}

=============================================================================
