------------------------- MODULE OperationDispatcher -------------------------
(***************************************************************************)
(* One operation sent through the dispatcher that every client of a cloud  *)
(* service uses: the target is called, and as long as the operation comes  *)
(* back with the status Retry it is called again after a growing pause,    *)
(* until the retries or the lifetime of the context are used up.           *)
(* The target keeps its side of the contract: a call that does not succeed *)
(* will not finish the context, one that succeeds finishes it once.        *)
(* Producer and consumer streaming contexts take the same path; a consumer *)
(* also passes on the parts it receives.                                   *)
(***************************************************************************)
EXTENDS Integers

CONSTANTS
    Delay,       \* delay_duration_ms of the retry strategy
    MaxRetries,  \* maximum_allowed_retry_count
    Lifetime,    \* expiration of the context, on the clock of the model
    MaxParts     \* bound: parts of a stream that are passed on

VARIABLES
    time,        \* steady clock, in units of Delay; stops at the expiration
    strategy,    \* retry_strategy_type
    op           \* the context: where it is, its retry_count and result

dispatcherVars == <<time, strategy, op>>

Statuses == {"Success", "Failure", "Retry"}

DispatcherTypeOK ==
    /\ time \in 0..Lifetime
    /\ strategy \in {"Linear", "Exponential"}
    /\ op \in [pc : {"new", "dispatch", "scheduled", "target", "finish", "done"},
               streaming : BOOLEAN, retry_count : 0..MaxRetries, result : Statuses \cup
                   {"none", "ExhaustedRetries", "Expired", "NotEnoughTime"},
               due : 0..Lifetime, calls : Nat, callbacks : Nat, parts : 0..MaxParts]

\* The pause before the given retry.
GetBackOffDuration(retry_count) ==
    IF retry_count = 0 THEN 0
    ELSE IF strategy = "Linear" THEN retry_count * Delay
    ELSE 2^(retry_count - 1) * Delay

DispatcherInit ==
    /\ time = 0
    /\ strategy = "Linear"
    /\ op = [pc |-> "new", streaming |-> FALSE, retry_count |-> 0, result |-> "none",
             due |-> 0, calls |-> 0, callbacks |-> 0, parts |-> 0]

TimePasses ==
    /\ time < Lifetime
    /\ time' = time + 1
    /\ UNCHANGED <<strategy, op>>

\* Dispatch and its two streaming forms wrap the callback of the context and
\* start the first attempt. The dispatcher was built with either strategy.
Dispatch ==
    /\ op.pc = "new"
    /\ op' = [op EXCEPT !.pc = "dispatch"]
    /\ strategy' \in {"Linear", "Exponential"}
    /\ UNCHANGED time

DispatchConsumerStreaming ==
    /\ op.pc = "new"
    /\ op' = [op EXCEPT !.pc = "dispatch", !.streaming = TRUE]
    /\ strategy' \in {"Linear", "Exponential"}
    /\ UNCHANGED time

\* The operation is at its target.
CallTarget(o) == [o EXCEPT !.pc = "target", !.calls = @ + 1]

Finish(o, result) == [o EXCEPT !.pc = "finish", !.result = result]

Exhausted(o) == o.retry_count >= MaxRetries

\* Mutant: only an expired context is refused.
FitsIfNotExpired(o) == TRUE

\* There is time left for the pause.
FitsLifetime(o) == Lifetime - time > GetBackOffDuration(o.retry_count)

\* DispatchWithRetry: the first attempt is made at once; a later one is queued
\* on the executor unless it is out of retries or of time. The executor may
\* refuse it, with Retry when its queue is full, and that result is handled
\* like the target's.
DispatchWithRetry ==
    /\ op.pc = "dispatch"
    /\ IF op.retry_count = 0 THEN op' = CallTarget(op)
       ELSE IF Exhausted(op) THEN op' = Finish(op, "ExhaustedRetries")
       ELSE IF Lifetime <= time THEN op' = Finish(op, "Expired")
       ELSE IF ~FitsLifetime(op) THEN op' = Finish(op, "NotEnoughTime")
       ELSE \/ op' = [op EXCEPT !.pc = "scheduled",
                                !.due = time + GetBackOffDuration(op.retry_count)]
            \/ \E refusal \in {"Failure", "Retry"} : op' = Finish(op, refusal)
    /\ UNCHANGED <<time, strategy>>

\* Mutant: an attempt whose time has passed is not run.
AttemptRunsOnTheDot ==
    /\ op.pc = "scheduled" /\ time = op.due
    /\ op' = CallTarget(op)
    /\ UNCHANGED <<time, strategy>>

\* The executor runs the attempt, at its time or later.
AttemptRuns ==
    /\ op.pc = "scheduled" /\ time >= op.due
    /\ op' = CallTarget(op)
    /\ UNCHANGED <<time, strategy>>

\* The target passes on a part of a stream: not the end of the operation.
PartArrives ==
    /\ op.pc = "target" /\ op.streaming /\ op.parts < MaxParts
    /\ op' = [op EXCEPT !.parts = @ + 1]
    /\ UNCHANGED <<time, strategy>>

\* The target refuses the call, or finishes the context.
TargetAnswers ==
    /\ op.pc = "target"
    /\ \E result \in Statuses : op' = Finish(op, result)
    /\ UNCHANGED <<time, strategy>>

\* The callback that Dispatch has put in front of the caller's.
WrappedCallback(o) ==
    IF o.result = "Retry" THEN [o EXCEPT !.retry_count = @ + 1, !.pc = "dispatch"]
    ELSE [o EXCEPT !.pc = "done", !.callbacks = @ + 1]

ContextFinishes ==
    /\ op.pc = "finish"
    /\ op' = WrappedCallback(op)
    /\ UNCHANGED <<time, strategy>>

DispatcherStep ==
    \/ DispatchWithRetry \/ AttemptRuns \/ TargetAnswers \/ ContextFinishes

DispatcherNext ==
    \/ TimePasses
    \/ Dispatch
    \/ DispatchConsumerStreaming
    \/ PartArrives
    \/ DispatcherStep

\* The executor runs its tasks and targets answer.
DispatcherFairness ==
    WF_dispatcherVars(TimePasses) /\ WF_dispatcherVars(DispatcherStep)

DispatcherSpec ==
    DispatcherInit /\ [][DispatcherNext]_dispatcherVars /\ DispatcherFairness

-----------------------------------------------------------------------------
(* Properties.                                                              *)

\* The caller is called back once, with a result it can act on: never Retry,
\* however often the target and the executor answer so, and after no more
\* calls of the target than the strategy allows. No attempt is put off to the
\* end of the context's lifetime or beyond it.
CallerHearsInTime ==
    /\ op.callbacks = IF op.pc = "done" THEN 1 ELSE 0
    /\ op.pc = "done" => op.result # "Retry"
    /\ op.calls <= MaxRetries
    /\ op.pc = "scheduled" => op.due < Lifetime

\* A dispatched operation comes to an end.
OperationSettled == op.pc \in {"new", "done"}

=============================================================================
