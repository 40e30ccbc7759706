---------------------------- MODULE BudgetProtocol ----------------------------
(***************************************************************************)
(* How transactions consume privacy budget on one coordinator: the        *)
(* two-phase protocol on the timeframes of a budget key                    *)
(* (cc/pbs/budget_key_transaction_protocols, for one bucket and for a      *)
(* batch of them), the timeframe manager's Update, which journals a change *)
(* and applies it in memory afterwards, the commands that retry a phase    *)
(* (cc/pbs/transactions), and restarts, which replay the journal.          *)
(*                                                                         *)
(* The engine appears as the phase of each transaction, which it journals  *)
(* before the phase is executed: a restart executes that phase again.      *)
(* The peer coordinator appears as the choice to abort what went well      *)
(* here. A log entry whose write failed may be in the journal all the      *)
(* same. Replay goes by journal id, so such an entry takes effect where    *)
(* it was written, whenever the storage applied it.                        *)
(***************************************************************************)
EXTENDS TransactionPhases, Sequences, FiniteSets, Functions

CONSTANTS
    Txns,        \* transactions, each with one command
    Workloads,   \* what the clients may ask for: each gives every transaction
                 \* its sequence of [bucket, tokens]
    Budget,      \* kMaxToken: the tokens of a bucket nobody has used
    Free,        \* kZeroUuid: no transaction
    MaxErrors,   \* bound on the errors of loading, updating and logging
    MaxCrashes,  \* bound on the restarts
    Preemption   \* other threads run between the two writes of a Notify

ASSUME BudgetAssumption ==
    /\ IsFiniteSet(Txns) /\ Free \notin Txns
    /\ {Budget, MaxErrors, MaxCrashes} \subseteq Nat
    /\ Preemption \in BOOLEAN
    /\ \A w \in Workloads : \A t \in Txns :
          /\ w[t] \in Seq([bucket : Int, tokens : 1..Budget])
          /\ w[t] # <<>>
          /\ \A i, j \in DOMAIN w[t] : w[t][i].bucket = w[t][j].bucket => i = j

VARIABLES
    requests,   \* the workload of this behaviour
    frames,     \* the timeframes in memory
    logged,     \* the timeframes a replay of the journal gives
    phase,      \* the journalled phase of each transaction
    step,       \* progress within the phase
    idx,        \* the frame the current loop is at
    update,     \* the frames a pending Update writes
    consumed,   \* transactions whose consumption is in the journal
    errors, crashes

vars == <<requests, frames, logged, phase, step, idx, update, consumed, errors, crashes>>

Entries(t) == requests[t]
Bucket(t, i) == Entries(t)[i].bucket
Buckets(t) == {Bucket(t, i) : i \in DOMAIN Entries(t)}
Tokens(t, b) == Entries(t)[CHOOSE i \in DOMAIN Entries(t) : Bucket(t, i) = b].tokens
IsBatch(t) == Len(Entries(t)) > 1
AllBuckets == UNION {Buckets(t) : t \in Txns}

Frames == [token_count : 0..Budget, active_token_count : 0..Budget,
           active_transaction_id : Txns \cup {Free}]

Steps == {"call", "lock", "log", "apply", "rewrite", "ok", "failed"}

TypeOK ==
    /\ requests \in Workloads
    /\ frames \in [AllBuckets -> Frames]
    /\ logged \in [AllBuckets -> Frames]
    /\ phase \in [Txns -> {"Prepare", "Commit", "CommitNotify", "AbortNotify",
                           "Committed", "Aborted", "Unknown"}]
    /\ step \in [Txns -> Steps]
    /\ DOMAIN idx = Txns /\ \A t \in Txns : idx[t] \in DOMAIN Entries(t)
    /\ DOMAIN update = Txns /\ \A t \in Txns : update[t] \in [Buckets(t) -> Frames]
    /\ consumed \subseteq Txns
    /\ errors \in 0..MaxErrors
    /\ crashes \in 0..MaxCrashes

UnusedFrame ==
    [token_count |-> Budget, active_token_count |-> 0, active_transaction_id |-> Free]

NoUpdate(t) == [b \in Buckets(t) |-> UnusedFrame]

Init ==
    /\ requests \in Workloads
    /\ frames = [b \in AllBuckets |-> UnusedFrame]
    /\ logged = frames
    /\ phase = [t \in Txns |-> "Prepare"]
    /\ step = [t \in Txns |-> "call"]
    /\ idx = [t \in Txns |-> 1]
    /\ update = [t \in Txns |-> NoUpdate(t)]
    /\ consumed = {}
    /\ errors = 0
    /\ crashes = 0

-----------------------------------------------------------------------------
Executing(t, p) == phase[t] = p /\ step[t] = "call"

Holds(t, b) == frames[b].active_transaction_id = t

Short(t, b) == frames[b].token_count < Tokens(t, b)

GoTo(t, s) == step' = [step EXCEPT ![t] = s]

\* Prepare reads the frames and changes nothing. A frame another transaction
\* holds is retried until the retries run out.
Prepare(t) ==
    /\ Executing(t, "Prepare")
    /\ \/ /\ \A b \in Buckets(t) : frames[b].active_transaction_id = Free /\ ~Short(t, b)
          /\ GoTo(t, "ok")
       \/ /\ \E b \in Buckets(t) : frames[b].active_transaction_id # Free \/ Short(t, b)
          /\ GoTo(t, "failed")
    /\ UNCHANGED <<frames, logged, phase, idx, update, consumed, errors, crashes>>

\* Mutant: batches may name their buckets in any order.
AnyOrder(t) == TRUE

AreBudgetsInIncreasingOrder(t) ==
    \A i, j \in DOMAIN Entries(t) : i < j => Bucket(t, i) <= Bucket(t, j)

\* A Commit that finds the first frame already its own is a retry that has
\* nothing left to do; otherwise it starts to lock its frames.
Commit(t) ==
    /\ Executing(t, "Commit")
    /\ \/ /\ ~AreBudgetsInIncreasingOrder(t)
          /\ GoTo(t, "failed")
          /\ UNCHANGED idx
       \/ /\ AreBudgetsInIncreasingOrder(t)
          /\ Holds(t, Bucket(t, 1))
          /\ GoTo(t, "ok")
          /\ UNCHANGED idx
       \/ /\ AreBudgetsInIncreasingOrder(t)
          /\ ~Holds(t, Bucket(t, 1))
          /\ GoTo(t, "lock")
          /\ idx' = [idx EXCEPT ![t] = 1]
    /\ UNCHANGED <<frames, logged, phase, update, consumed, errors, crashes>>

\* Mutant: the locks of other transactions are released too.
ReleaseAllLocks(t, f) ==
    [b \in AllBuckets |->
        IF b \in Buckets(t) THEN [f[b] EXCEPT !.active_transaction_id = Free] ELSE f[b]]

\* f with the locks that t holds released.
ReleaseAcquiredLocksOnTimeframes(t, f) ==
    [b \in AllBuckets |->
        IF f[b].active_transaction_id = t
        THEN [f[b] EXCEPT !.active_transaction_id = Free]
        ELSE f[b]]

Locked(t, b) == [frames EXCEPT ![b].active_transaction_id = t]

\* What Commit asks Update to write: the tokens that will be left, under the lock.
CommitUpdate(t) ==
    [b \in Buckets(t) |->
        [token_count |-> frames[b].token_count,
         active_token_count |-> frames[b].token_count - Tokens(t, b),
         active_transaction_id |-> t]]

\* compare_exchange on the frame failed: a batch gives back the frames it has
\* locked so far, and the command tries again, or has run out of retries.
FrameBusy(t) ==
    /\ step[t] = "lock"
    /\ frames[Bucket(t, idx[t])].active_transaction_id # Free
    /\ frames' = ReleaseAcquiredLocksOnTimeframes(t, frames)
    /\ \E s \in {"call", "failed"} : GoTo(t, s)
    /\ UNCHANGED <<logged, phase, idx, update, consumed, errors, crashes>>

\* Mutant: a batch keeps its locks when the budget is short.
FrameShortKeepsLocks(t) ==
    /\ step[t] = "lock"
    /\ LET b == Bucket(t, idx[t]) IN
          /\ frames[b].active_transaction_id = Free
          /\ Short(t, b)
          /\ frames' = Locked(t, b)
    /\ GoTo(t, "failed")
    /\ UNCHANGED <<logged, phase, idx, update, consumed, errors, crashes>>

\* The budget went between Prepare and Commit. A batch releases its locks, a
\* single Commit keeps the one it has taken and leaves it to Abort.
FrameShort(t) ==
    /\ step[t] = "lock"
    /\ LET b == Bucket(t, idx[t]) IN
          /\ frames[b].active_transaction_id = Free
          /\ Short(t, b)
          /\ frames' = IF IsBatch(t)
                       THEN ReleaseAcquiredLocksOnTimeframes(t, Locked(t, b))
                       ELSE Locked(t, b)
    /\ GoTo(t, "failed")
    /\ UNCHANGED <<logged, phase, idx, update, consumed, errors, crashes>>

LockFrame(t) ==
    /\ step[t] = "lock"
    /\ LET b == Bucket(t, idx[t]) IN
          /\ frames[b].active_transaction_id = Free
          /\ ~Short(t, b)
          /\ frames' = Locked(t, b)
    /\ \/ /\ idx[t] < Len(Entries(t))
          /\ idx' = [idx EXCEPT ![t] = @ + 1]
          /\ UNCHANGED <<step, update>>
       \/ /\ idx[t] = Len(Entries(t))
          /\ update' = [update EXCEPT ![t] = CommitUpdate(t)]
          /\ GoTo(t, "log")
          /\ UNCHANGED idx
    /\ UNCHANGED <<logged, phase, consumed, errors, crashes>>

\* Mutant: Notify keeps the tokens there were before the Commit.
NotifyRestores(t) ==
    [b \in Buckets(t) |->
        [token_count |-> frames[b].token_count,
         active_token_count |-> 0, active_transaction_id |-> Free]]

NotifyUpdate(t) ==
    [b \in Buckets(t) |->
        [token_count |-> frames[b].active_token_count,
         active_token_count |-> 0, active_transaction_id |-> Free]]

AbortUpdate(t) ==
    [b \in Buckets(t) |->
        [token_count |-> frames[b].token_count,
         active_token_count |-> 0, active_transaction_id |-> Free]]

\* Notify and Abort look at the first frame only: if it is not theirs, they
\* have run before.
NotifyOrAbort(t, p, newFrames) ==
    /\ Executing(t, p)
    /\ \/ /\ ~Holds(t, Bucket(t, 1))
          /\ GoTo(t, "ok")
          /\ UNCHANGED update
       \/ /\ Holds(t, Bucket(t, 1))
          /\ update' = [update EXCEPT ![t] = newFrames]
          /\ GoTo(t, "log")
    /\ UNCHANGED <<frames, logged, phase, idx, consumed, errors, crashes>>

Notify(t) == NotifyOrAbort(t, "CommitNotify", NotifyUpdate(t))

\* Mutant: Abort returns without looking for locks.
AbortForgetsLocks(t) ==
    /\ Executing(t, "AbortNotify")
    /\ GoTo(t, "ok")
    /\ UNCHANGED <<frames, logged, phase, idx, update, consumed, errors, crashes>>

Abort(t) == NotifyOrAbort(t, "AbortNotify", AbortUpdate(t))

-----------------------------------------------------------------------------
\* f with the pending update of t written over it.
Written(t, f) == [b \in AllBuckets |-> IF b \in Buckets(t) THEN update[t][b] ELSE f[b]]

Persist(t) ==
    /\ logged' = Written(t, logged)
    /\ consumed' = IF phase[t] = "CommitNotify" THEN consumed \cup {t} ELSE consumed

\* Update: the journal has the new frames before memory has them.
Log(t) ==
    /\ step[t] = "log"
    /\ Persist(t)
    /\ GoTo(t, "apply")
    /\ idx' = [idx EXCEPT ![t] = 1]
    /\ UNCHANGED <<frames, phase, update, errors, crashes>>

AnError == errors < MaxErrors /\ errors' = errors + 1

\* The journal reports a failure; the entry is or is not in the journal. A
\* Commit keeps its locks for Abort to release.
LogFails(t) ==
    /\ step[t] = "log"
    /\ AnError
    /\ Persist(t) \/ UNCHANGED <<logged, consumed>>
    /\ GoTo(t, "failed")
    /\ UNCHANGED <<frames, phase, idx, update, crashes>>

\* Update returns an error before it logs: the group has left the cache. A
\* batch Commit releases its locks then.
UpdateRefused(t) ==
    /\ step[t] = "log"
    /\ AnError
    /\ frames' = IF phase[t] = "Commit" /\ IsBatch(t)
                 THEN ReleaseAcquiredLocksOnTimeframes(t, frames)
                 ELSE frames
    /\ GoTo(t, "failed")
    /\ UNCHANGED <<logged, phase, idx, update, consumed, crashes>>

\* Load returns an error.
LoadFails(t) ==
    /\ \E p \in {"Prepare", "Commit", "CommitNotify", "AbortNotify"} : Executing(t, p)
    /\ AnError
    /\ GoTo(t, "failed")
    /\ UNCHANGED <<frames, logged, phase, idx, update, consumed, crashes>>

\* OnLogUpdateCallback writes one frame after the other in memory, the lock of
\* each last. The Notify of a single bucket then writes its frame once more.
OnLogUpdateCallback(t) ==
    /\ step[t] = "apply"
    /\ LET b == Bucket(t, idx[t]) IN frames' = [frames EXCEPT ![b] = update[t][b]]
    /\ \/ /\ idx[t] < Len(Entries(t))
          /\ idx' = [idx EXCEPT ![t] = @ + 1]
          /\ UNCHANGED step
       \/ /\ idx[t] = Len(Entries(t))
          /\ GoTo(t, IF Preemption /\ phase[t] = "CommitNotify" /\ ~IsBatch(t)
                     THEN "rewrite" ELSE "ok")
          /\ UNCHANGED idx
    /\ UNCHANGED <<logged, phase, update, consumed, errors, crashes>>

\* ConsumeBudgetTransactionProtocol::OnNotifyLogged writes what Update has
\* written already, without looking at who holds the frame by now.
OnNotifyLogged(t) ==
    /\ step[t] = "rewrite"
    /\ frames' = Written(t, frames)
    /\ GoTo(t, "ok")
    /\ UNCHANGED <<logged, phase, idx, update, consumed, errors, crashes>>

-----------------------------------------------------------------------------
\* The engine journals the next phase. The peer may have failed: what went well
\* here is aborted then.
ProceedToNextPhase(t) ==
    /\ step[t] \in {"ok", "failed"}
    /\ phase[t] \notin {"Committed", "Aborted", "Unknown"}
    /\ LET next == NextPhase(phase[t], IF step[t] = "ok" THEN "Success" ELSE "Failure")
           peerFailed == IF step[t] = "ok" /\ phase[t] \in {"Prepare", "Commit"}
                         THEN {"AbortNotify"} ELSE {}
       IN \E p \in {next} \cup peerFailed : phase' = [phase EXCEPT ![t] = p]
    /\ GoTo(t, "call")
    /\ UNCHANGED <<frames, logged, idx, update, consumed, errors, crashes>>

\* Mutant: the recovered frames are not locked.
RestartUnlocked ==
    /\ crashes < MaxCrashes
    /\ crashes' = crashes + 1
    /\ frames' = [b \in AllBuckets |-> [logged[b] EXCEPT !.active_transaction_id = Free]]
    /\ step' = [t \in Txns |-> "call"]
    /\ idx' = [t \in Txns |-> 1]
    /\ update' = [t \in Txns |-> NoUpdate(t)]
    /\ UNCHANGED <<logged, phase, consumed, errors>>

\* The process restarts: memory is what the journal says, and every transaction
\* executes its journalled phase again.
Restart ==
    /\ crashes < MaxCrashes
    /\ crashes' = crashes + 1
    /\ frames' = logged
    /\ step' = [t \in Txns |-> "call"]
    /\ idx' = [t \in Txns |-> 1]
    /\ update' = [t \in Txns |-> NoUpdate(t)]
    /\ UNCHANGED <<logged, phase, consumed, errors>>

Command(t) ==
    \/ Prepare(t) \/ Commit(t) \/ FrameBusy(t) \/ FrameShort(t) \/ LockFrame(t)
    \/ Notify(t) \/ Abort(t) \/ Log(t) \/ OnLogUpdateCallback(t) \/ OnNotifyLogged(t)
    \/ ProceedToNextPhase(t)

Error(t) == LogFails(t) \/ UpdateRefused(t) \/ LoadFails(t)

Next ==
    /\ (\E t \in Txns : Command(t) \/ Error(t)) \/ Restart
    /\ UNCHANGED requests

\* Every command runs on the executor's threads and is not put off for ever.
Fairness == \A t \in Txns : WF_vars(Command(t) /\ UNCHANGED requests)

Spec == Init /\ [][Next]_vars /\ Fairness

-----------------------------------------------------------------------------
Spent(b) == SumFunction([t \in {u \in consumed : b \in Buckets(u)} |-> Tokens(t, b)])

\* The journal accounts for every token: a bucket has what it began with, less
\* what the transactions whose Notify it holds have asked for. No sequence of
\* commits, aborts, errors and restarts spends a token twice or gives one back
\* (CommitUpdate of OnCommitBudgetKeyLoaded, applied by Notify).
BudgetConserved ==
    \A b \in AllBuckets : logged[b].token_count = Budget - Spent(b)

\* What the engine was told about a transaction is what became of its tokens:
\* a transaction that reached Committed has consumed its budget on every bucket
\* and one that reached Aborted on none.
OutcomeMatchesBudget ==
    \A t \in Txns : /\ phase[t] = "Committed" => t \in consumed
                    /\ phase[t] = "Aborted" => t \notin consumed

Reserved(t, f) ==
    \A b \in Buckets(t) :
        /\ f[b].active_transaction_id = t
        /\ f[b].active_token_count = f[b].token_count - Tokens(t, b)

\* A Commit that has succeeded has its tokens set aside until Notify or Abort,
\* in memory and in the journal, whatever other transactions do to the frames
\* ("it means no other threads can pass this line", OnCommitBudgetKeyLoaded).
CommitReserves ==
    \A t \in Txns :
        \/ phase[t] = "Commit" /\ step[t] = "ok"
        \/ phase[t] = "CommitNotify" /\ step[t] \in {"call", "log"} /\ t \notin consumed
        => Reserved(t, frames) /\ Reserved(t, logged)

\* "All the timeframe locks are acquired or none": what Commit, Notify and Abort
\* of a batch rely on when they look at the first frame only. It may fail while
\* the frames are being locked or written one by one, and at no other time.
LockAllOrNone ==
    \A t \in Txns : step[t] \notin {"lock", "apply", "rewrite"} =>
        \/ \A b \in Buckets(t) : Holds(t, b)
        \/ \A b \in Buckets(t) : ~Holds(t, b)

\* A transaction that is over holds no frame, in memory or after a restart: the
\* lock a failed Commit keeps is released by its Abort.
FinishedHoldsNothing ==
    \A t \in Txns : phase[t] \in {"Committed", "Aborted"} =>
        \A b \in Buckets(t) : t \notin {frames[b].active_transaction_id,
                                        logged[b].active_transaction_id}

\* "To avoid livelock situation, only allow the requests with an increasing
\* order of time buckets": no Commit goes on locking and releasing for ever. The
\* one thing that can block it is a transaction that an error left in the phase
\* Unknown with its frames locked.
CommitEnds ==
    \A t \in Txns : phase[t] = "Commit" ~>
        phase[t] # "Commit" \/ \E u \in Txns : phase[u] = "Unknown"

=============================================================================
