------------------------- MODULE BudgetProtocolProofs -------------------------
(***************************************************************************)
(* The steps of BudgetProtocol that write the journal, where tokens are    *)
(* consumed, and the theorems.                                             *)
(***************************************************************************)
EXTENDS BudgetProtocolSteps, FiniteSums

\* What a bucket has lost to a transaction that is recorded as having consumed.
LEMMA SpentMore ==
    ASSUME TypeOK, NEW t \in Txns, t \notin consumed, requests' = requests,
           consumed' = consumed \cup {t}, NEW b \in AllBuckets
    PROVE  /\ Spent(b) \in Int
           /\ Spent(b)' = IF b \in Buckets(t) THEN Spent(b) + Tokens(t, b) ELSE Spent(b)
<1> DEFINE S == {u \in consumed : b \in Buckets(u)}
           f == [u \in S |-> Tokens(u, b)]
           T == {u \in consumed' : b \in Buckets(u)}
           g == [u \in T |-> Tokens(u, b)]
<1>1. IsFiniteSet(S) /\ t \notin S
    BY Zenon, FS_Subset, BudgetAssumption DEF TypeOK
<1>2. Spent(b) = SumFunctionOnSet(f, S)
    BY Zenon DEF Spent, SumFunction
<1>3. Spent(b)' = SumFunctionOnSet(g, T)
    <2>1. \A u : Tokens(u, b)' = Tokens(u, b) /\ Buckets(u)' = Buckets(u)
        BY Zenon, SameRequests
    <2>2. [u \in {v \in consumed : b \in Buckets(v)} |-> Tokens(u, b)]' = g
        BY Zenon, <2>1
    <2>3. Spent(b)' = SumFunction(g)
        BY <2>2, Zenon DEF Spent
    <2> QED
        BY <2>3 DEF SumFunction
<1>4. \A u \in T : u \in Txns /\ g[u] = Tokens(u, b) /\ g[u] \in Int
    BY TokensType DEF TypeOK
<1>5. \A u \in S : u \in T /\ f[u] = Tokens(u, b) /\ f[u] \in Int
    BY TokensType DEF TypeOK
<1>6. Spent(b) \in Int
    BY <1>1, <1>2, <1>5, SumType
<1>7. CASE b \in Buckets(t)
    <2>1. T = S \cup {t} /\ g[t] = Tokens(t, b)
        BY Zenon, <1>7
    <2>2. \A u \in S : f[u] = g[u]
        BY Zenon, <1>4, <1>5
    <2> HIDE DEF S, T, f, g
    <2>3. SumFunctionOnSet(g, S \cup {t}) = SumFunctionOnSet(f, S) + g[t]
        BY <1>1, <1>4, <2>1, <2>2, SumAdd
    <2> QED
        BY Zenon, <1>2, <1>3, <1>6, <1>7, <2>1, <2>3
<1>8. CASE b \notin Buckets(t)
    <2>1. T = S
        BY Zenon, <1>8
    <2> HIDE DEF S, T, f, g
    <2> QED
        BY <1>1, <1>2, <1>3, <1>4, <1>5, <1>6, <1>8, <2>1, SumEqual
<1> QED
    BY <1>6, <1>7, <1>8

\* What the journal says of t's frames once the pending update is in it.
LEMMA Persisted ==
    ASSUME BudgetInv, NEW t \in Txns, step[t] = "log", Persist(t), UNCHANGED <<requests, frames>>
    PROVE  /\ logged' \in [AllBuckets -> Frames]
           /\ \A b \in AllBuckets : b \notin Buckets(t) => logged'[b] = logged[b]
           /\ \A b \in Buckets(t) : logged'[b] = update[t][b]
           /\ phase[t] = "Commit" => Reserved(t, logged)' /\ consumed' = consumed
           /\ phase[t] = "CommitNotify" => consumed' = consumed \cup {t} /\ t \notin consumed
           /\ phase[t] = "AbortNotify" => consumed' = consumed
           /\ phase[t] # "Commit" => HoldsNone(t, logged)' /\ HoldsNone(t, update[t])
           /\ \A b \in Buckets(t) :
                /\ frames[b].active_transaction_id = t
                /\ logged'[b].active_transaction_id \in {Free, t}
                /\ IF phase[t] = "CommitNotify"
                   THEN logged'[b].token_count = logged[b].token_count - Tokens(t, b)
                   ELSE logged'[b].token_count = logged[b].token_count
<1>a. TypeOK /\ requests \in Workloads
    BY Zenon DEF BudgetInv, TypeOK
<1>b. SharedOK
    BY Zenon DEF BudgetInv
<1>c. TxnOK(t)
    BY DEF BudgetInv
<1>1. /\ Buckets(t) \subseteq AllBuckets /\ t # Free
      /\ update[t] \in [Buckets(t) -> Frames]
      /\ HoldsAll(t, frames)
      /\ phase[t] \in {"Commit", "CommitNotify", "AbortNotify"}
    BY <1>a, <1>c, Requested, Constants DEF TypeOK, TxnOK, LogOK
<1>2. /\ logged' \in [AllBuckets -> Frames]
      /\ \A b \in AllBuckets : b \notin Buckets(t) => logged'[b] = logged[b]
      /\ \A b \in Buckets(t) : logged'[b] = update[t][b]
    BY Zenon, <1>a, <1>1 DEF Persist, Written, TypeOK
<1>3. t \notin consumed
    BY <1>c, <1>1 DEF TxnOK, PhaseOK, LogOK
<1>4. /\ phase[t] \in {"Commit", "AbortNotify"} => consumed' = consumed
      /\ phase[t] = "CommitNotify" => consumed' = consumed \cup {t}
    BY Zenon DEF Persist
<1>5. \A b \in Buckets(t) : frames[b].active_transaction_id = t
                            /\ frames[b].token_count = logged[b].token_count
    BY Zenon, <1>b, <1>1, <1>3 DEF HoldsAll, SharedOK
<1>6. CASE phase[t] = "Commit"
    <2>1. \A b \in Buckets(t) :
             /\ update[t][b].token_count = frames[b].token_count
             /\ update[t][b].active_token_count = frames[b].token_count - Tokens(t, b)
             /\ update[t][b].active_transaction_id = t
        <3>1. update[t] = CommitUpdate(t)
            BY Zenon, <1>c, <1>6 DEF TxnOK, LogOK
        <3> QED
            BY <3>1 DEF CommitUpdate
    <2>2. Reserved(t, logged)'
        BY <1>2, <2>1, SameRequests DEF Reserved
    <2> QED
        BY <1>2, <1>4, <1>5, <1>6, <2>1, <2>2
<1>7. CASE phase[t] = "CommitNotify"
    <2>1. \A b \in Buckets(t) :
             /\ update[t][b].token_count = frames[b].token_count - Tokens(t, b)
             /\ update[t][b].active_transaction_id = Free
        <3>1. update[t] = NotifyUpdate(t) /\ Reserved(t, frames)
            BY <1>c, <1>7 DEF TxnOK, LogOK
        <3> QED
            BY <3>1 DEF NotifyUpdate, Reserved
    <2>2. HoldsNone(t, logged)' /\ HoldsNone(t, update[t])
        BY <1>1, <1>2, <2>1, SameRequests DEF HoldsNone
    <2> QED
        BY Zenon, <1>2, <1>3, <1>4, <1>5, <1>7, <2>1, <2>2
<1>8. CASE phase[t] = "AbortNotify"
    <2>1. \A b \in Buckets(t) :
             /\ update[t][b].token_count = frames[b].token_count
             /\ update[t][b].active_transaction_id = Free
        <3>1. update[t] = AbortUpdate(t)
            BY <1>c, <1>8 DEF TxnOK, LogOK
        <3> QED
            BY <3>1 DEF AbortUpdate
    <2>2. HoldsNone(t, logged)' /\ HoldsNone(t, update[t])
        BY <1>1, <1>2, <2>1, SameRequests DEF HoldsNone
    <2> QED
        BY <1>2, <1>4, <1>5, <1>8, <2>1, <2>2
<1> QED
    BY <1>1, <1>6, <1>7, <1>8

\* The accounts are right after the journal has changed.
LEMMA PersistConserves ==
    ASSUME BudgetInv, NEW t \in Txns, step[t] = "log", Persist(t), UNCHANGED <<requests, frames>>
    PROVE  SharedOK' /\ BudgetConserved'
<1>a. TypeOK /\ requests \in Workloads
    BY Zenon DEF BudgetInv, TypeOK
<1>b. SharedOK
    BY Zenon DEF BudgetInv
<1>c. TxnOK(t)
    BY Zenon DEF BudgetInv
<1>d. BudgetConserved
    BY DEF BudgetInv
<1>1. /\ phase[t] \in {"Commit", "CommitNotify", "AbortNotify"}
      /\ Free \notin Txns /\ Buckets(t) \subseteq AllBuckets
    BY <1>a, <1>c, Requested, Constants DEF TxnOK, LogOK, TypeOK
<1>2. SharedOK'
    <2> SUFFICES ASSUME NEW b \in AllBuckets
                 PROVE  /\ logged'[b].active_transaction_id
                               \in {Free, frames[b].active_transaction_id}
                        /\ frames[b].active_transaction_id # Free
                             => b \in Buckets(frames[b].active_transaction_id)
                        /\ frames[b].active_transaction_id \notin consumed'
                             => frames[b].token_count = logged'[b].token_count
        BY <1>b, SameRequests DEF SharedOK
    <2>1. CASE b \in Buckets(t)
        BY <1>b, <1>1, <2>1, Persisted DEF SharedOK
    <2>2. CASE b \notin Buckets(t)
        <3>1. logged'[b] = logged[b] /\ consumed \subseteq consumed'
            BY <1>1, <2>2, Persisted
        <3> QED
            BY Zenon, <1>b, <3>1 DEF SharedOK
    <2> QED
        BY Zenon, <2>1, <2>2
<1>3. ASSUME NEW b \in AllBuckets
      PROVE  logged'[b].token_count = Budget - Spent(b)'
    <2>1. logged[b].token_count = Budget - Spent(b)
        BY Zenon, <1>d DEF BudgetConserved
    <2>2. CASE phase[t] = "CommitNotify"
        <3>1. t \notin consumed /\ consumed' = consumed \cup {t}
            BY Zenon, <2>2, Persisted
        <3>2. /\ Spent(b) \in Int
              /\ Spent(b)' = IF b \in Buckets(t) THEN Spent(b) + Tokens(t, b) ELSE Spent(b)
            BY <1>a, <3>1, SpentMore
        <3>3. Budget \in Nat
            BY Constants
        <3>4. CASE b \in Buckets(t)
            <4>1. logged'[b].token_count = logged[b].token_count - Tokens(t, b)
                BY <2>2, <3>4, Persisted
            <4>2. Tokens(t, b) \in Int
                BY <1>a, <3>4, TokensType DEF TypeOK
            <4> QED
                BY <2>1, <3>2, <3>3, <3>4, <4>1, <4>2
        <3>5. CASE b \notin Buckets(t)
            <4>1. logged'[b] = logged[b]
                BY Zenon, <3>5, Persisted
            <4> QED
                BY <2>1, <3>2, <3>5, <4>1
        <3> QED
            BY Zenon, <3>4, <3>5
    <2>3. CASE phase[t] # "CommitNotify"
        <3>1. consumed' = consumed /\ logged'[b].token_count = logged[b].token_count
            BY <1>1, <2>3, Persisted
        <3>2. Spent(b)' = Spent(b)
            BY <3>1 DEF Spent, Buckets, Bucket, Entries, Tokens
        <3> QED
            BY Zenon, <2>1, <3>1, <3>2
    <2> QED
        BY Zenon, <2>2, <2>3
<1>4. BudgetConserved'
    BY Zenon, <1>d, <1>3, SameRequests DEF BudgetConserved
<1> QED
    BY Zenon, <1>2, <1>4

\* The journal has the update; the command goes on, or takes it for a failure.
LEMMA PersistStep ==
    ASSUME BudgetInv, NEW t \in Txns, step[t] = "log", Persist(t),
           NEW s \in {"apply", "failed"}, GoTo(t, s),
           idx' = [idx EXCEPT ![t] = 1] \/ (s = "failed" /\ idx' = idx),
           UNCHANGED <<requests, frames, phase, update, crashes>>, errors' \in 0..MaxErrors
    PROVE  BudgetInv'
<1>a. TypeOK /\ requests \in Workloads
    BY Zenon DEF BudgetInv, TypeOK
<1>b. SharedOK
    BY Zenon DEF BudgetInv
<1>c. TxnOK(t)
    BY Zenon DEF BudgetInv
<1>1. /\ phase[t] \in {"Commit", "CommitNotify", "AbortNotify"} /\ HoldsAll(t, frames)
      /\ t # Free /\ Buckets(t) \subseteq AllBuckets /\ 1 \in DOMAIN Entries(t)
    BY <1>a, <1>c, Requested, Constants DEF TxnOK, LogOK, TypeOK
<1>2. /\ step'[t] = s
      /\ s = "apply" => idx'[t] = 1
      /\ \A u \in Txns \ {t} : step'[u] = step[u] /\ idx'[u] = idx[u]
    BY <1>a DEF GoTo, TypeOK
<1>3. consumed' \in {consumed, consumed \cup {t}}
    BY Zenon, <1>1, Persisted
<1>4. TypeOK'
    <2>1. step' \in [Txns -> Steps]
        BY Zenon, <1>a DEF GoTo, TypeOK, Steps
    <2>2. DOMAIN idx' = Txns /\ \A u \in Txns : idx'[u] \in DOMAIN Entries(u)
        BY Zenon, <1>a, <1>1 DEF TypeOK
    <2>3. logged' \in [AllBuckets -> Frames]
        BY Persisted
    <2> QED
        BY <1>a, <1>3, <2>1, <2>2, <2>3, SameRequests DEF TypeOK
<1>5. Local(t)
    <2>1. \A b \in AllBuckets :
             IF frames[b].active_transaction_id \in {Free, t}
             THEN logged'[b].active_transaction_id \in {Free, t}
             ELSE logged'[b] = logged[b]
        <3> TAKE b \in AllBuckets
        <3>1. CASE b \in Buckets(t)
            BY <3>1, Persisted
        <3>2. CASE b \notin Buckets(t)
            <4>1. logged'[b] = logged[b]
                BY <3>2, Persisted
            <4> QED
                BY Zenon, <1>b, <4>1 DEF SharedOK
        <3> QED
            BY Zenon, <3>1, <3>2
    <2> QED
        BY <1>2, <1>3, <2>1 DEF Local
<1>6. HoldsAll(t, frames)' /\ (Reserved(t, logged)' => HoldsAll(t, logged)')
    BY <1>1, SameRequests DEF HoldsAll, Reserved
<1>7. /\ phase[t] = "Commit" => Reserved(t, logged)' /\ consumed' = consumed
      /\ phase[t] = "CommitNotify" => consumed' = consumed \cup {t}
      /\ phase[t] = "AbortNotify" => consumed' = consumed
      /\ phase[t] # "Commit" => HoldsNone(t, logged)' /\ HoldsNone(t, update[t])
    BY Zenon, Persisted
<1>8. PhaseOK(t)'
    <2>1. phase[t] \in {"Commit", "AbortNotify"} => t \notin consumed
        BY <1>c DEF TxnOK, PhaseOK
    <2> QED
        BY <1>1, <1>2, <1>6, <1>7, <2>1 DEF PhaseOK
<1>9. ApplyOK(t)'
    <2>1. \A j \in DOMAIN Entries(t) :
             /\ Holds(t, Bucket(t, j))' /\ logged'[Bucket(t, j)] = update[t][Bucket(t, j)]
             /\ ~(j < 1) /\ j >= 1
        <3>1. \A b \in Buckets(t) : logged'[b] = update[t][b]
            BY Persisted
        <3>2. \A j \in DOMAIN Entries(t) : Bucket(t, j) \in Buckets(t) /\ ~(j < 1) /\ j >= 1
            BY <1>a, Requested
        <3> QED
            BY <1>1, <3>1, <3>2, SameRequests DEF Holds, HoldsAll
    <2>2. phase[t] # "Commit" => HoldsNone(t, update[t])'
        BY Zenon, <1>7, SameRequests DEF HoldsNone
    <2> QED
        BY <1>1, <1>2, <1>7, <2>1, <2>2, SameRequests DEF ApplyOK
<1>10. TxnOK(t)'
    BY <1>2, <1>8, <1>9 DEF TxnOK, CallOK, LockOK, LogOK
<1> QED
    BY <1>4, <1>5, <1>10, PersistConserves, LocalStep

\* LogUpdate: the journal is written, or the write fails.
LEMMA LogStep ==
    ASSUME BudgetInv, NEW t \in Txns, Log(t) \/ LogFails(t) \/ UpdateRefused(t),
           requests' = requests
    PROVE  BudgetInv'
<1>1. errors' \in 0..MaxErrors
    BY BudgetAssumption DEF Log, LogFails, UpdateRefused, AnError, BudgetInv, TypeOK
<1>2. CASE Log(t)
    BY <1>1, <1>2, PersistStep DEF Log
<1>3. CASE LogFails(t)
    BY Zenon, <1>1, <1>3, PersistStep, NothingLogged DEF LogFails
<1>4. CASE UpdateRefused(t)
    <2>1. CASE phase[t] = "Commit" /\ IsBatch(t)
        <3>1. HoldsNone(t, logged)
            BY <1>4, <2>1 DEF UpdateRefused, BudgetInv, TxnOK, LogOK
        <3> QED
            BY Zenon, <1>1, <1>4, <2>1, <3>1, GiveUpLocks DEF UpdateRefused
    <2>2. CASE ~(phase[t] = "Commit" /\ IsBatch(t))
        BY <1>1, <1>4, <2>2, NothingLogged DEF UpdateRefused
    <2> QED
        BY Zenon, <2>1, <2>2
<1> QED
    BY Zenon, <1>2, <1>3, <1>4

-----------------------------------------------------------------------------
\* Every frame is unused at first, in memory and in the journal.
LEMMA BudgetInvInit == Init => BudgetInv
<1> SUFFICES ASSUME Init PROVE BudgetInv
    OBVIOUS
<1>1. UnusedFrame \in Frames
    BY BudgetAssumption DEF UnusedFrame, Frames
<1>2. TypeOK
    <2>1. \A t \in Txns : idx[t] \in DOMAIN Entries(t)
        BY Zenon, Requested DEF Init
    <2> QED
        BY <1>1, <2>1, BudgetAssumption DEF Init, TypeOK, Steps, NoUpdate
<1>3. \A b \in AllBuckets : /\ frames[b] = UnusedFrame /\ logged[b] = UnusedFrame
    BY DEF Init
<1>4. SharedOK
    BY <1>3 DEF SharedOK, UnusedFrame
<1>5. BudgetConserved
    <2>1. \A b : Spent(b) = 0
        <3> TAKE b
        <3>1. {u \in consumed : b \in Buckets(u)} = {}
            BY Zenon DEF Init
        <3>2. DOMAIN [t \in {u \in consumed : b \in Buckets(u)} |-> Tokens(t, b)] = {}
            BY Zenon, <3>1
        <3> QED
            BY Zenon, <3>2, SumEmpty DEF Spent, SumFunction
    <2>2. Budget - 0 = Budget
        BY BudgetAssumption
    <2> QED
        BY <1>3, <2>1, <2>2 DEF BudgetConserved, UnusedFrame
<1>6. ASSUME NEW t \in Txns PROVE TxnOK(t)
    <2>1. phase[t] = "Prepare" /\ step[t] = "call" /\ t \notin consumed
        BY Zenon DEF Init
    <2>2. HoldsNone(t, frames) /\ HoldsNone(t, logged)
        BY <1>2, <1>3, Requested, BudgetAssumption DEF HoldsNone, UnusedFrame, TypeOK
    <2>3. PhaseOK(t) /\ CallOK(t)
        BY Zenon, <2>1, <2>2 DEF PhaseOK, CallOK
    <2> QED
        BY Zenon, <2>1, <2>3 DEF TxnOK, LockOK, LogOK, ApplyOK
<1> QED
    BY Zenon, <1>2, <1>4, <1>5, <1>6 DEF BudgetInv

\* Every step of the protocol keeps the invariant.
LEMMA BudgetInvStep ==
    ASSUME BudgetInv, Next, Preemption = FALSE
    PROVE  BudgetInv'
<1>1. ASSUME NEW t \in Txns, Command(t) \/ Error(t), requests' = requests
      PROVE  BudgetInv'
    <2>1. ~OnNotifyLogged(t)
        BY DEF OnNotifyLogged, BudgetInv, TxnOK
    <2> QED
        BY Zenon, <1>1, <2>1, PrepareStep, CommitStep, FrameBusyStep, FrameShortStep, LockFrameStep,
           NotifyStep, LogStep, ApplyStep, ProceedStep DEF Command, Error
<1> QED
    BY Zenon, <1>1, RestartStep DEF Next

\* The invariant, on which the theorems below rest.
THEOREM BudgetInvariance ==
    ASSUME Preemption = FALSE
    PROVE  Spec => []BudgetInv
<1>2. BudgetInv /\ [Next]_vars => BudgetInv'
    BY Zenon, BudgetInvStep, StutteringStep
<1> QED
    BY <1>2, BudgetInvInit, PTL DEF Spec

\* Frames, updates and phases keep their types: no count of tokens ever leaves
\* 0..Budget, in memory, in the journal or in an update.
THEOREM BudgetTypeCorrectness ==
    ASSUME Preemption = FALSE
    PROVE  Spec => []TypeOK
BY BudgetInvariance, PTL DEF BudgetInv

\* The journal accounts for every token, whatever commits, aborts, errors and
\* restarts happen (the updates of Commit and Notify, logged and applied by the
\* timeframe manager's Update).
THEOREM TokensAreConserved ==
    ASSUME Preemption = FALSE
    PROVE  Spec => []BudgetConserved
BY BudgetInvariance, PTL DEF BudgetInv

\* A transaction is Committed only with its tokens consumed, and Aborted only
\* with none of them consumed.
THEOREM OutcomeIsTrue ==
    ASSUME Preemption = FALSE
    PROVE  Spec => []OutcomeMatchesBudget
<1>1. BudgetInv => OutcomeMatchesBudget
    BY DEF BudgetInv, TxnOK, PhaseOK, OutcomeMatchesBudget
<1> QED
    BY <1>1, BudgetInvariance, PTL

\* What a Commit has set aside stays set aside, in memory and in the journal,
\* until the Notify or the Abort of the same transaction.
THEOREM CommitsReserve ==
    ASSUME Preemption = FALSE
    PROVE  Spec => []CommitReserves
<1>1. BudgetInv => CommitReserves
    BY Zenon DEF BudgetInv, TxnOK, PhaseOK, CallOK, LogOK, CommitReserves
<1> QED
    BY <1>1, BudgetInvariance, PTL

\* Between the loops that lock and write frames a batch holds all of its frames
\* or none, so that looking at the first one is enough.
THEOREM AllLocksOrNone ==
    ASSUME Preemption = FALSE
    PROVE  Spec => []LockAllOrNone
<1>1. ASSUME BudgetInv, NEW t \in Txns, step[t] \notin {"lock", "apply", "rewrite"}
      PROVE  HoldsAll(t, frames) \/ HoldsNone(t, frames)
    <2>1. step[t] \in {"call", "log", "ok", "failed"}
        BY <1>1 DEF BudgetInv, TypeOK, Steps
    <2>2. phase[t] \in {"Prepare", "Commit", "CommitNotify", "AbortNotify",
                        "Committed", "Aborted", "Unknown"}
        BY <1>1 DEF BudgetInv, TypeOK
    <2>3. Reserved(t, frames) => HoldsAll(t, frames)
        BY Zenon DEF Reserved, HoldsAll
    <2> QED
        BY <1>1, <2>1, <2>2, <2>3 DEF BudgetInv, TxnOK, PhaseOK, CallOK, LogOK
<1>2. BudgetInv => LockAllOrNone
    BY <1>1 DEF LockAllOrNone, HoldsAll, HoldsNone, Holds
<1> QED
    BY <1>2, BudgetInvariance, PTL

\* No transaction that is over holds a frame, now or after a restart.
THEOREM FinishedHoldNothing ==
    ASSUME Preemption = FALSE
    PROVE  Spec => []FinishedHoldsNothing
<1>1. ASSUME BudgetInv, NEW t \in Txns, phase[t] \in {"Committed", "Aborted"}
      PROVE  HoldsNone(t, frames) /\ HoldsNone(t, logged)
    <2>1. HoldsNone(t, frames)
        BY <1>1 DEF BudgetInv, TxnOK, PhaseOK
    <2>2. HoldsNone(t, logged)
        <3>1. SharedOK /\ requests \in Workloads
            BY Zenon, <1>1 DEF BudgetInv, TypeOK
        <3> QED
            BY <2>1, <3>1, Requested, BudgetAssumption DEF HoldsNone, SharedOK
    <2> QED
        BY Zenon, <2>1, <2>2
<1>2. BudgetInv => FinishedHoldsNothing
    BY Zenon, <1>1 DEF FinishedHoldsNothing, HoldsNone
<1> QED
    BY <1>2, BudgetInvariance, PTL

===============================================================================
