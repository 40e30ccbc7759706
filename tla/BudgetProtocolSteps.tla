-------------------------- MODULE BudgetProtocolSteps --------------------------
(***************************************************************************)
(* The accounting of BudgetProtocol for every number of transactions,      *)
(* buckets and tokens, and any number of errors and restarts, as long as   *)
(* nothing runs between the two writes of a Notify (Preemption).           *)
(*                                                                         *)
(* The properties relate what a transaction was told to frames that other  *)
(* transactions write as well. TxnOK says for every phase and step of a    *)
(* transaction what it holds, in memory and in the journal; SharedOK says  *)
(* that the journal knows no holder that memory does not know, and has the *)
(* same tokens unless the holder has consumed them. A transaction changes  *)
(* only frames that are free or its own, so that the other transactions'   *)
(* part of the invariant stays (OthersUndisturbed).                        *)
(***************************************************************************)
EXTENDS BudgetProtocol, TLAPS

HoldsAll(t, f) == \A b \in Buckets(t) : f[b].active_transaction_id = t

HoldsNone(t, f) == \A b \in Buckets(t) : f[b].active_transaction_id # t

Covered(t, f) == \A b \in Buckets(t) : f[b].token_count >= Tokens(t, b)

\* What t holds between the steps of a phase.
PhaseOK(t) ==
    /\ phase[t] \in {"Prepare", "Commit", "AbortNotify", "Aborted"} => t \notin consumed
    /\ phase[t] = "Committed" => t \in consumed
    /\ phase[t] \in {"Committed", "Aborted", "Unknown"} => step[t] = "call"
    /\ phase[t] = "Prepare" => step[t] \in {"call", "ok", "failed"}
    /\ phase[t] \in {"Prepare", "Committed", "Aborted"} => HoldsNone(t, frames)
    /\ HoldsAll(t, logged) \/ HoldsNone(t, logged)
    /\ phase[t] = "Commit" => Reserved(t, logged) \/ HoldsNone(t, logged)
    /\ phase[t] = "CommitNotify" => IF t \in consumed THEN HoldsNone(t, logged)
                                                      ELSE Reserved(t, logged)
    /\ step[t] \in {"call", "failed"} => HoldsAll(t, frames) \/ HoldsNone(t, frames)

\* A command that is about to be executed, or was.
CallOK(t) ==
    /\ phase[t] = "Commit" /\ step[t] = "call"
         => HoldsNone(t, frames) \/ (Reserved(t, frames) /\ Reserved(t, logged))
    /\ phase[t] = "CommitNotify" /\ step[t] = "call"
         => IF t \in consumed THEN HoldsNone(t, frames) ELSE Reserved(t, frames)
    /\ phase[t] = "Commit" /\ step[t] = "ok" => Reserved(t, frames) /\ Reserved(t, logged)
    /\ phase[t] \in {"CommitNotify", "AbortNotify"} /\ step[t] = "ok" => HoldsNone(t, frames)
    /\ phase[t] = "CommitNotify" /\ step[t] = "ok" => t \in consumed

\* Commit locks one frame after the other.
LockOK(t) ==
    step[t] = "lock" =>
        /\ phase[t] = "Commit" /\ HoldsNone(t, logged)
        /\ \A i \in DOMAIN Entries(t) :
             IF i < idx[t]
             THEN Holds(t, Bucket(t, i)) /\ ~Short(t, Bucket(t, i))
             ELSE ~Holds(t, Bucket(t, i))

\* An update that is about to be logged.
LogOK(t) ==
    step[t] = "log" =>
        /\ HoldsAll(t, frames)
        /\ \/ /\ phase[t] = "Commit" /\ HoldsNone(t, logged) /\ Covered(t, frames)
              /\ update[t] = CommitUpdate(t)
           \/ /\ phase[t] = "CommitNotify" /\ t \notin consumed /\ Reserved(t, frames)
              /\ update[t] = NotifyUpdate(t)
           \/ /\ phase[t] = "AbortNotify"
              /\ update[t] = AbortUpdate(t)

\* An update that the journal has and memory has in part.
ApplyOK(t) ==
    step[t] = "apply" =>
        /\ phase[t] \in {"Commit", "CommitNotify", "AbortNotify"}
        /\ phase[t] = "CommitNotify" => t \in consumed
        /\ phase[t] = "Commit" => Reserved(t, logged)
        /\ phase[t] # "Commit" => HoldsNone(t, update[t]) /\ HoldsNone(t, logged)
        /\ \A i \in DOMAIN Entries(t) :
             LET b == Bucket(t, i) IN
             IF phase[t] = "Commit" \/ i >= idx[t]
             THEN /\ Holds(t, b) /\ logged[b] = update[t][b]
                  /\ i < idx[t] => frames[b] = update[t][b]
             ELSE ~Holds(t, b)

TxnOK(t) == step[t] # "rewrite" /\ PhaseOK(t) /\ CallOK(t) /\ LockOK(t) /\ LogOK(t) /\ ApplyOK(t)

\* Memory and journal, frame by frame.
SharedOK ==
    \A b \in AllBuckets :
        /\ logged[b].active_transaction_id \in {Free, frames[b].active_transaction_id}
        /\ frames[b].active_transaction_id # Free => b \in Buckets(frames[b].active_transaction_id)
        /\ frames[b].active_transaction_id \notin consumed
             => frames[b].token_count = logged[b].token_count

BudgetInv == TypeOK /\ SharedOK /\ BudgetConserved /\ \A t \in Txns : TxnOK(t)

-----------------------------------------------------------------------------
\* What is known of the constants.
LEMMA Constants ==
    /\ Free \notin Txns
    /\ Budget \in Nat /\ MaxErrors \in Nat /\ MaxCrashes \in Nat
BY Zenon, BudgetAssumption

\* What a workload gives each transaction.
LEMMA Requested ==
    ASSUME requests \in Workloads, NEW t \in Txns
    PROVE  /\ Len(Entries(t)) \in Nat \ {0}
           /\ DOMAIN Entries(t) = 1..Len(Entries(t))
           /\ 1 \in DOMAIN Entries(t)
           /\ Buckets(t) \subseteq AllBuckets
           /\ \A i \in DOMAIN Entries(t) : Bucket(t, i) \in Buckets(t)
           /\ \A b \in Buckets(t) : \E i \in DOMAIN Entries(t) : b = Bucket(t, i)
           /\ \A i, j \in DOMAIN Entries(t) : Bucket(t, i) = Bucket(t, j) => i = j
<1>1. /\ Entries(t) \in Seq([bucket : Int, tokens : 1..Budget])
      /\ Entries(t) # <<>>
      /\ \A i, j \in DOMAIN Entries(t) : Bucket(t, i) = Bucket(t, j) => i = j
    BY Zenon, BudgetAssumption DEF Entries, Bucket
<1>2. Len(Entries(t)) \in Nat \ {0} /\ DOMAIN Entries(t) = 1..Len(Entries(t))
    BY <1>1
<1>3. Buckets(t) \subseteq AllBuckets
    BY Zenon DEF AllBuckets
<1> QED
    BY <1>1, <1>3 DEF Buckets

\* A transaction asks for some tokens of each of its buckets.
LEMMA TokensType ==
    ASSUME requests \in Workloads, NEW t \in Txns, NEW b \in Buckets(t)
    PROVE  Tokens(t, b) \in 1..Budget /\ Budget \in Nat
<1>1. Entries(t) \in Seq([bucket : Int, tokens : 1..Budget])
    BY Zenon, BudgetAssumption DEF Entries
<1>2. PICK i \in DOMAIN Entries(t) : Bucket(t, i) = b
    BY Zenon, Requested
<1>3. PICK c \in DOMAIN Entries(t) :
          c = CHOOSE j \in DOMAIN Entries(t) : Bucket(t, j) = b
    OBVIOUS
<1>4. Entries(t)[c] \in [bucket : Int, tokens : 1..Budget]
    <2>1. ASSUME NEW S, NEW s \in Seq(S), NEW k \in DOMAIN s PROVE s[k] \in S
        OBVIOUS
    <2> QED
        BY <1>1, <2>1, Zenon
<1>5. Entries(t)[c].tokens \in 1..Budget
    BY Zenon, <1>4
<1> QED
    BY Zenon, <1>3, <1>5, BudgetAssumption DEF Tokens

\* The fields of the frames.
LEMMA FrameFields ==
    ASSUME TypeOK, NEW b \in AllBuckets
    PROVE  /\ frames[b] \in Frames /\ logged[b] \in Frames
           /\ frames[b].token_count \in 0..Budget /\ logged[b].token_count \in 0..Budget
           /\ frames[b].active_token_count \in 0..Budget
           /\ frames[b].active_transaction_id \in Txns \cup {Free}
           /\ logged[b].active_transaction_id \in Txns \cup {Free}
BY Zenon DEF TypeOK, Frames

\* What a step of t leaves alone: the other transactions and their frames.
Local(t) ==
    /\ requests' = requests
    /\ \A u \in Txns \ {t} :
         /\ phase'[u] = phase[u] /\ step'[u] = step[u] /\ idx'[u] = idx[u]
         /\ update'[u] = update[u] /\ (u \in consumed' <=> u \in consumed)
    /\ \A b \in AllBuckets :
         IF frames[b].active_transaction_id \in {Free, t}
         THEN /\ frames'[b].active_transaction_id \in {Free, t}
              /\ logged'[b].active_transaction_id \in {Free, t}
         ELSE frames'[b] = frames[b] /\ logged'[b] = logged[b]

\* A step of t does not disturb what the invariant says of another transaction.
LEMMA OthersUndisturbed ==
    ASSUME BudgetInv, NEW t \in Txns, Local(t), NEW u \in Txns \ {t}
    PROVE  TxnOK(u)'
<1>a. TypeOK /\ requests \in Workloads
    BY Zenon DEF BudgetInv, TypeOK
<1>b. SharedOK
    BY Zenon DEF BudgetInv
<1>c. TxnOK(u)
    BY Zenon DEF BudgetInv
<1>1. u # Free
    BY Zenon, Constants
<1>2. /\ \A b \in AllBuckets : frames[b].active_transaction_id = u
             => frames'[b] = frames[b] /\ logged'[b] = logged[b]
      /\ \A b \in AllBuckets : frames[b].active_transaction_id # u
             => frames'[b].active_transaction_id # u /\ logged'[b].active_transaction_id # u
    BY Zenon, <1>b, <1>1 DEF Local, SharedOK
<1>3. /\ Entries(u)' = Entries(u) /\ Buckets(u)' = Buckets(u)
      /\ \A i : Bucket(u, i)' = Bucket(u, i)
      /\ \A b : Tokens(u, b)' = Tokens(u, b)
    BY DEF Local, Entries, Buckets, Bucket, Tokens
<1>4. Buckets(u) \subseteq AllBuckets
    BY Zenon, <1>a, Requested
<1>5. /\ phase'[u] = phase[u] /\ step'[u] = step[u] /\ idx'[u] = idx[u]
      /\ update'[u] = update[u] /\ (u \in consumed' <=> u \in consumed)
    BY Zenon DEF Local
<1>6. /\ HoldsAll(u, frames) => HoldsAll(u, frames)'
      /\ HoldsNone(u, frames) => HoldsNone(u, frames)'
      /\ HoldsAll(u, logged) => HoldsAll(u, logged)'
      /\ HoldsNone(u, logged) => HoldsNone(u, logged)'
    BY <1>b, <1>1, <1>2, <1>3, <1>4 DEF HoldsAll, HoldsNone, SharedOK
<1>7. /\ Reserved(u, frames) => Reserved(u, frames)'
      /\ Reserved(u, logged) => Reserved(u, logged)'
      /\ HoldsAll(u, frames) /\ Covered(u, frames) => Covered(u, frames)'
    BY <1>b, <1>1, <1>2, <1>3, <1>4 DEF HoldsAll, Covered, Reserved, SharedOK
<1>9. PhaseOK(u)' /\ CallOK(u)'
    BY Zenon, <1>c, <1>5, <1>6, <1>7 DEF TxnOK, PhaseOK, CallOK
<1>10. LockOK(u)'
    BY <1>a, <1>c, <1>2, <1>3, <1>5, <1>6, Requested DEF TxnOK, LockOK, Holds, Short
<1>11. HoldsAll(u, frames) => /\ CommitUpdate(u)' = CommitUpdate(u)
                              /\ NotifyUpdate(u)' = NotifyUpdate(u)
                              /\ AbortUpdate(u)' = AbortUpdate(u)
    BY Zenon, <1>2, <1>3, <1>4 DEF HoldsAll, CommitUpdate, NotifyUpdate, AbortUpdate
<1>12. LogOK(u)'
    BY Zenon, <1>c, <1>5, <1>6, <1>7, <1>11 DEF TxnOK, LogOK
<1>13. HoldsNone(u, update[u]) => HoldsNone(u, update[u])'
    BY Zenon, <1>3, <1>5 DEF HoldsNone
<1>14. ApplyOK(u)'
    BY <1>a, <1>c, <1>2, <1>3, <1>5, <1>6, <1>7, <1>13, Requested DEF TxnOK, ApplyOK, Holds
<1> QED
    BY Zenon, <1>c, <1>5, <1>9, <1>10, <1>12, <1>14 DEF TxnOK

\* So a step of t keeps the invariant if t's own part and the shared parts stay.
LEMMA LocalStep ==
    ASSUME BudgetInv, NEW t \in Txns, Local(t), TypeOK', TxnOK(t)', SharedOK', BudgetConserved'
    PROVE  BudgetInv'
BY Zenon, OthersUndisturbed DEF BudgetInv

-----------------------------------------------------------------------------
\* Steps that write no frame and log nothing.
LEMMA QuietStep ==
    ASSUME BudgetInv, NEW t \in Txns, TypeOK', TxnOK(t)',
           UNCHANGED <<requests, frames, logged, consumed>>,
           \A u \in Txns \ {t} : /\ phase'[u] = phase[u] /\ step'[u] = step[u]
                                 /\ idx'[u] = idx[u] /\ update'[u] = update[u]
    PROVE  BudgetInv'
<1>b. SharedOK
    BY Zenon DEF BudgetInv
<1>d. BudgetConserved
    BY Zenon DEF BudgetInv
<1>1. AllBuckets' = AllBuckets /\ \A u : Buckets(u)' = Buckets(u)
    BY DEF AllBuckets, Buckets, Bucket, Entries
<1>2. \A b \in AllBuckets : logged[b].active_transaction_id \in {Free, frames[b].active_transaction_id}
    BY Zenon, <1>b DEF SharedOK
<1>3. Local(t)
    BY Zenon, <1>2 DEF Local
<1>4. SharedOK'
    BY Zenon, <1>b, <1>1 DEF SharedOK
<1>5. \A b : Spent(b)' = Spent(b)
    BY DEF Spent, Buckets, Bucket, Entries, Tokens
<1>6. BudgetConserved'
    BY Zenon, <1>d, <1>1, <1>5 DEF BudgetConserved
<1> QED
    BY Zenon, <1>3, <1>4, <1>6, LocalStep

\* The operators of a transaction depend on what was requested and on the frames.
LEMMA SameRequests ==
    ASSUME requests' = requests
    PROVE  /\ AllBuckets' = AllBuckets
           /\ \A u : Entries(u)' = Entries(u) /\ Buckets(u)' = Buckets(u)
           /\ \A u, i : Bucket(u, i)' = Bucket(u, i)
           /\ \A u, b : Tokens(u, b)' = Tokens(u, b)
BY DEF AllBuckets, Buckets, Bucket, Entries, Tokens

\* And what it holds on the frames.
LEMMA SameFrames ==
    ASSUME UNCHANGED <<requests, frames, logged>>, NEW t
    PROVE  /\ HoldsNone(t, frames)' = HoldsNone(t, frames)
           /\ HoldsNone(t, logged)' = HoldsNone(t, logged)
           /\ HoldsAll(t, frames)' = HoldsAll(t, frames)
           /\ HoldsAll(t, logged)' = HoldsAll(t, logged)
           /\ Reserved(t, frames)' = Reserved(t, frames)
           /\ Reserved(t, logged)' = Reserved(t, logged)
BY SameRequests DEF HoldsAll, HoldsNone, Reserved

\* Nothing happens.
LEMMA StutteringStep ==
    ASSUME BudgetInv, UNCHANGED vars
    PROVE  BudgetInv'
<1>a. TypeOK /\ SharedOK /\ BudgetConserved
    BY Zenon DEF BudgetInv
<1>1. /\ UNCHANGED <<requests, frames, logged, phase, step, idx, update>>
      /\ UNCHANGED <<consumed, errors, crashes>>
    BY Zenon DEF vars
<1>2. TypeOK'
    BY Zenon, <1>a, <1>1, SameRequests DEF TypeOK
<1>3. SharedOK'
    BY Zenon, <1>a, <1>1, SameRequests DEF SharedOK
<1>4. BudgetConserved'
    <2>1. \A b : Spent(b)' = Spent(b)
        BY <1>1 DEF Spent, Buckets, Bucket, Entries, Tokens
    <2> QED
        BY Zenon, <1>a, <1>1, <2>1, SameRequests DEF BudgetConserved
<1>5. ASSUME NEW t \in Txns PROVE TxnOK(t)'
    <2>1. TxnOK(t)
        BY Zenon DEF BudgetInv
    <2>2. PhaseOK(t)' /\ CallOK(t)'
        BY Zenon, <1>1, <2>1, SameFrames DEF TxnOK, PhaseOK, CallOK
    <2>3. LockOK(t)' /\ ApplyOK(t)'
        <3>1. LockOK(t)'
            BY Zenon, <1>1, <2>1, SameFrames, SameRequests DEF TxnOK, LockOK, Holds, Short
        <3>2. ApplyOK(t)'
            BY <1>1, <2>1, SameFrames, SameRequests DEF TxnOK, ApplyOK, Holds, HoldsNone
        <3> QED
            BY Zenon, <3>1, <3>2
    <2>4. /\ CommitUpdate(t)' = CommitUpdate(t)
          /\ NotifyUpdate(t)' = NotifyUpdate(t)
          /\ AbortUpdate(t)' = AbortUpdate(t)
          /\ Covered(t, frames)' = Covered(t, frames)
        BY <1>1, SameRequests DEF CommitUpdate, NotifyUpdate, AbortUpdate, Covered
    <2>5. LogOK(t)'
        BY Zenon, <1>1, <2>1, <2>4, SameFrames DEF TxnOK, LogOK
    <2> QED
        BY Zenon, <1>1, <2>1, <2>2, <2>3, <2>5 DEF TxnOK
<1> QED
    BY Zenon, <1>2, <1>3, <1>4, <1>5 DEF BudgetInv

\* Prepare, a failed load, and the start of a Commit.
LEMMA PrepareStep ==
    ASSUME BudgetInv, NEW t \in Txns, Prepare(t) \/ LoadFails(t), requests' = requests
    PROVE  BudgetInv'
<1>a. TypeOK /\ requests \in Workloads
    BY Zenon DEF BudgetInv, TypeOK
<1>c. TxnOK(t)
    BY Zenon DEF BudgetInv
<1>1. /\ phase[t] \in {"Prepare", "Commit", "CommitNotify", "AbortNotify"} /\ step[t] = "call"
      /\ step' \in {[step EXCEPT ![t] = "ok"], [step EXCEPT ![t] = "failed"]}
      /\ phase[t] # "Prepare" => step'[t] = "failed"
      /\ UNCHANGED <<frames, logged, phase, idx, update, consumed, crashes>>
      /\ errors' \in 0..MaxErrors
    BY <1>a, Constants DEF Prepare, LoadFails, Executing, GoTo, AnError, TypeOK
<1>2. TypeOK'
    BY Zenon, <1>a, <1>1, SameRequests DEF TypeOK, Steps
<1>3. step'[t] \in {"ok", "failed"} /\ \A u \in Txns \ {t} : step'[u] = step[u]
    BY Zenon, <1>a, <1>1 DEF TypeOK
<1>5. PhaseOK(t)' /\ CallOK(t)'
    BY Zenon, <1>c, <1>1, <1>3, SameFrames DEF TxnOK, PhaseOK, CallOK
<1>6. LockOK(t)' /\ LogOK(t)' /\ ApplyOK(t)' /\ step'[t] # "rewrite"
    BY Zenon, <1>3 DEF LockOK, LogOK, ApplyOK
<1>7. TxnOK(t)'
    BY Zenon, <1>5, <1>6 DEF TxnOK
<1> QED
    BY Zenon, <1>1, <1>2, <1>3, <1>7, QuietStep

\* Commit begins to lock, or finds its work done.
LEMMA CommitStep ==
    ASSUME BudgetInv, NEW t \in Txns, Commit(t), requests' = requests
    PROVE  BudgetInv'
<1>a. TypeOK /\ requests \in Workloads
    BY Zenon DEF BudgetInv, TypeOK
<1>b. SharedOK
    BY Zenon DEF BudgetInv
<1>c. TxnOK(t)
    BY Zenon DEF BudgetInv
<1>1. /\ phase[t] = "Commit" /\ step[t] = "call"
      /\ UNCHANGED <<frames, logged, phase, update, consumed, errors, crashes>>
      /\ \/ step' = [step EXCEPT ![t] = "failed"] /\ UNCHANGED idx
         \/ Holds(t, Bucket(t, 1)) /\ step' = [step EXCEPT ![t] = "ok"] /\ UNCHANGED idx
         \/ /\ ~Holds(t, Bucket(t, 1))
            /\ step' = [step EXCEPT ![t] = "lock"] /\ idx' = [idx EXCEPT ![t] = 1]
    BY Zenon DEF Commit, Executing, GoTo
<1>2. 1 \in DOMAIN Entries(t) /\ Bucket(t, 1) \in Buckets(t)
    BY Zenon, <1>a, Requested
<1>3. TypeOK'
    <2>1. step' \in [Txns -> Steps]
        BY Zenon, <1>a, <1>1 DEF TypeOK, Steps
    <2>2. DOMAIN idx' = Txns /\ \A u \in Txns : idx'[u] \in DOMAIN Entries(u)
        BY Zenon, <1>a, <1>1, <1>2 DEF TypeOK
    <2> QED
        BY Zenon, <1>a, <1>1, <2>1, <2>2, SameRequests DEF TypeOK
<1>4. \A u \in Txns \ {t} : step'[u] = step[u] /\ idx'[u] = idx[u]
    BY Zenon, <1>a, <1>1 DEF TypeOK
<1>5. \/ step'[t] = "failed"
      \/ step'[t] = "ok" /\ Holds(t, Bucket(t, 1))
      \/ step'[t] = "lock" /\ idx'[t] = 1 /\ ~Holds(t, Bucket(t, 1))
    BY Zenon, <1>a, <1>1 DEF TypeOK
<1>7. /\ Holds(t, Bucket(t, 1)) => Reserved(t, frames) /\ Reserved(t, logged)
      /\ ~Holds(t, Bucket(t, 1)) => HoldsNone(t, frames)
    BY Zenon, <1>c, <1>1, <1>2 DEF TxnOK, CallOK, Holds, HoldsNone, Reserved
<1>8. ~Holds(t, Bucket(t, 1)) => HoldsNone(t, logged)
    BY Zenon, <1>a, <1>b, <1>7, Requested, Constants DEF SharedOK, HoldsNone
<1>9. PhaseOK(t)' /\ CallOK(t)'
    BY Zenon, <1>c, <1>1, <1>5, <1>7, SameFrames DEF TxnOK, PhaseOK, CallOK
<1>10. LockOK(t)'
    BY <1>a, <1>1, <1>7, <1>8, SameRequests, Requested DEF LockOK, HoldsNone, Holds, TypeOK
<1>11. LogOK(t)' /\ ApplyOK(t)' /\ step'[t] # "rewrite"
    BY Zenon, <1>5 DEF LogOK, ApplyOK
<1>12. TxnOK(t)'
    BY Zenon, <1>9, <1>10, <1>11 DEF TxnOK
<1> QED
    BY Zenon, <1>1, <1>3, <1>4, <1>12, QuietStep

\* Notify and Abort, which look at the first frame.
LEMMA NotifyStep ==
    ASSUME BudgetInv, NEW t \in Txns, Notify(t) \/ Abort(t), requests' = requests
    PROVE  BudgetInv'
<1>a. TypeOK /\ requests \in Workloads
    BY Zenon DEF BudgetInv, TypeOK
<1>c. TxnOK(t)
    BY Zenon DEF BudgetInv
<1>1. /\ phase[t] \in {"CommitNotify", "AbortNotify"} /\ step[t] = "call"
      /\ UNCHANGED <<frames, logged, phase, idx, consumed, errors, crashes>>
      /\ \/ ~Holds(t, Bucket(t, 1)) /\ step' = [step EXCEPT ![t] = "ok"] /\ UNCHANGED update
         \/ /\ Holds(t, Bucket(t, 1)) /\ step' = [step EXCEPT ![t] = "log"]
            /\ update' = [update EXCEPT ![t] = IF phase[t] = "CommitNotify" THEN NotifyUpdate(t)
                                                                            ELSE AbortUpdate(t)]
    BY Zenon DEF Notify, Abort, NotifyOrAbort, Executing, GoTo
<1>2. Bucket(t, 1) \in Buckets(t) /\ Buckets(t) \subseteq AllBuckets
    BY Zenon, <1>a, Requested
<1>3. NotifyUpdate(t) \in [Buckets(t) -> Frames] /\ AbortUpdate(t) \in [Buckets(t) -> Frames]
    BY <1>a, <1>2, FrameFields, Constants DEF NotifyUpdate, AbortUpdate, Frames
<1>4. TypeOK'
    <2>1. step' \in [Txns -> Steps]
        BY Zenon, <1>a, <1>1 DEF TypeOK, Steps
    <2>2. DOMAIN update' = Txns /\ \A u \in Txns : update'[u] \in [Buckets(u) -> Frames]
        BY Zenon, <1>a, <1>1, <1>3 DEF TypeOK
    <2> QED
        BY Zenon, <1>a, <1>1, <2>1, <2>2, SameRequests DEF TypeOK
<1>5. \A u \in Txns \ {t} : step'[u] = step[u] /\ update'[u] = update[u]
    BY Zenon, <1>a, <1>1 DEF TypeOK
<1>6. \/ step'[t] = "ok" /\ ~Holds(t, Bucket(t, 1))
      \/ /\ step'[t] = "log" /\ Holds(t, Bucket(t, 1))
         /\ update'[t] = IF phase[t] = "CommitNotify" THEN NotifyUpdate(t) ELSE AbortUpdate(t)
    BY Zenon, <1>a, <1>1 DEF TypeOK
<1>8. CASE ~Holds(t, Bucket(t, 1))
    <2>1. step'[t] = "ok"
        BY Zenon, <1>6, <1>8
    <2>2. HoldsNone(t, frames) /\ (phase[t] = "CommitNotify" => t \in consumed)
        BY Zenon, <1>c, <1>1, <1>2, <1>8 DEF TxnOK, PhaseOK, CallOK, Holds, HoldsAll, Reserved
    <2>3. PhaseOK(t)' /\ CallOK(t)'
        BY Zenon, <1>c, <1>1, <2>2, SameFrames DEF TxnOK, PhaseOK, CallOK
    <2>4. TxnOK(t)'
        BY Zenon, <2>1, <2>3 DEF TxnOK, LockOK, LogOK, ApplyOK
    <2> QED
        BY Zenon, <1>1, <1>4, <1>5, <2>4, QuietStep
<1>9. CASE Holds(t, Bucket(t, 1))
    <2>1. /\ step'[t] = "log"
          /\ update'[t] = IF phase[t] = "CommitNotify" THEN NotifyUpdate(t) ELSE AbortUpdate(t)
        BY Zenon, <1>6, <1>9
    <2>2. /\ HoldsAll(t, frames)
          /\ phase[t] = "CommitNotify" => t \notin consumed /\ Reserved(t, frames)
        BY Zenon, <1>c, <1>1, <1>2, <1>9 DEF TxnOK, PhaseOK, CallOK, Holds, HoldsNone
    <2>3. PhaseOK(t)' /\ CallOK(t)'
        BY Zenon, <1>c, <1>1, <2>1, SameFrames DEF TxnOK, PhaseOK, CallOK
    <2>4. NotifyUpdate(t)' = NotifyUpdate(t) /\ AbortUpdate(t)' = AbortUpdate(t)
        BY Zenon, <1>1, SameRequests DEF NotifyUpdate, AbortUpdate
    <2>5. LogOK(t)'
        BY <1>1, <2>1, <2>2, <2>4, SameRequests DEF LogOK, HoldsAll, Reserved
    <2>6. TxnOK(t)'
        BY Zenon, <2>1, <2>3, <2>5 DEF TxnOK, LockOK, ApplyOK
    <2> QED
        BY Zenon, <1>1, <1>4, <1>5, <2>6, QuietStep
<1> QED
    BY Zenon, <1>8, <1>9

\* The phases that follow the four phases of a command.
LEMMA NextPhases ==
    /\ NextPhase("Prepare", "Success") = "Commit"
    /\ NextPhase("Prepare", "Failure") = "Aborted"
    /\ NextPhase("Commit", "Success") = "CommitNotify"
    /\ NextPhase("Commit", "Failure") = "AbortNotify"
    /\ NextPhase("CommitNotify", "Success") = "Committed"
    /\ NextPhase("CommitNotify", "Failure") = "Unknown"
    /\ NextPhase("AbortNotify", "Success") = "Aborted"
    /\ NextPhase("AbortNotify", "Failure") = "Unknown"
BY Zenon DEF NextPhase, NextPhaseOnSuccess, NextPhaseOnFailure

\* A transaction goes on to the next phase.
LEMMA ProceedStep ==
    ASSUME BudgetInv, NEW t \in Txns, ProceedToNextPhase(t), requests' = requests
    PROVE  BudgetInv'
<1>a. TypeOK /\ requests \in Workloads
    BY Zenon DEF BudgetInv, TypeOK
<1>b. SharedOK
    BY Zenon DEF BudgetInv
<1>c. TxnOK(t)
    BY Zenon DEF BudgetInv
<1>1. phase[t] \in {"Prepare", "Commit", "CommitNotify", "AbortNotify"}
    BY Zenon, <1>a DEF ProceedToNextPhase, TypeOK
<1>2. /\ step[t] \in {"ok", "failed"} /\ step' = [step EXCEPT ![t] = "call"]
      /\ UNCHANGED <<frames, logged, idx, update, consumed, errors, crashes>>
    BY Zenon DEF ProceedToNextPhase, GoTo
<1>3. PICK p : /\ phase' = [phase EXCEPT ![t] = p]
               /\ \/ step[t] = "ok" /\ p = NextPhase(phase[t], "Success")
                  \/ step[t] = "failed" /\ p = NextPhase(phase[t], "Failure")
                  \/ step[t] = "ok" /\ phase[t] \in {"Prepare", "Commit"} /\ p = "AbortNotify"
    BY Zenon, <1>2 DEF ProceedToNextPhase
<1>4. \/ step[t] = "ok" /\ phase[t] = "Prepare" /\ p \in {"Commit", "AbortNotify"}
      \/ step[t] = "failed" /\ phase[t] = "Prepare" /\ p = "Aborted"
      \/ step[t] = "ok" /\ phase[t] = "Commit" /\ p \in {"CommitNotify", "AbortNotify"}
      \/ step[t] = "failed" /\ phase[t] = "Commit" /\ p = "AbortNotify"
      \/ step[t] = "ok" /\ phase[t] = "CommitNotify" /\ p = "Committed"
      \/ step[t] = "ok" /\ phase[t] = "AbortNotify" /\ p = "Aborted"
      \/ step[t] = "failed" /\ phase[t] \in {"CommitNotify", "AbortNotify"} /\ p = "Unknown"
    BY Zenon, <1>1, <1>3, NextPhases
<1>5. TypeOK'
    BY Zenon, <1>a, <1>2, <1>3, <1>4, SameRequests DEF TypeOK, Steps
<1>6. /\ phase'[t] = p /\ step'[t] = "call"
      /\ \A u \in Txns \ {t} : phase'[u] = phase[u] /\ step'[u] = step[u]
    BY Zenon, <1>a, <1>2, <1>3 DEF TypeOK
<1>8. HoldsNone(t, frames) => HoldsNone(t, logged)
    BY Zenon, <1>a, <1>b, Requested, Constants DEF HoldsNone, SharedOK
<1>9. Reserved(t, frames) => HoldsAll(t, frames)
    BY Zenon DEF Reserved, HoldsAll
<1>10. PhaseOK(t)' /\ CallOK(t)'
    BY Zenon, <1>c, <1>2, <1>4, <1>6, <1>8, <1>9, SameFrames DEF TxnOK, PhaseOK, CallOK
<1>11. TxnOK(t)'
    BY Zenon, <1>6, <1>10 DEF TxnOK, LockOK, LogOK, ApplyOK
<1> QED
    BY Zenon, <1>2, <1>5, <1>6, <1>11, QuietStep

-----------------------------------------------------------------------------
(* The steps that write the frames in memory: Commit locks them one after   *)
(* the other, or gives them back.                                           *)

\* Steps that write frames in memory and log nothing. A frame that changes was
\* free or t's own, and has the tokens that the journal has.
LEMMA MemoryStep ==
    ASSUME BudgetInv, NEW t \in Txns, TypeOK', TxnOK(t)',
           UNCHANGED <<requests, logged, consumed>>,
           \A u \in Txns \ {t} : /\ phase'[u] = phase[u] /\ step'[u] = step[u]
                                 /\ idx'[u] = idx[u] /\ update'[u] = update[u],
           \A b \in AllBuckets :
              \/ frames'[b] = frames[b]
              \/ /\ {frames[b].active_transaction_id, frames'[b].active_transaction_id}
                       \subseteq {Free, t}
                 /\ frames'[b].active_transaction_id = t => b \in Buckets(t)
                 /\ logged[b].active_transaction_id \in {Free, frames'[b].active_transaction_id}
                 /\ frames'[b].token_count = logged[b].token_count
    PROVE  BudgetInv'
<1>b. SharedOK
    BY Zenon DEF BudgetInv
<1>d. BudgetConserved
    BY Zenon DEF BudgetInv
<1>1. \A b \in AllBuckets :
         logged[b].active_transaction_id \in {Free, frames[b].active_transaction_id}
    BY Zenon, <1>b DEF SharedOK
<1>2. Local(t)
    BY Zenon, <1>1 DEF Local
<1>3. SharedOK'
    BY <1>b, SameRequests DEF SharedOK
<1>4. \A b : Spent(b)' = Spent(b)
    BY DEF Spent, Buckets, Bucket, Entries, Tokens
<1>5. BudgetConserved'
    BY Zenon, <1>d, <1>4, SameRequests DEF BudgetConserved
<1> QED
    BY Zenon, <1>2, <1>3, <1>5, LocalStep

\* Releasing what t has locked leaves it with nothing.
LEMMA Released ==
    ASSUME TypeOK, NEW t \in Txns, NEW f \in [AllBuckets -> Frames],
           NEW g, g = ReleaseAcquiredLocksOnTimeframes(t, f)
    PROVE  /\ g \in [AllBuckets -> Frames]
           /\ \A b \in AllBuckets :
                /\ f[b].active_transaction_id # t => g[b] = f[b]
                /\ f[b].active_transaction_id = t
                     => /\ g[b].active_transaction_id = Free
                        /\ g[b].token_count = f[b].token_count
                        /\ g[b].active_token_count = f[b].active_token_count
           /\ HoldsNone(t, g)
<1>1. t # Free
    BY Zenon, BudgetAssumption
<1>2. /\ g \in [AllBuckets -> Frames]
      /\ \A b \in AllBuckets :
           /\ f[b].active_transaction_id # t => g[b] = f[b]
           /\ f[b].active_transaction_id = t
                => /\ g[b].active_transaction_id = Free
                   /\ g[b].token_count = f[b].token_count
                   /\ g[b].active_token_count = f[b].active_token_count
    BY Zenon DEF ReleaseAcquiredLocksOnTimeframes, Frames
<1>3. HoldsNone(t, g)
    BY Zenon, <1>1, <1>2, Requested DEF HoldsNone, TypeOK
<1> QED
    BY Zenon, <1>2, <1>3

\* A frame that t has locked.
LEMMA LockedFrame ==
    ASSUME TypeOK, NEW t \in Txns, NEW b \in AllBuckets, NEW g, g = Locked(t, b)
    PROVE  /\ g \in [AllBuckets -> Frames]
           /\ \A c \in AllBuckets : c # b => g[c] = frames[c]
           /\ g[b].active_transaction_id = t
           /\ g[b].token_count = frames[b].token_count
BY DEF Locked, TypeOK, Frames

\* A Commit that has to give up its locks.
LEMMA GiveUpLocks ==
    ASSUME BudgetInv, NEW t \in Txns, phase[t] = "Commit", HoldsNone(t, logged),
           NEW s \in {"call", "failed"}, GoTo(t, s),
           frames' = ReleaseAcquiredLocksOnTimeframes(t, frames),
           UNCHANGED <<requests, logged, phase, idx, update, consumed, crashes>>,
           errors' \in 0..MaxErrors
    PROVE  BudgetInv'
<1>a. TypeOK /\ requests \in Workloads
    BY Zenon DEF BudgetInv, TypeOK
<1>b. SharedOK
    BY Zenon DEF BudgetInv
<1>c. TxnOK(t)
    BY Zenon DEF BudgetInv
<1>1. /\ frames' \in [AllBuckets -> Frames]
      /\ \A b \in AllBuckets :
           /\ frames[b].active_transaction_id # t => frames'[b] = frames[b]
           /\ frames[b].active_transaction_id = t
                => /\ frames'[b].active_transaction_id = Free
                   /\ frames'[b].token_count = frames[b].token_count
      /\ HoldsNone(t, frames')
    BY <1>a, Released DEF TypeOK
<1>2. step'[t] = s /\ \A u \in Txns \ {t} : step'[u] = step[u]
    BY Zenon, <1>a DEF GoTo, TypeOK
<1>3. TypeOK'
    <2>1. step' \in [Txns -> Steps]
        BY Zenon, <1>a DEF TypeOK, Steps, GoTo
    <2> QED
        BY Zenon, <1>a, <1>1, <2>1, SameRequests DEF TypeOK
<1>4. t \notin consumed
    BY Zenon, <1>c DEF TxnOK, PhaseOK
<1>5. HoldsNone(t, frames)' /\ HoldsNone(t, logged)'
    BY Zenon, <1>1, SameRequests DEF HoldsNone
<1>6. TxnOK(t)'
    <2>1. PhaseOK(t)' /\ CallOK(t)'
        BY Zenon, <1>2, <1>4, <1>5 DEF PhaseOK, CallOK
    <2> QED
        BY Zenon, <1>2, <2>1 DEF TxnOK, LockOK, LogOK, ApplyOK
<1>7. ASSUME NEW b \in AllBuckets, frames'[b] # frames[b]
      PROVE  /\ {frames[b].active_transaction_id, frames'[b].active_transaction_id}
                   \subseteq {Free, t}
             /\ frames'[b].active_transaction_id # t
             /\ logged[b].active_transaction_id = Free
             /\ frames'[b].token_count = logged[b].token_count
    <2>1. frames[b].active_transaction_id = t /\ t # Free
        BY Zenon, <1>1, <1>7, Constants
    <2>2. b \in Buckets(t) /\ frames[b].token_count = logged[b].token_count
        BY Zenon, <1>b, <1>4, <2>1 DEF SharedOK
    <2>3. logged[b].active_transaction_id = Free
        BY Zenon, <1>b, <2>1 DEF SharedOK, HoldsNone
    <2> QED
        BY Zenon, <1>1, <2>1, <2>2, <2>3
<1> QED
    BY Zenon, <1>2, <1>3, <1>6, <1>7, MemoryStep

\* Another transaction holds the frame.
LEMMA FrameBusyStep ==
    ASSUME BudgetInv, NEW t \in Txns, FrameBusy(t), requests' = requests
    PROVE  BudgetInv'
<1>1. phase[t] = "Commit" /\ HoldsNone(t, logged) /\ TypeOK
    BY Zenon DEF FrameBusy, BudgetInv, TxnOK, LockOK
<1>2. PICK s \in {"call", "failed"} : GoTo(t, s)
    BY Zenon DEF FrameBusy
<1> QED
    BY Zenon, <1>1, GiveUpLocks DEF FrameBusy, TypeOK

\* The frame has too few tokens.
LEMMA FrameShortStep ==
    ASSUME BudgetInv, NEW t \in Txns, FrameShort(t), requests' = requests
    PROVE  BudgetInv'
<1>a. TypeOK /\ requests \in Workloads
    BY Zenon DEF BudgetInv, TypeOK
<1>b. SharedOK
    BY Zenon DEF BudgetInv
<1>c. TxnOK(t)
    BY Zenon DEF BudgetInv
<1> DEFINE b == Bucket(t, idx[t])
<1>1. /\ step[t] = "lock" /\ phase[t] = "Commit" /\ HoldsNone(t, logged)
      /\ frames[b].active_transaction_id = Free
      /\ GoTo(t, "failed")
      /\ UNCHANGED <<logged, phase, idx, update, consumed, errors, crashes>>
    BY Zenon, <1>c DEF FrameShort, TxnOK, LockOK
<1>2. b \in Buckets(t) /\ b \in AllBuckets /\ t # Free /\ t \notin consumed
    BY Zenon, <1>a, <1>c, <1>1, Requested, Constants DEF TypeOK, TxnOK, PhaseOK
<1> HIDE DEF b
<1>3. CASE IsBatch(t)
    <2>1. frames' = ReleaseAcquiredLocksOnTimeframes(t, Locked(t, b))
        BY Zenon, <1>3 DEF FrameShort, b
    <2>2. PICK g : g = Locked(t, b)
        BY Zenon
    <2>3. /\ g \in [AllBuckets -> Frames]
          /\ \A c \in AllBuckets : c # b => g[c] = frames[c]
          /\ g[b] = [frames[b] EXCEPT !.active_transaction_id = t]
        BY <1>a, <1>2, <2>2, LockedFrame DEF Locked, TypeOK
    <2>4. [g[b] EXCEPT !.active_transaction_id = Free] = frames[b]
        BY Zenon, <1>a, <1>1, <1>2, <2>3, FrameFields DEF Frames
    <2>5. \A c \in AllBuckets :
             (IF g[c].active_transaction_id = t
              THEN [g[c] EXCEPT !.active_transaction_id = Free] ELSE g[c])
             = (IF frames[c].active_transaction_id = t
                THEN [frames[c] EXCEPT !.active_transaction_id = Free] ELSE frames[c])
        <3> TAKE c \in AllBuckets
        <3>1. CASE c = b
            <4>1. g[b].active_transaction_id = t
                BY <1>a, <1>2, <2>2, LockedFrame
            <4> QED
                BY Zenon, <2>4, <3>1, <4>1
        <3>2. CASE c # b
            BY Zenon, <2>3, <3>2
        <3> QED
            BY Zenon, <3>1, <3>2
    <2>6. frames' = ReleaseAcquiredLocksOnTimeframes(t, frames)
        BY Zenon, <2>1, <2>2, <2>5 DEF ReleaseAcquiredLocksOnTimeframes
    <2> QED
        BY Zenon, <1>a, <1>1, <2>6, GiveUpLocks DEF TypeOK
<1>4. CASE ~IsBatch(t)
    <2>1. frames' = Locked(t, b)
        BY Zenon, <1>4 DEF FrameShort, b
    <2>2. /\ frames' \in [AllBuckets -> Frames]
          /\ \A c \in AllBuckets : c # b => frames'[c] = frames[c]
          /\ frames'[b].active_transaction_id = t
          /\ frames'[b].token_count = frames[b].token_count
        BY <1>a, <1>2, <2>1, LockedFrame
    <2>3. Buckets(t) = {b}
        <3>1. Len(Entries(t)) \in Nat \ {0} /\ DOMAIN Entries(t) = 1..Len(Entries(t))
            BY Zenon, <1>a, Requested
        <3>2. Len(Entries(t)) = 1
            BY <1>4, <3>1 DEF IsBatch
        <3>3. DOMAIN Entries(t) = {1}
            BY <3>2
        <3>4. idx[t] = 1
            BY Zenon, <1>a, <3>3 DEF TypeOK
        <3> QED
            BY Zenon, <3>3, <3>4 DEF Buckets, b
    <2>4. step'[t] = "failed" /\ \A u \in Txns \ {t} : step'[u] = step[u]
        BY Zenon, <1>a, <1>1 DEF GoTo, TypeOK
    <2>5. TypeOK'
        <3>1. step' \in [Txns -> Steps]
            BY Zenon, <1>a, <1>1 DEF TypeOK, Steps, GoTo
        <3> QED
            BY Zenon, <1>a, <1>1, <2>2, <3>1, SameRequests DEF TypeOK
    <2>6. HoldsAll(t, frames)' /\ HoldsNone(t, logged)'
        BY Zenon, <1>1, <2>2, <2>3, SameRequests DEF HoldsAll, HoldsNone
    <2>7. TxnOK(t)'
        <3>1. PhaseOK(t)' /\ CallOK(t)'
            BY Zenon, <1>1, <1>2, <2>4, <2>6 DEF PhaseOK, CallOK
        <3> QED
            BY Zenon, <2>4, <3>1 DEF TxnOK, LockOK, LogOK, ApplyOK
    <2>8. frames[b].token_count = logged[b].token_count
          /\ logged[b].active_transaction_id = Free
        BY Zenon, <1>a, <1>b, <1>1, <1>2, Constants DEF SharedOK, TypeOK
    <2> QED
        BY <1>1, <1>2, <2>2, <2>4, <2>5, <2>7, <2>8, MemoryStep
<1> QED
    BY Zenon, <1>3, <1>4

\* Commit locks a frame, the last one or another.
LEMMA LockFrameStep ==
    ASSUME BudgetInv, NEW t \in Txns, LockFrame(t), requests' = requests
    PROVE  BudgetInv'
<1>a. TypeOK /\ requests \in Workloads
    BY Zenon DEF BudgetInv, TypeOK
<1>b. SharedOK
    BY Zenon DEF BudgetInv
<1>c. TxnOK(t)
    BY Zenon DEF BudgetInv
<1> DEFINE b == Bucket(t, idx[t])
<1>1. /\ step[t] = "lock" /\ phase[t] = "Commit" /\ HoldsNone(t, logged)
      /\ frames[b].active_transaction_id = Free /\ ~Short(t, b)
      /\ frames' = Locked(t, b)
      /\ UNCHANGED <<logged, phase, consumed, errors, crashes>>
    BY Zenon, <1>c DEF LockFrame, TxnOK, LockOK
<1>2. /\ b \in Buckets(t) /\ b \in AllBuckets /\ t # Free /\ t \notin consumed
      /\ idx[t] \in 1..Len(Entries(t)) /\ Len(Entries(t)) \in Nat
      /\ DOMAIN Entries(t) = 1..Len(Entries(t))
    BY <1>a, <1>c, <1>1, Requested, Constants DEF TypeOK, TxnOK, PhaseOK
<1>3. \A i \in DOMAIN Entries(t) : i # idx[t] => Bucket(t, i) # b /\ Bucket(t, i) \in AllBuckets
    BY Zenon, <1>a, <1>2, Requested
<1>4. \A i \in DOMAIN Entries(t) :
         IF i < idx[t]
         THEN Holds(t, Bucket(t, i)) /\ ~Short(t, Bucket(t, i))
         ELSE ~Holds(t, Bucket(t, i))
    BY Zenon, <1>c, <1>1 DEF TxnOK, LockOK
<1>5. /\ frames' \in [AllBuckets -> Frames]
      /\ \A c \in AllBuckets : c # b => frames'[c] = frames[c]
      /\ frames'[b].active_transaction_id = t
      /\ \A c \in AllBuckets : frames'[c].token_count = frames[c].token_count
    BY <1>a, <1>1, <1>2, LockedFrame
<1>6. \A i \in DOMAIN Entries(t) :
         IF i <= idx[t]
         THEN Holds(t, Bucket(t, i))' /\ ~Short(t, Bucket(t, i))
         ELSE ~Holds(t, Bucket(t, i))'
    <2> SUFFICES ASSUME NEW i \in DOMAIN Entries(t)
                 PROVE  IF i <= idx[t]
                        THEN Holds(t, Bucket(t, i))' /\ ~Short(t, Bucket(t, i))
                        ELSE ~Holds(t, Bucket(t, i))'
        BY Zenon
    <2>1. CASE i = idx[t]
        BY <1>1, <1>2, <1>5, <2>1, SameRequests DEF Holds
    <2>2. CASE i # idx[t]
        <3>1. Holds(t, Bucket(t, i))' <=> Holds(t, Bucket(t, i))
            BY <1>3, <1>5, <2>2, SameRequests DEF Holds
        <3> QED
            BY <1>2, <1>4, <2>2, <3>1
    <2> QED
        BY Zenon, <2>1, <2>2
<1>7. /\ frames[b].token_count = logged[b].token_count
      /\ logged[b].active_transaction_id = Free
    BY Zenon, <1>a, <1>b, <1>1, <1>2, Constants DEF SharedOK, TypeOK
<1>8. HoldsNone(t, logged)'
    BY Zenon, <1>1, SameRequests DEF HoldsNone
<1> HIDE DEF b
<1>9. CASE idx[t] < Len(Entries(t)) /\ idx' = [idx EXCEPT ![t] = @ + 1] /\ UNCHANGED <<step, update>>
    <2>1. idx'[t] = idx[t] + 1 /\ DOMAIN idx' = Txns /\ \A u \in Txns \ {t} : idx'[u] = idx[u]
        BY Zenon, <1>a, <1>9 DEF TypeOK
    <2>2. TypeOK'
        <3>1. \A u \in Txns : idx'[u] \in DOMAIN Entries(u)
            BY <1>a, <1>9 DEF TypeOK
        <3> QED
            BY <1>a, <1>1, <1>5, <1>9, SameRequests DEF TypeOK
    <2>3. LockOK(t)'
        <3>1. \A i \in DOMAIN Entries(t) : i < idx'[t] <=> i <= idx[t]
            BY <1>2, <2>1
        <3>2. \A i \in DOMAIN Entries(t) : Short(t, Bucket(t, i))' <=> Short(t, Bucket(t, i))
            BY <1>a, <1>5, Requested, SameRequests DEF Short
        <3> QED
            BY Zenon, <1>1, <1>6, <1>8, <3>1, <3>2, SameRequests DEF LockOK
    <2>4. TxnOK(t)'
        <3>1. PhaseOK(t)' /\ CallOK(t)'
            BY Zenon, <1>1, <1>2, <1>8, <1>9 DEF PhaseOK, CallOK
        <3> QED
            BY Zenon, <1>1, <1>9, <2>3, <3>1 DEF TxnOK, LogOK, ApplyOK
    <2> QED
        BY <1>1, <1>2, <1>5, <1>7, <1>9, <2>2, <2>4, MemoryStep
<1>10. CASE /\ idx[t] = Len(Entries(t)) /\ update' = [update EXCEPT ![t] = CommitUpdate(t)]
            /\ GoTo(t, "log") /\ UNCHANGED idx
    <2>1. /\ step'[t] = "log" /\ update'[t] = CommitUpdate(t) /\ DOMAIN update' = Txns
          /\ \A u \in Txns \ {t} : update'[u] = update[u] /\ step'[u] = step[u]
        BY Zenon, <1>a, <1>10 DEF TypeOK, GoTo
    <2>2. HoldsAll(t, frames)'
        <3>1. \A i \in DOMAIN Entries(t) : Holds(t, Bucket(t, i))'
            BY <1>6, <1>10
        <3> QED
            BY <1>a, <3>1, SameRequests, Requested DEF HoldsAll, Holds
    <2>3. \A c \in Buckets(t) : c \in AllBuckets /\ ~Short(t, c)
        <3>1. \A i \in DOMAIN Entries(t) : ~Short(t, Bucket(t, i))
            BY <1>6, <1>10
        <3> QED
            BY <1>a, <3>1, Requested
    <2>4. \A c \in Buckets(t) : frames[c].token_count - Tokens(t, c) \in 0..Budget
        BY <1>a, <2>3, FrameFields, TokensType DEF Short
    <2>5. CommitUpdate(t) \in [Buckets(t) -> Frames]
        BY Zenon, <1>a, <2>3, <2>4, FrameFields DEF CommitUpdate, Frames
    <2>6. TypeOK'
        <3>1. step' \in [Txns -> Steps]
            BY Zenon, <1>a, <1>10 DEF TypeOK, Steps, GoTo
        <3>2. \A u \in Txns : update'[u] \in [Buckets(u) -> Frames]
            BY Zenon, <1>a, <2>1, <2>5 DEF TypeOK
        <3> QED
            BY <1>a, <1>1, <1>5, <1>10, <2>1, <3>1, <3>2, SameRequests DEF TypeOK
    <2>7. LogOK(t)'
        <3>1. CommitUpdate(t)' = CommitUpdate(t)
            BY <1>5, <2>3, SameRequests DEF CommitUpdate
        <3>2. Covered(t, frames)'
            <4> SUFFICES ASSUME NEW c \in Buckets(t)
                         PROVE  frames'[c].token_count >= Tokens(t, c)
                BY Zenon, SameRequests DEF Covered
            <4> QED
                BY <1>a, <1>5, <2>3, FrameFields, TokensType DEF Short
        <3> QED
            BY Zenon, <1>1, <1>8, <2>1, <2>2, <3>1, <3>2 DEF LogOK
    <2>8. TxnOK(t)'
        <3>1. PhaseOK(t)' /\ CallOK(t)'
            BY Zenon, <1>1, <1>2, <1>8, <2>1 DEF PhaseOK, CallOK
        <3> QED
            BY Zenon, <2>1, <2>7, <3>1 DEF TxnOK, LockOK, ApplyOK
    <2> QED
        BY <1>1, <1>2, <1>5, <1>7, <1>10, <2>1, <2>6, <2>8, MemoryStep
<1> QED
    BY Zenon, <1>9, <1>10 DEF LockFrame

-----------------------------------------------------------------------------
(* The steps that follow the journal: memory takes over what was logged,    *)
(* after the answer or after a restart.                                     *)

\* A restart finds in the journal what each phase needs to be executed again.
LEMMA RestartStep ==
    ASSUME BudgetInv, Restart, requests' = requests
    PROVE  BudgetInv'
<1>a. TypeOK /\ requests \in Workloads
    BY Zenon DEF BudgetInv, TypeOK
<1>b. SharedOK
    BY Zenon DEF BudgetInv
<1>c. \A t \in Txns : TxnOK(t)
    BY Zenon DEF BudgetInv
<1>d. BudgetConserved
    BY Zenon DEF BudgetInv
<1>1. /\ crashes' \in 0..MaxCrashes /\ frames' = logged
      /\ UNCHANGED <<logged, phase, consumed, errors>>
      /\ \A t \in Txns : step'[t] = "call" /\ idx'[t] = 1 /\ update'[t] = NoUpdate(t)
      /\ step' \in [Txns -> {"call"}] /\ DOMAIN idx' = Txns /\ DOMAIN update' = Txns
    BY <1>a, Constants DEF Restart, TypeOK
<1>2. TypeOK'
    <2>1. step' \in [Txns -> Steps]
        BY Zenon, <1>1 DEF Steps
    <2>2. \A t \in Txns : idx'[t] \in DOMAIN Entries(t)
        BY Zenon, <1>a, <1>1, Requested
    <2>3. \A t \in Txns : update'[t] \in [Buckets(t) -> Frames]
        BY <1>1, Constants DEF NoUpdate, UnusedFrame, Frames
    <2> QED
        BY Zenon, <1>a, <1>1, <2>1, <2>2, <2>3, SameRequests DEF TypeOK
<1>3. SharedOK'
    BY <1>a, <1>b, <1>1, Constants, SameRequests DEF SharedOK, TypeOK
<1>4. \A b : Spent(b)' = Spent(b)
    BY <1>1 DEF Spent, Buckets, Bucket, Entries, Tokens
<1>5. BudgetConserved'
    BY Zenon, <1>d, <1>1, <1>4, SameRequests DEF BudgetConserved
<1>6. ASSUME NEW t \in Txns PROVE TxnOK(t)'
    <2>1. /\ HoldsNone(t, frames)' = HoldsNone(t, logged)
          /\ HoldsNone(t, logged)' = HoldsNone(t, logged)
          /\ HoldsAll(t, frames)' = HoldsAll(t, logged)
          /\ HoldsAll(t, logged)' = HoldsAll(t, logged)
          /\ Reserved(t, frames)' = Reserved(t, logged)
          /\ Reserved(t, logged)' = Reserved(t, logged)
        BY <1>1, SameRequests DEF HoldsAll, HoldsNone, Reserved
    <2>2. HoldsNone(t, frames) => HoldsNone(t, logged)
        BY <1>a, <1>b, Requested, Constants DEF HoldsNone, SharedOK, TypeOK
    <2>4. PhaseOK(t)' /\ CallOK(t)'
        BY Zenon, <1>c, <1>1, <2>1, <2>2 DEF TxnOK, PhaseOK, CallOK
    <2> QED
        BY Zenon, <1>c, <1>1, <2>4 DEF TxnOK, LockOK, LogOK, ApplyOK
<1> QED
    BY Zenon, <1>2, <1>3, <1>5, <1>6 DEF BudgetInv

\* A command in the step "log" that fails and has written nothing.
LEMMA NothingLogged ==
    ASSUME BudgetInv, NEW t \in Txns, step[t] = "log", GoTo(t, "failed"),
           UNCHANGED <<requests, frames, logged, phase, idx, update, consumed, crashes>>,
           errors' \in 0..MaxErrors
    PROVE  BudgetInv'
<1>a. TypeOK /\ requests \in Workloads
    BY Zenon DEF BudgetInv, TypeOK
<1>c. TxnOK(t)
    BY Zenon DEF BudgetInv
<1>1. /\ phase[t] \in {"Commit", "CommitNotify", "AbortNotify"} /\ HoldsAll(t, frames)
      /\ step'[t] = "failed" /\ \A u \in Txns \ {t} : step'[u] = step[u]
    BY Zenon, <1>a, <1>c DEF TxnOK, LogOK, GoTo, TypeOK
<1>2. TypeOK'
    <2>1. step' \in [Txns -> Steps]
        BY Zenon, <1>a DEF GoTo, TypeOK, Steps
    <2> QED
        BY Zenon, <1>a, <2>1, SameRequests DEF TypeOK
<1>4. PhaseOK(t)' /\ CallOK(t)'
    BY Zenon, <1>c, <1>1, SameFrames DEF TxnOK, PhaseOK, CallOK
<1>5. TxnOK(t)'
    BY Zenon, <1>c, <1>1, <1>4 DEF TxnOK, LockOK, LogOK, ApplyOK
<1> QED
    BY Zenon, <1>1, <1>2, <1>5, QuietStep

\* Memory takes over one frame of the update, the lock with it.
LEMMA ApplyStep ==
    ASSUME BudgetInv, NEW t \in Txns, OnLogUpdateCallback(t), requests' = requests,
           Preemption = FALSE
    PROVE  BudgetInv'
<1>a. TypeOK /\ requests \in Workloads
    BY Zenon DEF BudgetInv, TypeOK
<1>b. SharedOK
    BY Zenon DEF BudgetInv
<1>c. TxnOK(t)
    BY Zenon DEF BudgetInv
<1> DEFINE b == Bucket(t, idx[t])
<1>1. /\ step[t] = "apply" /\ frames' = [frames EXCEPT ![b] = update[t][b]]
      /\ UNCHANGED <<logged, phase, update, consumed, errors, crashes>>
      /\ \/ /\ idx[t] < Len(Entries(t)) /\ idx' = [idx EXCEPT ![t] = @ + 1]
            /\ UNCHANGED step
         \/ /\ idx[t] = Len(Entries(t)) /\ step' = [step EXCEPT ![t] = "ok"]
            /\ UNCHANGED idx
    BY Zenon DEF OnLogUpdateCallback, GoTo
<1>2. /\ b \in Buckets(t) /\ b \in AllBuckets /\ t # Free
      /\ idx[t] \in 1..Len(Entries(t)) /\ Len(Entries(t)) \in Nat
      /\ DOMAIN Entries(t) = 1..Len(Entries(t))
      /\ update[t] \in [Buckets(t) -> Frames]
    BY <1>a, Requested, Constants DEF TypeOK
<1>3. \A i \in DOMAIN Entries(t) : i # idx[t] => Bucket(t, i) # b /\ Bucket(t, i) \in AllBuckets
    BY Zenon, <1>a, <1>2, Requested
<1>4. /\ phase[t] \in {"Commit", "CommitNotify", "AbortNotify"}
      /\ phase[t] = "CommitNotify" => t \in consumed
      /\ phase[t] = "Commit" => Reserved(t, logged)
      /\ phase[t] # "Commit" => HoldsNone(t, update[t]) /\ HoldsNone(t, logged)
      /\ \A i \in DOMAIN Entries(t) :
           LET c == Bucket(t, i) IN
           IF phase[t] = "Commit" \/ i >= idx[t]
           THEN /\ Holds(t, c) /\ logged[c] = update[t][c]
                /\ i < idx[t] => frames[c] = update[t][c]
           ELSE ~Holds(t, c)
    BY Zenon, <1>c, <1>1 DEF TxnOK, ApplyOK
<1>5. /\ frames' \in [AllBuckets -> Frames]
      /\ frames'[b] = update[t][b]
      /\ \A c \in AllBuckets : c # b => frames'[c] = frames[c]
    BY Zenon, <1>a, <1>1, <1>2 DEF TypeOK
<1>6. Holds(t, b) /\ logged[b] = update[t][b]
    BY <1>2, <1>4
<1>7. \A i \in DOMAIN Entries(t) :
         LET c == Bucket(t, i) IN
         IF phase[t] = "Commit" \/ i > idx[t]
         THEN /\ Holds(t, c)' /\ logged[c] = update[t][c]
              /\ i <= idx[t] => frames'[c] = update[t][c]
         ELSE ~Holds(t, c)'
    <2> SUFFICES ASSUME NEW i \in DOMAIN Entries(t)
                 PROVE  IF phase[t] = "Commit" \/ i > idx[t]
                        THEN /\ Holds(t, Bucket(t, i))'
                             /\ logged[Bucket(t, i)] = update[t][Bucket(t, i)]
                             /\ i <= idx[t] => frames'[Bucket(t, i)] = update[t][Bucket(t, i)]
                        ELSE ~Holds(t, Bucket(t, i))'
        BY Zenon, SameRequests
    <2>1. CASE i = idx[t]
        <3>1. phase[t] = "Commit" => frames'[b].active_transaction_id = t
            BY <1>2, <1>4, <1>5, <1>6 DEF Reserved
        <3>2. phase[t] # "Commit" => frames'[b].active_transaction_id # t
            BY Zenon, <1>2, <1>4, <1>5 DEF HoldsNone
        <3>3. Bucket(t, i) = b /\ Bucket(t, i)' = b /\ ~(i > idx[t])
            BY <1>2, <2>1, SameRequests
        <3> QED
            BY Zenon, <1>5, <1>6, <3>1, <3>2, <3>3 DEF Holds
    <2>2. CASE i # idx[t]
        <3>1. /\ Bucket(t, i)' = Bucket(t, i) /\ frames'[Bucket(t, i)] = frames[Bucket(t, i)]
              /\ Holds(t, Bucket(t, i))' <=> Holds(t, Bucket(t, i))
            BY Zenon, <1>3, <1>5, <2>2, SameRequests DEF Holds
        <3>2. i \in Nat /\ idx[t] \in Nat
            BY <1>2
        <3> QED
            BY <1>4, <2>2, <3>1, <3>2
    <2> QED
        BY Zenon, <2>1, <2>2
<1>8. /\ phase'[t] = "CommitNotify" => t \in consumed'
      /\ phase'[t] = "Commit" => Reserved(t, logged)'
      /\ phase'[t] # "Commit" => HoldsNone(t, update[t])' /\ HoldsNone(t, logged)'
    BY <1>1, <1>4, SameRequests DEF Reserved, HoldsNone
<1>9. /\ phase'[t] \in {"Commit", "AbortNotify"} => t \notin consumed'
      /\ HoldsAll(t, logged)' \/ HoldsNone(t, logged)'
    BY <1>c, <1>1, SameRequests DEF TxnOK, PhaseOK, HoldsAll, HoldsNone
<1>10. \A c \in AllBuckets :
          \/ frames'[c] = frames[c]
          \/ /\ {frames[c].active_transaction_id, frames'[c].active_transaction_id} \subseteq {Free, t}
             /\ frames'[c].active_transaction_id = t => c \in Buckets(t)
             /\ logged[c].active_transaction_id \in {Free, frames'[c].active_transaction_id}
             /\ frames'[c].token_count = logged[c].token_count
    BY Zenon, <1>b, <1>2, <1>5, <1>6 DEF Holds, SharedOK
<1> HIDE DEF b
<1>11. CASE idx[t] < Len(Entries(t)) /\ idx' = [idx EXCEPT ![t] = @ + 1] /\ UNCHANGED step
    <2>1. idx'[t] = idx[t] + 1 /\ DOMAIN idx' = Txns /\ \A u \in Txns \ {t} : idx'[u] = idx[u]
        BY Zenon, <1>a, <1>11 DEF TypeOK
    <2>2. TypeOK'
        <3>1. \A u \in Txns : idx'[u] \in DOMAIN Entries(u)
            BY <1>a, <1>2, <1>11, <2>1 DEF TypeOK
        <3> QED
            BY Zenon, <1>a, <1>1, <1>5, <1>11, <2>1, <3>1, SameRequests DEF TypeOK
    <2>3. ApplyOK(t)'
        <3>1. idx[t] \in Nat /\ DOMAIN Entries(t) \subseteq Nat
            BY <1>2
        <3>2. \A i \in Nat : /\ i >= idx[t] + 1 <=> i > idx[t]
                             /\ i < idx[t] + 1 <=> i <= idx[t]
            BY <3>1
        <3>3. \A i \in DOMAIN Entries(t) : /\ i >= idx'[t] <=> i > idx[t]
                                           /\ i < idx'[t] <=> i <= idx[t]
            BY Zenon, <2>1, <3>1, <3>2
        <3>4. /\ phase' = phase /\ logged' = logged /\ update' = update
              /\ DOMAIN Entries(t)' = DOMAIN Entries(t)
              /\ \A i : Bucket(t, i)' = Bucket(t, i)
            BY Zenon, <1>1, SameRequests
        <3>5. \A i \in DOMAIN Entries(t) :
                 IF phase[t] = "Commit" \/ i >= idx'[t]
                 THEN /\ Holds(t, Bucket(t, i))' /\ logged[Bucket(t, i)] = update[t][Bucket(t, i)]
                      /\ i < idx'[t] => frames'[Bucket(t, i)] = update[t][Bucket(t, i)]
                 ELSE ~Holds(t, Bucket(t, i))'
            BY Zenon, <1>7, <3>3, <3>4 DEF Holds
        <3> QED
            BY Zenon, <1>4, <1>8, <3>4, <3>5 DEF ApplyOK, Holds
    <2>4. PhaseOK(t)'
        BY Zenon, <1>1, <1>4, <1>8, <1>9, <1>11 DEF PhaseOK
    <2>5. TxnOK(t)'
        BY Zenon, <1>1, <1>11, <2>3, <2>4 DEF TxnOK, CallOK, LockOK, LogOK
    <2> QED
        BY Zenon, <1>1, <1>11, <1>10, <2>1, <2>2, <2>5, MemoryStep
<1>12. CASE idx[t] = Len(Entries(t)) /\ step' = [step EXCEPT ![t] = "ok"] /\ UNCHANGED idx
    <2>1. step'[t] = "ok" /\ \A u \in Txns \ {t} : step'[u] = step[u]
        BY Zenon, <1>a, <1>12 DEF TypeOK
    <2>2. TypeOK'
        <3>1. step' \in [Txns -> Steps]
            BY Zenon, <1>a, <1>12 DEF TypeOK, Steps
        <3> QED
            BY Zenon, <1>a, <1>1, <1>5, <1>12, <3>1, SameRequests DEF TypeOK
    <2>3. phase[t] = "Commit" => Reserved(t, frames)'
        <3> SUFFICES ASSUME phase[t] = "Commit", NEW c \in Buckets(t)
                     PROVE  /\ frames'[c].active_transaction_id = t
                            /\ frames'[c].active_token_count = frames'[c].token_count - Tokens(t, c)
            BY Zenon, SameRequests DEF Reserved
        <3>1. PICK i \in DOMAIN Entries(t) : c = Bucket(t, i)
            BY Zenon, <1>a, Requested
        <3>2. i <= idx[t]
            BY <1>2, <1>12
        <3>3. frames'[c] = logged[c]
            BY Zenon, <1>7, <3>1, <3>2
        <3> QED
            BY Zenon, <1>4, <3>3 DEF Reserved
    <2>4. phase[t] # "Commit" => HoldsNone(t, frames)'
        <3> SUFFICES ASSUME phase[t] # "Commit", NEW c \in Buckets(t)
                     PROVE  frames'[c].active_transaction_id # t
            BY Zenon, SameRequests DEF HoldsNone
        <3>1. PICK i \in DOMAIN Entries(t) : c = Bucket(t, i)
            BY Zenon, <1>a, Requested
        <3>2. ~(i > idx[t])
            BY <1>2, <1>12
        <3> QED
            BY Zenon, <1>7, <3>1, <3>2, SameRequests DEF Holds
    <2>5. PhaseOK(t)'
        BY <1>1, <1>4, <1>8, <1>9, <2>1, <2>3, <2>4 DEF PhaseOK
    <2>6. CallOK(t)'
        BY Zenon, <1>1, <1>4, <1>8, <2>1, <2>3, <2>4 DEF CallOK
    <2>7. TxnOK(t)'
        BY Zenon, <2>1, <2>5, <2>6 DEF TxnOK, LockOK, LogOK, ApplyOK
    <2> QED
        BY Zenon, <1>1, <1>10, <1>12, <2>1, <2>2, <2>7, MemoryStep
<1> QED
    BY Zenon, <1>1, <1>11, <1>12

=============================================================================
