---------------------------- MODULE PartitionLease ----------------------------
(***************************************************************************)
(* One node's side of one partition: the thread that refreshes the lease   *)
(* on the partition's lock (cc/core/lease_manager/src/v2), the manager     *)
(* that tells it to hold or release the lease, and the event sink that     *)
(* loads and unloads the local partition as the lease comes and goes       *)
(* (cc/pbs/partition_lease_event_sink).                                    *)
(*                                                                         *)
(* The lock is seen through what the node remembers of its lease: whose it *)
(* is and how much time is left. A refresh may fail, find another owner,   *)
(* or renew; LeasableLock says what it may find. Loading and unloading run *)
(* on threads of their own, and unloading reports back to the manager,     *)
(* which needs the mutex the refresher holds during a round.               *)
(***************************************************************************)
EXTENDS Integers

CONSTANTS
    LeaseDuration,   \* lease duration
    RenewAt,    \* an owned lease with less time left is renewed
    Faults      \* the faults that may happen, of LeaseFaults

\* stall: the lease expires between ShouldRefreshLease and IsCurrentLeaseOwner.
\* lostAck: a write of the lease is applied although it was reported as failed.
LeaseFaults == {"stall", "lostAck"}

ASSUME LeaseAssumption ==
    /\ LeaseDuration \in Nat \ {0}
    /\ RenewAt \in 1..LeaseDuration
    /\ Faults \subseteq LeaseFaults

VARIABLES
    lease,      \* current_lease_: owner and time left, 0 when expired
    mode,       \* lease_refresh_mode_
    prevMode,   \* prev_lease_refresh_mode_
    wasOwner,   \* was_lease_owner_
    last,       \* last_lease_transition_
    round,      \* progress of PerformLeaseRefresh; "sleep" between rounds
    elapsed,    \* time since last_lease_refresh_timestamp_
    decision,   \* mode the lease manager is about to set
    sinkTask,       \* the sink's task for the partition: its type and TaskState
    partition        \* the entry in the partition manager's map

refresherVars == <<lease, mode, prevMode, wasOwner, last, round, elapsed>>
leaseVars == <<lease, mode, prevMode, wasOwner, last, round, elapsed, decision, sinkTask, partition>>

Modes == {"NoIntention", "Hold", "Release"}

Transitions == {"NotAcquired", "Acquired", "Lost", "Released", "Renewed",
                "RenewedWithIntentionToRelease"}

NoTask == [type |-> "none", state |-> "Completed"]

NewTask(type) == [type |-> type, state |-> "NotStarted"]

LeaseTypeOK ==
    /\ lease \in [owner : {"none", "me", "other"}, left : 0..LeaseDuration]
    /\ mode \in Modes
    /\ prevMode \in Modes \cup {"Unknown"}
    /\ wasOwner \in BOOLEAN
    /\ last \in Transitions \cup {"none"}
    /\ round \in {"sleep", "skip", "refresh", "notify", "cancelLost",
                  "cancelRelease", "unload"}
    /\ elapsed \in 0..(LeaseDuration + 1)
    /\ decision \in Modes \cup {"none"}
    /\ sinkTask \in [type : {"none", "Load", "Unload"},
                 state : {"NotStarted", "Executing", "Unloaded", "Completed"}]
    /\ partition \in {"absent", "remote", "loading", "loaded", "unloading"}

LeaseInit ==
    /\ lease = [owner |-> "none", left |-> 0]
    /\ mode = "NoIntention"
    /\ prevMode = "Unknown"
    /\ wasOwner = FALSE
    /\ last = "none"
    /\ round = "sleep"
    /\ elapsed = 0
    /\ decision = "none"
    /\ sinkTask = NoTask
    /\ partition = "absent"

\* AbortProcess, the enforcer's corrective action, or any crash: the process is
\* gone and a new one starts, under the same instance id.
AbortProcess ==
    /\ lease' = [owner |-> "none", left |-> 0]
    /\ mode' = "NoIntention"
    /\ prevMode' = "Unknown"
    /\ wasOwner' = FALSE
    /\ last' = "none"
    /\ round' = "sleep"
    /\ elapsed' = 0
    /\ decision' = "none"
    /\ sinkTask' = NoTask
    /\ partition' = "absent"

-----------------------------------------------------------------------------
(* The lock, as this node remembers it.                                     *)

IsCurrentLeaseOwner == lease.owner = "me" /\ lease.left > 0

HasOwnerInfo == lease.owner # "none" /\ lease.left > 0

ShouldRefreshLease ==
    \/ lease.left = 0
    \/ lease.owner = "me" /\ lease.left < RenewAt
    \/ lease.owner = "other" /\ 2 * lease.left < LeaseDuration

Lease(owner, lefts) == {[owner |-> owner, left |-> t] : t \in lefts}

\* What a successful RefreshLease may leave in current_lease_. The row is ours
\* with more time than we remember only if we have just started, or a write of
\* ours took effect without our knowing.
RefreshedLeases ==
    LET surprise == "lostAck" \in Faults \/ lease.owner = "none"
    IN IF IsCurrentLeaseOwner
       THEN IF mode = "NoIntention"
            THEN Lease("me", lease.left..(IF surprise THEN LeaseDuration ELSE lease.left))
            ELSE Lease("me", {LeaseDuration})
       ELSE Lease("other", 1..LeaseDuration) \cup
            IF mode = "NoIntention"
            THEN Lease("other", {0}) \cup Lease("me", 0..(IF surprise THEN LeaseDuration ELSE 0))
            ELSE Lease("me", {LeaseDuration})

\* Mutant: an expired lease goes on losing time.
TickPastExpiry ==
    /\ elapsed <= LeaseDuration
    /\ lease' = [lease EXCEPT !.left = @ - 1]
    /\ elapsed' = elapsed + 1
    /\ UNCHANGED <<mode, prevMode, wasOwner, last, round, decision, sinkTask, partition>>

\* Time passes, for the lease and for the enforcer; neither tells apart times
\* beyond its limit.
LeaseTick ==
    /\ round = "skip" => "stall" \in Faults
    /\ lease' = [lease EXCEPT !.left = IF @ = 0 THEN 0 ELSE @ - 1]
    /\ elapsed' = IF elapsed > LeaseDuration THEN elapsed ELSE elapsed + 1
    /\ UNCHANGED <<mode, prevMode, wasOwner, last, round, decision, sinkTask, partition>>

-----------------------------------------------------------------------------
(* LeaseRefresher::PerformLeaseRefresh, under lease_refresh_mutex_.         *)

StartRound ==
    /\ round = "sleep"
    /\ round' = IF ShouldRefreshLease THEN "refresh" ELSE "skip"
    /\ UNCHANGED <<lease, mode, prevMode, wasOwner, last, elapsed, decision, sinkTask, partition>>

RefreshLease ==
    /\ round = "refresh"
    /\ \E l \in RefreshedLeases \cup {lease} : lease' = l
    /\ round' = "notify"
    /\ UNCHANGED <<mode, prevMode, wasOwner, last, elapsed, decision, sinkTask, partition>>

\* Mutant: the release is recognised by the mode of this round.
TransitionByCurrentMode ==
    CASE ~wasOwner /\ IsCurrentLeaseOwner -> "Acquired"
      [] wasOwner /\ ~IsCurrentLeaseOwner ->
           IF mode = "Release" THEN "Released" ELSE "Lost"
      [] wasOwner /\ IsCurrentLeaseOwner ->
           IF mode = "Release" THEN "RenewedWithIntentionToRelease" ELSE "Renewed"
      [] OTHER -> "NotAcquired"

\* The transition between the last round and this one. Ownership lost after a
\* release is not reported as lost.
Transition ==
    CASE ~wasOwner /\ IsCurrentLeaseOwner -> "Acquired"
      [] wasOwner /\ ~IsCurrentLeaseOwner ->
           IF prevMode = "Release" THEN "Released" ELSE "Lost"
      [] wasOwner /\ IsCurrentLeaseOwner ->
           IF mode = "Release" THEN "RenewedWithIntentionToRelease" ELSE "Renewed"
      [] OTHER -> "NotAcquired"

\* The round ends: the mutex is released.
EndRound == round' = "sleep" /\ elapsed' = 0

\* was_lease_owner_ is updated whether or not the sink is notified.
SkipNotification ==
    /\ round = "skip"
    /\ wasOwner' = IsCurrentLeaseOwner
    /\ EndRound
    /\ UNCHANGED <<lease, mode, prevMode, last, decision, sinkTask, partition>>

Notifies(t) == round = "notify" /\ Transition = t

\* Mutant: the transition is recorded only while the lease is owned.
RememberOwned(t) ==
    /\ wasOwner' = IsCurrentLeaseOwner
    /\ last' = IF IsCurrentLeaseOwner THEN t ELSE last
    /\ UNCHANGED <<lease, mode, prevMode, decision>>

\* What PerformLeaseRefresh keeps for the next round.
Remember(t) ==
    /\ wasOwner' = IsCurrentLeaseOwner
    /\ last' = t
    /\ UNCHANGED <<lease, mode, prevMode, decision>>

-----------------------------------------------------------------------------
(* PartitionLeaseEventSink::OnLeaseTransition, run by the refresher's       *)
(* thread, so still under lease_refresh_mutex_.                             *)

TaskDone == sinkTask.state = "Completed"

\* RefreshPartitionAddress of the remote partition, or load it. An entry of the
\* other type ends the process.
OnLeaseNotAcquired ==
    /\ Notifies("NotAcquired")
    /\ IF HasOwnerInfo /\ partition \notin {"absent", "remote"}
       THEN AbortProcess
       ELSE /\ partition' = IF HasOwnerInfo THEN "remote" ELSE partition
            /\ Remember("NotAcquired")
            /\ EndRound
            /\ UNCHANGED sinkTask

\* Unload what is in the map, remote or not, and schedule the load of the local
\* partition.
OnLeaseAcquired ==
    /\ Notifies("Acquired")
    /\ IF ~TaskDone \/ partition \in {"loading", "unloading"}
       THEN AbortProcess
       ELSE /\ partition' = "absent"
            /\ sinkTask' = NewTask("Load")
            /\ Remember("Acquired")
            /\ EndRound

\* A task that runs ends the process; another is cancelled first.
OnLeaseLost ==
    /\ Notifies("Lost")
    /\ IF sinkTask.state \in {"Executing", "Unloaded"}
       THEN AbortProcess
       ELSE /\ Remember("Lost")
            /\ round' = "cancelLost"
            /\ UNCHANGED <<elapsed, sinkTask, partition>>

\* Renewed, and a release that is under way or must wait for a running load,
\* need nothing. Otherwise cancel a load that has not started.
OnLeaseRenewed ==
    \/ /\ \/ Notifies("Renewed")
          \/ /\ Notifies("RenewedWithIntentionToRelease")
             /\ sinkTask.type = "Unload" \/ sinkTask.state = "Executing"
       /\ Remember(Transition)
       /\ EndRound
       /\ UNCHANGED <<sinkTask, partition>>
    \/ /\ Notifies("RenewedWithIntentionToRelease")
       /\ sinkTask.type # "Unload" /\ sinkTask.state # "Executing"
       /\ Remember(Transition)
       /\ round' = "cancelRelease"
       /\ UNCHANGED <<elapsed, sinkTask, partition>>

OnLeaseReleased ==
    /\ Notifies("Released")
    /\ Remember("Released")
    /\ EndRound
    /\ UNCHANGED <<sinkTask, partition>>

\* CancelOrWaitUntilTaskIsDone: a task that started meanwhile is waited for.
CancelTask ==
    /\ sinkTask.state \in {"NotStarted", "Completed"}
    /\ \/ /\ round = "cancelLost"
          /\ sinkTask' = NoTask
          /\ round' = "unload"
          /\ UNCHANGED elapsed
       \/ /\ round = "cancelRelease"
          /\ sinkTask' = NewTask("Unload")
          /\ EndRound
    /\ UNCHANGED <<lease, mode, prevMode, wasOwner, last, decision, partition>>

\* UnloadLocalPartitionHelper on the refresher's thread.
UnloadLost ==
    /\ round = "unload"
    /\ \/ /\ \/ partition \in {"loaded", "remote"} /\ partition' = "unloading" /\ UNCHANGED <<round, elapsed>>
             \/ partition \in {"absent", "unloading"} /\ partition' = "absent" /\ EndRound
          /\ UNCHANGED <<lease, mode, prevMode, wasOwner, last, decision, sinkTask>>
       \/ partition # "absent" /\ AbortProcess

\* Mutant: the enforcer takes the refresher's mutex.
EnforceBetweenRounds ==
    /\ round = "sleep"
    /\ elapsed > LeaseDuration
    /\ AbortProcess

\* LeaseRefreshLivenessEnforcer
EnforceLiveness ==
    /\ elapsed > LeaseDuration
    /\ AbortProcess

-----------------------------------------------------------------------------
(* The sink's task, on its own thread.                                      *)

StartTask ==
    /\ sinkTask.state = "NotStarted"
    /\ sinkTask' = [sinkTask EXCEPT !.state = "Executing"]
    /\ UNCHANGED <<refresherVars, decision, partition>>

\* LoadLocalPartitionHelper: enter the map, recover, done. A load that fails,
\* or finds the partition in the map, ends the process.
LoadPartition ==
    /\ sinkTask = [type |-> "Load", state |-> "Executing"]
    /\ \/ /\ partition = "absent"
          /\ partition' = "loading"
          /\ UNCHANGED <<refresherVars, decision, sinkTask>>
       \/ /\ partition = "loading"
          /\ partition' = "loaded"
          /\ sinkTask' = [sinkTask EXCEPT !.state = "Completed"]
          /\ UNCHANGED <<refresherVars, decision>>
       \/ AbortProcess

\* UnloadLocalPartitionHelper: stop and erase the partition if it is there.
UnloadPartition ==
    /\ sinkTask = [type |-> "Unload", state |-> "Executing"]
    /\ \/ /\ partition \in {"loaded", "remote"}
          /\ partition' = "unloading"
          /\ UNCHANGED <<refresherVars, decision, sinkTask>>
       \/ /\ partition \in {"absent", "unloading"}
          /\ partition' = "absent"
          /\ sinkTask' = [sinkTask EXCEPT !.state = "Unloaded"]
          /\ UNCHANGED <<refresherVars, decision>>
       \/ partition # "absent" /\ AbortProcess

-----------------------------------------------------------------------------
(* LeaseManagerV2. Modes are set under lease_refresh_mutex_, so between     *)
(* rounds; they are decided on without it.                                  *)

\* LeaseRefresher::SetLeaseRefreshMode, refused if a Lost or Released is due.
SetLeaseRefreshMode(m) ==
    /\ round = "sleep"
    /\ IF m = "Hold" /\ last \notin {"none", "NotAcquired"}
       THEN UNCHANGED <<mode, prevMode>>
       ELSE mode' = m /\ prevMode' = mode

\* Mutant: the report is taken for a lease that is to be held.
SafeToReleaseHeldLease ==
    /\ sinkTask.state = "Unloaded"
    /\ IF mode = "Hold"
       THEN SetLeaseRefreshMode("NoIntention")
       ELSE UNCHANGED <<mode, prevMode>>
    /\ sinkTask' = [sinkTask EXCEPT !.state = "Completed"]
    /\ UNCHANGED <<lease, wasOwner, last, round, elapsed, decision, partition>>

\* The unload task reports that the lease may go.
SafeToReleaseLease ==
    /\ sinkTask.state = "Unloaded"
    /\ IF mode = "Release"
       THEN SetLeaseRefreshMode("NoIntention")
       ELSE UNCHANGED <<mode, prevMode>>
    /\ sinkTask' = [sinkTask EXCEPT !.state = "Completed"]
    /\ UNCHANGED <<lease, wasOwner, last, round, elapsed, decision, partition>>

Decide(m) ==
    /\ decision = "none"
    /\ decision' = m
    /\ UNCHANGED <<refresherVars, sinkTask, partition>>

TryHoldMoreLeases ==
    mode = "NoIntention" /\ ~HasOwnerInfo /\ Decide("Hold")

TryReleaseSomeLeases ==
    mode = "Hold" /\ IsCurrentLeaseOwner /\ Decide("Release")

RevertTheIntentionToHoldLease ==
    mode = "Hold" /\ HasOwnerInfo /\ ~IsCurrentLeaseOwner /\ Decide("NoIntention")

ApplyDecision ==
    /\ decision # "none"
    /\ SetLeaseRefreshMode(decision)
    /\ decision' = "none"
    /\ UNCHANGED <<lease, wasOwner, last, round, elapsed, sinkTask, partition>>

-----------------------------------------------------------------------------
RoundStep ==
    \/ StartRound
    \/ RefreshLease
    \/ SkipNotification
    \/ OnLeaseNotAcquired
    \/ OnLeaseAcquired
    \/ OnLeaseLost
    \/ OnLeaseRenewed
    \/ OnLeaseReleased
    \/ CancelTask
    \/ UnloadLost

TaskStep ==
    \/ StartTask
    \/ LoadPartition
    \/ UnloadPartition
    \/ SafeToReleaseLease

ManagerStep ==
    \/ TryHoldMoreLeases
    \/ TryReleaseSomeLeases
    \/ RevertTheIntentionToHoldLease
    \/ ApplyDecision

LeaseNext ==
    \/ LeaseTick
    \/ RoundStep
    \/ TaskStep
    \/ ManagerStep
    \/ EnforceLiveness

\* Every thread keeps running, and the refresher sleeps between rounds, so time
\* passes there. The mutex is handed to a thread that keeps asking for it.
\* Nothing is assumed of the database or the load.
LeaseFairness ==
    /\ WF_leaseVars(RoundStep)
    /\ WF_leaseVars(EnforceLiveness)
    /\ SF_leaseVars(LeaseTick)
    /\ SF_leaseVars(TaskStep)

LeaseSpec == LeaseInit /\ [][LeaseNext]_leaseVars /\ LeaseFairness

-----------------------------------------------------------------------------
(* Properties.                                                              *)

\* A local partition in the map, or about to be loaded.
Hosted == partition \in {"loading", "loaded", "unloading"}
              \/ (sinkTask.type = "Load" /\ ~TaskDone)

\* Between rounds, a node whose last round found it does not own the lease hosts
\* nothing of the partition: OnLeaseLost and the release have unloaded it.
HostedOnlyByOwner == round = "sleep" /\ ~wasOwner => ~Hosted

\* No transition is lost: the lease is only acquired after the sink heard that
\* the node did not own it.
NoMissedTransition ==
    [][last' = "Acquired" /\ last # "Acquired"
         => last \in {"none", "NotAcquired", "Lost", "Released"}]_leaseVars

\* Where the refresher has to come to again and again. Its round ends, although
\* the sink may wait in it for a task that waits for the refresher's mutex. A
\* release that was started completes, or the lease goes.
LeaseSettled == round = "sleep" /\ (mode = "Release" => ~wasOwner)

=============================================================================
