------------------------------ MODULE GlobalLease ------------------------------
(***************************************************************************)
(* One PBS at a time: instances of PBSInstance (cc/pbs/pbs_server/src/     *)
(* pbs_instance) compete for the lease of the global partition. Each runs  *)
(* a LeaseManager (cc/core/lease_manager/src/lease_manager.cc) with two    *)
(* threads: the enforcer looks at the lock every Frequency, and the        *)
(* obtainer refreshes the lease when it is told to. An instance without    *)
(* the lease forwards its traffic to the owner. One that acquires it stops *)
(* forwarding, waits for twice the duration of a lease, and serves. One    *)
(* that loses it aborts.                                                   *)
(*                                                                         *)
(* Nothing but time keeps two instances from serving together. So the      *)
(* steps that the threads take at once, when they are due, are not delayed *)
(* (GlobalTick), the database may take up to DbLimit over one RefreshLease,*)
(* and the clocks of LeasableLock differ by up to MaxSkew.                 *)
(***************************************************************************)
EXTENDS LeasableLock

CONSTANTS
    Frequency,      \* lease_enforcer_frequency_in_milliseconds_
    MaxRefresh,     \* lease_obtainer_maximum_runningtime_in_milliseconds_
    DbLimit         \* longest that the database calls of one RefreshLease take

\* The last conjunct is ManageLeaseOnLock's check.
ASSUME GlobalAssumption ==
    /\ Frequency \in Nat \ {0}
    /\ MaxRefresh \in Nat
    /\ DbLimit \in Nat
    /\ 2 * Frequency <= Duration

\* What the wait of two lease durations relies on: the database and the clocks keep
\* within one of them.
ASSUME TimingAssumption ==
    /\ Frequency + DbLimit <= Duration
    /\ MaxSkew <= Duration

VARIABLES
    stage,      \* how far each instance's Run has come
    since,      \* when it found the lease acquired, or began its wait
    obtainer,   \* progress of LeaseObtainerThreadFunction
    obtain,     \* obtain_lease_
    owned,      \* previously_lease_owner
    started,    \* ongoing_lease_acquisition_start_timestamp_, 0 when there is none
    checked,    \* when the enforcer last looked at the lock
    forward     \* where the traffic forwarder sends the requests, NoNode when stopped

instanceVars == <<stage, since, obtainer, obtain, owned, started, checked, forward>>
globalVars == <<lockVars, instanceVars>>

GlobalTypeOK ==
    /\ LockTypeOK
    /\ stage \in [Nodes -> {"down", "wait", "acquired", "sleep", "serve"}]
    /\ since \in [Nodes -> Nat]
    /\ obtainer \in [Nodes -> {"idle", "read", "refresh", "forward"}]
    /\ obtain \in [Nodes -> BOOLEAN]
    /\ owned \in [Nodes -> BOOLEAN]
    /\ started \in [Nodes -> Nat]
    /\ checked \in [Nodes -> Nat]
    /\ forward \in [Nodes -> Nodes \cup {NoNode}]

GlobalInit ==
    /\ LockInit
    /\ stage = [n \in Nodes |-> "down"]
    /\ since = [n \in Nodes |-> 0]
    /\ obtainer = [n \in Nodes |-> "idle"]
    /\ obtain = [n \in Nodes |-> FALSE]
    /\ owned = [n \in Nodes |-> FALSE]
    /\ started = [n \in Nodes |-> 0]
    /\ checked = [n \in Nodes |-> 0]
    /\ forward = [n \in Nodes |-> NoNode]

-----------------------------------------------------------------------------
(* The process.                                                             *)

\* The process ends: by abort, or because the machine does.
Abort(n) ==
    /\ Restart(n)
    /\ stage' = [stage EXCEPT ![n] = "down"]
    /\ since' = [since EXCEPT ![n] = 0]
    /\ obtainer' = [obtainer EXCEPT ![n] = "idle"]
    /\ obtain' = [obtain EXCEPT ![n] = FALSE]
    /\ owned' = [owned EXCEPT ![n] = FALSE]
    /\ started' = [started EXCEPT ![n] = 0]
    /\ checked' = [checked EXCEPT ![n] = 0]
    /\ forward' = [forward EXCEPT ![n] = NoNode]

Crash(n) == stage[n] # "down" /\ Abort(n)

\* PBSInstance::Run up to the lease manager's Run, which starts the two threads.
\* The forwarder runs, with no address yet.
StartInstance(n) ==
    /\ stage[n] = "down"
    /\ stage' = [stage EXCEPT ![n] = "wait"]
    /\ checked' = [checked EXCEPT ![n] = now]
    /\ UNCHANGED <<lockVars, since, obtainer, obtain, owned, started, forward>>

\* The main thread sees is_lease_acquired, stops the forwarder and begins to wait.
StopForwarding(n) ==
    /\ stage[n] = "acquired"
    /\ stage' = [stage EXCEPT ![n] = "sleep"]
    /\ since' = [since EXCEPT ![n] = now]
    /\ forward' = [forward EXCEPT ![n] = NoNode]
    /\ UNCHANGED <<lockVars, obtainer, obtain, owned, started, checked>>

\* Mutant: the instance serves as soon as it holds the lease.
ServeAtOnce(n) ==
    /\ stage[n] = "sleep"
    /\ stage' = [stage EXCEPT ![n] = "serve"]
    /\ UNCHANGED <<lockVars, since, obtainer, obtain, owned, started, checked, forward>>

\* The wait of two lease durations is over: recovery, then the servers.
Serve(n) ==
    /\ stage[n] = "sleep"
    /\ now - since[n] >= 2 * Duration
    /\ stage' = [stage EXCEPT ![n] = "serve"]
    /\ UNCHANGED <<lockVars, since, obtainer, obtain, owned, started, checked, forward>>

-----------------------------------------------------------------------------
(* The obtainer thread.                                                     *)

\* The lock's mutex is held through the database calls of RefreshLease.
MutexHeld(n) == obtainer[n] \in {"read", "refresh"}

\* The thread wakes up, notes the time and calls RefreshLease.
Obtain(n) ==
    /\ stage[n] # "down" /\ obtainer[n] = "idle" /\ obtain[n]
    /\ obtain' = [obtain EXCEPT ![n] = FALSE]
    /\ started' = [started EXCEPT ![n] = now]
    /\ obtainer' = [obtainer EXCEPT ![n] = "read"]
    /\ UNCHANGED <<lockVars, stage, since, owned, checked, forward>>

\* The transition callback is over; no acquisition is going on.
CallbackReturns(n, own) ==
    /\ owned' = [owned EXCEPT ![n] = own]
    /\ started' = [started EXCEPT ![n] = 0]
    /\ obtainer' = [obtainer EXCEPT ![n] = "idle"]

\* IsCurrentLeaseOwner and GetCurrentLeaseOwnerInfo with lease as current_lease_.
OwnsLease(n, lease) == lease # None /\ lease.owner = n /\ ~IsExpired(n, lease)

OwnerKnown(n, lease) == lease # None /\ ~IsExpired(n, lease)

\* Mutant: an instance that lost the lease goes on.
LossIsIgnored(n, lease) ==
    /\ Return(n, lease)
    /\ CallbackReturns(n, OwnsLease(n, lease))
    /\ stage' = [stage EXCEPT ![n] =
         IF @ = "wait" /\ OwnsLease(n, lease) THEN "acquired" ELSE @]
    /\ since' = [since EXCEPT ![n] =
         IF ~owned[n] /\ OwnsLease(n, lease) THEN now ELSE @]
    /\ UNCHANGED <<now, row, disallowed, writes, obtain, checked, forward>>

\* RefreshLease returns with lease as current_lease_, and the callback
\* (LeaseTransitionFunction) is told of the transition: kAcquired, kRenewed, kLost,
\* or kNotAcquired with or without an owner to forward to.
RefreshReturns(n, lease) ==
    \/ /\ OwnsLease(n, lease)
       /\ Return(n, lease)
       /\ CallbackReturns(n, TRUE)
       /\ stage' = [stage EXCEPT ![n] = IF owned[n] THEN @ ELSE "acquired"]
       /\ since' = [since EXCEPT ![n] = IF owned[n] THEN @ ELSE now]
       /\ UNCHANGED <<now, row, disallowed, writes, obtain, checked, forward>>
    \/ /\ owned[n] /\ ~OwnsLease(n, lease)
       /\ Abort(n)
    \/ /\ ~owned[n] /\ ~OwnsLease(n, lease)
       /\ Return(n, lease)
       /\ \/ /\ OwnerKnown(n, lease)
             /\ obtainer' = [obtainer EXCEPT ![n] = "forward"]
             /\ UNCHANGED <<owned, started>>
          \/ /\ ~OwnerKnown(n, lease)
             /\ CallbackReturns(n, FALSE)
       /\ UNCHANGED <<now, row, disallowed, writes, stage, since, obtain, checked,
                      forward>>

\* The database answers the read of RefreshLease; or it fails, or the row forbids
\* acquisition, and RefreshLease returns with the lease it had.
ReadAnswered(n) ==
    /\ obtainer[n] = "read"
    /\ \/ /\ ReadLease(n, FALSE)
          /\ obtainer' = [obtainer EXCEPT ![n] = "refresh"]
          /\ UNCHANGED <<stage, since, obtain, owned, started, checked, forward>>
       \/ RefreshReturns(n, current_lease[n])

\* RefreshLease goes on, or returns.
Refresh(n) ==
    /\ obtainer[n] = "refresh"
    /\ \/ pc[n] = "check" /\ KeepReadLease(n) /\ RefreshReturns(n, lease_read[n])
       \/ ~KeepReadLease(n) /\ CheckLease(n) /\ UNCHANGED instanceVars
       \/ WriteLease(n) /\ UNCHANGED instanceVars
       \/ pc[n] = "write" /\ applied[n] /\ RefreshReturns(n, new_lease[n])
       \/ pc[n] = "write" /\ RefreshReturns(n, current_lease[n])

\* The forwarder's Run: a process of its own carries the requests to the owner.
ForwardTo(n, owner) == forward' = [forward EXCEPT ![n] = owner]

\* ResetForwardingAddress ends after any time; a failure aborts the process.
ForwardingReset(n) ==
    /\ obtainer[n] = "forward"
    /\ \/ /\ ForwardTo(n, current_lease[n].owner)
          /\ CallbackReturns(n, FALSE)
          /\ UNCHANGED <<lockVars, stage, since, obtain, checked>>
       \/ Abort(n)

-----------------------------------------------------------------------------
(* The enforcer thread.                                                     *)

RefreshTakesLong(n) == started[n] # 0 /\ now - started[n] > MaxRefresh

EnforcerDue(n) == stage[n] # "down" /\ now - checked[n] >= Frequency

\* ShouldRefreshLease waits for the lock's mutex, and only then the age of the
\* refresh is looked at.
Enforce(n) ==
    /\ EnforcerDue(n) /\ ~MutexHeld(n)
    /\ \/ RefreshTakesLong(n) /\ Abort(n)
       \/ /\ ~RefreshTakesLong(n)
          /\ obtain' = [obtain EXCEPT ![n] = @ \/ LockShouldRefreshLease(n)]
          /\ checked' = [checked EXCEPT ![n] = now]
          /\ UNCHANGED <<lockVars, stage, since, obtainer, owned, started, forward>>

-----------------------------------------------------------------------------

\* Time passes when no thread is due, and no database call beyond its limit.
GlobalTick ==
    /\ \A n \in Nodes : stage[n] # "down" =>
         /\ ~(obtainer[n] = "idle" /\ obtain[n])
         /\ MutexHeld(n) => now - started[n] < DbLimit
         /\ ~MutexHeld(n) => ~EnforcerDue(n)
    /\ LockTick
    /\ UNCHANGED instanceVars

InstanceStep(n) ==
    \/ StartInstance(n) \/ Crash(n) \/ StopForwarding(n) \/ Serve(n)
    \/ Obtain(n) \/ ReadAnswered(n) \/ Refresh(n) \/ ForwardingReset(n)
    \/ Enforce(n)

GlobalNext ==
    \/ \E n \in Nodes : InstanceStep(n)
    \/ (\E w \in writes : ApplyWrite(w)) /\ UNCHANGED instanceVars
    \/ SetDisallowed /\ UNCHANGED instanceVars
    \/ GlobalTick

GlobalSpec == GlobalInit /\ [][GlobalNext]_globalVars

\* Clocks that agree.
EqualClocks == [n \in Nodes |-> 0]

-----------------------------------------------------------------------------
(* Properties.                                                              *)

\* Two instances never serve together, whatever writes arrive late and whoever
\* crashes: the wait of two lease durations in Run outlasts every earlier owner.
OneServer ==
    \A n, m \in Nodes : stage[n] = "serve" /\ stage[m] = "serve" => n = m

\* The promise of LeaseManager's constructor: a refresh and its callback that take
\* longer than the maximum running time end the process at the enforcer's next look.
RefreshIsTimely ==
    \A n \in Nodes : started[n] # 0 => now - started[n] <= MaxRefresh + Frequency

=============================================================================
