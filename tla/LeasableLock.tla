----------------------------- MODULE LeasableLock -----------------------------
(***************************************************************************)
(* A lock leased to one of several nodes through one row of a NoSQL        *)
(* database (cc/pbs/leasable_lock/src). A node reads the row, decides on   *)
(* what it read, and writes a new lease on condition that the row still    *)
(* holds what it read. Nothing else protects the lock: a node believes it  *)
(* owns the lease as long as its own clock has not passed the expiration   *)
(* time of the lease it remembers.                                         *)
(*                                                                         *)
(* Between the steps of one node time passes and other nodes run. A write  *)
(* may be applied although its writer was told that it failed, and may be  *)
(* applied late. Nodes restart and forget what they remember.              *)
(***************************************************************************)
EXTENDS Integers, FiniteSets

CONSTANTS
    Nodes,      \* lease acquirers
    NoNode,     \* owner in a row nobody has leased yet
    None,       \* current_lease_ has no value
    Duration,   \* lease_duration_in_milliseconds_
    Threshold,  \* lease_renewal_threshold_percent_time_left_in_lease_
    Skew,       \* how far each node's wall clock is ahead
    MaxSkew,    \* bound on Skew
    MaxLockTime,    \* bound on time
    MaxWrites   \* bound on the writes under way at the database

ASSUME LockAssumption ==
    /\ NoNode \notin Nodes
    /\ Duration \in Nat \ {0}
    /\ Threshold \in Nat
    /\ MaxSkew \in Nat
    /\ Skew \in [Nodes -> 0..MaxSkew]

VARIABLES
    now,            \* true time; node n's clock shows now + Skew[n]
    row,            \* the owner and expiration time in the database
    disallowed,     \* the row's lease_acquisition_disallowed
    pc,             \* progress of RefreshLease on each node
    readOnly,       \* is_read_only_lease_refresh of that call
    lease_read,     \* the lease it read
    new_lease,      \* the lease it writes
    applied,        \* the database has applied that write
    current_lease,  \* current_lease_
    writes          \* conditional writes sent to the database, not yet handled

leaseRowVars == <<row, disallowed, pc, readOnly, lease_read, new_lease, applied,
                  current_lease, writes>>
lockVars == <<now, row, disallowed, pc, readOnly, lease_read, new_lease, applied,
          current_lease, writes>>

Leases == [owner : Nodes \cup {NoNode}, exp : Nat]

Writes == [node : Nodes, old : Leases, new : Leases]

Clock(n) == now + Skew[n]

LockTypeOK ==
    /\ now \in Nat
    /\ row \in Leases
    /\ disallowed \in BOOLEAN
    /\ pc \in [Nodes -> {"idle", "check", "renew", "write"}]
    /\ readOnly \in [Nodes -> BOOLEAN]
    /\ lease_read \in [Nodes -> Leases]
    /\ new_lease \in [Nodes -> Leases]
    /\ applied \in [Nodes -> BOOLEAN]
    /\ current_lease \in [Nodes -> Leases \cup {None}]
    /\ writes \subseteq Writes

NoLease == [owner |-> NoNode, exp |-> 0]

LockInit ==
    /\ now = 1
    /\ row = NoLease
    /\ disallowed = FALSE
    /\ pc = [n \in Nodes |-> "idle"]
    /\ readOnly = [n \in Nodes |-> FALSE]
    /\ lease_read = [n \in Nodes |-> NoLease]
    /\ new_lease = [n \in Nodes |-> NoLease]
    /\ applied = [n \in Nodes |-> FALSE]
    /\ current_lease = [n \in Nodes |-> None]
    /\ writes = {}

-----------------------------------------------------------------------------
(* LeaseInfoInternal on node n's clock.                                     *)

IsExpired(n, lease) == Clock(n) > lease.exp

TimeLeft(n, lease) == lease.exp - Clock(n)

LockIsCurrentLeaseOwner(n) ==
    /\ current_lease[n] # None
    /\ ~IsExpired(n, current_lease[n])
    /\ current_lease[n].owner = n

\* The percentage is an integer division before it is compared.
IsLeaseRenewalRequired(n, lease) ==
    \/ IsExpired(n, lease)
    \/ (TimeLeft(n, lease) * 100) \div Duration < Threshold

IsHalfLeaseDurationPassed(n, lease) ==
    \/ IsExpired(n, lease)
    \/ 2 * TimeLeft(n, lease) < Duration

LockShouldRefreshLease(n) ==
    \/ current_lease[n] = None
    \/ /\ current_lease[n] # None
       /\ \/ IsExpired(n, current_lease[n])
          \/ /\ current_lease[n].owner = n
             /\ IsLeaseRenewalRequired(n, current_lease[n])
          \/ /\ current_lease[n].owner # n
             /\ IsHalfLeaseDurationPassed(n, current_lease[n])

-----------------------------------------------------------------------------
(* RefreshLease, under the node's mutex. A failed read, or a row on which   *)
(* acquisition is disallowed, ends the call and changes nothing.            *)

\* RefreshLease returns, leaving lease as current_lease_.
Return(n, lease) ==
    /\ current_lease' = [current_lease EXCEPT ![n] = lease]
    /\ pc' = [pc EXCEPT ![n] = "idle"]
    /\ readOnly' = [readOnly EXCEPT ![n] = FALSE]
    /\ lease_read' = [lease_read EXCEPT ![n] = NoLease]
    /\ new_lease' = [new_lease EXCEPT ![n] = NoLease]
    /\ applied' = [applied EXCEPT ![n] = FALSE]

\* ReadLeaseSynchronouslyFromDatabase. The refreshers call RefreshLease only when
\* the lock asks for it.
ReadLease(n, ro) ==
    /\ pc[n] = "idle" /\ LockShouldRefreshLease(n) /\ ~disallowed
    /\ lease_read' = [lease_read EXCEPT ![n] = row]
    /\ readOnly' = [readOnly EXCEPT ![n] = ro]
    /\ pc' = [pc EXCEPT ![n] = "check"]
    /\ UNCHANGED <<now, row, disallowed, new_lease, applied, current_lease, writes>>

\* Mutant: the expiration of somebody else's lease is not looked at.
KeepOnlyWhenReadOnly(n) == readOnly[n]

\* Somebody else's lease that has not expired, or a read-only refresh: remember
\* the lease that was read.
KeepReadLease(n) ==
    \/ lease_read[n].owner # n /\ ~IsExpired(n, lease_read[n])
    \/ readOnly[n]

CheckLease(n) ==
    /\ pc[n] = "check"
    /\ \/ /\ KeepReadLease(n)
          /\ Return(n, lease_read[n])
       \/ /\ ~KeepReadLease(n)
          /\ pc' = [pc EXCEPT ![n] = "renew"]
          /\ UNCHANGED <<readOnly, lease_read, new_lease, applied, current_lease>>
    /\ UNCHANGED <<now, row, disallowed, writes>>

\* SetExpirationTimestampFromNow and the conditional write.
WriteLease(n) ==
    LET new == [owner |-> n, exp |-> Clock(n) + Duration]
    IN /\ pc[n] = "renew"
       /\ Cardinality(writes) < MaxWrites
       /\ new_lease' = [new_lease EXCEPT ![n] = new]
       /\ writes' = writes \cup {[node |-> n, old |-> lease_read[n], new |-> new]}
       /\ pc' = [pc EXCEPT ![n] = "write"]
       /\ UNCHANGED <<now, row, disallowed, readOnly, lease_read, applied,
                      current_lease>>

\* Mutant: the write is unconditional.
ApplyAlways(w) ==
    /\ writes' = writes \ {w}
    /\ row' = w.new
    /\ applied' = [applied EXCEPT ![w.node] = TRUE]
    /\ UNCHANGED <<now, disallowed, pc, readOnly, lease_read, new_lease, current_lease>>

\* The database handles a conditional write. The condition names the owner and
\* the expiration time, not the disallowed attribute.
ApplyWrite(w) ==
    /\ writes' = writes \ {w}
    /\ \/ /\ row = w.old
          /\ row' = w.new
          /\ applied' = [applied EXCEPT ![w.node] =
               @ \/ (lease_read[w.node] = w.old /\ new_lease[w.node] = w.new)]
       \/ /\ row # w.old
          /\ UNCHANGED <<row, applied>>
    /\ UNCHANGED <<now, disallowed, pc, readOnly, lease_read, new_lease, current_lease>>

\* The write is acknowledged: remember the new lease.
WriteSucceeds(n) ==
    /\ pc[n] = "write" /\ applied[n]
    /\ Return(n, new_lease[n])
    /\ UNCHANGED <<now, row, disallowed, writes>>

\* The condition failed, or the answer is an error or lost: keep what was
\* remembered before. The write may have been, or may yet be, applied.
WriteFails(n) ==
    /\ pc[n] = "write"
    /\ Return(n, current_lease[n])
    /\ UNCHANGED <<now, row, disallowed, writes>>

Restart(n) ==
    /\ Return(n, None)
    /\ UNCHANGED <<now, row, disallowed, writes>>

\* An operator forbids or allows the acquisition of the lease.
SetDisallowed ==
    /\ disallowed' = ~disallowed
    /\ UNCHANGED <<now, row, pc, readOnly, lease_read, new_lease, applied,
                   current_lease, writes>>

LockTick ==
    /\ now < MaxLockTime
    /\ now' = now + 1
    /\ UNCHANGED leaseRowVars

RefreshStep(n) ==
    \/ CheckLease(n)
    \/ WriteLease(n)
    \/ WriteSucceeds(n)
    \/ WriteFails(n)

LockNext ==
    \/ \E n \in Nodes :
         \/ \E ro \in BOOLEAN : ReadLease(n, ro)
         \/ RefreshStep(n)
         \/ Restart(n)
    \/ \E w \in writes : ApplyWrite(w)
    \/ SetDisallowed
    \/ LockTick

LockSpec == LockInit /\ [][LockNext]_lockVars

-----------------------------------------------------------------------------
(* Properties.                                                              *)

\* Node n owns the lease with more time left than any two clocks differ.
SafelyHolds(n) ==
    /\ current_lease[n] # None
    /\ current_lease[n].owner = n
    /\ Clock(n) + MaxSkew <= current_lease[n].exp

\* Two nodes never both own the lease (LockIsCurrentLeaseOwner), except within the
\* clock skew of the expiration: with equal clocks (MaxSkew = 0), never.
MutualExclusion ==
    \A n, m \in Nodes : SafelyHolds(n) /\ SafelyHolds(m) => n = m

\* The database never hands the row to another node before the old lease has
\* expired on the fastest clock, although the decision to take it is made on an
\* earlier read and the write may arrive late.
NoEarlyTakeover ==
    [][row'.owner # row.owner => now + MaxSkew > row.exp]_lockVars

\* What a node safely holds is in the database: the row names it and does not
\* expire earlier, so a restarted or another node sees the lease.
HeldLeaseIsRecorded ==
    \A n \in Nodes : SafelyHolds(n) =>
        row.owner = n /\ row.exp >= current_lease[n].exp

=============================================================================
