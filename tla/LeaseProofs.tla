------------------------------ MODULE LeaseProofs ------------------------------
(***************************************************************************)
(* Proofs about LeasableLock, for every set of nodes, lease duration, skew *)
(* within MaxSkew, and any number of writes under way; about GlobalLease,  *)
(* for every such lock, frequency of the enforcer and length of a database *)
(* call within TimingAssumption; and about PartitionLease, for every       *)
(* duration of a lease and of its renewal.                                 *)
(***************************************************************************)
EXTENDS GlobalLease, PartitionLease, TLAPS

-----------------------------------------------------------------------------
(* LeasableLock. A node relies on a lease that it read or wrote a while     *)
(* ago: LockInv says of each such lease that the row still records it as    *)
(* long as the node may rely on it, and of each write under way that it     *)
(* cannot take such a lease away.                                           *)

\* Whatever lease l node n may come to rely on at time t is in the row r.
Recorded(n, l, r, t) ==
    l.owner = n /\ t + Skew[n] + MaxSkew <= l.exp
      => r.owner = n /\ r.exp >= l.exp

\* A lease of node n ends within Duration on n's clock.
Bounded(n, l, t) == l.owner = n => l.exp <= t + Skew[n] + Duration

\* A write under way renews the writer's own lease or takes an expired one.
WriteOK(w, t) ==
    /\ w.new.owner = w.node
    /\ Bounded(w.node, w.new, t)
    /\ w.old.owner = w.node => w.old.exp <= w.new.exp
    /\ w.old.owner # w.node => t + Skew[w.node] > w.old.exp

\* What node n has read, is about to write, has written, and remembers.
NodeOK(n) ==
    /\ pc[n] # "idle" => /\ Recorded(n, lease_read[n], row, now)
                         /\ Bounded(n, lease_read[n], now)
    /\ pc[n] = "renew" /\ lease_read[n].owner # n => now + Skew[n] > lease_read[n].exp
    /\ pc[n] # "write" => ~applied[n] /\ new_lease[n] = NoLease
    /\ applied[n] => Recorded(n, new_lease[n], row, now)
    /\ current_lease[n] # None => Recorded(n, current_lease[n], row, now)

\* The inductive invariant.
LockInv ==
    /\ LockTypeOK
    /\ \A n \in Nodes : Bounded(n, row, now)
    /\ \A w \in writes : WriteOK(w, now)
    /\ \A n \in Nodes : NodeOK(n)

\* A write under way takes nothing away from a node that still relies on its
\* lease: ApplyWrite keeps every lease recorded that was recorded.
LEMMA WriteKeepsRecorded ==
    ASSUME NEW n \in Nodes, NEW l \in Leases, NEW w \in Writes, NEW t \in Nat,
           WriteOK(w, t), Recorded(n, l, w.old, t)
    PROVE  Recorded(n, l, w.new, t)
<1> SUFFICES ASSUME l.owner = n, t + Skew[n] + MaxSkew <= l.exp
             PROVE  w.new.owner = n /\ w.new.exp >= l.exp
    BY Zenon DEF Recorded
<1>1. w.old.owner = n /\ w.old.exp >= l.exp
    BY Zenon DEF Recorded
<1>2. /\ Skew[n] \in Nat /\ Skew[w.node] \in Nat /\ Skew[w.node] <= MaxSkew
      /\ MaxSkew \in Nat /\ l.exp \in Nat /\ w.old.exp \in Nat /\ w.new.exp \in Nat
    BY LockAssumption DEF Leases, Writes
<1>3. w.node = n
    BY <1>1, <1>2 DEF WriteOK
<1> QED
    BY <1>1, <1>2, <1>3 DEF WriteOK

\* Time only weakens what a node relies on.
LEMMA TimeKeepsFacts ==
    ASSUME NEW n \in Nodes, NEW l \in Leases, NEW r \in Leases, NEW t \in Nat
    PROVE  /\ Recorded(n, l, r, t) => Recorded(n, l, r, t + 1)
           /\ Bounded(n, l, t) => Bounded(n, l, t + 1)
           /\ t + Skew[n] > l.exp => t + 1 + Skew[n] > l.exp
BY LockAssumption DEF Recorded, Bounded, Leases

\* The initial states have no owner, no read and no write.
LEMMA InitLockInv == LockInit => LockInv
<1> SUFFICES ASSUME LockInit PROVE LockInv
    BY Zenon
<1>1. LockTypeOK
    BY Zenon DEF LockInit, LockTypeOK, NoLease, Leases, Writes
<1>2. \A n \in Nodes : Bounded(n, row, now)
    BY Zenon, LockAssumption DEF LockInit, Bounded, NoLease
<1>3. \A n \in Nodes : NodeOK(n)
    BY Zenon DEF LockInit, NodeOK
<1> QED
    BY Zenon, <1>1, <1>2, <1>3 DEF LockInit, LockInv

\* RefreshLease returning with a lease that is recorded keeps node n's facts.
LEMMA ReturnKeepsNodes ==
    ASSUME LockInv, NEW n \in Nodes, NEW l, l = None \/ l \in Leases,
           l # None => Recorded(n, l, row, now),
           current_lease' = [current_lease EXCEPT ![n] = l],
           pc' = [pc EXCEPT ![n] = "idle"],
           readOnly' = [readOnly EXCEPT ![n] = FALSE],
           lease_read' = [lease_read EXCEPT ![n] = NoLease],
           new_lease' = [new_lease EXCEPT ![n] = NoLease],
           applied' = [applied EXCEPT ![n] = FALSE],
           UNCHANGED <<now, row, disallowed, writes>>
    PROVE  LockInv'
<1>1. LockTypeOK'
    BY Zenon, LockAssumption DEF LockInv, LockTypeOK, NoLease, Leases
<1>2. ASSUME NEW m \in Nodes PROVE NodeOK(m)'
    BY Zenon, <1>2 DEF LockInv, LockTypeOK, NodeOK
<1> QED
    BY Zenon, <1>1, <1>2 DEF LockInv

\* Every step of the specification keeps the invariant.
LEMMA NextLockInv == LockInv /\ [LockNext]_lockVars => LockInv'
<1> SUFFICES ASSUME LockInv, [LockNext]_lockVars PROVE LockInv'
    BY Zenon
<1>1. ASSUME NEW n \in Nodes, NEW ro \in BOOLEAN, ReadLease(n, ro) PROVE LockInv'
  <2>1. LockTypeOK'
      BY Zenon, <1>1 DEF ReadLease, LockInv, LockTypeOK
  <2>2. Recorded(n, row, row, now) /\ Bounded(n, row, now)
      BY DEF LockInv, LockTypeOK, Leases, Recorded
  <2>3. ASSUME NEW m \in Nodes PROVE NodeOK(m)'
      BY Zenon, <1>1, <2>2, <2>3 DEF ReadLease, LockInv, LockTypeOK, NodeOK
  <2> QED
      BY Zenon, <1>1, <2>1, <2>3 DEF ReadLease, LockInv
<1>2. ASSUME NEW n \in Nodes, CheckLease(n) PROVE LockInv'
  <2>1. CASE KeepReadLease(n) /\ Return(n, lease_read[n])
    <3>1. lease_read[n] \in Leases /\ Recorded(n, lease_read[n], row, now)
        BY Zenon, <1>2 DEF CheckLease, LockInv, LockTypeOK, NodeOK
    <3> QED
        BY Zenon, <1>2, <2>1, <3>1, ReturnKeepsNodes DEF CheckLease, Return
  <2>2. CASE ~KeepReadLease(n)
    <3>1. LockTypeOK'
        BY Zenon, <1>2, <2>2 DEF CheckLease, LockInv, LockTypeOK
    <3>2. lease_read[n].owner # n => now + Skew[n] > lease_read[n].exp
        BY Zenon, <2>2, LockAssumption DEF KeepReadLease, IsExpired, Clock, LockInv, LockTypeOK, Leases
    <3>3. ASSUME NEW m \in Nodes PROVE NodeOK(m)'
        BY Zenon, <1>2, <2>2, <3>2, <3>3 DEF CheckLease, LockInv, LockTypeOK, NodeOK
    <3> QED
        BY Zenon, <1>2, <2>2, <3>1, <3>3 DEF CheckLease, LockInv
  <2> QED
      BY Zenon, <1>2, <2>1, <2>2 DEF CheckLease
<1>3. ASSUME NEW n \in Nodes, WriteLease(n) PROVE LockInv'
  <2> DEFINE new == [owner |-> n, exp |-> Clock(n) + Duration]
             w == [node |-> n, old |-> lease_read[n], new |-> new]
  <2>1. Skew[n] \in Nat /\ Duration \in Nat /\ now \in Nat /\ lease_read[n] \in Leases
      BY LockAssumption DEF LockInv, LockTypeOK
  <2>2. new \in Leases
      BY <2>1 DEF Leases, Clock
  <2>3. LockTypeOK'
      BY <1>3, <2>1, <2>2 DEF WriteLease, LockInv, LockTypeOK, Writes
  <2>4. /\ NodeOK(n) /\ pc[n] = "renew"
        /\ lease_read[n].owner = n => lease_read[n].exp <= now + Skew[n] + Duration
      BY Zenon, <1>3 DEF WriteLease, LockInv, NodeOK, Bounded
  <2>5. WriteOK(w, now)
      BY <2>1, <2>4 DEF WriteOK, NodeOK, Bounded, Clock, Leases
  <2>6. ASSUME NEW m \in Nodes PROVE NodeOK(m)'
      BY Zenon, <1>3, <2>6 DEF WriteLease, LockInv, LockTypeOK, NodeOK
  <2> QED
      BY Zenon, <1>3, <2>3, <2>5, <2>6 DEF WriteLease, LockInv
<1>4. ASSUME NEW n \in Nodes, WriteSucceeds(n) PROVE LockInv'
  <2>1. new_lease[n] \in Leases /\ Recorded(n, new_lease[n], row, now)
      BY Zenon, <1>4 DEF WriteSucceeds, LockInv, LockTypeOK, NodeOK
  <2> QED
      BY Zenon, <1>4, <2>1, ReturnKeepsNodes DEF WriteSucceeds, Return
<1>5. ASSUME NEW n \in Nodes, WriteFails(n) PROVE LockInv'
  <2>1. /\ current_lease[n] = None \/ current_lease[n] \in Leases
        /\ current_lease[n] # None => Recorded(n, current_lease[n], row, now)
      BY Zenon DEF LockInv, LockTypeOK, NodeOK
  <2> QED
      BY Zenon, <1>5, <2>1, ReturnKeepsNodes DEF WriteFails, Return
<1>6. ASSUME NEW n \in Nodes, Restart(n) PROVE LockInv'
    BY Zenon, <1>6, ReturnKeepsNodes DEF Restart, Return
<1>7. ASSUME NEW w \in writes, ApplyWrite(w) PROVE LockInv'
  <2>1. w \in Writes /\ WriteOK(w, now) /\ now \in Nat
      BY Zenon DEF LockInv, LockTypeOK
  <2>2. CASE row = w.old /\ row' = w.new
    <3>1. LockTypeOK'
        BY Zenon, <1>7, <2>1, <2>2 DEF ApplyWrite, LockInv, LockTypeOK, Writes
    <3>2. \A n \in Nodes : Bounded(n, row, now)'
        BY Zenon, <1>7, <2>1, <2>2 DEF ApplyWrite, WriteOK, Bounded
    <3>3. ASSUME NEW n \in Nodes, NEW l \in Leases, Recorded(n, l, row, now)
          PROVE  Recorded(n, l, row', now)
        BY Zenon, <2>1, <2>2, <3>3, WriteKeepsRecorded
    <3>4. w.new \in Leases /\ Recorded(w.node, w.new, row', now)
        BY <2>1, <2>2 DEF Writes, WriteOK, Recorded, Leases
    <3>5. ASSUME NEW n \in Nodes PROVE NodeOK(n)'
      <4>1. /\ lease_read[n] \in Leases /\ new_lease[n] \in Leases
            /\ current_lease[n] # None => current_lease[n] \in Leases
            /\ applied \in [Nodes -> BOOLEAN]
          BY Zenon DEF LockInv, LockTypeOK
      <4>2. NodeOK(n)
          BY Zenon DEF LockInv
      <4>3. applied'[n] => Recorded(n, new_lease[n], row', now)
          BY Zenon, <1>7, <2>1, <2>2, <3>3, <3>4, <4>1, <4>2 DEF ApplyWrite, NodeOK, Writes
      <4>4. pc[n] # "write" => ~applied'[n]
        <5> SUFFICES ASSUME pc[n] # "write", applied'[n] PROVE FALSE
            BY Zenon
        <5>1. ~applied[n] /\ new_lease[n] = NoLease
            BY Zenon, <4>2 DEF NodeOK
        <5>2. w.node = n /\ new_lease[n] = w.new
            BY Zenon, <1>7, <2>1, <2>2, <4>1, <5>1 DEF ApplyWrite, Writes
        <5> QED
            BY <2>1, <5>1, <5>2, LockAssumption DEF WriteOK, NoLease
      <4> QED
          BY Zenon, <1>7, <2>2, <3>3, <4>1, <4>2, <4>3, <4>4 DEF ApplyWrite, NodeOK
    <3> QED
        BY Zenon, <1>7, <3>1, <3>2, <3>5 DEF ApplyWrite, LockInv
  <2>3. CASE UNCHANGED <<row, applied>>
    <3>1. LockTypeOK'
        BY Zenon, <1>7, <2>3 DEF ApplyWrite, LockInv, LockTypeOK
    <3>2. ASSUME NEW n \in Nodes PROVE NodeOK(n)'
        BY Zenon, <1>7, <2>3, <3>2 DEF ApplyWrite, LockInv, NodeOK
    <3> QED
        BY Zenon, <1>7, <2>3, <3>1, <3>2 DEF ApplyWrite, LockInv
  <2> QED
      BY Zenon, <1>7, <2>2, <2>3 DEF ApplyWrite
<1>8. CASE SetDisallowed
  <2>1. LockTypeOK'
      BY Zenon, <1>8 DEF SetDisallowed, LockInv, LockTypeOK
  <2>2. ASSUME NEW n \in Nodes PROVE NodeOK(n)'
      BY Zenon, <1>8, <2>2 DEF SetDisallowed, LockInv, NodeOK
  <2> QED
      BY Zenon, <1>8, <2>1, <2>2 DEF SetDisallowed, LockInv
<1>9. CASE LockTick
  <2>1. LockTypeOK'
      BY <1>9 DEF LockTick, leaseRowVars, LockInv, LockTypeOK
  <2>2. now' = now + 1 /\ now \in Nat /\ row \in Leases /\ UNCHANGED leaseRowVars
      BY Zenon, <1>9 DEF LockTick, LockInv, LockTypeOK
  <2>3. ASSUME NEW n \in Nodes PROVE NodeOK(n)' /\ Bounded(n, row, now)'
    <3>1. /\ lease_read[n] \in Leases /\ new_lease[n] \in Leases
          /\ current_lease[n] # None => current_lease[n] \in Leases
        BY Zenon DEF LockInv, LockTypeOK
    <3>2. NodeOK(n) /\ Bounded(n, row, now)
        BY Zenon DEF LockInv
    <3> QED
        BY Zenon, <2>2, <3>1, <3>2, TimeKeepsFacts DEF leaseRowVars, NodeOK
  <2>4. ASSUME NEW w \in writes PROVE WriteOK(w, now)'
    <3>1. w \in Writes /\ w.node \in Nodes /\ w.old \in Leases /\ w.new \in Leases
        BY Zenon DEF LockInv, LockTypeOK, Writes
    <3> QED
        BY Zenon, <2>2, <3>1, TimeKeepsFacts DEF LockInv, WriteOK
  <2> QED
      BY Zenon, <2>1, <2>2, <2>3, <2>4 DEF LockInv, leaseRowVars
<1>10. CASE UNCHANGED lockVars
    BY Zenon, <1>10 DEF lockVars, LockInv, LockTypeOK, NodeOK
<1> QED
    BY Zenon, <1>1, <1>2, <1>3, <1>4, <1>5, <1>6, <1>7, <1>8, <1>9, <1>10
    DEF LockNext, RefreshStep

\* LockInv holds in every reachable state.
THEOREM LockInvariance == LockSpec => []LockInv
BY InitLockInv, NextLockInv, PTL DEF LockSpec

\* Type correctness of RefreshLease and of the database row.
THEOREM LockTypeCorrectness == LockSpec => []LockTypeOK
<1>1. LockInv => LockTypeOK
    BY Zenon DEF LockInv
<1> QED
    BY <1>1, LockInvariance, PTL

\* What a node safely holds (LockIsCurrentLeaseOwner with more than the clock skew
\* left) is what the database records.
THEOREM HeldLeasesRecorded == LockSpec => []HeldLeaseIsRecorded
<1>1. LockInv => HeldLeaseIsRecorded
    BY Zenon, LockAssumption
    DEF LockInv, LockTypeOK, NodeOK, Recorded, HeldLeaseIsRecorded, SafelyHolds, Clock, Leases
<1> QED
    BY <1>1, LockInvariance, PTL

\* At most one node owns the lease outside the clock skew.
THEOREM LeaseMutualExclusion == LockSpec => []MutualExclusion
<1>1. HeldLeaseIsRecorded => MutualExclusion
    BY Zenon DEF HeldLeaseIsRecorded, MutualExclusion
<1> QED
    BY <1>1, HeldLeasesRecorded, PTL

\* The database changes the owner of the row only after the old lease expired.
THEOREM NoTakeoverBeforeExpiry == LockSpec => NoEarlyTakeover
<1>1. LockInv /\ [LockNext]_lockVars => [row'.owner # row.owner => now + MaxSkew > row.exp]_lockVars
  <2> SUFFICES ASSUME LockInv, [LockNext]_lockVars, row'.owner # row.owner
               PROVE  now + MaxSkew > row.exp
      BY Zenon
  <2>1. PICK w \in writes : ApplyWrite(w)
      BY Zenon DEF LockNext, RefreshStep, ReadLease, CheckLease, WriteLease, WriteSucceeds,
             WriteFails, Restart, SetDisallowed, LockTick, leaseRowVars, lockVars
  <2>2. w \in Writes /\ WriteOK(w, now) /\ now \in Nat /\ row \in Leases
      BY Zenon DEF LockInv, LockTypeOK
  <2>3. row = w.old /\ row' = w.new
      BY Zenon, <2>1 DEF ApplyWrite
  <2>4. Skew[w.node] \in Nat /\ Skew[w.node] <= MaxSkew /\ MaxSkew \in Nat
      BY <2>2, LockAssumption DEF Writes
  <2> QED
      BY <2>2, <2>3, <2>4 DEF WriteOK, Writes, Leases
<1> QED
    BY <1>1, LockInvariance, PTL DEF LockSpec, NoEarlyTakeover

-----------------------------------------------------------------------------
(* The leases of one lock follow each other. A lease that is known, because *)
(* the row holds it, or a node read it, wrote it or remembers it, was once  *)
(* in the row: it is followed by the row, and two of different owners end   *)
(* more than a Duration apart.                                              *)

\* Lease k ends more than a duration after lease l.
Before(l, k) == l.exp + Duration < k.exp

\* Some node or the database still has lease l.
Known(l) ==
    \/ l = row
    \/ \E n \in Nodes : \/ current_lease[n] # None /\ l = current_lease[n]
                        \/ applied[n] /\ l = new_lease[n]
                        \/ pc[n] # "idle" /\ l = lease_read[n]

\* Lease r is later than l.
Follows(l, r) ==
    /\ l.owner = r.owner => l.exp <= r.exp
    /\ l.owner # r.owner => Before(l, r)

Takes(w) == w.old.owner # w.node => Before(w.old, w.new)

\* The lease that node n is writing follows all that its earlier writes replace.
WriteFollows(n) ==
    pc[n] = "write" =>
        /\ new_lease[n].owner = n
        /\ Bounded(n, new_lease[n], now)
        /\ \A w \in writes : w.node = n /\ w.old.owner # n => Before(w.old, new_lease[n])

\* Once the lease that node n is writing is applied, no other node's lease comes
\* between it and a row that still names n.
AppliedFollows(n) ==
    applied[n] /\ row.owner = n =>
        \A l \in Leases : Known(l) /\ l.owner # n => Before(l, new_lease[n])

ApartInv ==
    /\ \A w \in writes : Takes(w)
    /\ \A l \in Leases : Known(l) => Follows(l, row)
    /\ \A l, k \in Leases :
         Known(l) /\ Known(k) /\ l.owner # k.owner => Before(l, k) \/ Before(k, l)
    /\ \A n \in Nodes : WriteFollows(n) /\ AppliedFollows(n)

\* What a write puts into the row follows what the row followed.
LEMMA WriteFollowsRow ==
    ASSUME NEW w \in Writes, NEW t, WriteOK(w, t), Takes(w), NEW l \in Leases,
           Follows(l, w.old)
    PROVE  Follows(l, w.new)
<1>1. /\ l.exp \in Nat /\ w.old.exp \in Nat /\ w.new.exp \in Nat /\ Duration \in Nat
    BY LockAssumption DEF Leases, Writes
<1> QED
    BY <1>1 DEF Follows, Before, Takes, WriteOK

\* Every lease that a step makes known was known, or is the new row.
LEMMA KnownBefore ==
    ASSUME LockInv, [LockNext]_lockVars, NEW l, Known(l)'
    PROVE  Known(l) \/ l = row'
<1> SUFFICES ASSUME l # row' PROVE Known(l)
    BY Zenon
<1>0. LockTypeOK
    BY Zenon DEF LockInv
<1>1. PICK m \in Nodes : \/ current_lease'[m] # None /\ l = current_lease'[m]
                         \/ applied'[m] /\ l = new_lease'[m]
                         \/ pc'[m] # "idle" /\ l = lease_read'[m]
    BY Zenon DEF Known
<1>2. ASSUME NEW n \in Nodes, NEW k, Return(n, k), k = None \/ Known(k) PROVE Known(l)
    BY Zenon, <1>0, <1>1, <1>2 DEF Return, LockTypeOK, Known
<1>3. ASSUME NEW n \in Nodes, NEW ro \in BOOLEAN, ReadLease(n, ro) PROVE Known(l)
    BY Zenon, <1>0, <1>1, <1>3 DEF ReadLease, LockTypeOK, Known
<1>4. ASSUME NEW n \in Nodes, CheckLease(n) PROVE Known(l)
  <2>1. Known(lease_read[n])
      BY Zenon, <1>4 DEF CheckLease, Known
  <2>2. CASE Return(n, lease_read[n])
      BY Zenon, <2>1, <2>2, <1>2
  <2>3. CASE pc' = [pc EXCEPT ![n] = "renew"] /\ UNCHANGED <<lease_read, new_lease, applied, current_lease>>
      BY Zenon, <1>0, <1>1, <1>4, <2>3 DEF CheckLease, LockTypeOK, Known
  <2> QED
      BY Zenon, <1>4, <2>2, <2>3 DEF CheckLease
<1>5. ASSUME NEW n \in Nodes, WriteLease(n) PROVE Known(l)
  <2>1. ~applied[n]
      BY Zenon, <1>5 DEF LockInv, NodeOK, WriteLease
  <2>2. /\ applied' = applied /\ current_lease' = current_lease
        /\ lease_read' = lease_read
        /\ \A i \in Nodes : i # n => new_lease'[i] = new_lease[i] /\ pc'[i] = pc[i]
        /\ pc[n] = "renew"
      BY Zenon, <1>0, <1>5 DEF WriteLease, LockTypeOK
  <2> QED
      BY Zenon, <1>1, <2>1, <2>2 DEF Known
<1>6. ASSUME NEW n \in Nodes, WriteSucceeds(n) PROVE Known(l)
    BY Zenon, <1>2, <1>6 DEF WriteSucceeds, Known
<1>7. ASSUME NEW n \in Nodes, WriteFails(n) PROVE Known(l)
    BY Zenon, <1>2, <1>7 DEF WriteFails, Known
<1>8. ASSUME NEW n \in Nodes, Restart(n) PROVE Known(l)
    BY Zenon, <1>2, <1>8 DEF Restart
<1>9. ASSUME NEW w \in writes, ApplyWrite(w) PROVE Known(l)
  <2>1. w.node \in Nodes
      BY Zenon, <1>0 DEF LockTypeOK, Writes
  <2>2. applied'[m] => applied[m] \/ (new_lease[m] = w.new /\ row' = w.new)
      BY Zenon, <1>0, <1>9, <2>1 DEF ApplyWrite, LockTypeOK
  <2> QED
      BY Zenon, <1>1, <1>9, <2>2 DEF ApplyWrite, Known
<1>10. CASE SetDisallowed
    BY Zenon, <1>1, <1>10 DEF SetDisallowed, Known
<1>11. CASE LockTick
    BY Zenon, <1>1, <1>11 DEF LockTick, leaseRowVars, Known
<1>12. CASE UNCHANGED lockVars
    BY Zenon, <1>1, <1>12 DEF lockVars, Known
<1> QED
    BY Zenon, <1>3, <1>4, <1>5, <1>6, <1>7, <1>8, <1>9, <1>10, <1>11, <1>12
    DEF LockNext, RefreshStep

\* The row changes only when a write under way is applied.
LEMMA RowStep ==
    ASSUME LockInv, [LockNext]_lockVars
    PROVE  \/ /\ row' = row
              /\ \A n \in Nodes : applied'[n] => applied[n] /\ new_lease'[n] = new_lease[n]
           \/ \E w \in writes : ApplyWrite(w) /\ row = w.old /\ row' = w.new
<1>0. LockTypeOK
    BY Zenon DEF LockInv
<1>1. ASSUME NEW n \in Nodes, NEW k, Return(n, k)
      PROVE  \A m \in Nodes : applied'[m] => applied[m] /\ new_lease'[m] = new_lease[m]
    BY Zenon, <1>0, <1>1 DEF Return, LockTypeOK
<1>2. ASSUME NEW n \in Nodes, CheckLease(n)
      PROVE  \A m \in Nodes : applied'[m] => applied[m] /\ new_lease'[m] = new_lease[m]
    BY Zenon, <1>1, <1>2 DEF CheckLease
<1>3. ASSUME NEW n \in Nodes, WriteLease(n)
      PROVE  \A m \in Nodes : applied'[m] => applied[m] /\ new_lease'[m] = new_lease[m]
  <2>1. ~applied[n]
      BY Zenon, <1>3 DEF LockInv, NodeOK, WriteLease
  <2> QED
      BY Zenon, <1>0, <1>3, <2>1 DEF WriteLease, LockTypeOK
<1> QED
    BY Zenon, <1>1, <1>2, <1>3
    DEF LockNext, RefreshStep, ReadLease, CheckLease, WriteLease, WriteSucceeds, WriteFails,
        Restart, ApplyWrite, SetDisallowed, LockTick, leaseRowVars, lockVars

\* The writes under way after a step: the ones before it, and the one it sends.
LEMMA WritesStep ==
    ASSUME LockInv, [LockNext]_lockVars, NEW w \in writes'
    PROVE  \/ w \in writes
           \/ \E n \in Nodes : /\ WriteLease(n)
                               /\ w = [node |-> n, old |-> lease_read[n],
                                       new |-> [owner |-> n, exp |-> Clock(n) + Duration]]
<1>1. CASE \E n \in Nodes : WriteLease(n)
    BY Zenon, <1>1 DEF WriteLease
<1>2. CASE ~\E n \in Nodes : WriteLease(n)
  <2>1. writes' \subseteq writes
      BY Zenon, <1>2
      DEF LockNext, RefreshStep, ReadLease, CheckLease, WriteSucceeds, WriteFails,
        Restart, ApplyWrite, SetDisallowed, LockTick, leaseRowVars, lockVars
  <2> QED
      BY Zenon, <2>1
<1> QED
    BY Zenon, <1>1, <1>2

\* A node that has a lease to write had it before the step, or begins to write it.
LEMMA WritingStep ==
    ASSUME LockInv, [LockNext]_lockVars, NEW n \in Nodes, pc'[n] = "write"
    PROVE  \/ pc[n] = "write" /\ new_lease'[n] = new_lease[n] /\ ~WriteLease(n)
           \/ WriteLease(n) /\ new_lease'[n] = [owner |-> n, exp |-> Clock(n) + Duration]
<1>0. LockTypeOK
    BY Zenon DEF LockInv
<1>1. ASSUME WriteLease(n)
      PROVE  new_lease'[n] = [owner |-> n, exp |-> Clock(n) + Duration]
    BY Zenon, <1>0, <1>1 DEF WriteLease, LockTypeOK
<1>2. ASSUME ~WriteLease(n) PROVE pc[n] = "write" /\ new_lease'[n] = new_lease[n]
  <2>1. ASSUME NEW m \in Nodes, NEW k, Return(m, k)
        PROVE  pc[n] = "write" /\ new_lease'[n] = new_lease[n]
      BY Zenon, <1>0, <2>1 DEF Return, LockTypeOK
  <2>2. ASSUME NEW m \in Nodes, NEW ro \in BOOLEAN, ReadLease(m, ro)
        PROVE  pc[n] = "write" /\ new_lease'[n] = new_lease[n]
      BY Zenon, <1>0, <2>2 DEF ReadLease, LockTypeOK
  <2>3. ASSUME NEW m \in Nodes, CheckLease(m)
        PROVE  pc[n] = "write" /\ new_lease'[n] = new_lease[n]
      BY Zenon, <1>0, <2>1, <2>3 DEF CheckLease, LockTypeOK
  <2>4. ASSUME NEW m \in Nodes, WriteLease(m)
        PROVE  pc[n] = "write" /\ new_lease'[n] = new_lease[n]
      BY Zenon, <1>0, <1>2, <2>4 DEF WriteLease, LockTypeOK
  <2> QED
      BY Zenon, <2>1, <2>2, <2>3, <2>4
      DEF LockNext, RefreshStep, WriteSucceeds, WriteFails,
        Restart, ApplyWrite, SetDisallowed, LockTick, leaseRowVars, lockVars
<1> QED
    BY Zenon, <1>1, <1>2

\* Time does not go back.
LEMMA NowStep ==
    ASSUME LockInv, [LockNext]_lockVars
    PROVE  now \in Nat /\ now' \in Nat /\ now <= now'
<1>1. now \in Nat
    BY Zenon DEF LockInv, LockTypeOK
<1>2. now' = now \/ now' = now + 1
    BY Zenon
    DEF LockNext, RefreshStep, ReadLease, CheckLease, WriteLease, WriteSucceeds, WriteFails,
        Restart, ApplyWrite, SetDisallowed, LockTick, lockVars
<1> QED
    BY <1>1, <1>2


\* Known leases stay apart.
LEMMA NextApart ==
    ASSUME LockInv, LockInv', ApartInv, [LockNext]_lockVars
    PROVE  ApartInv'
<1>0. /\ LockTypeOK /\ row \in Leases /\ row' \in Leases /\ now \in Nat /\ now' \in Nat
      /\ now <= now' /\ Duration \in Nat
    BY Zenon, NowStep, LockAssumption DEF LockInv, LockTypeOK
<1>1. ASSUME NEW w \in writes' PROVE Takes(w)
  <2>1. CASE w \in writes
      BY Zenon, <2>1 DEF ApartInv
  <2>2. ASSUME NEW n \in Nodes, WriteLease(n),
               w = [node |-> n, old |-> lease_read[n],
                    new |-> [owner |-> n, exp |-> Clock(n) + Duration]]
        PROVE  Takes(w)
    <3>1. lease_read[n].owner # n => now + Skew[n] > lease_read[n].exp
        BY Zenon, <2>2 DEF LockInv, NodeOK, WriteLease
    <3>2. lease_read[n].exp \in Nat /\ Skew[n] \in Nat
        BY <1>0, LockAssumption DEF LockTypeOK, Leases
    <3> QED
        BY <1>0, <2>2, <3>1, <3>2 DEF Takes, Before, Clock
  <2> QED
      BY Zenon, <2>1, <2>2, WritesStep
<1>2. ASSUME NEW l \in Leases, Known(l)' PROVE Follows(l, row')
  <2>1. CASE l = row'
      BY <1>0, <2>1 DEF Follows, Leases
  <2>2. CASE l # row'
    <3>1. Follows(l, row)
        BY Zenon, <1>2, <2>2, KnownBefore DEF ApartInv
    <3>2. ASSUME NEW w \in writes, row = w.old, row' = w.new PROVE Follows(l, row')
        BY Zenon, <1>0, <3>1, <3>2, WriteFollowsRow DEF LockInv, LockTypeOK, ApartInv
    <3> QED
        BY Zenon, <3>1, <3>2, RowStep
  <2> QED
      BY Zenon, <2>1, <2>2
<1>3. ASSUME NEW l \in Leases, NEW k \in Leases, Known(l)', Known(k)', l.owner # k.owner
      PROVE  Before(l, k) \/ Before(k, l)
  <2>1. Follows(l, row') /\ Follows(k, row')
      BY Zenon, <1>2, <1>3
  <2>2. CASE l = row' \/ k = row'
    <3>1. CASE l = row'
        BY Zenon, <1>3, <2>1, <3>1 DEF Follows
    <3>2. CASE k = row'
        BY Zenon, <1>3, <2>1, <3>2 DEF Follows
    <3> QED
        BY Zenon, <2>2, <3>1, <3>2
  <2>3. CASE l # row' /\ k # row'
    <3>1. Known(l) /\ Known(k)
        BY Zenon, <1>3, <2>3, KnownBefore
    <3> QED
        BY Zenon, <1>3, <3>1 DEF ApartInv
  <2> QED
      BY Zenon, <2>2, <2>3
<1>4. ASSUME NEW n \in Nodes PROVE WriteFollows(n)'
  <2> SUFFICES ASSUME pc'[n] = "write"
               PROVE  /\ new_lease'[n].owner = n
                      /\ Bounded(n, new_lease'[n], now')
                      /\ \A w \in writes' : w.node = n /\ w.old.owner # n
                                              => Before(w.old, new_lease'[n])
      BY Zenon DEF WriteFollows, Bounded
  <2>0. Skew[n] \in Nat
      BY LockAssumption
  <2>1. CASE pc[n] = "write" /\ new_lease'[n] = new_lease[n] /\ ~WriteLease(n)
    <3>1. new_lease[n].exp \in Nat /\ WriteFollows(n)
        BY <1>0 DEF LockTypeOK, Leases, ApartInv
    <3>2. Bounded(n, new_lease[n], now')
        BY <1>0, <2>0, <2>1, <3>1 DEF WriteFollows, Bounded
    <3>3. ASSUME NEW w \in writes', w.node = n PROVE w \in writes
        BY <2>1, <3>3, WritesStep
    <3> QED
        BY Zenon, <2>1, <3>1, <3>2, <3>3 DEF WriteFollows
  <2>2. CASE WriteLease(n) /\ new_lease'[n] = [owner |-> n, exp |-> Clock(n) + Duration]
    <3>1. now' = now
        BY Zenon, <2>2 DEF WriteLease
    <3>2. Bounded(n, new_lease'[n], now')
        BY <1>0, <2>0, <2>2, <3>1 DEF Bounded, Clock
    <3>3. ASSUME NEW w \in writes', w.node = n, w.old.owner # n
          PROVE  Before(w.old, new_lease'[n])
      <4>1. w \in Writes /\ WriteOK(w, now')
          BY Zenon DEF LockInv, LockTypeOK
      <4>2. w.old.exp \in Nat
          BY <4>1 DEF Writes, Leases
      <4> QED
          BY <1>0, <2>0, <2>2, <3>1, <3>3, <4>1, <4>2 DEF WriteOK, Before, Clock
    <3> QED
        BY <2>2, <3>2, <3>3
  <2> QED
      BY Zenon, <2>1, <2>2, WritingStep
<1>5. ASSUME NEW n \in Nodes PROVE AppliedFollows(n)'
  <2> SUFFICES ASSUME applied'[n], row'.owner = n, NEW l \in Leases, Known(l)', l.owner # n
               PROVE  Before(l, new_lease'[n])
      BY Zenon DEF AppliedFollows
  <2>1. Known(l)
      BY Zenon, KnownBefore
  <2>2. CASE row' = row /\ applied[n] /\ new_lease'[n] = new_lease[n]
      BY Zenon, <2>1, <2>2 DEF ApartInv, AppliedFollows
  <2>3. ASSUME NEW w \in writes, ApplyWrite(w), row = w.old, row' = w.new
        PROVE  Before(l, new_lease'[n])
    <3>1. w \in Writes /\ WriteOK(w, now) /\ w.node = n
        BY Zenon, <2>3 DEF LockInv, LockTypeOK, WriteOK
    <3>2. applied[n] \/ new_lease[n] = w.new
        BY Zenon, <1>0, <2>3, <3>1 DEF ApplyWrite, LockTypeOK
    <3>3. new_lease'[n] = new_lease[n] /\ new_lease[n] \in Leases
        BY Zenon, <1>0, <2>3 DEF ApplyWrite, LockTypeOK
    <3>4. CASE new_lease[n] = w.new
        BY Zenon, <1>2, <2>3, <3>3, <3>4 DEF Follows
    <3>5. CASE applied[n] /\ row.owner = n
        BY Zenon, <2>1, <3>3, <3>5 DEF ApartInv, AppliedFollows
    <3>6. CASE applied[n] /\ row.owner # n
      <4>1. pc[n] = "write" /\ Known(new_lease[n])
          BY Zenon, <3>6 DEF LockInv, NodeOK, Known
      <4>2. new_lease[n].owner = n /\ Before(row, new_lease[n])
          BY Zenon, <2>3, <3>1, <3>6, <4>1 DEF ApartInv, WriteFollows
      <4>3. Before(new_lease[n], row)
          BY Zenon, <3>3, <3>6, <4>1, <4>2 DEF ApartInv, Follows
      <4> QED
          BY <1>0, <3>3, <4>2, <4>3 DEF Before, Leases
    <3> QED
        BY Zenon, <3>2, <3>4, <3>5, <3>6
  <2> QED
      BY Zenon, <2>2, <2>3, RowStep
<1> QED
    BY Zenon, <1>1, <1>2, <1>3, <1>4, <1>5 DEF ApartInv, Takes, Before, Follows


\* Initially the only lease known is nobody's.
LEMMA InitApart == LockInit => ApartInv
<1> SUFFICES ASSUME LockInit PROVE ApartInv
    BY Zenon
<1>1. \A l : Known(l) => l = row
    BY Zenon DEF LockInit, Known
<1>2. Follows(row, row)
    BY DEF LockInit, NoLease, Follows
<1> QED
    BY Zenon, <1>1, <1>2 DEF LockInit, ApartInv, WriteFollows, AppliedFollows

-----------------------------------------------------------------------------
(* GlobalLease. An instance that was told that it acquired the lease holds  *)
(* on to it until it is told otherwise (owned). That is later than the end  *)
(* of the lease, but by no more than the time until the enforcer looks, and *)
(* the time of one refresh (TimelyOK). In that time no other instance can   *)
(* have acquired the lease and lost it again, so an owner never takes over  *)
(* somebody else's lease and takes it for its own (OwnerOK).                *)

\* The two threads, the main thread and the lock of node n agree.
ThreadOK(n) ==
    /\ owned[n] <=> stage[n] \in {"acquired", "sleep", "serve"}
    /\ pc[n] # "idle" <=> obtainer[n] = "refresh"
    /\ ~readOnly[n]
    /\ pc[n] = "idle" => lease_read[n] = NoLease
    /\ obtainer[n] = "forward" => ~owned[n] /\ current_lease[n] # None
    /\ owned[n] => current_lease[n] # None /\ current_lease[n].owner = n
    /\ ~owned[n] /\ current_lease[n] # None /\ current_lease[n].owner = n
         => now + Skew[n] > current_lease[n].exp
    /\ since[n] <= now /\ checked[n] <= now
    /\ stage[n] = "serve" => since[n] + 2 * Duration <= now

\* How long an owner goes on after the end of its lease.
TimelyOK(n) ==
    owned[n] =>
        /\ obtainer[n] = "idle" =>
             /\ now + Skew[n] <= current_lease[n].exp + Frequency
             /\ ~obtain[n] => checked[n] + Skew[n] <= current_lease[n].exp
        /\ MutexHeld(n) =>
             /\ now <= started[n] + DbLimit
             /\ started[n] + Skew[n] <= current_lease[n].exp + Frequency

\* What an owner reads and writes is its own lease, no other node's lease comes
\* between the ones it has held, and the ones before it had ended, up to the skew,
\* when it was told that it acquired the lease.
OwnerOK(n) ==
    owned[n] =>
        /\ pc[n] # "idle" =>
             lease_read[n].owner = n \/ Before(current_lease[n], lease_read[n])
        /\ pc[n] \in {"renew", "write"} => lease_read[n].owner = n
        /\ \A w \in writes : w.node = n => w.old.owner = n \/ Before(w.old, current_lease[n])
        /\ \A l \in Leases : Known(l) /\ l.owner # n =>
             /\ row.owner = n => Before(l, current_lease[n])
             /\ applied[n] => Before(l, current_lease[n]) \/ Before(new_lease[n], l)
             /\ Before(l, current_lease[n]) => l.exp < since[n] + MaxSkew

\* The inductive invariant.
GlobalInv ==
    /\ LockInv
    /\ ApartInv
    /\ GlobalTypeOK
    /\ \A n \in Nodes : ThreadOK(n) /\ TimelyOK(n) /\ OwnerOK(n)

\* Initially every instance is down.
LEMMA InitGlobalInv == GlobalInit => GlobalInv
<1> SUFFICES ASSUME GlobalInit PROVE GlobalInv
    BY Zenon
<1>1. LockInv /\ ApartInv
    BY Zenon, InitLockInv, InitApart DEF GlobalInit
<1>2. GlobalTypeOK
    BY Zenon, <1>1 DEF GlobalInit, GlobalTypeOK, LockInv
<1>3. ASSUME NEW n \in Nodes PROVE ThreadOK(n) /\ TimelyOK(n) /\ OwnerOK(n)
    BY <1>3 DEF GlobalInit, LockInit, ThreadOK, TimelyOK, OwnerOK
<1> QED
    BY Zenon, <1>1, <1>2, <1>3 DEF GlobalInv

\* RefreshLease returns what it had, or what it read or wrote: a step of LeasableLock.
LEMMA GlobalStepIsLockStep ==
    ASSUME GlobalInv, [GlobalNext]_globalVars
    PROVE  [LockNext]_lockVars
<1>1. ASSUME NEW n \in Nodes, Abort(n) PROVE LockNext
    BY Zenon, <1>1 DEF Abort, LockNext
<1>2. ASSUME NEW n \in Nodes, NEW l, RefreshReturns(n, l)
      PROVE  LockNext \/ (Return(n, l) /\ UNCHANGED <<now, row, disallowed, writes>>)
    BY Zenon, <1>1, <1>2 DEF RefreshReturns
<1>3. ASSUME NEW n \in Nodes, ReadAnswered(n) PROVE [LockNext]_lockVars
  <2>1. CASE ReadLease(n, FALSE)
      BY Zenon, <2>1 DEF LockNext
  <2>2. CASE Return(n, current_lease[n]) /\ UNCHANGED <<now, row, disallowed, writes>>
    <3>1. /\ pc[n] = "idle" /\ lease_read[n] = NoLease /\ new_lease[n] = NoLease
          /\ applied[n] = FALSE /\ readOnly[n] = FALSE
      <4>1. ThreadOK(n) /\ NodeOK(n) /\ LockTypeOK
          BY Zenon DEF GlobalInv, LockInv
      <4>2. obtainer[n] = "read"
          BY Zenon, <1>3 DEF ReadAnswered
      <4> QED
          BY Zenon, <4>1, <4>2 DEF ThreadOK, NodeOK, LockTypeOK
    <3>2. UNCHANGED <<current_lease, pc, readOnly, lease_read, new_lease, applied>>
        BY <2>2, <3>1 DEF Return, GlobalInv, LockInv, LockTypeOK
    <3> QED
        BY Zenon, <2>2, <3>2 DEF lockVars
  <2> QED
      BY Zenon, <1>2, <1>3, <2>1, <2>2 DEF ReadAnswered
<1>4. ASSUME NEW n \in Nodes, Refresh(n) PROVE LockNext
  <2>1. CASE CheckLease(n) \/ WriteLease(n)
      BY Zenon, <2>1 DEF LockNext, RefreshStep
  <2>2. CASE pc[n] = "check" /\ KeepReadLease(n) /\ RefreshReturns(n, lease_read[n])
    <3>1. CASE Return(n, lease_read[n]) /\ UNCHANGED <<now, row, disallowed, writes>>
        BY Zenon, <2>2, <3>1 DEF LockNext, RefreshStep, CheckLease
    <3> QED
        BY Zenon, <1>2, <2>2, <3>1
  <2>3. CASE pc[n] = "write" /\ applied[n] /\ RefreshReturns(n, new_lease[n])
    <3>1. CASE Return(n, new_lease[n]) /\ UNCHANGED <<now, row, disallowed, writes>>
        BY Zenon, <2>3, <3>1 DEF LockNext, RefreshStep, WriteSucceeds
    <3> QED
        BY Zenon, <1>2, <2>3, <3>1
  <2>4. CASE pc[n] = "write" /\ RefreshReturns(n, current_lease[n])
    <3>1. CASE Return(n, current_lease[n]) /\ UNCHANGED <<now, row, disallowed, writes>>
        BY Zenon, <2>4, <3>1 DEF LockNext, RefreshStep, WriteFails
    <3> QED
        BY Zenon, <1>2, <2>4, <3>1
  <2> QED
      BY Zenon, <1>4, <2>1, <2>2, <2>3, <2>4 DEF Refresh
<1>5. ASSUME NEW n \in Nodes, InstanceStep(n) PROVE [LockNext]_lockVars
    BY Zenon, <1>1, <1>3, <1>4, <1>5
    DEF InstanceStep, StartInstance, Crash, StopForwarding, Serve, Obtain, ForwardingReset, ForwardTo,
        Enforce
<1> QED
    BY Zenon, <1>5 DEF GlobalNext, LockNext, GlobalTick, globalVars


\* The type invariant is kept.
LEMMA NextGlobalType ==
    ASSUME GlobalInv, LockInv', [GlobalNext]_globalVars
    PROVE  GlobalTypeOK'
<1>a. 0 \in Nat
    OBVIOUS
<1>0. GlobalTypeOK /\ LockTypeOK' /\ now \in Nat /\ 0 \in Nat
    BY Zenon, <1>a DEF GlobalInv, GlobalTypeOK, LockInv, LockTypeOK
<1>b. ASSUME NEW n \in Nodes, NEW b \in BOOLEAN, CallbackReturns(n, b)
      PROVE  /\ owned' \in [Nodes -> BOOLEAN] /\ started' \in [Nodes -> Nat]
             /\ obtainer' \in [Nodes -> {"idle", "read", "refresh", "forward"}]
    BY <1>0, <1>b DEF CallbackReturns, GlobalTypeOK
<1>1. ASSUME NEW n \in Nodes, Abort(n) PROVE GlobalTypeOK'
    BY <1>0, <1>1 DEF Abort, GlobalTypeOK
<1>2. ASSUME NEW n \in Nodes, NEW l, RefreshReturns(n, l) PROVE GlobalTypeOK'
  <2>1. CASE OwnsLease(n, l)
    <3>1. stage' \in [Nodes -> {"down", "wait", "acquired", "sleep", "serve"}]
        BY <1>0, <1>2, <2>1 DEF RefreshReturns, GlobalTypeOK
    <3>2. since' \in [Nodes -> Nat]
        BY <1>0, <1>2, <2>1 DEF RefreshReturns, GlobalTypeOK
    <3> QED
        BY Zenon, <1>0, <1>b, <1>2, <2>1, <3>1, <3>2 DEF RefreshReturns, GlobalTypeOK
  <2>2. CASE ~OwnsLease(n, l)
    <3>1. CASE owned[n]
        BY Zenon, <1>1, <1>2, <2>2, <3>1 DEF RefreshReturns
    <3>2. CASE obtainer' = [obtainer EXCEPT ![n] = "forward"] /\ UNCHANGED <<owned, started>>
        BY Zenon, <1>0, <1>1, <1>2, <2>2, <3>2 DEF RefreshReturns, GlobalTypeOK
    <3> QED
        BY Zenon, <1>0, <1>b, <1>2, <2>2, <3>1, <3>2 DEF RefreshReturns, GlobalTypeOK
  <2> QED
      BY Zenon, <2>1, <2>2
<1>3. ASSUME NEW n \in Nodes, ForwardingReset(n) PROVE GlobalTypeOK'
  <2>1. CASE Abort(n)
      BY Zenon, <1>1, <2>1
  <2>2. CASE ~Abort(n)
    <3>1. current_lease[n] \in Leases
      <4>1. current_lease[n] # None
          BY Zenon, <1>3 DEF ForwardingReset, GlobalInv, ThreadOK
      <4> QED
          BY Zenon, <1>0, <4>1 DEF GlobalTypeOK, LockTypeOK
    <3>2. current_lease[n].owner \in Nodes \cup {NoNode}
        BY <3>1 DEF Leases
    <3> QED
        BY Zenon, <1>0, <1>b, <1>3, <2>2, <3>2 DEF ForwardingReset, ForwardTo, GlobalTypeOK
  <2> QED
      BY Zenon, <2>1, <2>2
<1>4. ASSUME NEW n \in Nodes, StartInstance(n) \/ StopForwarding(n) \/ Serve(n) \/ Obtain(n)
      PROVE  GlobalTypeOK'
  <2>1. CASE StartInstance(n) \/ Serve(n)
      BY <1>0, <2>1 DEF StartInstance, Serve, GlobalTypeOK
  <2>2. CASE StopForwarding(n)
      BY <1>0, <2>2 DEF StopForwarding, GlobalTypeOK
  <2>3. CASE Obtain(n)
      BY <1>0, <2>3 DEF Obtain, GlobalTypeOK
  <2> QED
      BY Zenon, <1>4, <2>1, <2>2, <2>3
<1>5. ASSUME NEW n \in Nodes, ReadAnswered(n) PROVE GlobalTypeOK'
    BY <1>0, <1>2, <1>5 DEF ReadAnswered, GlobalTypeOK
<1>6. ASSUME NEW n \in Nodes, Refresh(n) PROVE GlobalTypeOK'
    BY Zenon, <1>0, <1>2, <1>6 DEF Refresh, instanceVars, GlobalTypeOK
<1>7. ASSUME NEW n \in Nodes, Enforce(n) PROVE GlobalTypeOK'
  <2>1. CASE Abort(n)
      BY Zenon, <1>1, <2>1
  <2>2. CASE /\ obtain' = [obtain EXCEPT ![n] = @ \/ LockShouldRefreshLease(n)]
             /\ checked' = [checked EXCEPT ![n] = now]
             /\ UNCHANGED <<lockVars, stage, since, obtainer, owned, started, forward>>
    <3>1. obtain[n] \in BOOLEAN /\ (obtain[n] \/ LockShouldRefreshLease(n)) \in BOOLEAN /\ now \in Nat
        BY Zenon, <1>0 DEF GlobalTypeOK, LockTypeOK
    <3>2. obtain' \in [Nodes -> BOOLEAN] /\ checked' \in [Nodes -> Nat]
        BY Zenon, <1>0, <2>2, <3>1 DEF GlobalTypeOK
    <3> QED
        BY Zenon, <1>0, <2>2, <3>2 DEF GlobalTypeOK
  <2> QED
      BY Zenon, <1>7, <2>1, <2>2 DEF Enforce
<1>8. CASE UNCHANGED instanceVars
    BY Zenon, <1>0, <1>8 DEF instanceVars, GlobalTypeOK
<1> QED
    BY Zenon, <1>1, <1>3, <1>4, <1>5, <1>6, <1>7, <1>8
    DEF GlobalNext, InstanceStep, Crash, GlobalTick, globalVars


\* A step that leaves node n as it is.
SameNode(n) ==
    /\ pc'[n] = pc[n] /\ readOnly'[n] = readOnly[n] /\ lease_read'[n] = lease_read[n]
    /\ new_lease'[n] = new_lease[n] /\ applied'[n] = applied[n]
    /\ current_lease'[n] = current_lease[n]
    /\ stage'[n] = stage[n] /\ since'[n] = since[n] /\ obtainer'[n] = obtainer[n]
    /\ obtain'[n] = obtain[n] /\ owned'[n] = owned[n] /\ started'[n] = started[n]
    /\ checked'[n] = checked[n]

\* A step of one node changes no other node, neither the time nor the row, and sends
\* only writes of its own.
LEMMA StepOfOther ==
    ASSUME GlobalInv, NEW m \in Nodes, InstanceStep(m)
    PROVE  /\ now' = now /\ row' = row
           /\ \A n \in Nodes : n # m => SameNode(n)
           /\ \A w \in writes' : w \in writes \/ w.node = m
<1>0. GlobalTypeOK /\ LockTypeOK
    BY Zenon DEF GlobalInv, GlobalTypeOK
<1> USE DEF SameNode
<1>1. ASSUME NEW k, Return(m, k)
      PROVE  \A n \in Nodes : n # m =>
               /\ pc'[n] = pc[n] /\ readOnly'[n] = readOnly[n] /\ lease_read'[n] = lease_read[n]
               /\ new_lease'[n] = new_lease[n] /\ applied'[n] = applied[n]
               /\ current_lease'[n] = current_lease[n]
    BY Zenon, <1>0, <1>1 DEF Return, LockTypeOK
<1>2. ASSUME Abort(m)
      PROVE  /\ UNCHANGED <<now, row, writes>>
             /\ \A n \in Nodes : n # m => SameNode(n)
    BY Zenon, <1>0, <1>1, <1>2 DEF Abort, Restart, GlobalTypeOK
<1>3. ASSUME NEW k, RefreshReturns(m, k)
      PROVE  /\ UNCHANGED <<now, row, writes>>
             /\ \A n \in Nodes : n # m => SameNode(n)
  <2>1. CASE Abort(m)
      BY Zenon, <1>2, <2>1
  <2>2. CASE ~Abort(m)
    <3>1. UNCHANGED <<now, row, writes, obtain, checked>> /\ Return(m, k)
        BY Zenon, <1>3, <2>2 DEF RefreshReturns
    <3>2. \A n \in Nodes : n # m =>
            /\ stage'[n] = stage[n] /\ since'[n] = since[n] /\ obtainer'[n] = obtainer[n]
            /\ owned'[n] = owned[n] /\ started'[n] = started[n]
        BY Zenon, <1>0, <1>3, <2>2 DEF RefreshReturns, CallbackReturns, GlobalTypeOK
    <3> QED
        BY Zenon, <1>1, <3>1, <3>2
  <2> QED
      BY Zenon, <2>1, <2>2
<1>4. CASE ReadAnswered(m)
  <2>1. CASE ReadLease(m, FALSE) /\ obtainer' = [obtainer EXCEPT ![m] = "refresh"]
              /\ UNCHANGED <<stage, since, obtain, owned, started, checked, forward>>
      BY Zenon, <1>0, <2>1 DEF ReadLease, GlobalTypeOK, LockTypeOK
  <2> QED
      BY Zenon, <1>3, <1>4, <2>1 DEF ReadAnswered
<1>5. CASE Refresh(m)
  <2>1. CASE ~KeepReadLease(m) /\ CheckLease(m) /\ UNCHANGED instanceVars
      BY Zenon, <1>0, <2>1 DEF CheckLease, instanceVars, LockTypeOK
  <2>2. CASE WriteLease(m) /\ UNCHANGED instanceVars
    <3>1. \A w \in writes' : w \in writes \/ w.node = m
        BY <2>2 DEF WriteLease
    <3> QED
        BY Zenon, <1>0, <2>2, <3>1 DEF WriteLease, instanceVars, LockTypeOK
  <2> QED
      BY Zenon, <1>3, <1>5, <2>1, <2>2 DEF Refresh
<1>6. CASE ForwardingReset(m)
  <2>1. CASE CallbackReturns(m, FALSE) /\ UNCHANGED <<lockVars, stage, since, obtain, checked>>
      BY Zenon, <1>0, <2>1 DEF CallbackReturns, lockVars, GlobalTypeOK
  <2> QED
      BY Zenon, <1>2, <1>6, <2>1 DEF ForwardingReset, ForwardTo
<1>7. CASE Enforce(m)
  <2>1. CASE ~Abort(m)
      BY Zenon, <1>0, <1>7, <2>1 DEF Enforce, lockVars, GlobalTypeOK
  <2> QED
      BY Zenon, <1>2, <2>1
<1>8. CASE StartInstance(m) \/ StopForwarding(m) \/ Serve(m) \/ Obtain(m)
    BY Zenon, <1>0, <1>8 DEF StartInstance, StopForwarding, Serve, Obtain, lockVars, GlobalTypeOK
<1> QED
    BY Zenon, <1>2, <1>4, <1>5, <1>6, <1>7, <1>8 DEF InstanceStep, Crash

\* A node that a step leaves as it is keeps its facts when time and the row stay.
LEMMA SameNodeKeeps ==
    ASSUME GlobalInv, [LockNext]_lockVars, NEW n \in Nodes, SameNode(n),
           now' = now, row' = row, \A w \in writes' : w \in writes \/ w.node # n
    PROVE  ThreadOK(n)' /\ TimelyOK(n)' /\ OwnerOK(n)'
<1>0. ThreadOK(n) /\ TimelyOK(n) /\ OwnerOK(n) /\ LockInv
    BY Zenon DEF GlobalInv
<1>1. ThreadOK(n)'
    BY Zenon, <1>0 DEF ThreadOK, SameNode
<1>2. TimelyOK(n)'
    BY Zenon, <1>0 DEF TimelyOK, SameNode, MutexHeld
<1>3. \A l : Known(l)' => Known(l)
    BY Zenon, <1>0, KnownBefore DEF Known
<1>4. OwnerOK(n)'
    BY Zenon, <1>0, <1>3 DEF OwnerOK, SameNode, Before
<1> QED
    BY Zenon, <1>1, <1>2, <1>4


\* The numbers that the facts about node n compare.
LEMMA NodeNumbers ==
    ASSUME GlobalInv, NEW n \in Nodes
    PROVE  /\ now \in Nat /\ Skew[n] \in Nat /\ Skew[n] <= MaxSkew /\ MaxSkew \in Nat
           /\ Duration \in Nat /\ Frequency \in Nat /\ DbLimit \in Nat
           /\ since[n] \in Nat /\ checked[n] \in Nat /\ started[n] \in Nat
           /\ lease_read[n] \in Leases /\ new_lease[n] \in Leases
           /\ lease_read[n].exp \in Nat /\ new_lease[n].exp \in Nat
           /\ current_lease[n] # None =>
                current_lease[n] \in Leases /\ current_lease[n].exp \in Nat
<1>1. /\ now \in Nat /\ lease_read[n] \in Leases /\ new_lease[n] \in Leases
      /\ since[n] \in Nat /\ checked[n] \in Nat /\ started[n] \in Nat
      /\ current_lease[n] # None => current_lease[n] \in Leases
    BY Zenon DEF GlobalInv, GlobalTypeOK, LockTypeOK
<1>2. /\ Skew[n] \in Nat /\ Skew[n] <= MaxSkew /\ MaxSkew \in Nat
      /\ Duration \in Nat /\ Frequency \in Nat /\ DbLimit \in Nat
    BY LockAssumption, GlobalAssumption
<1> QED
    BY <1>1, <1>2 DEF Leases

\* An owner is late by no more than the time until the enforcer looks, and the time
\* of a refresh.
LEMMA OwnerIsTimely ==
    ASSUME GlobalInv, NEW n \in Nodes, owned[n]
    PROVE  now + Skew[n] <= current_lease[n].exp + Frequency + DbLimit
<1>1. ThreadOK(n) /\ TimelyOK(n) /\ obtainer[n] \in {"idle", "read", "refresh", "forward"}
    BY Zenon DEF GlobalInv, GlobalTypeOK
<1>2. current_lease[n] # None /\ obtainer[n] # "forward"
    BY Zenon, <1>1 DEF ThreadOK
<1>3. CASE obtainer[n] = "idle"
    BY <1>1, <1>2, <1>3, NodeNumbers DEF TimelyOK
<1>4. CASE MutexHeld(n)
    BY <1>1, <1>2, <1>4, NodeNumbers DEF TimelyOK
<1> QED
    BY Zenon, <1>1, <1>2, <1>3, <1>4 DEF MutexHeld

\* A node whose refresh does not move keeps its facts about leases.
LEMMA OwnerKeeps ==
    ASSUME GlobalInv, [LockNext]_lockVars, NEW n \in Nodes,
           UNCHANGED lockVars, owned'[n] = owned[n],
           since'[n] \in Nat, since[n] <= since'[n]
    PROVE  OwnerOK(n)'
<1>0. OwnerOK(n) /\ LockInv
    BY Zenon DEF GlobalInv
<1>1. UNCHANGED <<pc, lease_read, new_lease, applied, current_lease, writes, row>>
    BY Zenon DEF lockVars
<1>2. \A l : Known(l)' => Known(l)
    BY Zenon, <1>1 DEF Known
<1> SUFFICES ASSUME owned[n], NEW l \in Leases, Known(l), l.owner # n,
                    Before(l, current_lease[n])
             PROVE  l.exp < since'[n] + MaxSkew
    BY Zenon, <1>0, <1>1, <1>2 DEF OwnerOK, Before
<1>3. l.exp < since[n] + MaxSkew /\ l.exp \in Nat
    BY Zenon, <1>0 DEF OwnerOK, Leases
<1> QED
    BY <1>3, NodeNumbers

\* The process ends.
LEMMA AbortKeeps ==
    ASSUME GlobalInv, NEW n \in Nodes, Abort(n)
    PROVE  ThreadOK(n)' /\ TimelyOK(n)' /\ OwnerOK(n)'
<1>0. GlobalTypeOK /\ LockTypeOK /\ now \in Nat
    BY Zenon DEF GlobalInv, GlobalTypeOK, LockTypeOK
<1>1. /\ stage'[n] = "down" /\ since'[n] = 0 /\ obtainer'[n] = "idle" /\ owned'[n] = FALSE
      /\ checked'[n] = 0 /\ pc'[n] = "idle" /\ readOnly'[n] = FALSE
      /\ lease_read'[n] = NoLease /\ current_lease'[n] = None /\ now' = now
    BY Zenon, <1>0 DEF Abort, Restart, Return, GlobalTypeOK, LockTypeOK
<1> QED
    BY <1>0, <1>1 DEF ThreadOK, TimelyOK, OwnerOK

\* The steps of the main thread.
LEMMA MainKeeps ==
    ASSUME GlobalInv, [LockNext]_lockVars, NEW n \in Nodes,
           StartInstance(n) \/ StopForwarding(n) \/ Serve(n)
    PROVE  ThreadOK(n)' /\ TimelyOK(n)' /\ OwnerOK(n)'
<1>0. ThreadOK(n) /\ TimelyOK(n) /\ GlobalTypeOK
    BY Zenon DEF GlobalInv
<1>1. /\ UNCHANGED lockVars /\ UNCHANGED <<obtainer, obtain, owned, started>>
    BY Zenon DEF StartInstance, StopForwarding, Serve
<1>2. UNCHANGED <<now, pc, readOnly, lease_read, current_lease>>
    BY Zenon, <1>1 DEF lockVars
<1>3. CASE StartInstance(n)
  <2>1. /\ stage[n] = "down" /\ stage'[n] = "wait" /\ checked'[n] = now
        /\ since'[n] = since[n]
      BY Zenon, <1>0, <1>3 DEF StartInstance, GlobalTypeOK
  <2>2. now <= now
      BY NodeNumbers
  <2>3. ~owned'[n] /\ ThreadOK(n)'
      BY Zenon, <1>0, <1>1, <1>2, <2>1, <2>2 DEF ThreadOK
  <2> QED
      BY Zenon, <2>3 DEF TimelyOK, OwnerOK
<1>4. CASE StopForwarding(n)
  <2>1. /\ stage[n] = "acquired" /\ stage'[n] = "sleep" /\ checked'[n] = checked[n]
        /\ since'[n] = now
      BY Zenon, <1>0, <1>4 DEF StopForwarding, GlobalTypeOK
  <2>2. ThreadOK(n)'
    <3>1. now <= now
        BY NodeNumbers
    <3> QED
        BY Zenon, <1>0, <1>1, <1>2, <2>1, <3>1 DEF ThreadOK
  <2>3. TimelyOK(n)'
      BY Zenon, <1>0, <1>1, <1>2, <2>1 DEF TimelyOK, MutexHeld
  <2>4. since[n] <= since'[n] /\ since'[n] \in Nat
      BY Zenon, <1>0, <2>1, NodeNumbers DEF ThreadOK
  <2> QED
      BY Zenon, <1>1, <2>2, <2>3, <2>4, OwnerKeeps
<1>5. CASE Serve(n)
  <2>1. /\ stage[n] = "sleep" /\ stage'[n] = "serve" /\ checked'[n] = checked[n]
        /\ since'[n] = since[n] /\ now - since[n] >= 2 * Duration
      BY Zenon, <1>0, <1>5 DEF Serve, GlobalTypeOK
  <2>2. ThreadOK(n)'
    <3>1. since[n] + 2 * Duration <= now
        BY <2>1, NodeNumbers
    <3> QED
        BY Zenon, <1>0, <1>1, <1>2, <2>1, <3>1 DEF ThreadOK
  <2>3. TimelyOK(n)'
      BY Zenon, <1>0, <1>1, <1>2, <2>1 DEF TimelyOK, MutexHeld
  <2>4. since[n] <= since'[n] /\ since'[n] \in Nat
      BY <2>1, NodeNumbers
  <2> QED
      BY Zenon, <1>1, <2>2, <2>3, <2>4, OwnerKeeps
<1> QED
    BY Zenon, <1>3, <1>4, <1>5


\* The obtainer wakes up.
LEMMA ObtainKeeps ==
    ASSUME GlobalInv, [LockNext]_lockVars, NEW n \in Nodes, Obtain(n)
    PROVE  ThreadOK(n)' /\ TimelyOK(n)' /\ OwnerOK(n)'
<1>0. ThreadOK(n) /\ TimelyOK(n) /\ GlobalTypeOK
    BY Zenon DEF GlobalInv
<1>1. /\ UNCHANGED lockVars /\ UNCHANGED <<stage, since, owned, checked>>
      /\ obtainer[n] = "idle" /\ started'[n] = now /\ obtainer'[n] = "read"
    BY Zenon, <1>0 DEF Obtain, GlobalTypeOK
<1>2. UNCHANGED <<now, pc, readOnly, lease_read, current_lease>>
    BY Zenon, <1>1 DEF lockVars
<1>3. ThreadOK(n)'
    BY Zenon, <1>0, <1>1, <1>2 DEF ThreadOK
<1>4. TimelyOK(n)'
  <2> SUFFICES ASSUME owned[n]
               PROVE  /\ now <= now + DbLimit
                      /\ now + Skew[n] <= current_lease[n].exp + Frequency
      BY Zenon, <1>1, <1>2 DEF TimelyOK, MutexHeld
  <2> QED
      BY <1>0, <1>1, NodeNumbers DEF TimelyOK
<1>5. since[n] <= since'[n] /\ since'[n] \in Nat
    BY <1>1, NodeNumbers
<1> QED
    BY Zenon, <1>1, <1>3, <1>4, <1>5, OwnerKeeps

\* The enforcer looks at the lock.
LEMMA EnforceKeeps ==
    ASSUME GlobalInv, [LockNext]_lockVars, NEW n \in Nodes, Enforce(n)
    PROVE  ThreadOK(n)' /\ TimelyOK(n)' /\ OwnerOK(n)'
<1>0. ThreadOK(n) /\ TimelyOK(n) /\ GlobalTypeOK
    BY Zenon DEF GlobalInv
<1>a. CASE Abort(n)
    BY Zenon, <1>a, AbortKeeps
<1>b. CASE ~Abort(n)
  <2>1. /\ UNCHANGED lockVars /\ UNCHANGED <<stage, since, obtainer, owned, started>>
        /\ obtain'[n] = (obtain[n] \/ LockShouldRefreshLease(n)) /\ checked'[n] = now
        /\ ~MutexHeld(n)
      BY Zenon, <1>0, <1>b DEF Enforce, GlobalTypeOK
  <2>2. UNCHANGED <<now, pc, readOnly, lease_read, current_lease>>
      BY Zenon, <2>1 DEF lockVars
  <2>3. checked'[n] <= now
      BY <2>1, NodeNumbers
  <2>4. ThreadOK(n)'
      BY Zenon, <1>0, <2>1, <2>2, <2>3 DEF ThreadOK
  <2>5. TimelyOK(n)'
    <3> SUFFICES ASSUME owned[n], obtainer[n] = "idle", ~LockShouldRefreshLease(n)
                 PROVE  now + Skew[n] <= current_lease[n].exp
        BY Zenon, <1>0, <2>1, <2>2 DEF TimelyOK, MutexHeld
    <3>1. current_lease[n] # None /\ ~IsExpired(n, current_lease[n])
        BY Zenon DEF LockShouldRefreshLease
    <3> QED
        BY <3>1, NodeNumbers DEF IsExpired, Clock
  <2>6. since[n] <= since'[n] /\ since'[n] \in Nat
      BY <2>1, NodeNumbers
  <2> QED
      BY Zenon, <2>1, <2>4, <2>5, <2>6, OwnerKeeps
<1> QED
    BY Zenon, <1>a, <1>b

\* The forwarder has its new address.
LEMMA ForwardingKeeps ==
    ASSUME GlobalInv, [LockNext]_lockVars, NEW n \in Nodes, ForwardingReset(n)
    PROVE  ThreadOK(n)' /\ TimelyOK(n)' /\ OwnerOK(n)'
<1>0. ThreadOK(n) /\ GlobalTypeOK /\ obtainer[n] = "forward"
    BY Zenon DEF GlobalInv, ForwardingReset, ForwardTo
<1>1. CASE CallbackReturns(n, FALSE) /\ UNCHANGED <<lockVars, stage, since, obtain, checked>>
  <2>1. /\ ~owned'[n] /\ ~owned[n] /\ obtainer'[n] = "idle"
        /\ UNCHANGED <<now, pc, readOnly, lease_read, current_lease, stage, since, checked>>
      BY Zenon, <1>0, <1>1 DEF CallbackReturns, lockVars, GlobalTypeOK, ThreadOK
  <2>2. ThreadOK(n)'
      BY <1>0, <2>1 DEF ThreadOK
  <2> QED
      BY Zenon, <2>1, <2>2 DEF TimelyOK, OwnerOK
<1> QED
    BY Zenon, <1>1, AbortKeeps DEF ForwardingReset

\* RefreshLease returns without the lease: an owner aborts, and another instance has
\* nothing to keep.
LEMMA NotOwnedKeeps ==
    ASSUME GlobalInv, NEW n \in Nodes, NEW k, RefreshReturns(n, k), ~OwnsLease(n, k),
           k = None \/ k \in Leases
    PROVE  ThreadOK(n)' /\ TimelyOK(n)' /\ OwnerOK(n)'
<1>0. ThreadOK(n) /\ GlobalTypeOK /\ LockTypeOK
    BY Zenon DEF GlobalInv, GlobalTypeOK
<1>1. CASE owned[n]
    BY Zenon, <1>1, AbortKeeps DEF RefreshReturns
<1>2. CASE ~owned[n]
  <2>1. Return(n, k) /\ UNCHANGED <<now, stage, since, checked>>
      BY Zenon, <1>2 DEF RefreshReturns
  <2>2. /\ ~owned'[n]
        /\ obtainer'[n] = "idle" \/ (obtainer'[n] = "forward" /\ k # None)
      BY Zenon, <1>0, <1>2 DEF RefreshReturns, CallbackReturns, GlobalTypeOK, OwnerKnown
  <2>3. /\ pc'[n] = "idle" /\ readOnly'[n] = FALSE /\ lease_read'[n] = NoLease
        /\ current_lease'[n] = k
      BY Zenon, <1>0, <2>1 DEF Return, LockTypeOK
  <2>4. k # None /\ k.owner = n => now + Skew[n] > k.exp
      BY Zenon DEF OwnsLease, IsExpired, Clock
  <2>5. ThreadOK(n)'
      BY <1>0, <1>2, <2>1, <2>2, <2>3, <2>4 DEF ThreadOK
  <2> QED
      BY Zenon, <2>2, <2>5 DEF TimelyOK, OwnerOK
<1> QED
    BY Zenon, <1>1, <1>2

\* RefreshLease returns with the lease: threads and time.
LEMMA OwnedThreadKeeps ==
    ASSUME GlobalInv, NEW n \in Nodes, NEW k \in Leases, RefreshReturns(n, k), OwnsLease(n, k)
    PROVE  ThreadOK(n)' /\ TimelyOK(n)'
<1>0. ThreadOK(n) /\ GlobalTypeOK /\ LockTypeOK
    BY Zenon DEF GlobalInv, GlobalTypeOK
<1>1. Return(n, k) /\ CallbackReturns(n, TRUE) /\ UNCHANGED <<now, checked>>
    BY Zenon DEF RefreshReturns
<1>2. /\ owned'[n] = TRUE /\ obtainer'[n] = "idle" /\ current_lease'[n] = k
      /\ pc'[n] = "idle" /\ readOnly'[n] = FALSE /\ lease_read'[n] = NoLease
    BY Zenon, <1>0, <1>1 DEF Return, CallbackReturns, GlobalTypeOK, LockTypeOK
<1>3. /\ owned[n] => stage'[n] = stage[n] /\ since'[n] = since[n]
      /\ ~owned[n] => stage'[n] = "acquired" /\ since'[n] = now
    BY Zenon, <1>0 DEF RefreshReturns, GlobalTypeOK
<1>4. k # None /\ k.owner = n /\ now + Skew[n] <= k.exp /\ k.exp \in Nat
    BY NodeNumbers DEF OwnsLease, IsExpired, Clock, Leases
<1>5. ThreadOK(n)'
  <2>1. now <= now
      BY NodeNumbers
  <2>2. CASE owned[n]
      BY Zenon, <1>0, <1>1, <1>2, <1>3, <1>4, <2>2 DEF ThreadOK
  <2>3. CASE ~owned[n]
      BY Zenon, <1>0, <1>1, <1>2, <1>3, <1>4, <2>1, <2>3 DEF ThreadOK
  <2> QED
      BY Zenon, <2>2, <2>3
<1>6. TimelyOK(n)'
  <2>1. now \in Nat /\ Skew[n] \in Nat /\ checked[n] \in Nat /\ Frequency \in Nat
      BY Zenon, NodeNumbers
  <2>2. checked[n] <= now
      BY Zenon, <1>0 DEF ThreadOK
  <2>3. now + Skew[n] <= k.exp + Frequency /\ checked[n] + Skew[n] <= k.exp
      BY <1>4, <2>1, <2>2
  <2>4. ~MutexHeld(n)'
      BY <1>2 DEF MutexHeld
  <2> QED
      BY Zenon, <1>1, <1>2, <2>3, <2>4 DEF TimelyOK
<1> QED
    BY Zenon, <1>5, <1>6


\* An owner's write has been applied and is acknowledged: a renewal, or the lease is
\* acquired.
LEMMA AcknowledgedKeeps ==
    ASSUME GlobalInv, [LockNext]_lockVars, NEW n \in Nodes, pc[n] = "write", applied[n],
           RefreshReturns(n, new_lease[n]), OwnsLease(n, new_lease[n])
    PROVE  OwnerOK(n)'
<1>0. /\ ThreadOK(n) /\ OwnerOK(n) /\ GlobalTypeOK /\ LockTypeOK /\ LockInv /\ ApartInv
      /\ WriteFollows(n) /\ AppliedFollows(n)
    BY Zenon DEF GlobalInv, GlobalTypeOK, ApartInv
<1>1. /\ Return(n, new_lease[n]) /\ UNCHANGED <<now, row, writes>>
    BY Zenon DEF RefreshReturns
<1>2. /\ current_lease'[n] = new_lease[n] /\ pc'[n] = "idle" /\ ~applied'[n]
    BY Zenon, <1>0, <1>1 DEF Return, LockTypeOK
<1>3. /\ owned[n] => since'[n] = since[n]
      /\ ~owned[n] => since'[n] = now
    BY Zenon, <1>0 DEF RefreshReturns, GlobalTypeOK
<1>4. \A l : Known(l)' => Known(l)
    BY Zenon, <1>0, <1>1, KnownBefore DEF Known
<1>5. ASSUME NEW w \in writes, w.node = n
      PROVE  w.old.owner = n \/ Before(w.old, new_lease[n])
    BY Zenon, <1>0, <1>5 DEF WriteFollows
<1>6. ASSUME NEW l \in Leases, Known(l), l.owner # n, row.owner = n
      PROVE  Before(l, new_lease[n])
    BY Zenon, <1>0, <1>6 DEF AppliedFollows
<1>7. ASSUME NEW l \in Leases, Known(l), l.owner # n, Before(l, new_lease[n])
      PROVE  l.exp < since'[n] + MaxSkew
  <2>0. l.exp \in Nat
      BY <1>7 DEF Leases
  <2>1. CASE owned[n]
    <3>1. Before(l, current_lease[n]) \/ Before(new_lease[n], l)
        BY Zenon, <1>0, <1>7, <2>1 DEF OwnerOK
    <3>2. ~Before(new_lease[n], l)
        BY <1>7, <2>0, NodeNumbers DEF Before
    <3> QED
        BY Zenon, <1>0, <1>3, <1>7, <2>1, <3>1, <3>2 DEF OwnerOK
  <2>2. CASE ~owned[n]
    <3>1. new_lease[n].exp <= now + Skew[n] + Duration
        BY Zenon, <1>0 DEF WriteFollows, Bounded
    <3> QED
        BY <1>3, <1>7, <2>0, <2>2, <3>1, NodeNumbers DEF Before
  <2> QED
      BY Zenon, <2>1, <2>2
<1>8. OwnerOK(n)' <=>
        (owned'[n] =>
           /\ \A w \in writes : w.node = n => w.old.owner = n \/ Before(w.old, new_lease[n])
           /\ \A l \in Leases : Known(l)' /\ l.owner # n =>
                /\ row.owner = n => Before(l, new_lease[n])
                /\ Before(l, new_lease[n]) => l.exp < since'[n] + MaxSkew)
    BY Zenon, <1>1, <1>2 DEF OwnerOK, Before
<1> QED
    BY Zenon, <1>4, <1>5, <1>6, <1>7, <1>8

\* RefreshLease failed, and an owner's lease has not ended.
LEMMA RetainedKeeps ==
    ASSUME GlobalInv, [LockNext]_lockVars, NEW n \in Nodes,
           RefreshReturns(n, current_lease[n]), OwnsLease(n, current_lease[n])
    PROVE  OwnerOK(n)'
<1>0. /\ ThreadOK(n) /\ OwnerOK(n) /\ GlobalTypeOK /\ LockTypeOK /\ LockInv
    BY Zenon DEF GlobalInv, GlobalTypeOK
<1>1. owned[n]
  <2> SUFFICES ASSUME ~owned[n] PROVE FALSE
      BY Zenon
  <2>1. now + Skew[n] > current_lease[n].exp
      BY Zenon, <1>0 DEF OwnsLease, ThreadOK
  <2> QED
      BY Zenon, <2>1 DEF OwnsLease, IsExpired, Clock
<1>2. /\ Return(n, current_lease[n]) /\ UNCHANGED <<now, row, writes>>
    BY Zenon DEF RefreshReturns
<1>3. /\ current_lease'[n] = current_lease[n] /\ pc'[n] = "idle" /\ ~applied'[n]
      /\ since'[n] = since[n]
    BY Zenon, <1>0, <1>1, <1>2 DEF Return, RefreshReturns, LockTypeOK, GlobalTypeOK
<1>4. \A l : Known(l)' => Known(l)
    BY Zenon, <1>0, <1>2, KnownBefore DEF Known
<1> QED
    BY Zenon, <1>0, <1>1, <1>2, <1>3, <1>4 DEF OwnerOK, Before

\* RefreshLease returns, with what it read, wrote or had.
LEMMA ReturnsKeep ==
    ASSUME GlobalInv, [LockNext]_lockVars, NEW n \in Nodes, NEW k, RefreshReturns(n, k),
           \/ k = lease_read[n] /\ KeepReadLease(n)
           \/ k = new_lease[n] /\ pc[n] = "write" /\ applied[n]
           \/ k = current_lease[n]
    PROVE  ThreadOK(n)' /\ TimelyOK(n)' /\ OwnerOK(n)'
<1>1. (k = None \/ k \in Leases)
    BY Zenon, NodeNumbers
<1>2. CASE ~OwnsLease(n, k)
    BY Zenon, <1>1, <1>2, NotOwnedKeeps
<1>3. CASE OwnsLease(n, k)
  <2>1. ThreadOK(n)' /\ TimelyOK(n)'
      BY Zenon, <1>1, <1>3, OwnedThreadKeeps DEF OwnsLease
  <2>2. ~(k = lease_read[n] /\ KeepReadLease(n))
    <3>1. ~readOnly[n]
        BY Zenon DEF GlobalInv, ThreadOK
    <3> QED
        BY Zenon, <1>3, <3>1 DEF OwnsLease, KeepReadLease
  <2> QED
      BY Zenon, <1>3, <2>1, <2>2, AcknowledgedKeeps, RetainedKeeps
<1> QED
    BY Zenon, <1>2, <1>3


\* The read is answered: what an owner reads is its own lease or a later one.
LEMMA ReadKeeps ==
    ASSUME GlobalInv, [LockNext]_lockVars, NEW n \in Nodes, ReadAnswered(n)
    PROVE  ThreadOK(n)' /\ TimelyOK(n)' /\ OwnerOK(n)'
<1>0. /\ ThreadOK(n) /\ TimelyOK(n) /\ OwnerOK(n) /\ GlobalTypeOK /\ LockTypeOK /\ LockInv
      /\ ApartInv /\ obtainer[n] = "read"
    BY Zenon DEF GlobalInv, GlobalTypeOK, ReadAnswered
<1>1. CASE RefreshReturns(n, current_lease[n])
    BY Zenon, <1>1, ReturnsKeep
<1>2. CASE /\ ReadLease(n, FALSE) /\ obtainer' = [obtainer EXCEPT ![n] = "refresh"]
           /\ UNCHANGED <<stage, since, obtain, owned, started, checked, forward>>
  <2>1. /\ lease_read'[n] = row /\ readOnly'[n] = FALSE /\ pc'[n] = "check"
        /\ obtainer'[n] = "refresh"
        /\ UNCHANGED <<now, row, new_lease, applied, current_lease, writes>>
      BY Zenon, <1>0, <1>2 DEF ReadLease, GlobalTypeOK, LockTypeOK
  <2>2. ThreadOK(n)'
      BY <1>0, <1>2, <2>1 DEF ThreadOK
  <2>3. TimelyOK(n)'
      BY Zenon, <1>0, <1>2, <2>1 DEF TimelyOK, MutexHeld
  <2>4. \A l : Known(l)' => Known(l)
      BY Zenon, <1>0, <2>1, KnownBefore DEF Known
  <2>5. ASSUME owned[n] PROVE row.owner = n \/ Before(current_lease[n], row)
    <3>1. /\ current_lease[n] # None /\ current_lease[n].owner = n
          /\ current_lease[n] \in Leases
        BY Zenon, <1>0, <2>5 DEF ThreadOK, LockTypeOK
    <3>2. Follows(current_lease[n], row)
        BY Zenon, <1>0, <3>1 DEF ApartInv, Known
    <3> QED
        BY Zenon, <3>1, <3>2 DEF Follows
  <2>6. OwnerOK(n)'
      BY Zenon, <1>0, <1>2, <2>1, <2>4, <2>5 DEF OwnerOK, Before
  <2> QED
      BY Zenon, <2>2, <2>3, <2>6
<1> QED
    BY Zenon, <1>1, <1>2 DEF ReadAnswered

\* RefreshLease goes on. An owner that finds somebody else's lease finds one that has
\* not ended, for it is not late enough.
LEMMA RefreshKeeps ==
    ASSUME GlobalInv, [LockNext]_lockVars, NEW n \in Nodes, Refresh(n)
    PROVE  ThreadOK(n)' /\ TimelyOK(n)' /\ OwnerOK(n)'
<1>0. /\ ThreadOK(n) /\ TimelyOK(n) /\ OwnerOK(n) /\ LockTypeOK /\ LockInv
      /\ obtainer[n] = "refresh"
    BY Zenon DEF GlobalInv, GlobalTypeOK, Refresh
<1>1. CASE CheckLease(n) /\ ~KeepReadLease(n) /\ UNCHANGED instanceVars
  <2>1. /\ pc[n] = "check" /\ pc'[n] = "renew"
        /\ UNCHANGED <<now, row, writes, readOnly, lease_read, new_lease, applied, current_lease>>
        /\ UNCHANGED <<stage, since, obtainer, obtain, owned, started, checked>>
      BY Zenon, <1>0, <1>1 DEF CheckLease, LockTypeOK, instanceVars
  <2>2. ThreadOK(n)'
      BY <1>0, <2>1 DEF ThreadOK
  <2>3. TimelyOK(n)'
      BY Zenon, <1>0, <2>1 DEF TimelyOK, MutexHeld
  <2>4. \A l : Known(l)' => Known(l)
      BY Zenon, <1>0, <2>1, KnownBefore DEF Known
  <2>5. ASSUME owned[n] PROVE lease_read[n].owner = n
    <3> SUFFICES ASSUME lease_read[n].owner # n PROVE FALSE
        BY Zenon
    <3>1. Before(current_lease[n], lease_read[n]) /\ current_lease[n] # None
        BY Zenon, <1>0, <2>1, <2>5 DEF OwnerOK, ThreadOK
    <3>2. now + Skew[n] > lease_read[n].exp
        BY Zenon, <1>1 DEF KeepReadLease, IsExpired, Clock
    <3>3. now + Skew[n] <= current_lease[n].exp + Frequency + DbLimit
        BY Zenon, <2>5, OwnerIsTimely
    <3> QED
        BY <3>1, <3>2, <3>3, NodeNumbers, TimingAssumption DEF Before
  <2>6. OwnerOK(n)'
      BY Zenon, <1>0, <2>1, <2>4, <2>5 DEF OwnerOK, Before
  <2> QED
      BY Zenon, <2>2, <2>3, <2>6
<1>2. CASE WriteLease(n) /\ UNCHANGED instanceVars
  <2>1. /\ pc[n] = "renew" /\ pc'[n] = "write"
        /\ UNCHANGED <<now, row, readOnly, lease_read, applied, current_lease>>
        /\ UNCHANGED <<stage, since, obtainer, obtain, owned, started, checked>>
      BY Zenon, <1>0, <1>2 DEF WriteLease, LockTypeOK, instanceVars
  <2>2. ThreadOK(n)'
      BY <1>0, <2>1 DEF ThreadOK
  <2>3. TimelyOK(n)'
      BY Zenon, <1>0, <2>1 DEF TimelyOK, MutexHeld
  <2>4. \A l : Known(l)' => Known(l)
      BY Zenon, <1>0, <2>1, KnownBefore DEF Known
  <2>5. ~applied[n]
      BY Zenon, <1>0, <2>1 DEF LockInv, NodeOK
  <2>6. ASSUME NEW w \in writes' PROVE w \in writes \/ w.old = lease_read[n]
      BY <1>2, <2>6 DEF WriteLease
  <2>7. OwnerOK(n)'
      BY Zenon, <1>0, <2>1, <2>4, <2>5, <2>6 DEF OwnerOK, Before
  <2> QED
      BY Zenon, <2>2, <2>3, <2>7
<1> QED
    BY Zenon, <1>1, <1>2, ReturnsKeep DEF Refresh

\* The database handles a write. An owner's row that somebody else took does not come
\* back to it.
LEMMA ApplyKeeps ==
    ASSUME GlobalInv, LockInv', ApartInv', NEW w \in writes, ApplyWrite(w),
           UNCHANGED instanceVars, NEW n \in Nodes
    PROVE  ThreadOK(n)' /\ TimelyOK(n)' /\ OwnerOK(n)'
<1>0. /\ ThreadOK(n) /\ TimelyOK(n) /\ OwnerOK(n) /\ LockTypeOK /\ LockInv /\ ApartInv
      /\ [LockNext]_lockVars /\ w \in Writes /\ WriteOK(w, now) /\ w.node \in Nodes
    BY Zenon DEF GlobalInv, GlobalTypeOK, LockNext, LockInv, LockTypeOK, Writes
<1>1. /\ UNCHANGED <<now, pc, readOnly, lease_read, new_lease, current_lease>>
      /\ UNCHANGED <<stage, since, obtainer, obtain, owned, started, checked>>
      /\ writes' \subseteq writes
    BY Zenon DEF ApplyWrite, instanceVars
<1>2. ThreadOK(n)'
    BY Zenon, <1>0, <1>1 DEF ThreadOK
<1>3. TimelyOK(n)'
    BY Zenon, <1>0, <1>1 DEF TimelyOK, MutexHeld
<1>4. OwnerOK(n)'
  <2> SUFFICES ASSUME owned[n], NEW l \in Leases, Known(l)', l.owner # n
               PROVE  /\ row'.owner = n => Before(l, current_lease[n])
                      /\ applied'[n] => Before(l, current_lease[n]) \/ Before(new_lease[n], l)
                      /\ Before(l, current_lease[n]) => l.exp < since[n] + MaxSkew
      BY Zenon, <1>0, <1>1 DEF OwnerOK, Before
  <2>0. /\ current_lease[n] # None /\ current_lease[n].owner = n
        /\ current_lease[n] \in Leases /\ Known(current_lease[n]) /\ Known(current_lease[n])'
        /\ new_lease[n] \in Leases /\ current_lease[n].exp \in Nat /\ Duration \in Nat
      BY Zenon, <1>0, <1>1, NodeNumbers DEF ThreadOK, LockTypeOK, Known
  <2>1. CASE row' = row /\ applied' = applied
    <3>1. Known(l)
        BY Zenon, <1>0, <2>1, KnownBefore DEF Known
    <3> QED
        BY Zenon, <1>0, <2>1, <3>1 DEF OwnerOK
  <2>2. CASE row = w.old /\ row' = w.new /\ w.node = n
    <3>1. row'.owner = n /\ Known(l)
        BY Zenon, <1>0, <2>2, KnownBefore DEF WriteOK
    <3>2. row.owner = n
      <4> SUFFICES ASSUME row.owner # n PROVE FALSE
          BY Zenon
      <4>1. Before(row, current_lease[n])
          BY Zenon, <1>0, <2>2 DEF OwnerOK
      <4>2. Before(current_lease[n], row)
          BY Zenon, <1>0, <2>0 DEF ApartInv, Follows
      <4>3. row.exp \in Nat
          BY <1>0 DEF LockTypeOK, Leases
      <4>4. /\ row.exp + Duration < current_lease[n].exp
            /\ current_lease[n].exp + Duration < row.exp
          BY Zenon, <4>1, <4>2 DEF Before
      <4>5. current_lease[n].exp \in Nat /\ Duration \in Nat
          BY Zenon, <2>0
      <4> QED
          BY <4>3, <4>4, <4>5
    <3> QED
        BY Zenon, <1>0, <3>1, <3>2 DEF OwnerOK
  <2>3. CASE row = w.old /\ row' = w.new /\ w.node # n
    <3>1. row'.owner # n /\ applied'[n] = applied[n] /\ row' \in Leases
        BY Zenon, <1>0, <2>3 DEF WriteOK, ApplyWrite, LockTypeOK, LockInv
    <3>2. CASE l # row'
      <4>1. Known(l)
          BY Zenon, <1>0, <3>2, KnownBefore
      <4> QED
          BY Zenon, <1>0, <3>1, <4>1 DEF OwnerOK
    <3>3. CASE l = row'
      <4>0. \A x \in Leases : Known(x)' /\ x.owner # row'.owner => Before(x, row')
          BY Zenon DEF ApartInv, Follows, Before
      <4>1. Before(current_lease[n], l)
        <5>1. PICK c \in Leases : c = current_lease[n]
            BY Zenon, <2>0
        <5>2. Known(c)'
            BY Zenon, <1>1, <2>0, <5>1 DEF Known
        <5> QED
            BY Zenon, <2>0, <3>1, <3>3, <4>0, <5>1, <5>2
      <4>2. l.exp \in Nat
          BY DEF Leases
      <4>3. ~Before(l, current_lease[n])
          BY <2>0, <4>1, <4>2 DEF Before
      <4>4. applied[n] => Before(new_lease[n], l)
        <5> SUFFICES ASSUME applied[n] PROVE Before(new_lease[n], l)
            BY Zenon
        <5>1. PICK c \in Leases : c = new_lease[n]
            BY Zenon, <2>0
        <5>2. Known(c)' /\ c.owner = n
            BY Zenon, <1>0, <1>1, <3>1, <5>1 DEF Known, LockInv, NodeOK, ApartInv, WriteFollows
        <5> QED
            BY Zenon, <3>1, <3>3, <4>0, <5>1, <5>2
      <4> QED
          BY Zenon, <3>1, <4>3, <4>4
    <3> QED
        BY Zenon, <3>2, <3>3
  <2> QED
      BY Zenon, <2>1, <2>2, <2>3 DEF ApplyWrite
<1> QED
    BY Zenon, <1>2, <1>3, <1>4


\* Time passes.
LEMMA TickKeeps ==
    ASSUME GlobalInv, GlobalTick, NEW n \in Nodes
    PROVE  ThreadOK(n)' /\ TimelyOK(n)' /\ OwnerOK(n)'
<1>0. /\ ThreadOK(n) /\ TimelyOK(n) /\ OwnerOK(n) /\ LockInv /\ [LockNext]_lockVars
    BY Zenon DEF GlobalInv, GlobalTick, LockNext
<1>1. /\ now' = now + 1
      /\ UNCHANGED <<pc, readOnly, lease_read, new_lease, applied, current_lease, writes, row>>
      /\ UNCHANGED <<stage, since, obtainer, obtain, owned, started, checked>>
    BY Zenon DEF GlobalTick, LockTick, leaseRowVars, instanceVars
<1>2. ThreadOK(n)'
  <2>1. /\ since[n] <= now + 1 /\ checked[n] <= now + 1
        /\ stage[n] = "serve" => since[n] + 2 * Duration <= now + 1
      BY <1>0, NodeNumbers DEF ThreadOK
  <2>2. ASSUME current_lease[n] # None, now + Skew[n] > current_lease[n].exp
        PROVE  now + 1 + Skew[n] > current_lease[n].exp
      BY <2>2, NodeNumbers
  <2> QED
      BY Zenon, <1>0, <1>1, <2>1, <2>2 DEF ThreadOK
<1>3. TimelyOK(n)'
  <2> SUFFICES ASSUME owned[n]
               PROVE  /\ obtainer[n] = "idle" =>
                           /\ now + 1 + Skew[n] <= current_lease[n].exp + Frequency
                           /\ ~obtain[n] => checked[n] + Skew[n] <= current_lease[n].exp
                      /\ MutexHeld(n) =>
                           /\ now + 1 <= started[n] + DbLimit
                           /\ started[n] + Skew[n] <= current_lease[n].exp + Frequency
      BY Zenon, <1>1 DEF TimelyOK, MutexHeld
  <2>1. stage[n] # "down" /\ current_lease[n] # None
      BY <1>0 DEF ThreadOK
  <2>2. /\ ~(obtainer[n] = "idle" /\ obtain[n])
        /\ MutexHeld(n) => now - started[n] < DbLimit
        /\ ~MutexHeld(n) => now - checked[n] < Frequency
    <3>1. /\ ~(obtainer[n] = "idle" /\ obtain[n])
          /\ MutexHeld(n) => now - started[n] < DbLimit
          /\ ~MutexHeld(n) => ~(now - checked[n] >= Frequency)
        BY Zenon, <2>1 DEF GlobalTick, EnforcerDue
    <3>2. now \in Nat /\ checked[n] \in Nat /\ Frequency \in Nat
        BY Zenon, NodeNumbers
    <3>3. ~(now - checked[n] >= Frequency) => now - checked[n] < Frequency
        BY <3>2
    <3> QED
        BY Zenon, <3>1, <3>3
  <2>3. CASE obtainer[n] = "idle"
      BY <1>0, <2>1, <2>2, <2>3, NodeNumbers DEF TimelyOK, MutexHeld
  <2>4. CASE MutexHeld(n)
      BY <1>0, <2>1, <2>2, <2>4, NodeNumbers DEF TimelyOK, MutexHeld
  <2> QED
      BY Zenon, <2>3, <2>4
<1>4. \A l : Known(l)' => Known(l)
    BY Zenon, <1>1 DEF Known
<1>5. OwnerOK(n)'
    BY Zenon, <1>0, <1>1, <1>4 DEF OwnerOK, Before
<1> QED
    BY Zenon, <1>2, <1>3, <1>5

\* Every step of the specification keeps the invariant.
LEMMA NextGlobalInv == GlobalInv /\ [GlobalNext]_globalVars => GlobalInv'
<1> SUFFICES ASSUME GlobalInv, [GlobalNext]_globalVars PROVE GlobalInv'
    BY Zenon
<1>1. [LockNext]_lockVars
    BY Zenon, GlobalStepIsLockStep
<1>2. LockInv'
    BY Zenon, <1>1, NextLockInv DEF GlobalInv
<1>3. ApartInv'
    BY Zenon, <1>1, <1>2, NextApart DEF GlobalInv
<1>4. GlobalTypeOK'
    BY Zenon, <1>2, NextGlobalType
<1>5. ASSUME NEW n \in Nodes PROVE ThreadOK(n)' /\ TimelyOK(n)' /\ OwnerOK(n)'
  <2>1. ASSUME NEW m \in Nodes, InstanceStep(m), m # n
        PROVE  ThreadOK(n)' /\ TimelyOK(n)' /\ OwnerOK(n)'
    <3>1. /\ now' = now /\ row' = row /\ SameNode(n)
          /\ \A w \in writes' : w \in writes \/ w.node # n
        BY Zenon, <2>1, StepOfOther
    <3> QED
        BY Zenon, <1>1, <3>1, SameNodeKeeps
  <2>2. CASE InstanceStep(n)
      BY Zenon, <1>1, <2>2, AbortKeeps, MainKeeps, ObtainKeeps, ReadKeeps, RefreshKeeps,
         ForwardingKeeps, EnforceKeeps DEF InstanceStep, Crash
  <2>3. ASSUME NEW w \in writes, ApplyWrite(w), UNCHANGED instanceVars
        PROVE  ThreadOK(n)' /\ TimelyOK(n)' /\ OwnerOK(n)'
      BY Zenon, <1>2, <1>3, <2>3, ApplyKeeps
  <2>4. CASE (SetDisallowed /\ UNCHANGED instanceVars) \/ UNCHANGED globalVars
    <3>1. /\ now' = now /\ row' = row /\ writes' = writes
          /\ UNCHANGED <<pc, readOnly, lease_read, new_lease, applied, current_lease>>
          /\ UNCHANGED <<stage, since, obtainer, obtain, owned, started, checked>>
        BY Zenon, <2>4 DEF SetDisallowed, instanceVars, globalVars, lockVars
    <3>2. SameNode(n)
        BY Zenon, <3>1 DEF SameNode
    <3> QED
        BY Zenon, <1>1, <3>1, <3>2, SameNodeKeeps
  <2> QED
      BY Zenon, <2>1, <2>2, <2>3, <2>4, TickKeeps DEF GlobalNext
<1> QED
    BY Zenon, <1>2, <1>3, <1>4, <1>5 DEF GlobalInv

\* GlobalInv holds in every reachable state.
THEOREM GlobalInvariance == GlobalSpec => []GlobalInv
BY InitGlobalInv, NextGlobalInv, PTL DEF GlobalSpec

\* Two instances never serve together, for any number of instances, any lease
\* duration, any skew, and any writes that arrive late, as long as the database and
\* the clocks keep within TimingAssumption: the wait in PBSInstance::Run outlasts
\* every earlier owner.
THEOREM OneInstanceServes == GlobalSpec => []OneServer
<1>1. GlobalInv => OneServer
  <2> SUFFICES ASSUME GlobalInv, NEW n \in Nodes, NEW m \in Nodes, n # m,
                      stage[n] = "serve", stage[m] = "serve"
               PROVE  FALSE
      BY Zenon DEF OneServer
  <2>1. /\ owned[n] /\ owned[m] /\ current_lease[n] # None /\ current_lease[m] # None
        /\ current_lease[n].owner = n /\ current_lease[m].owner = m
        /\ since[n] + 2 * Duration <= now /\ since[m] + 2 * Duration <= now
        /\ OwnerOK(n) /\ OwnerOK(m)
      BY DEF GlobalInv, ThreadOK
  <2>2. Known(current_lease[n]) /\ Known(current_lease[m])
      BY Zenon, <2>1 DEF Known
  <2>3. ASSUME NEW a \in Nodes, NEW b \in Nodes, a # b, owned[a], owned[b], OwnerOK(b),
               current_lease[a] # None, current_lease[a].owner = a, Known(current_lease[a]),
               since[b] + 2 * Duration <= now, Before(current_lease[a], current_lease[b])
        PROVE  FALSE
    <3>1. current_lease[a].exp < since[b] + MaxSkew
        BY Zenon, <2>3, NodeNumbers DEF OwnerOK
    <3>2. now + Skew[a] <= current_lease[a].exp + Frequency + DbLimit
        BY Zenon, <2>3, OwnerIsTimely
    <3> QED
        BY <2>3, <3>1, <3>2, NodeNumbers, TimingAssumption
  <2>4. Before(current_lease[n], current_lease[m]) \/ Before(current_lease[m], current_lease[n])
      BY Zenon, <2>1, <2>2, NodeNumbers DEF GlobalInv, ApartInv
  <2> QED
      BY Zenon, <2>1, <2>2, <2>3, <2>4
<1> QED
    BY <1>1, GlobalInvariance, PTL

\* Whatever the instances do, the lock only takes the steps of LeasableLock: all that
\* is proved of LockSpec holds of the locks of running instances.
THEOREM GlobalImplementsLock == GlobalSpec => LockSpec
<1>1. GlobalInit => LockInit
    BY Zenon DEF GlobalInit
<1>2. GlobalInv /\ [GlobalNext]_globalVars => [LockNext]_lockVars
    BY Zenon, GlobalStepIsLockStep
<1> QED
    BY <1>1, <1>2, GlobalInvariance, PTL DEF GlobalSpec, LockSpec

-----------------------------------------------------------------------------
(* PartitionLease. Without the faults of LeaseFaults, a node hosts a        *)
(* partition only while it owns its lease, and no change of ownership goes  *)
(* unreported. HostedOnlyByOwner speaks of the time between rounds.         *)
(* LeaseInv extends it to every step of a round, and says why the refresher *)
(* may trust its memory: outside of the question who owns the lease, it     *)
(* agrees with the lock (OwnershipOK); the mode is only changed from        *)
(* Release by the task that has unloaded the partition (ModeOK, ReleaseOK); *)
(* and a task of the sink is only under way while the lease is owned or its *)
(* end is waited for (TaskOK).                                              *)

\* A decision is applied to the mode it was taken for, so that the mode leaves
\* Release only when the partition is unloaded.
ModeOK ==
    /\ decision = "Hold" => mode = "NoIntention"
    /\ decision \in {"Release", "NoIntention"} => mode = "Hold"
    /\ prevMode = "Release" => mode = "NoIntention"
    /\ "Release" \in {mode, prevMode, decision} => lease.owner # "none"
    /\ round = "cancelRelease" => mode = "Release"

\* What the refresher remembers of its ownership and what the lock says.
OwnershipOK ==
    /\ round # "notify" /\ IsCurrentLeaseOwner => wasOwner
    /\ round # "notify" /\ wasOwner => lease.owner = "me"
    /\ round = "skip" => lease.left > 0
    /\ round \in {"cancelLost", "unload"} => ~wasOwner
    /\ round = "cancelRelease" => wasOwner
    /\ wasOwner <=> last \in {"Acquired", "Renewed", "RenewedWithIntentionToRelease"}

\* After a release the partition is gone, and the lease does not come back while
\* nobody wants it.
ReleaseOK ==
    prevMode = "Release" =>
        IF wasOwner THEN partition = "absent" /\ TaskDone ELSE ~IsCurrentLeaseOwner

TaskOK ==
    /\ ~TaskDone /\ round # "cancelLost" => wasOwner
    /\ round = "unload" => TaskDone
    /\ sinkTask.state = "Unloaded" => partition = "absent"

HostingOK == ~wasOwner /\ round \notin {"cancelLost", "unload"} => ~Hosted

LeaseInv ==
    /\ LeaseTypeOK
    /\ ModeOK
    /\ OwnershipOK
    /\ ReleaseOK
    /\ TaskOK
    /\ HostingOK

\* A new process has no lease, no task and no partition.
LEMMA NewProcess == LeaseInit => LeaseInv
<1> SUFFICES ASSUME LeaseInit PROVE LeaseInv
    BY Zenon
<1>1. LeaseTypeOK
    <2>1. /\ lease \in [owner : {"none", "me", "other"}, left : 0..LeaseDuration]
          /\ elapsed \in 0..(LeaseDuration + 1)
        BY LeaseAssumption DEF LeaseInit
    <2>2. sinkTask \in [type : {"none", "Load", "Unload"},
                       state : {"NotStarted", "Executing", "Unloaded", "Completed"}]
        BY Zenon DEF LeaseInit, NoTask
    <2> QED
        BY Zenon, <2>1, <2>2 DEF LeaseInit, LeaseTypeOK, Modes
<1>2. ModeOK /\ OwnershipOK
    BY Zenon DEF LeaseInit, ModeOK, OwnershipOK, IsCurrentLeaseOwner
<1>3. ReleaseOK /\ TaskOK /\ HostingOK
    BY Zenon DEF LeaseInit, ReleaseOK, TaskOK, HostingOK, Hosted, TaskDone, NoTask
<1> QED
    BY Zenon, <1>1, <1>2, <1>3 DEF LeaseInv

\* A process that aborts is replaced by a new one.
LEMMA AbortStartsOver == AbortProcess => LeaseInv'
<1> SUFFICES ASSUME AbortProcess PROVE LeaseInv'
    BY Zenon
<1>1. LeaseTypeOK'
    <2>1. /\ lease' \in [owner : {"none", "me", "other"}, left : 0..LeaseDuration]
          /\ elapsed' \in 0..(LeaseDuration + 1)
        BY LeaseAssumption DEF AbortProcess
    <2>2. sinkTask' \in [type : {"none", "Load", "Unload"},
                       state : {"NotStarted", "Executing", "Unloaded", "Completed"}]
        BY Zenon DEF AbortProcess, NoTask
    <2> QED
        BY Zenon, <2>1, <2>2 DEF AbortProcess, LeaseTypeOK, Modes
<1>2. ModeOK' /\ OwnershipOK'
    BY Zenon DEF AbortProcess, ModeOK, OwnershipOK, IsCurrentLeaseOwner
<1>3. ReleaseOK' /\ TaskOK' /\ HostingOK'
    BY Zenon DEF AbortProcess, ReleaseOK, TaskOK, HostingOK, Hosted, TaskDone, NoTask
<1> QED
    BY Zenon, <1>1, <1>2, <1>3 DEF LeaseInv

\* Time only takes ownership away, and does not pass while a round that needs no
\* refresh asks who owns the lease.
LEMMA TickKeepsInv == ASSUME Faults = {}, LeaseInv, LeaseTick PROVE LeaseInv'
<1>1. /\ lease'.owner = lease.owner
      /\ lease' \in [owner : {"none", "me", "other"}, left : 0..LeaseDuration]
      /\ lease'.left > 0 => lease.left > 0
    BY LeaseAssumption DEF LeaseTick, LeaseInv, LeaseTypeOK
<1>2. elapsed' \in 0..(LeaseDuration + 1) /\ round # "skip"
    BY LeaseAssumption DEF LeaseTick, LeaseInv, LeaseTypeOK
<1>3. UNCHANGED <<mode, prevMode, wasOwner, last, round, decision, sinkTask, partition>>
    BY Zenon DEF LeaseTick
<1> QED
    BY <1>1, <1>2, <1>3 DEF LeaseInv, LeaseTypeOK, ModeOK, OwnershipOK, ReleaseOK, TaskOK,
       HostingOK, Hosted, TaskDone, IsCurrentLeaseOwner

\* What a refresh leaves in current_lease_: after a release it is not ours.
LEMMA RefreshType ==
    ASSUME Faults = {}, LeaseInv, RefreshLease
    PROVE  /\ lease' \in [owner : {"none", "me", "other"}, left : 0..LeaseDuration]
           /\ lease.owner # "none" => lease'.owner # "none"
           /\ prevMode = "Release" /\ ~wasOwner => ~(lease'.owner = "me" /\ lease'.left > 0)
<1>1. lease' = lease \/ lease' \in RefreshedLeases
    BY Zenon DEF RefreshLease
<1>2. CASE lease' = lease
    BY Zenon, <1>2 DEF LeaseInv, LeaseTypeOK, ModeOK, OwnershipOK, ReleaseOK, TaskOK,
       HostingOK, Hosted, TaskDone, IsCurrentLeaseOwner
<1>3. CASE lease' \in RefreshedLeases
    <2>1. CASE IsCurrentLeaseOwner
        BY <1>3, <2>1, LeaseAssumption DEF LeaseInv, LeaseTypeOK, ModeOK, OwnershipOK, ReleaseOK, TaskOK,
       HostingOK, Hosted, TaskDone, IsCurrentLeaseOwner, RefreshedLeases, Lease
    <2>2. CASE ~IsCurrentLeaseOwner
        BY <1>3, <2>2, LeaseAssumption DEF LeaseInv, LeaseTypeOK, ModeOK, OwnershipOK, ReleaseOK, TaskOK,
       HostingOK, Hosted, TaskDone, IsCurrentLeaseOwner, RefreshedLeases, Lease
    <2> QED
        BY Zenon, <2>1, <2>2
<1> QED
    BY Zenon, <1>1, <1>2, <1>3

\* What each transition says of the refresher's memory and of the lock.
LEMMA TransitionCases ==
    /\ Transition = "NotAcquired" => ~wasOwner /\ ~IsCurrentLeaseOwner
    /\ Transition = "Acquired" => ~wasOwner /\ IsCurrentLeaseOwner
    /\ Transition = "Lost" => wasOwner /\ ~IsCurrentLeaseOwner /\ prevMode # "Release"
    /\ Transition = "Released" => wasOwner /\ ~IsCurrentLeaseOwner /\ prevMode = "Release"
    /\ Transition \in {"Renewed", "RenewedWithIntentionToRelease"}
         => wasOwner /\ IsCurrentLeaseOwner
    /\ Transition = "RenewedWithIntentionToRelease" => mode = "Release"
BY Zenon DEF Transition

\* The refresher's round.
LEMMA RoundKeepsInv == ASSUME Faults = {}, LeaseInv, RoundStep PROVE LeaseInv'
<1>1. CASE StartRound
    BY <1>1, LeaseAssumption DEF StartRound, ShouldRefreshLease,
       LeaseInv, LeaseTypeOK, ModeOK, OwnershipOK, ReleaseOK, TaskOK,
       HostingOK, Hosted, TaskDone, IsCurrentLeaseOwner
<1>2. CASE RefreshLease
    BY <1>2, RefreshType DEF RefreshLease,
       LeaseInv, LeaseTypeOK, ModeOK, OwnershipOK, ReleaseOK, TaskOK,
       HostingOK, Hosted, TaskDone, IsCurrentLeaseOwner
<1>3. CASE SkipNotification
    BY <1>3, LeaseAssumption DEF SkipNotification, EndRound,
       LeaseInv, LeaseTypeOK, ModeOK, OwnershipOK, ReleaseOK, TaskOK,
       HostingOK, Hosted, TaskDone, IsCurrentLeaseOwner
<1>4. CASE OnLeaseNotAcquired
    BY <1>4, TransitionCases, LeaseAssumption, AbortStartsOver DEF OnLeaseNotAcquired, Notifies, Remember, EndRound, Transitions,
       LeaseInv, LeaseTypeOK, ModeOK, OwnershipOK, ReleaseOK, TaskOK,
       HostingOK, Hosted, TaskDone, IsCurrentLeaseOwner
<1>5. CASE OnLeaseAcquired
    <2>1. CASE AbortProcess
        BY Zenon, <2>1, AbortStartsOver
    <2>2. CASE ~AbortProcess
        <3>1. /\ TaskDone /\ partition \notin {"loading", "unloading"}
              /\ partition' = "absent"
              /\ sinkTask' = [type |-> "Load", state |-> "NotStarted"]
              /\ wasOwner' = IsCurrentLeaseOwner /\ last' = "Acquired"
              /\ UNCHANGED <<lease, mode, prevMode, decision>>
              /\ round' = "sleep" /\ elapsed' = 0
            BY Zenon, <1>5, <2>2 DEF OnLeaseAcquired, Remember, EndRound, NewTask
        <3>2. ~wasOwner /\ IsCurrentLeaseOwner /\ wasOwner'
            BY Zenon, <1>5, <3>1, TransitionCases DEF OnLeaseAcquired, Notifies
        <3>3. LeaseTypeOK'
            BY <3>1, LeaseAssumption DEF LeaseInv, LeaseTypeOK, Transitions, IsCurrentLeaseOwner
        <3>4. ModeOK' /\ OwnershipOK'
            BY Zenon, <3>1, <3>2 DEF LeaseInv, ModeOK, OwnershipOK, IsCurrentLeaseOwner
        <3>5. ReleaseOK' /\ TaskOK' /\ HostingOK'
            BY Zenon, <3>1, <3>2 DEF LeaseInv, ReleaseOK, TaskOK, HostingOK, TaskDone
        <3> QED
            BY Zenon, <3>3, <3>4, <3>5 DEF LeaseInv
    <2> QED
        BY Zenon, <2>1, <2>2
<1>6. CASE OnLeaseLost
    <2>1. CASE AbortProcess
        BY Zenon, <2>1, AbortStartsOver
    <2>2. CASE ~AbortProcess
        <3>1. /\ Notifies("Lost") /\ sinkTask.state \notin {"Executing", "Unloaded"}
              /\ Remember("Lost") /\ round' = "cancelLost"
              /\ UNCHANGED <<elapsed, sinkTask, partition>>
            BY Zenon, <1>6, <2>2 DEF OnLeaseLost
        <3>2. LeaseTypeOK'
            BY Zenon, <3>1, LeaseAssumption DEF Notifies, Remember, LeaseInv, LeaseTypeOK, Transitions,
               IsCurrentLeaseOwner
        <3>3. ModeOK' /\ OwnershipOK'
            BY Zenon, <3>1, TransitionCases DEF Notifies, Remember, LeaseInv, ModeOK, OwnershipOK,
               IsCurrentLeaseOwner
        <3>4. ReleaseOK' /\ TaskOK' /\ HostingOK'
            BY Zenon, <3>1, TransitionCases DEF Notifies, Remember, LeaseInv, ReleaseOK, TaskOK, HostingOK,
               Hosted, TaskDone, IsCurrentLeaseOwner
        <3> QED
            BY Zenon, <3>2, <3>3, <3>4 DEF LeaseInv
    <2> QED
        BY Zenon, <2>1, <2>2
<1>7. CASE OnLeaseRenewed
    <2>1. /\ Transition \in {"Renewed", "RenewedWithIntentionToRelease"}
          /\ wasOwner' = IsCurrentLeaseOwner /\ last' = Transition
          /\ UNCHANGED <<lease, mode, prevMode, decision, sinkTask, partition>>
          /\ \/ round' = "sleep" /\ elapsed' = 0
             \/ /\ round' = "cancelRelease" /\ UNCHANGED elapsed
                /\ Transition = "RenewedWithIntentionToRelease"
        BY Zenon, <1>7 DEF OnLeaseRenewed, Notifies, Remember, EndRound
    <2>2. wasOwner /\ IsCurrentLeaseOwner /\ (round' = "cancelRelease" => mode = "Release")
        BY Zenon, <2>1, TransitionCases
    <2>3. LeaseTypeOK'
        BY <2>1, LeaseAssumption DEF LeaseInv, LeaseTypeOK, Transitions, IsCurrentLeaseOwner
    <2>4. ModeOK' /\ OwnershipOK'
        BY Zenon, <2>1, <2>2 DEF LeaseInv, ModeOK, OwnershipOK, IsCurrentLeaseOwner
    <2>5. ReleaseOK' /\ TaskOK' /\ HostingOK'
        BY Zenon, <2>1, <2>2 DEF LeaseInv, ReleaseOK, TaskOK, HostingOK, TaskDone
    <2> QED
        BY Zenon, <2>3, <2>4, <2>5 DEF LeaseInv
<1>8. CASE OnLeaseReleased
    <2>1. /\ wasOwner /\ ~IsCurrentLeaseOwner /\ prevMode = "Release" /\ round = "notify"
          /\ wasOwner' = IsCurrentLeaseOwner /\ last' = "Released"
          /\ UNCHANGED <<lease, mode, prevMode, decision, sinkTask, partition>>
          /\ round' = "sleep" /\ elapsed' = 0
        BY Zenon, <1>8, TransitionCases DEF OnLeaseReleased, Notifies, Remember, EndRound
    <2>2. partition = "absent" /\ TaskDone
        BY Zenon, <2>1 DEF LeaseInv, ReleaseOK
    <2>3. LeaseTypeOK'
        BY <2>1, LeaseAssumption DEF LeaseInv, LeaseTypeOK, Transitions, IsCurrentLeaseOwner
    <2>4. ModeOK' /\ OwnershipOK'
        BY Zenon, <2>1 DEF LeaseInv, ModeOK, OwnershipOK, IsCurrentLeaseOwner
    <2>5. ReleaseOK' /\ TaskOK' /\ HostingOK'
        BY Zenon, <2>1, <2>2 DEF LeaseInv, ReleaseOK, TaskOK, HostingOK, Hosted, TaskDone,
           IsCurrentLeaseOwner
    <2> QED
        BY Zenon, <2>3, <2>4, <2>5 DEF LeaseInv
<1>9. CASE CancelTask
    <2>1. /\ sinkTask.state \in {"NotStarted", "Completed"}
          /\ UNCHANGED <<lease, mode, prevMode, wasOwner, last, decision, partition>>
        BY Zenon, <1>9 DEF CancelTask
    <2>2. CASE /\ round = "cancelLost" /\ round' = "unload"
               /\ sinkTask' = [type |-> "none", state |-> "Completed"] /\ UNCHANGED elapsed
        BY <2>1, <2>2 DEF LeaseInv, LeaseTypeOK, ModeOK, OwnershipOK, ReleaseOK, TaskOK,
           HostingOK, TaskDone, IsCurrentLeaseOwner
    <2>3. CASE /\ round = "cancelRelease" /\ round' = "sleep" /\ elapsed' = 0
               /\ sinkTask' = [type |-> "Unload", state |-> "NotStarted"]
        BY <2>1, <2>3, LeaseAssumption DEF LeaseInv, LeaseTypeOK, ModeOK, OwnershipOK,
           ReleaseOK, TaskOK, HostingOK, TaskDone, IsCurrentLeaseOwner
    <2> QED
        BY Zenon, <1>9, <2>2, <2>3 DEF CancelTask, EndRound, NewTask, NoTask
<1>10. CASE UnloadLost
    <2>1. CASE AbortProcess
        BY Zenon, <2>1, AbortStartsOver
    <2>2. CASE ~AbortProcess
        <3>1. /\ round = "unload" /\ partition' \in {"unloading", "absent"}
              /\ UNCHANGED <<lease, mode, prevMode, wasOwner, last, decision, sinkTask>>
              /\ \/ UNCHANGED <<round, elapsed>>
                 \/ round' = "sleep" /\ elapsed' = 0 /\ partition' = "absent"
              /\ partition = "absent" => partition' = "absent"
            BY <1>10, <2>2 DEF UnloadLost, EndRound
        <3>2. LeaseTypeOK'
            BY <3>1, LeaseAssumption DEF LeaseInv, LeaseTypeOK
        <3>3. ModeOK' /\ OwnershipOK'
            BY Zenon, <3>1 DEF LeaseInv, ModeOK, OwnershipOK, IsCurrentLeaseOwner
        <3>4. TaskDone /\ ~wasOwner
            BY Zenon, <3>1 DEF LeaseInv, TaskOK, OwnershipOK
        <3>5. /\ TaskDone' /\ wasOwner' = wasOwner /\ prevMode' = prevMode
              /\ IsCurrentLeaseOwner' = IsCurrentLeaseOwner
            BY Zenon, <3>1, <3>4 DEF TaskDone, IsCurrentLeaseOwner
        <3>6. ReleaseOK'
            BY Zenon, <3>4, <3>5 DEF LeaseInv, ReleaseOK
        <3>7. TaskOK'
            <4>1. sinkTask'.state # "Unloaded"
                BY <3>1, <3>4 DEF TaskDone
            <4> QED
                BY Zenon, <3>5, <4>1 DEF TaskOK
        <3>8. HostingOK'
            <4>1. round' = "unload" \/ partition' = "absent"
                BY Zenon, <3>1
            <4> QED
                BY <3>5, <4>1 DEF HostingOK, Hosted
        <3> QED
            BY Zenon, <3>2, <3>3, <3>6, <3>7, <3>8 DEF LeaseInv
    <2> QED
        BY Zenon, <2>1, <2>2
<1> QED
    BY Zenon, <1>1, <1>2, <1>3, <1>4, <1>5, <1>6, <1>7, <1>8, <1>9, <1>10 DEF RoundStep

\* The sink's task.
LEMMA TaskKeepsInv == ASSUME LeaseInv, TaskStep PROVE LeaseInv'
<1>1. CASE StartTask
    BY <1>1 DEF StartTask, refresherVars, LeaseInv, LeaseTypeOK, ModeOK, OwnershipOK, ReleaseOK, TaskOK,
       HostingOK, Hosted, TaskDone, IsCurrentLeaseOwner
<1>2. CASE LoadPartition
    BY <1>2, AbortStartsOver DEF LoadPartition, refresherVars, LeaseInv, LeaseTypeOK, ModeOK, OwnershipOK, ReleaseOK, TaskOK,
       HostingOK, Hosted, TaskDone, IsCurrentLeaseOwner
<1>3. CASE UnloadPartition
    BY <1>3, AbortStartsOver DEF UnloadPartition, refresherVars, LeaseInv, LeaseTypeOK, ModeOK, OwnershipOK, ReleaseOK, TaskOK,
       HostingOK, Hosted, TaskDone, IsCurrentLeaseOwner
<1>4. CASE SafeToReleaseLease
    BY <1>4 DEF SafeToReleaseLease, SetLeaseRefreshMode, Modes, LeaseInv, LeaseTypeOK, ModeOK, OwnershipOK, ReleaseOK, TaskOK,
       HostingOK, Hosted, TaskDone, IsCurrentLeaseOwner
<1> QED
    BY Zenon, <1>1, <1>2, <1>3, <1>4 DEF TaskStep

\* The manager's decisions.
LEMMA ManagerKeepsInv == ASSUME LeaseInv, ManagerStep PROVE LeaseInv'
<1>1. CASE TryHoldMoreLeases
    BY <1>1 DEF TryHoldMoreLeases, Decide, refresherVars, Modes, LeaseInv, LeaseTypeOK, ModeOK, OwnershipOK, ReleaseOK, TaskOK,
       HostingOK, Hosted, TaskDone, IsCurrentLeaseOwner
<1>2. CASE TryReleaseSomeLeases
    BY <1>2 DEF TryReleaseSomeLeases, Decide, refresherVars, Modes, LeaseInv, LeaseTypeOK, ModeOK, OwnershipOK, ReleaseOK, TaskOK,
       HostingOK, Hosted, TaskDone, IsCurrentLeaseOwner
<1>3. CASE RevertTheIntentionToHoldLease
    BY <1>3 DEF RevertTheIntentionToHoldLease, Decide, refresherVars, Modes, LeaseInv, LeaseTypeOK, ModeOK, OwnershipOK, ReleaseOK, TaskOK,
       HostingOK, Hosted, TaskDone, IsCurrentLeaseOwner
<1>4. CASE ApplyDecision
    BY <1>4 DEF ApplyDecision, SetLeaseRefreshMode, Modes, LeaseInv, LeaseTypeOK, ModeOK, OwnershipOK, ReleaseOK, TaskOK,
       HostingOK, Hosted, TaskDone, IsCurrentLeaseOwner
<1> QED
    BY Zenon, <1>1, <1>2, <1>3, <1>4 DEF ManagerStep

\* LeaseInv is inductive.
LEMMA LeaseInvStep == ASSUME Faults = {}, LeaseInv, [LeaseNext]_leaseVars PROVE LeaseInv'
<1>1. CASE UNCHANGED leaseVars
    BY <1>1 DEF leaseVars, LeaseInv, LeaseTypeOK, ModeOK, OwnershipOK, ReleaseOK, TaskOK,
       HostingOK, Hosted, TaskDone, IsCurrentLeaseOwner
<1>2. CASE EnforceLiveness
    BY Zenon, <1>2, AbortStartsOver DEF EnforceLiveness
<1> QED
    BY Zenon, <1>1, <1>2, TickKeepsInv, RoundKeepsInv, TaskKeepsInv, ManagerKeepsInv DEF LeaseNext

\* Every reachable state satisfies the invariant.
THEOREM LeaseInvariance == ASSUME Faults = {} PROVE LeaseSpec => []LeaseInv
<1>1. LeaseInv /\ [LeaseNext]_leaseVars => LeaseInv'
    BY Zenon, LeaseInvStep
<1> QED
    BY <1>1, NewProcess, PTL DEF LeaseSpec

\* Modes, transitions, tasks and times stay within their types.
THEOREM LeaseTypeCorrectness == ASSUME Faults = {} PROVE LeaseSpec => []LeaseTypeOK
<1>1. LeaseInv => LeaseTypeOK
    BY Zenon DEF LeaseInv
<1> QED
    BY <1>1, LeaseInvariance, PTL

\* Between rounds, a node whose refresher does not own the lease hosts nothing of
\* the partition and is not about to load it (PartitionLeaseEventSink).
THEOREM OnlyOwnerHosts == ASSUME Faults = {} PROVE LeaseSpec => []HostedOnlyByOwner
<1>1. LeaseInv => HostedOnlyByOwner
    BY Zenon DEF LeaseInv, HostingOK, HostedOnlyByOwner
<1> QED
    BY <1>1, LeaseInvariance, PTL

\* An acquisition is reported only after the sink was told that the lease was not
\* the node's (LeaseRefresher::PerformLeaseRefresh).
THEOREM TransitionsAreReported == ASSUME Faults = {} PROVE LeaseSpec => NoMissedTransition
<1>1. LeaseInv /\ [LeaseNext]_leaseVars
        => [last' = "Acquired" /\ last # "Acquired"
              => last \in {"none", "NotAcquired", "Lost", "Released"}]_leaseVars
    <2> SUFFICES ASSUME LeaseInv, LeaseNext, last' = "Acquired", last # "Acquired"
                 PROVE  last \in {"none", "NotAcquired", "Lost", "Released"}
        BY Zenon DEF leaseVars
    <2>1. OnLeaseAcquired \/ (Notifies("Acquired") /\ Remember("Acquired"))
        BY Zenon DEF LeaseNext, LeaseTick, RoundStep, StartRound, RefreshLease, SkipNotification,
           OnLeaseNotAcquired, OnLeaseLost, OnLeaseRenewed, OnLeaseReleased, CancelTask,
           UnloadLost, TaskStep, StartTask, LoadPartition, UnloadPartition, SafeToReleaseLease,
           ManagerStep, TryHoldMoreLeases, TryReleaseSomeLeases, RevertTheIntentionToHoldLease,
           ApplyDecision, Decide, EnforceLiveness, AbortProcess, Remember, refresherVars, Notifies
    <2>2. ~wasOwner
        BY Zenon, <2>1, TransitionCases DEF OnLeaseAcquired, Notifies
    <2> QED
        BY Zenon, <2>2 DEF LeaseInv, LeaseTypeOK, OwnershipOK, Transitions
<1> QED
    BY <1>1, LeaseInvariance, PTL DEF LeaseSpec, NoMissedTransition

================================================================================
