----------------------- MODULE TransactionEngineProofs -----------------------
(***************************************************************************)
(* Proofs about TransactionEngine, for any number of crashes: what holds   *)
(* of each coordinator's transaction and journal whatever goes wrong.      *)
(***************************************************************************)
EXTENDS TransactionEngine, TLAPS

-----------------------------------------------------------------------------
(* The phases and their order.                                              *)

\* The ranks of the phases, which the comparisons of the engine go by.
LEMMA RankTable ==
    /\ Rank("NotStarted") = 1 /\ Rank("Begin") = 2 /\ Rank("Prepare") = 3
    /\ Rank("Commit") = 4 /\ Rank("CommitNotify") = 5 /\ Rank("Committed") = 6
    /\ Rank("AbortNotify") = 7 /\ Rank("Aborted") = 8 /\ Rank("End") = 9
    /\ Rank("Unknown") = 10
<1> DEFINE P == <<"NotStarted", "Begin", "Prepare", "Commit", "CommitNotify",
                  "Committed", "AbortNotify", "Aborted", "End", "Unknown">>
<1>1. /\ P[1] = "NotStarted" /\ P[2] = "Begin" /\ P[3] = "Prepare" /\ P[4] = "Commit"
      /\ P[5] = "CommitNotify" /\ P[6] = "Committed" /\ P[7] = "AbortNotify"
      /\ P[8] = "Aborted" /\ P[9] = "End" /\ P[10] = "Unknown"
    BY Zenon
<1>2. \A x : Rank(x) = CHOOSE i \in 1..10 : P[i] = x
    BY Zenon DEF Rank, PhaseOrder
<1> HIDE DEF P
<1>3. \A i \in 1..10 : i = 1 \/ i = 2 \/ i = 3 \/ i = 4 \/ i = 5 \/ i = 6 \/ i = 7
                        \/ i = 8 \/ i = 9 \/ i = 10
    OBVIOUS
<1>4. Rank("NotStarted") = 1
    BY <1>1, <1>2, <1>3
<1>5. Rank("Begin") = 2
    BY <1>1, <1>2, <1>3
<1>6. Rank("Prepare") = 3
    BY <1>1, <1>2, <1>3
<1>7. Rank("Commit") = 4
    BY <1>1, <1>2, <1>3
<1>8. Rank("CommitNotify") = 5
    BY <1>1, <1>2, <1>3
<1>9. Rank("Committed") = 6
    BY <1>1, <1>2, <1>3
<1>10. Rank("AbortNotify") = 7
    BY <1>1, <1>2, <1>3
<1>11. Rank("Aborted") = 8
    BY <1>1, <1>2, <1>3
<1>12. Rank("End") = 9
    BY <1>1, <1>2, <1>3
<1>13. Rank("Unknown") = 10
    BY <1>1, <1>2, <1>3
<1> QED
    BY Zenon, <1>4, <1>5, <1>6, <1>7, <1>8, <1>9, <1>10, <1>11, <1>12, <1>13

\* The phases are the ten of the table.
LEMMA PhaseTable ==
    Phases = {"NotStarted", "Begin", "Prepare", "Commit", "CommitNotify",
              "Committed", "AbortNotify", "Aborted", "End", "Unknown"}
<1>1. \A i \in 1..10 : i = 1 \/ i = 2 \/ i = 3 \/ i = 4 \/ i = 5 \/ i = 6 \/ i = 7
                        \/ i = 8 \/ i = 9 \/ i = 10
    OBVIOUS
<1>2. \A x : x \in Phases <=> \E i \in 1..10 : x = PhaseOrder[i]
    BY Zenon DEF Phases
<1>3. /\ PhaseOrder[1] = "NotStarted" /\ PhaseOrder[2] = "Begin"
      /\ PhaseOrder[3] = "Prepare" /\ PhaseOrder[4] = "Commit"
      /\ PhaseOrder[5] = "CommitNotify" /\ PhaseOrder[6] = "Committed"
      /\ PhaseOrder[7] = "AbortNotify" /\ PhaseOrder[8] = "Aborted"
      /\ PhaseOrder[9] = "End" /\ PhaseOrder[10] = "Unknown"
    BY Zenon DEF PhaseOrder
<1>4. \A x : x \in Phases => x \in {"NotStarted", "Begin", "Prepare", "Commit",
              "CommitNotify", "Committed", "AbortNotify", "Aborted", "End", "Unknown"}
    BY <1>1, <1>2, <1>3
<1>5. /\ "NotStarted" \in Phases /\ "Begin" \in Phases /\ "Prepare" \in Phases
      /\ "Commit" \in Phases /\ "CommitNotify" \in Phases
      /\ "Committed" \in Phases /\ "AbortNotify" \in Phases
      /\ "Aborted" \in Phases /\ "End" \in Phases /\ "Unknown" \in Phases
    BY <1>2, <1>3, 1 \in 1..10, 2 \in 1..10, 3 \in 1..10, 4 \in 1..10, 5 \in 1..10,
       6 \in 1..10, 7 \in 1..10, 8 \in 1..10, 9 \in 1..10, 10 \in 1..10
<1> QED
    BY Zenon, <1>4, <1>5

\* Being ahead is a linear order.
LEMMA AheadOrder ==
    \A p, q, r \in Phases : ~Ahead(p, q) /\ ~Ahead(q, r) => ~Ahead(p, r)
<1>1. \A p \in Phases : Rank(p) \in Nat
    BY PhaseTable, RankTable
<1> QED
    BY <1>1 DEF Ahead

\* The conversions of phases stay within the phases.
LEMMA PhaseConversions ==
    /\ \A p \in Phases, r \in Results : NextPhase(p, r) \in Phases
    /\ \A p \in Phases \cup {"Done"} : ToTransactionExecutionPhase(p) \in ExecutionPhases
    /\ \A e \in ExecutionPhases : ToTransactionPhase(e) \in Phases
<1>1. \A p \in Phases, r \in Results : NextPhase(p, r) \in Phases
    BY Zenon, PhaseTable DEF NextPhase, NextPhaseOnSuccess, NextPhaseOnFailure
<1>2. \A p \in Phases \cup {"Done"} : ToTransactionExecutionPhase(p) \in ExecutionPhases
    BY Zenon DEF ToTransactionExecutionPhase, ExecutionPhases
<1>3. \A e \in ExecutionPhases : ToTransactionPhase(e) \in Phases
    BY Zenon, PhaseTable DEF ToTransactionPhase, ExecutionPhases
<1> QED
    BY Zenon, <1>1, <1>2, <1>3

\* The two coordinators are each other's peer.
LEMMA Peers ==
    ASSUME NEW c \in Coordinators
    PROVE  /\ Peer(c) \in Coordinators /\ Peer(c) # c
           /\ \A d \in Coordinators : d = c \/ d = Peer(c)
<1>1. PICK a \in Coordinators, b \in Coordinators : a # b /\ Coordinators = {a, b}
    BY Zenon, EngineAssumption
<1>2. \E d \in Coordinators : d # c
    BY <1>1
<1>3. Peer(c) \in Coordinators /\ Peer(c) # c
    BY Zenon, <1>2 DEF Peer
<1> QED
    BY Zenon, <1>1, <1>3

-----------------------------------------------------------------------------
(* Types.                                                                   *)

Transactions ==
    [exists : BOOLEAN, phase : Phases, failed : BOOLEAN, phaseFailed : BOOLEAN,
     ts : Nat, blocked : BOOLEAN, expired : BOOLEAN]

Journals == [logged : BOOLEAN, phase : Phases, failed : BOOLEAN]

Views ==
    [kind : {"none", "found", "notFound", "unexpired", "rolled"},
     phase : ExecutionPhases, failed : BOOLEAN, ts : Nat]

Commands == [state : {"sent", "status", "ok", "failed"}, ts : Nat]

\* The values a step may give to a coordinator have their types.
LEMMA ValueTypes ==
    /\ \A n \in Nat : Absent(n) \in Transactions
                       /\ [Absent(n) EXCEPT !.exists = TRUE] \in Transactions
    /\ \A j \in Journals, n \in Nat : RecoveredTransaction(j, n) \in Transactions
    /\ NoJournal \in Journals /\ SerializeTransaction \in Journals
    /\ \A t \in Transactions : SerializeState(t) \in Journals
    /\ NoView \in Views
    /\ \A c \in Coordinators : NoReq(c) \in Requests
    /\ \A c \in Coordinators, e \in ExecutionPhases, n \in Nat :
         ClientRequest(c, e, n) \in Requests
<1>1. \A n \in Nat : Absent(n) \in Transactions
                       /\ [Absent(n) EXCEPT !.exists = TRUE] \in Transactions
    BY Zenon, PhaseTable DEF Absent, Transactions
<1>2. \A j \in Journals, n \in Nat : RecoveredTransaction(j, n) \in Transactions
    BY PhaseTable DEF Absent, Transactions, RecoveredTransaction, Journals
<1>3. NoJournal \in Journals /\ SerializeTransaction \in Journals
    BY Zenon, PhaseTable DEF NoJournal, SerializeTransaction, Journals
<1>4. \A t \in Transactions : SerializeState(t) \in Journals
    BY Zenon DEF SerializeState, Journals, Transactions
<1>5. NoView \in Views
    BY Zenon DEF NoView, Views, ExecutionPhases
<1>6. \A c \in Coordinators : NoReq(c) \in Requests
    BY Zenon DEF NoReq, Requests, ExecutionPhases
<1>7. \A c \in Coordinators, e \in ExecutionPhases, n \in Nat :
         ClientRequest(c, e, n) \in Requests
    BY Zenon DEF ClientRequest, Requests
<1> QED
    BY Zenon, <1>1, <1>2, <1>3, <1>4, <1>5, <1>6, <1>7

\* TypeOK, in the names above.
Types ==
    /\ txn \in [Coordinators -> Transactions] /\ pc \in [Coordinators -> PCs]
    /\ req \in [Coordinators -> Requests] /\ journal \in [Coordinators -> Journals]
    /\ budget \in [Coordinators -> {"free", "held", "spent"}]
    /\ view \in [Coordinators -> Views]
    /\ peerReq \subseteq Requests /\ clientReq \subseteq Requests
    /\ client \in [phase : Phases \cup {"Done"}, failed : BOOLEAN]
    /\ cmd \in [Coordinators -> Commands]
    /\ timedOut \in BOOLEAN /\ crashes \in 0..MaxCrashes

\* The type invariant as the proofs use it is the one the runs check.
LEMMA TypesAreTypeOK == Types <=> TypeOK
BY Zenon DEF Types, TypeOK, Transactions, Journals, Views, Commands

\* The variables of the coordinators other than c are left alone.
OthersKeep(c) ==
    \A d \in Coordinators : d # c =>
        /\ txn'[d] = txn[d] /\ pc'[d] = pc[d] /\ req'[d] = req[d]
        /\ journal'[d] = journal[d] /\ budget'[d] = budget[d]

\* Where ExecutePhaseInternal takes a transaction.
Entered(t, exec) ==
    [t EXCEPT !.phase = CASE exec = "Abort" -> "AbortNotify"
                          [] exec = "End"   -> "End"
                          [] OTHER          -> @,
              !.failed = @ \/ exec = "Abort",
              !.phaseFailed = @ /\ exec # "Abort"]

\* What StartPhase does to the coordinator's transaction.
LEMMA StartPhaseValue ==
    ASSUME Types, NEW c \in Coordinators, NEW r \in Requests, StartPhase(c, r)
    PROVE  /\ txn' = [txn EXCEPT ![c] = Entered(txn[c], r.phase)]
           /\ Entered(txn[c], r.phase) \in Transactions
           /\ txn' \in [Coordinators -> Transactions]
           /\ pc' \in [Coordinators -> PCs] /\ req' \in [Coordinators -> Requests]
<1>1. Entered(txn[c], r.phase) \in Transactions
  <2> DEFINE ph == CASE r.phase = "Abort" -> "AbortNotify"
                     [] r.phase = "End"   -> "End"
                     [] OTHER             -> txn[c].phase
             fl == txn[c].failed \/ r.phase = "Abort"
             pf == txn[c].phaseFailed /\ r.phase # "Abort"
  <2>1. txn[c] \in Transactions
      BY Zenon DEF Types
  <2>2. ph \in Phases
      BY Zenon, <2>1, PhaseTable DEF Transactions
  <2>3. fl \in BOOLEAN /\ pf \in BOOLEAN
      BY Zenon
  <2>4. Entered(txn[c], r.phase) = [txn[c] EXCEPT !.phase = ph, !.failed = fl,
                                                  !.phaseFailed = pf]
      BY Zenon, <2>1 DEF Entered, Transactions
  <2> HIDE DEF ph, fl, pf
  <2> QED
      BY Zenon, <2>1, <2>2, <2>3, <2>4 DEF Transactions
<1>2. txn' = [txn EXCEPT ![c] = Entered(txn[c], r.phase)]
    BY Zenon DEF StartPhase, Types, Entered, Transactions
<1>3. txn' \in [Coordinators -> Transactions]
    BY Zenon, <1>1, <1>2 DEF Types
<1>4. pc' \in [Coordinators -> PCs] /\ req' \in [Coordinators -> Requests]
    BY Zenon DEF StartPhase, Types, PCs
<1> QED
    BY Zenon, <1>1, <1>2, <1>3, <1>4

\* Release touches nothing but the blocked flag.
LEMMA ReleaseValue ==
    ASSUME Types, NEW c \in Coordinators, NEW b \in BOOLEAN, Release(c, b)
    PROVE  /\ txn' = [txn EXCEPT ![c] = [@ EXCEPT !.blocked = b]]
           /\ [txn[c] EXCEPT !.blocked = b] \in Transactions
           /\ txn' \in [Coordinators -> Transactions]
           /\ pc' \in [Coordinators -> PCs] /\ req' = req
BY DEF Release, Types, Transactions, PCs

\* ExecuteOwn starts the phase, if the transaction may enter it, or gives up.
LEMMA ExecuteOwnValue ==
    ASSUME Types, NEW c \in Coordinators, NEW e \in ExecutionPhases, ExecuteOwn(c, e)
    PROVE  /\ txn' \in [Coordinators -> Transactions]
           /\ pc' \in [Coordinators -> PCs] /\ req' \in [Coordinators -> Requests]
           /\ \/ /\ PhaseAllowed(c, e)
                 /\ StartPhase(c, [to |-> c, phase |-> e, ts |-> txn[c].ts, from |-> "self"])
                 /\ [to |-> c, phase |-> e, ts |-> txn[c].ts, from |-> "self"] \in Requests
              \/ Release(c, txn[c].blocked)
<1>1. [to |-> c, phase |-> e, ts |-> txn[c].ts, from |-> "self"] \in Requests
    BY Zenon DEF Types, Transactions, Requests
<1>2. txn[c].blocked \in BOOLEAN
    BY Zenon DEF Types, Transactions
<1>3. CASE PhaseAllowed(c, e)
    BY Zenon, <1>1, <1>3, StartPhaseValue DEF ExecuteOwn
<1>4. CASE ~PhaseAllowed(c, e)
    BY Zenon, <1>2, <1>4, ReleaseValue DEF ExecuteOwn, Types
<1> QED
    BY Zenon, <1>3, <1>4

\* What a command reports back keeps the types.
LEMMA AnswerTypes ==
    ASSUME Types, NEW c \in Coordinators, NEW ok \in BOOLEAN, NEW n \in Nat,
           Answer(c, ok, n)
    PROVE  cmd' \in [Coordinators -> Commands] /\ view' \in [Coordinators -> Views]
<1>1. CASE UNCHANGED <<cmd, view>>
    BY Zenon, <1>1 DEF Types
<1>2. CASE /\ cmd' = [cmd EXCEPT ![c] = IF ok THEN [state |-> "ok", ts |-> n]
                                        ELSE [@ EXCEPT !.state = "failed"]]
           /\ UNCHANGED view
    BY <1>2 DEF Types, Commands
<1>3. CASE /\ view' = [view EXCEPT ![Peer(c)].kind = "rolled", ![Peer(c)].phase = req[c].phase]
           /\ UNCHANGED cmd
  <2> DEFINE v == [view[Peer(c)] EXCEPT !.kind = "rolled", !.phase = req[c].phase]
  <2>1. Peer(c) \in Coordinators /\ req[c].phase \in ExecutionPhases
      BY Zenon, Peers DEF Types, Requests
  <2>2. v \in Views
    <3>1. view[Peer(c)] \in Views
        BY Zenon, <2>1 DEF Types
    <3> QED
        BY Zenon, <2>1, <3>1 DEF Views
  <2>3. view' = [view EXCEPT ![Peer(c)] = v]
      BY Zenon, <1>3, <2>1 DEF Types, Views
  <2> QED
      BY <1>3, <2>1, <2>2, <2>3 DEF Types
<1> QED
    BY Zenon, <1>1, <1>2, <1>3 DEF Answer

\* The type invariant holds in the beginning.
LEMMA InitTypes == Init => Types
<1> SUFFICES ASSUME Init PROVE Types
    BY Zenon
<1>1. "Begin" \in Phases /\ "Begin" \in ExecutionPhases /\ 0 \in Nat
    BY Zenon, PhaseTable DEF ExecutionPhases
<1>2. clientReq \subseteq Requests
    BY Zenon, <1>1, ValueTypes DEF Init
<1>3. /\ txn \in [Coordinators -> Transactions] /\ pc \in [Coordinators -> PCs]
      /\ req \in [Coordinators -> Requests] /\ journal \in [Coordinators -> Journals]
      /\ view \in [Coordinators -> Views]
    BY Zenon, <1>1, ValueTypes DEF Init, PCs
<1>4. /\ budget \in [Coordinators -> {"free", "held", "spent"}] /\ peerReq \subseteq Requests
      /\ client \in [phase : Phases \cup {"Done"}, failed : BOOLEAN]
      /\ timedOut \in BOOLEAN
    BY Zenon, <1>1 DEF Init
<1>5. cmd \in [Coordinators -> Commands]
    BY Zenon DEF Init, Commands
<1>6. crashes \in 0..MaxCrashes
    BY EngineAssumption DEF Init
<1> QED
    BY Zenon, <1>2, <1>3, <1>4, <1>5, <1>6 DEF Types

\* The client's steps keep the types.
LEMMA ClientTypes ==
    ASSUME Types, ClientProceeds \/ TimeOut
                    \/ \E c \in Coordinators : ClientGivesUp(c) \/ ClientGetsStatus(c)
    PROVE  Types'
<1>1. CASE ClientProceeds
  <2> DEFINE failed == \E c \in Coordinators : cmd[c].state = "failed"
             next == NextPhase(client.phase, IF failed THEN "Failure" ELSE "Success")
  <2>1. client.phase \in Phases
      BY Zenon, <1>1 DEF ClientProceeds, Types
  <2>2. next \in Phases
      BY Zenon, <2>1, PhaseConversions DEF Results
  <2>3. failed \in BOOLEAN
      BY Zenon
  <2>4. CASE client.phase = "End"
      BY <1>1, <2>4 DEF ClientProceeds, coordVars, Types
  <2>5. CASE client.phase # "End"
    <3>1. /\ client' = [phase |-> IF next \in {"Committed", "Aborted"} THEN "End" ELSE next,
                        failed |-> client.failed \/ failed]
          /\ UNCHANGED <<cmd, clientReq>> \/ SendPhase(client'.phase)
          /\ UNCHANGED <<coordVars, timedOut, crashes>>
        BY Zenon, <1>1, <2>5 DEF ClientProceeds
    <3> HIDE DEF next, failed
    <3>2. client' \in [phase : Phases \cup {"Done"}, failed : BOOLEAN]
        BY Zenon, <2>2, <2>3, <3>1, PhaseTable DEF Types
    <3>3. ToTransactionExecutionPhase(client'.phase) \in ExecutionPhases
        BY Zenon, <3>2, PhaseConversions
    <3>4. cmd' \in [Coordinators -> Commands] /\ clientReq' \subseteq Requests
      <4>1. CASE UNCHANGED <<cmd, clientReq>>
          BY Zenon, <4>1 DEF Types
      <4>2. CASE SendPhase(client'.phase)
        <5>1. \A c \in Coordinators : cmd[c].ts \in Nat
            BY Zenon DEF Types, Commands
        <5>2. clientReq' \subseteq Requests
            BY <3>3, <4>2, <5>1, ValueTypes DEF SendPhase, Types
        <5>3. cmd' \in [Coordinators -> Commands]
          <6>1. \A c \in Coordinators : cmd[c] \in Commands
              BY Zenon DEF Types
          <6>2. \A k \in Commands : [k EXCEPT !.state = "sent"] \in Commands
              BY DEF Commands
          <6> QED
              BY Zenon, <4>2, <6>1, <6>2 DEF SendPhase
        <5> QED
            BY Zenon, <5>2, <5>3
      <4> QED
          BY Zenon, <3>1, <4>1, <4>2
    <3> QED
        BY Zenon, <3>1, <3>2, <3>4 DEF Types, coordVars
  <2> QED
      BY Zenon, <2>4, <2>5
<1>2. CASE TimeOut
    BY Zenon, <1>2 DEF TimeOut, Types, coordVars, clientVars
<1>3. ASSUME NEW c \in Coordinators, ClientGivesUp(c)
      PROVE  Types'
    BY <1>3 DEF ClientGivesUp, Types, coordVars, Commands
<1>4. ASSUME NEW c \in Coordinators, ClientGetsStatus(c)
      PROVE  Types'
  <2>1. txn[c].ts \in Nat /\ ToTransactionExecutionPhase(client.phase) \in ExecutionPhases
      BY Zenon, PhaseConversions DEF Types, Transactions
  <2>2. cmd' \in [Coordinators -> Commands]
    <3>1. CASE cmd' = [cmd EXCEPT ![c] = [state |-> "sent", ts |-> txn[c].ts]]
        BY Zenon, <2>1, <3>1 DEF Types, Commands
    <3>2. CASE cmd' = [cmd EXCEPT ![c].state = "failed"]
        BY <3>2 DEF Types, Commands
    <3> QED
        BY Zenon, <1>4, <3>1, <3>2 DEF ClientGetsStatus
  <2>3. clientReq' \subseteq Requests
      BY <1>4, <2>1, ValueTypes DEF ClientGetsStatus, Types
  <2> QED
      BY Zenon, <1>4, <2>2, <2>3 DEF ClientGetsStatus, Types, coordVars
<1> QED
    BY Zenon, <1>1, <1>2, <1>3, <1>4

\* The result of ProceedToNextPhase, for a transaction before End.
Proceeded(t) ==
    [t EXCEPT !.phase = NextPhase(t.phase, IF t.phaseFailed THEN "Failure" ELSE "Success"),
              !.failed = t.failed \/ t.phaseFailed,
              !.phaseFailed = FALSE,
              !.ts = t.ts + 1]

\* ProceedToNextPhase moves the transaction to the value Proceeded.
LEMMA ProceedValue ==
    ASSUME Types, NEW c \in Coordinators, ProceedToNextPhase(c)
    PROVE  /\ txn' = [txn EXCEPT ![c] = Proceeded(txn[c])]
           /\ Proceeded(txn[c]) \in Transactions
<1>1. txn[c] \in Transactions
    BY Zenon DEF Types
<1>2. NextPhase(txn[c].phase, IF txn[c].phaseFailed THEN "Failure" ELSE "Success") \in Phases
    BY Zenon, <1>1, PhaseConversions DEF Transactions, Results
<1>3. (txn[c].failed \/ txn[c].phaseFailed) \in BOOLEAN /\ txn[c].ts + 1 \in Nat
    BY <1>1 DEF Transactions
<1>4. Proceeded(txn[c]) \in Transactions
    BY Zenon, <1>1, <1>2, <1>3 DEF Transactions, Proceeded
<1>5. txn' = [txn EXCEPT ![c] = Proceeded(txn[c])]
    BY Zenon DEF ProceedToNextPhase, Proceeded, Types, Transactions
<1> QED
    BY Zenon, <1>4, <1>5

\* A command leaves the budget one of its three values.
LEMMA OutcomeTypes ==
    ASSUME NEW p, NEW b \in {"free", "held", "spent"}, NEW o \in CommandOutcomes(p, b)
    PROVE  o[2] \in {"free", "held", "spent"}
BY DEF CommandOutcomes, Locked

\* The steps of a coordinator keep the types.
LEMMA CoordinatorTypes ==
    ASSUME Types, NEW c \in Coordinators, CoordinatorStep(c)
    PROVE  Types'
<1>1. CASE BeginTransaction(c)
  <2>1. txn' \in [Coordinators -> Transactions]
    <3>1. CASE txn' = [txn EXCEPT ![c] = [Absent(@.ts + 1) EXCEPT !.exists = TRUE]]
      <4>1. txn[c].ts + 1 \in Nat
          BY DEF Types, Transactions
      <4> QED
          BY Zenon, <3>1, <4>1, ValueTypes DEF Types
    <3> QED
        BY Zenon, <1>1, <3>1 DEF BeginTransaction, Types
  <2>2. pc' \in [Coordinators -> PCs]
      BY Zenon, <1>1 DEF BeginTransaction, Types, PCs
  <2>3. cmd' \in [Coordinators -> Commands]
    <3>1. CASE cmd' = [cmd EXCEPT ![c].state = "failed"]
        BY <3>1 DEF Types, Commands
    <3> QED
        BY Zenon, <1>1, <3>1 DEF BeginTransaction, Types
  <2> QED
      BY Zenon, <1>1, <2>1, <2>2, <2>3 DEF BeginTransaction, Types
<1>2. CASE OnLogTransactionCallback(c)
  <2>1. txn[c].ts + 1 \in Nat /\ NextPhase(txn[c].phase, "Success") \in Phases
      BY PhaseConversions DEF Types, Transactions, Results
  <2>2. txn' \in [Coordinators -> Transactions]
      BY <1>2, <2>1 DEF OnLogTransactionCallback, Types, Transactions
  <2>3. clientReq' \subseteq Requests
      BY Zenon, <1>2, <2>1, ValueTypes DEF OnLogTransactionCallback, Types, ExecutionPhases
  <2>4. journal' \in [Coordinators -> Journals] /\ pc' \in [Coordinators -> PCs]
      BY Zenon, <1>2, ValueTypes DEF OnLogTransactionCallback, Types, PCs
  <2> QED
      BY Zenon, <1>2, <2>2, <2>3, <2>4 DEF OnLogTransactionCallback, Types
<1>3. ASSUME NEW r \in clientReq \cup peerReq, ExecutePhase(c, r)
      PROVE  Types'
  <2>1. r \in Requests /\ StartPhase(c, r)
      BY Zenon, <1>3 DEF Types, ExecutePhase
  <2> QED
      BY Zenon, <1>3, <2>1, StartPhaseValue DEF ExecutePhase, Types, clientVars
<1>4. ASSUME NEW r \in clientReq \cup peerReq, RefusePhase(c, r)
      PROVE  Types'
    BY <1>4 DEF RefusePhase, Types, Commands, coordVars
<1>5. CASE OnLogStateCallback(c)
    BY Zenon, <1>5, ValueTypes DEF OnLogStateCallback, Types, PCs, clientVars
<1>6. CASE ExecuteDistributedPhase(c)
  <2>1. PICK o \in CommandOutcomes(txn[c].phase, budget[c]) :
           /\ budget' = [budget EXCEPT ![c] = o[2]]
           /\ txn' = [txn EXCEPT ![c].phaseFailed = (o[1] = "Failure")]
      BY Zenon, <1>6 DEF ExecuteDistributedPhase
  <2>2. budget' \in [Coordinators -> {"free", "held", "spent"}]
    <3>1. o[2] \in {"free", "held", "spent"}
        BY Zenon, OutcomeTypes DEF Types
    <3> QED
        BY Zenon, <2>1, <3>1 DEF Types
  <2>3. txn' \in [Coordinators -> Transactions]
    <3>1. (o[1] = "Failure") \in BOOLEAN
        BY Zenon
    <3>2. \A b \in BOOLEAN : [txn EXCEPT ![c].phaseFailed = b] \in [Coordinators -> Transactions]
        BY DEF Types, Transactions
    <3> QED
        BY Zenon, <2>1, <3>1, <3>2
  <2> QED
      BY Zenon, <1>6, <2>2, <2>3 DEF ExecuteDistributedPhase, Types, PCs, clientVars
<1>7. CASE ProceedToNextPhase(c)
  <2>1. txn[c].ts + 1 \in Nat /\ (~txn[c].phaseFailed) \in BOOLEAN
      BY DEF Types, Transactions
  <2>2. cmd' \in [Coordinators -> Commands] /\ view' \in [Coordinators -> Views]
      BY Zenon, <1>7, <2>1, AnswerTypes DEF ProceedToNextPhase
  <2>3. txn' \in [Coordinators -> Transactions]
      BY Zenon, <1>7, ProceedValue DEF Types
  <2> QED
      BY Zenon, <1>7, <2>2, <2>3 DEF ProceedToNextPhase, Types, PCs,
         UnlockRemotelyCoordinatedTransaction
<1>8. CASE FinishEnd(c)
  <2>1. txn[c].ts + 1 \in Nat
      BY DEF Types, Transactions
  <2>2. cmd' \in [Coordinators -> Commands] /\ view' \in [Coordinators -> Views]
      BY Zenon, <1>8, <2>1, AnswerTypes DEF FinishEnd
  <2>3. txn' \in [Coordinators -> Transactions]
      BY Zenon, <1>8, <2>1, ValueTypes DEF FinishEnd, Types
  <2> QED
      BY Zenon, <1>8, <2>2, <2>3 DEF FinishEnd, Types, PCs
<1> QED
    BY Zenon, <1>1, <1>2, <1>3, <1>4, <1>5, <1>6, <1>7, <1>8 DEF CoordinatorStep

\* The steps of the resolution keep the types.
LEMMA ResolutionTypes ==
    ASSUME Types, NEW c \in Coordinators, ResolutionStep(c)
    PROVE  Types'
<1>1. /\ txn[c] \in Transactions /\ txn[c].blocked \in BOOLEAN /\ txn[c].phase \in Phases
      /\ view[c] \in Views /\ view[c].phase \in ExecutionPhases /\ view[c].ts \in Nat
    BY Zenon DEF Types, Transactions, Views
<1>2. [view EXCEPT ![c] = NoView] \in [Coordinators -> Views]
    BY Zenon, ValueTypes DEF Types
<1>3. CASE Expire(c)
  <2>1. txn' \in [Coordinators -> Transactions]
    <3>1. \A b \in BOOLEAN : [txn EXCEPT ![c].expired = b] \in [Coordinators -> Transactions]
        BY DEF Types, Transactions
    <3> QED
        BY Zenon, <1>3, <3>1 DEF Expire
  <2> QED
      BY Zenon, <1>3, <2>1 DEF Expire, Types, clientVars
<1>4. CASE ResolveTransaction(c)
    BY Zenon, <1>4 DEF ResolveTransaction, Types, PCs, clientVars
<1>5. CASE GetTransactionStatus(c)
  <2>1. txn[Peer(c)] \in Transactions
      BY Zenon, Peers DEF Types
  <2>2. ToTransactionExecutionPhase(txn[Peer(c)].phase) \in ExecutionPhases
      BY Zenon, <2>1, PhaseConversions DEF Transactions
  <2>3. (txn[Peer(c)].failed \/ txn[Peer(c)].phaseFailed) \in BOOLEAN
      BY Zenon
  <2>4. /\ [NoView EXCEPT !.kind = "notFound"] \in Views
        /\ [NoView EXCEPT !.kind = "unexpired"] \in Views
      BY Zenon DEF NoView, Views, ExecutionPhases
  <2>5. \A e \in ExecutionPhases, b \in BOOLEAN, n \in Nat :
           [kind |-> "found", phase |-> e, failed |-> b, ts |-> n] \in Views
      BY Zenon DEF Views
  <2>6. txn[Peer(c)].ts \in Nat
      BY Zenon, <2>1 DEF Transactions
  <2>7. view' \in [Coordinators -> Views]
      BY Zenon, <1>5, <2>2, <2>3, <2>4, <2>5, <2>6 DEF GetTransactionStatus, Types
  <2> QED
      BY Zenon, <1>5, <2>7 DEF GetTransactionStatus, Types, PCs, clientVars
<1>6. CASE GetTransactionStatusFails(c)
    BY Zenon, <1>1, <1>6, ReleaseValue DEF GetTransactionStatusFails, Types, clientVars
<1>7. CASE OnRemoteTransactionNotFound(c)
  <2>1. "End" \in ExecutionPhases
      BY Zenon DEF ExecutionPhases
  <2>2. /\ txn' \in [Coordinators -> Transactions]
        /\ pc' \in [Coordinators -> PCs] /\ req' \in [Coordinators -> Requests]
      BY Zenon, <1>7, <2>1, ReleaseValue, ExecuteOwnValue DEF OnRemoteTransactionNotFound, Types
  <2> QED
      BY Zenon, <1>2, <1>7, <2>2 DEF OnRemoteTransactionNotFound, Types, clientVars
<1>8. CASE OnGetRemoteTransactionStatusCallback(c)
  <2>1. RollForwardPhase(txn[c].phase, view[c].phase, view[c].failed) \in ExecutionPhases
      BY Zenon, <1>1, PhaseConversions DEF RollForwardPhase, ExecutionPhases
  <2>2. \/ Release(c, txn[c].blocked) \/ Release(c, TRUE)
        \/ ExecuteOwn(c, RollForwardPhase(txn[c].phase, view[c].phase, view[c].failed))
      BY Zenon, <1>8 DEF OnGetRemoteTransactionStatusCallback
  <2>3. /\ txn' \in [Coordinators -> Transactions]
        /\ pc' \in [Coordinators -> PCs] /\ req' \in [Coordinators -> Requests]
      BY Zenon, <1>1, <2>1, <2>2, ReleaseValue, ExecuteOwnValue DEF Types
  <2> QED
      BY Zenon, <1>2, <1>8, <2>3 DEF OnGetRemoteTransactionStatusCallback, Types, clientVars
<1>9. CASE RollForwardLocalAndRemoteTransactions(c)
  <2>1. ToTransactionExecutionPhase(txn[c].phase) \in ExecutionPhases
      BY Zenon, <1>1, PhaseConversions
  <2>2. \A e \in ExecutionPhases : [to |-> Peer(c), phase |-> e, ts |-> view[c].ts,
                                    from |-> "peer"] \in Requests
      BY Zenon, <1>1, Peers DEF Requests
  <2>3. "Abort" \in ExecutionPhases
      BY Zenon DEF ExecutionPhases
  <2>4. peerReq' \subseteq Requests
      BY Zenon, <1>9, <2>1, <2>2, <2>3 DEF RollForwardLocalAndRemoteTransactions, Types
  <2> QED
      BY Zenon, <1>9, <2>4 DEF RollForwardLocalAndRemoteTransactions, Types, PCs, clientVars
<1>10. CASE OnRollForwardRemoteTransactionCallback(c)
  <2>1. /\ txn' \in [Coordinators -> Transactions]
        /\ pc' \in [Coordinators -> PCs] /\ req' \in [Coordinators -> Requests]
      BY Zenon, <1>1, <1>10, ReleaseValue, ExecuteOwnValue
         DEF OnRollForwardRemoteTransactionCallback, Types
  <2> QED
      BY Zenon, <1>2, <1>10, <2>1 DEF OnRollForwardRemoteTransactionCallback, Types, clientVars
<1> QED
    BY Zenon, <1>3, <1>4, <1>5, <1>6, <1>7, <1>8, <1>9, <1>10 DEF ResolutionStep

\* A crash and the recovery after it keep the types.
LEMMA CrashTypes ==
    ASSUME Types, NEW c \in Coordinators, Crash(c) \/ Recover(c)
    PROVE  Types'
<1>1. txn[c].ts \in Nat /\ txn[c].ts + 1 \in Nat /\ journal[c] \in Journals
    BY DEF Types, Transactions
<1>2. CASE Crash(c)
  <2>1. crashes' \in 0..MaxCrashes
      BY <1>2, EngineAssumption DEF Crash, Types
  <2>2. /\ txn' \in [Coordinators -> Transactions] /\ view' \in [Coordinators -> Views]
        /\ req' \in [Coordinators -> Requests]
      BY Zenon, <1>1, <1>2, ValueTypes DEF Crash, Types
  <2> QED
      BY Zenon, <1>2, <2>1, <2>2 DEF Crash, Types, PCs, clientVars
<1>3. CASE Recover(c)
  <2>1. txn' \in [Coordinators -> Transactions]
      BY <1>1, <1>3, ValueTypes DEF Recover, Types
  <2>2. [req EXCEPT ![c].from = "recovery"] \in [Coordinators -> Requests]
      BY DEF Types, Requests
  <2>3. req' \in [Coordinators -> Requests]
      BY Zenon, <1>3, <2>2 DEF Recover, Types
  <2>4. pc' \in [Coordinators -> PCs]
      BY <1>3 DEF Recover, Types, PCs, ResumeAt
  <2> QED
      BY Zenon, <1>3, <2>1, <2>3, <2>4 DEF Recover, Types, clientVars
<1> QED
    BY Zenon, <1>2, <1>3

\* Every step keeps the type invariant.
LEMMA NextTypes == Types /\ [Next]_vars => Types'
<1> SUFFICES ASSUME Types, [Next]_vars PROVE Types'
    BY Zenon
<1>1. CASE UNCHANGED vars
    BY Zenon, <1>1 DEF vars, Types
<1>2. CASE Next
    BY Zenon, <1>2, ClientTypes, CoordinatorTypes, ResolutionTypes, CrashTypes DEF Next
<1> QED
    BY Zenon, <1>1, <1>2

\* The type invariant of the engine, for any number of crashes and any faults.
THEOREM EngineTypeCorrectness == Spec => []TypeOK
<1>1. Spec => []Types
    BY InitTypes, NextTypes, PTL DEF Spec
<1> QED
    BY <1>1, TypesAreTypeOK, PTL

-----------------------------------------------------------------------------
(* A coordinator's transaction and its journal. These facts hold whatever   *)
(* faults happen.                                                           *)

\* The phases that are executed, and a coordinator at p executes one.
Executed == {"Begin", "Prepare", "Commit", "CommitNotify", "AbortNotify", "End"}
Works(p) == p \in {"log", "exec", "proceed"}

\* How far the coordinator got, p, agrees with what its transaction t says.
ProgressOK(t, p) ==
    /\ ~t.exists => p \in {"idle", "down"}
    /\ p = "down" => ~t.exists
    /\ p = "logTxn" => t.phase = "NotStarted"
    /\ ~t.exists => t.phase = "NotStarted"
    /\ t.exists /\ p # "logTxn" => t.phase # "NotStarted"
    /\ Works(p) => t.phase \in Executed
    /\ p = "log" => t.phase # "Begin"
    /\ t.exists /\ ~Works(p) => t.phase # "End"

\* A failure leads to the abort, or to an unknown outcome.
FailureOK(t, p) ==
    /\ t.phaseFailed => p = "proceed" /\ t.phase \notin {"Begin", "End"}
    /\ t.failed => t.phase \in {"AbortNotify", "Aborted", "End", "Unknown"}
    /\ t.phase \in {"AbortNotify", "Aborted"} => t.failed

\* The phases a journal can hold.
RecordOK(j) ==
    /\ j.phase \in (Executed \ {"Begin"}) \cup {"NotStarted"}
    /\ j.phase # "NotStarted" => j.logged
    /\ j.failed => j.phase \in {"AbortNotify", "End"}
    /\ j.phase = "AbortNotify" => j.failed

\* A phase is journalled before its commands run; the journal is not ahead.
JournalOK(t, p, j) ==
    /\ j.logged => t.ts > 0
    /\ t.exists /\ p # "logTxn" => j.logged /\ ~Ahead(j.phase, t.phase)
    /\ p = "logTxn" \/ (~t.exists /\ p # "down") => ~j.logged \/ j.phase = "End"
    /\ p \in {"exec", "proceed"} /\ t.phase # "Begin" => j.phase = t.phase

CoordinatorOK(t, p, j) ==
    ProgressOK(t, p) /\ FailureOK(t, p) /\ RecordOK(j) /\ JournalOK(t, p, j)

LocalInv ==
    /\ Types
    /\ \A c \in Coordinators : CoordinatorOK(txn[c], pc[c], journal[c])

\* Entering a phase keeps the facts.
LEMMA EnteredKeeps ==
    ASSUME NEW t \in Transactions, NEW p \in PCs, NEW j \in Journals,
           NEW e \in ExecutionPhases,
           CoordinatorOK(t, p, j), t.exists, ~Works(p), p # "logTxn",
           t.phase # "Unknown" /\ e # "Unknown",
           e \in {"Begin", "Prepare", "Commit", "Notify"} => t.phase = ToTransactionPhase(e),
           e = "Abort" => CanProceedToAbortAtPhase(t.phase),
           e = "End" => CanProceedToEndAtPhase(t.phase)
    PROVE  CoordinatorOK(Entered(t, e), IF e = "Begin" THEN "exec" ELSE "log", j)
<1> DEFINE u == Entered(t, e)
           q == IF e = "Begin" THEN "exec" ELSE "log"
<1>1. /\ u.exists = t.exists /\ u.ts = t.ts
      /\ u.phase = ToTransactionPhase(e)
      /\ e = "Abort" => u.failed /\ ~u.phaseFailed
      /\ e # "Abort" => u.failed = t.failed /\ u.phaseFailed = t.phaseFailed
    BY Zenon DEF Entered, Transactions, ToTransactionPhase, ExecutionPhases
<1> HIDE DEF u
<1>2. ProgressOK(u, q)
    BY Zenon, <1>1 DEF CoordinatorOK, ProgressOK, Works, Executed, ToTransactionPhase, ExecutionPhases
<1>3. FailureOK(u, q)
    BY Zenon, <1>1 DEF CoordinatorOK, FailureOK, ToTransactionPhase, ExecutionPhases, Works
<1>4. ~Ahead(t.phase, u.phase)
    BY <1>1, RankTable DEF Ahead, ToTransactionPhase, ExecutionPhases, CanProceedToAbortAtPhase,
       CanProceedToEndAtPhase
<1>5. j.logged /\ ~Ahead(j.phase, u.phase)
  <2>1. t.phase \in Phases /\ u.phase \in Phases /\ j.phase \in Phases
      BY Zenon, <1>1, PhaseConversions DEF Transactions, Journals
  <2> QED
      BY Zenon, <1>4, <2>1, AheadOrder DEF CoordinatorOK, JournalOK
<1>6. JournalOK(u, q, j)
    BY Zenon, <1>1, <1>5 DEF CoordinatorOK, JournalOK, Transactions, ToTransactionPhase, ExecutionPhases
<1> QED
    BY Zenon, <1>2, <1>3, <1>6 DEF CoordinatorOK, u

\* So does leaving one.
LEMMA ProceededKeeps ==
    ASSUME NEW t \in Transactions, NEW j \in Journals,
           CoordinatorOK(t, "proceed", j), t.phase # "End"
    PROVE  CoordinatorOK(Proceeded(t), "idle", j)
<1> DEFINE u == Proceeded(t)
<1>1. /\ u.exists = t.exists /\ u.ts = t.ts + 1 /\ ~u.phaseFailed
      /\ u.failed = (t.failed \/ t.phaseFailed)
      /\ u.phase = NextPhase(t.phase, IF t.phaseFailed THEN "Failure" ELSE "Success")
    BY Zenon DEF Proceeded, Transactions
<1> HIDE DEF u
<1>2. /\ t.exists /\ t.phase \in Executed \ {"End"}
      /\ t.phaseFailed => t.phase # "Begin"
    BY Zenon DEF CoordinatorOK, ProgressOK, FailureOK, Works, Executed
<1>3. /\ ~t.phaseFailed => u.phase = NextPhaseOnSuccess(t.phase)
      /\ t.phaseFailed => u.phase = NextPhaseOnFailure(t.phase)
    BY Zenon, <1>1, <1>2 DEF NextPhase, Executed
<1>4. ProgressOK(u, "idle")
    BY Zenon, <1>1, <1>2, <1>3 DEF ProgressOK, Works, NextPhaseOnSuccess, NextPhaseOnFailure, Executed
<1>5. FailureOK(u, "idle")
    BY Zenon, <1>1, <1>2, <1>3 DEF CoordinatorOK, FailureOK, NextPhaseOnSuccess, NextPhaseOnFailure,
       Executed
<1>6. ~Ahead(t.phase, u.phase)
    BY <1>2, <1>3, RankTable DEF Ahead, NextPhaseOnSuccess, NextPhaseOnFailure, Executed
<1>7. j.logged /\ ~Ahead(j.phase, u.phase)
  <2>1. t.phase \in Phases /\ u.phase \in Phases /\ j.phase \in Phases
      BY Zenon, <1>1, PhaseConversions DEF Transactions, Journals, Results
  <2> QED
      BY Zenon, <1>2, <1>6, <2>1, AheadOrder DEF CoordinatorOK, JournalOK
<1>8. JournalOK(u, "idle", j)
    BY <1>1, <1>2, <1>7 DEF CoordinatorOK, JournalOK, Transactions
<1> QED
    BY Zenon, <1>4, <1>5, <1>8 DEF CoordinatorOK, u

\* And so does what recovery makes of the journal.
LEMMA RecoveredKeeps ==
    ASSUME NEW t \in Transactions, NEW j \in Journals, CoordinatorOK(t, "down", j)
    PROVE  /\ j.logged /\ j.phase # "End"
                => CoordinatorOK(RecoveredTransaction(j, t.ts + 1), ResumeAt(j), j)
           /\ ~(j.logged /\ j.phase # "End") => CoordinatorOK(t, "idle", j)
<1>1. ASSUME j.logged, j.phase # "End"
      PROVE  CoordinatorOK(RecoveredTransaction(j, t.ts + 1), ResumeAt(j), j)
  <2> DEFINE u == RecoveredTransaction(j, t.ts + 1)
  <2>1. /\ u.exists /\ u.ts = t.ts + 1 /\ ~u.phaseFailed /\ u.failed = j.failed
        /\ u.phase = IF j.phase = "NotStarted" THEN "Begin" ELSE j.phase
      BY Zenon DEF RecoveredTransaction, Absent, Journals
  <2> HIDE DEF u
  <2>2. ProgressOK(u, ResumeAt(j))
      BY Zenon, <1>1, <2>1 DEF CoordinatorOK, RecordOK, ProgressOK, Works, ResumeAt, Executed
  <2>3. FailureOK(u, ResumeAt(j))
      BY Zenon, <1>1, <2>1 DEF CoordinatorOK, RecordOK, FailureOK, ResumeAt, Executed
  <2>4. ~Ahead(j.phase, u.phase)
      BY <2>1, RankTable DEF Ahead, CoordinatorOK, RecordOK, Executed
  <2>5. JournalOK(u, ResumeAt(j), j)
      BY <1>1, <2>1, <2>4 DEF JournalOK, ResumeAt, Transactions
  <2> QED
      BY Zenon, <2>2, <2>3, <2>5 DEF CoordinatorOK, u
<1>2. ASSUME ~(j.logged /\ j.phase # "End")
      PROVE  CoordinatorOK(t, "idle", j)
    BY Zenon, <1>2 DEF CoordinatorOK, ProgressOK, FailureOK, JournalOK, Works
<1> QED
    BY Zenon, <1>1, <1>2

\* Resting(p): the coordinator has a transaction and does not execute a phase.
Resting(p) == p \in {"idle", "status", "gotStatus", "rollRemote"}

\* Transactions that differ at most in the flags of the resolution.
SameButFlags(t, u) ==
    /\ u.exists = t.exists /\ u.phase = t.phase /\ u.failed = t.failed
    /\ u.phaseFailed = t.phaseFailed /\ u.ts = t.ts

\* The facts do not depend on the flags, nor on which step the resolution is at.
LEMMA FlagsKeep ==
    ASSUME NEW t \in Transactions, NEW j, NEW p, NEW q, NEW u \in Transactions,
           SameButFlags(t, u), CoordinatorOK(t, p, j), t.exists,
           p = q \/ (Resting(p) /\ Resting(q))
    PROVE  CoordinatorOK(u, q, j)
BY DEF CoordinatorOK, ProgressOK, FailureOK, JournalOK, Works, Resting, SameButFlags, Transactions

\* The two flags.
LEMMA FlagUpdates ==
    ASSUME NEW t \in Transactions, NEW b \in BOOLEAN
    PROVE  /\ [t EXCEPT !.blocked = b] \in Transactions
           /\ [t EXCEPT !.expired = b] \in Transactions
           /\ SameButFlags(t, [t EXCEPT !.blocked = b])
           /\ SameButFlags(t, [t EXCEPT !.expired = b])
BY Zenon DEF Transactions, SameButFlags

\* A step of a coordinator leaves the others alone.
LEMMA OneMoves ==
    ASSUME Types, NEW c \in Coordinators,
           CoordinatorStep(c) \/ ResolutionStep(c) \/ Crash(c) \/ Recover(c)
    PROVE  OthersKeep(c)
<1>1. ASSUME \/ UNCHANGED txn \/ \E t : txn' = [txn EXCEPT ![c] = t],
             \/ UNCHANGED pc \/ \E p : pc' = [pc EXCEPT ![c] = p],
             \/ UNCHANGED req \/ \E r : req' = [req EXCEPT ![c] = r],
             \/ UNCHANGED journal \/ \E j : journal' = [journal EXCEPT ![c] = j],
             \/ UNCHANGED budget \/ \E b : budget' = [budget EXCEPT ![c] = b]
      PROVE  OthersKeep(c)
    BY Zenon, <1>1 DEF OthersKeep, Types
<1>2. CASE BeginTransaction(c)
    BY Zenon, <1>1, <1>2 DEF BeginTransaction
<1>3. CASE OnLogTransactionCallback(c)
    BY Zenon, <1>1, <1>3 DEF OnLogTransactionCallback
<1>4. ASSUME NEW r, StartPhase(c, r), UNCHANGED <<journal, budget>>
      PROVE  OthersKeep(c)
    BY <1>1, <1>4 DEF StartPhase
<1>5. ASSUME NEW b, Release(c, b), UNCHANGED <<journal, budget>>
      PROVE  OthersKeep(c)
    BY Zenon, <1>1, <1>5 DEF Release
<1>6. ASSUME NEW e, ExecuteOwn(c, e), UNCHANGED <<journal, budget>>
      PROVE  OthersKeep(c)
    BY Zenon, <1>4, <1>5, <1>6 DEF ExecuteOwn
<1>7. ASSUME NEW r, ExecutePhase(c, r) \/ RefusePhase(c, r)
      PROVE  OthersKeep(c)
    BY Zenon, <1>1, <1>4, <1>7 DEF ExecutePhase, RefusePhase, coordVars
<1>8. CASE OnLogStateCallback(c)
    BY Zenon, <1>1, <1>8 DEF OnLogStateCallback
<1>9. CASE ExecuteDistributedPhase(c)
    BY Zenon, <1>1, <1>9 DEF ExecuteDistributedPhase
<1>10. CASE ProceedToNextPhase(c)
    BY <1>1, <1>10 DEF ProceedToNextPhase, UnlockRemotelyCoordinatedTransaction
<1>11. CASE FinishEnd(c)
    BY Zenon, <1>1, <1>11 DEF FinishEnd
<1>12. CASE Expire(c)
    BY Zenon, <1>1, <1>12 DEF Expire
<1>13. CASE ResolveTransaction(c)
    BY Zenon, <1>1, <1>13 DEF ResolveTransaction
<1>14. CASE GetTransactionStatus(c)
    BY Zenon, <1>1, <1>14 DEF GetTransactionStatus
<1>15. CASE GetTransactionStatusFails(c)
    BY Zenon, <1>5, <1>15 DEF GetTransactionStatusFails
<1>16. CASE OnRemoteTransactionNotFound(c)
    BY Zenon, <1>5, <1>6, <1>16 DEF OnRemoteTransactionNotFound
<1>17. CASE OnGetRemoteTransactionStatusCallback(c)
    BY Zenon, <1>5, <1>6, <1>17 DEF OnGetRemoteTransactionStatusCallback
<1>18. CASE RollForwardLocalAndRemoteTransactions(c)
    BY Zenon, <1>1, <1>18 DEF RollForwardLocalAndRemoteTransactions
<1>19. CASE OnRollForwardRemoteTransactionCallback(c)
    BY Zenon, <1>5, <1>6, <1>19 DEF OnRollForwardRemoteTransactionCallback
<1>20. CASE Crash(c)
    BY Zenon, <1>1, <1>20 DEF Crash
<1>21. CASE Recover(c)
    BY Zenon, <1>1, <1>21 DEF Recover
<1> QED
    BY Zenon, <1>2, <1>3, <1>7, <1>8, <1>9, <1>10, <1>11, <1>12, <1>13, <1>14, <1>15, <1>16,
       <1>17, <1>18, <1>19, <1>20, <1>21 DEF CoordinatorStep, ResolutionStep

\* What a coordinator that resolves does on its own keeps the facts about it.
LEMMA OwnStepKeeps ==
    ASSUME LocalInv, NEW c \in Coordinators, txn[c].exists, Resting(pc[c]),
           UNCHANGED journal,
           \/ \E b \in BOOLEAN : Release(c, b)
           \/ \E e \in ExecutionPhases : ExecuteOwn(c, e)
    PROVE  CoordinatorOK(txn'[c], pc'[c], journal'[c])
<1>1. /\ Types /\ txn[c] \in Transactions /\ pc[c] \in PCs /\ journal[c] \in Journals
      /\ CoordinatorOK(txn[c], pc[c], journal[c])
    BY Zenon DEF LocalInv, Types
<1>2. ASSUME NEW b \in BOOLEAN, Release(c, b)
      PROVE  CoordinatorOK(txn'[c], pc'[c], journal'[c])
  <2>1. txn' = [txn EXCEPT ![c] = [@ EXCEPT !.blocked = b]]
      BY Zenon, <1>1, <1>2, ReleaseValue
  <2>2. txn'[c] = [txn[c] EXCEPT !.blocked = b] /\ pc'[c] = "idle"
      BY Zenon, <1>1, <1>2, <2>1 DEF Release, Types
  <2>3. Resting(pc'[c])
      BY Zenon, <2>2 DEF Resting
  <2>4. txn'[c] \in Transactions /\ SameButFlags(txn[c], txn'[c])
      BY <1>1, <2>2, FlagUpdates
  <2> QED
      BY Zenon, <1>1, <2>3, <2>4, FlagsKeep
<1>3. ASSUME NEW e \in ExecutionPhases, PhaseAllowed(c, e),
             NEW r \in Requests, r.phase = e, StartPhase(c, r)
      PROVE  CoordinatorOK(txn'[c], pc'[c], journal'[c])
  <2>1. txn'[c] = Entered(txn[c], e) /\ pc'[c] = IF e = "Begin" THEN "exec" ELSE "log"
    <3>1. txn' = [txn EXCEPT ![c] = Entered(txn[c], e)]
        BY Zenon, <1>1, <1>3, StartPhaseValue
    <3> QED
        BY Zenon, <1>1, <1>3, <3>1 DEF StartPhase, Types
  <2>2. ~Works(pc[c]) /\ pc[c] # "logTxn"
      BY Zenon DEF Resting, Works
  <2> QED
      BY Zenon, <1>1, <1>3, <2>1, <2>2, EnteredKeeps DEF PhaseAllowed
<1> QED
    BY Zenon, <1>1, <1>2, <1>3, ExecuteOwnValue DEF Transactions

\* A step of a transaction's execution keeps its coordinator's invariant.
LEMMA CoordinatorKeepsLocal ==
    ASSUME LocalInv, NEW c \in Coordinators, CoordinatorStep(c)
    PROVE  CoordinatorOK(txn'[c], pc'[c], journal'[c])
<1>1. /\ Types /\ txn[c] \in Transactions /\ pc[c] \in PCs /\ journal[c] \in Journals
      /\ CoordinatorOK(txn[c], pc[c], journal[c])
    BY Zenon DEF LocalInv, Types
<1>2. CASE BeginTransaction(c)
  <2>1. CASE UNCHANGED <<txn, pc>>
      BY Zenon, <1>1, <1>2, <2>1 DEF BeginTransaction
  <2>2. CASE /\ ~txn[c].exists
             /\ txn' = [txn EXCEPT ![c] = [Absent(@.ts + 1) EXCEPT !.exists = TRUE]]
             /\ pc' = [pc EXCEPT ![c] = "logTxn"]
    <3>1. /\ txn'[c].exists /\ txn'[c].phase = "NotStarted" /\ ~txn'[c].failed
          /\ ~txn'[c].phaseFailed /\ txn'[c].ts = txn[c].ts + 1 /\ pc'[c] = "logTxn"
          /\ journal'[c] = journal[c] /\ pc[c] # "down"
        BY Zenon, <1>2, <2>2 DEF BeginTransaction, Types, LocalInv, Absent, Up
    <3> QED
        BY <1>1, <2>2, <3>1 DEF CoordinatorOK, ProgressOK, FailureOK, JournalOK, Works,
           Transactions
  <2> QED
      BY Zenon, <1>2, <2>1, <2>2 DEF BeginTransaction
<1>3. CASE OnLogTransactionCallback(c)
  <2>1. /\ txn[c].exists /\ txn[c].phase = "NotStarted" /\ pc[c] = "logTxn"
        /\ ~txn[c].failed /\ ~txn[c].phaseFailed
      BY Zenon, <1>1, <1>3 DEF OnLogTransactionCallback, CoordinatorOK, ProgressOK, FailureOK
  <2>2. /\ txn'[c].exists /\ txn'[c].phase = "Begin" /\ ~txn'[c].failed
        /\ ~txn'[c].phaseFailed /\ txn'[c].ts = txn[c].ts + 1 /\ pc'[c] = "idle"
        /\ journal'[c] = [logged |-> TRUE, phase |-> "NotStarted", failed |-> FALSE]
      BY Zenon, <1>1, <1>3, <2>1 DEF OnLogTransactionCallback, Types, Transactions, NextPhase,
         NextPhaseOnSuccess, SerializeTransaction, NoJournal
  <2>3. ~Ahead("NotStarted", "Begin")
      BY RankTable DEF Ahead
  <2> QED
      BY <1>1, <2>2, <2>3 DEF CoordinatorOK, ProgressOK, FailureOK, RecordOK, JournalOK, Works,
         Transactions
<1>4. ASSUME NEW r \in clientReq \cup peerReq, ExecutePhase(c, r)
      PROVE  CoordinatorOK(txn'[c], pc'[c], journal'[c])
  <2>1. r \in Requests /\ r.phase \in ExecutionPhases
      BY Zenon, <1>1 DEF Types, Requests
  <2>2. /\ txn'[c] = Entered(txn[c], r.phase)
        /\ pc'[c] = IF r.phase = "Begin" THEN "exec" ELSE "log"
        /\ journal'[c] = journal[c] /\ txn[c].exists /\ pc[c] = "idle"
    <3>1. StartPhase(c, r)
        BY Zenon, <1>4 DEF ExecutePhase
    <3>2. txn' = [txn EXCEPT ![c] = Entered(txn[c], r.phase)]
        BY Zenon, <1>1, <2>1, <3>1, StartPhaseValue
    <3> QED
        BY Zenon, <1>1, <1>4, <3>2 DEF ExecutePhase, StartPhase, Types
  <2>3. ~Works(pc[c]) /\ pc[c] # "logTxn"
      BY Zenon, <2>2 DEF Works
  <2> QED
      BY Zenon, <1>1, <1>4, <2>1, <2>2, <2>3, EnteredKeeps DEF ExecutePhase, PhaseAllowed
<1>5. ASSUME NEW r, RefusePhase(c, r)
      PROVE  CoordinatorOK(txn'[c], pc'[c], journal'[c])
    BY Zenon, <1>1, <1>5 DEF RefusePhase, coordVars
<1>6. CASE OnLogStateCallback(c)
  <2>1. /\ txn'[c] = txn[c] /\ pc[c] = "log" /\ pc'[c] = "exec"
        /\ journal'[c] = [logged |-> TRUE, phase |-> txn[c].phase, failed |-> txn[c].failed]
      BY Zenon, <1>1, <1>6 DEF OnLogStateCallback, Types, SerializeState
  <2>2. /\ ProgressOK(txn'[c], pc'[c]) /\ FailureOK(txn'[c], pc'[c])
      BY Zenon, <1>1, <2>1 DEF CoordinatorOK, ProgressOK, FailureOK, Works
  <2>3. RecordOK(journal'[c])
      BY <1>1, <2>1 DEF CoordinatorOK, ProgressOK, FailureOK, RecordOK, Works, Executed
  <2>4. ~Ahead(txn[c].phase, txn[c].phase)
      BY <1>1, PhaseTable, RankTable DEF Ahead, Transactions
  <2>5. JournalOK(txn'[c], pc'[c], journal'[c])
    <3>1. journal'[c].logged /\ journal'[c].phase = txn[c].phase
        BY <2>1
    <3>2. txn[c].exists /\ (journal[c].logged => txn[c].ts > 0) /\ journal[c].logged
        BY Zenon, <1>1, <2>1 DEF CoordinatorOK, JournalOK, ProgressOK
    <3> QED
        BY Zenon, <2>1, <2>4, <3>1, <3>2 DEF JournalOK
  <2> QED
      BY Zenon, <2>2, <2>3, <2>5 DEF CoordinatorOK
<1>7. CASE ExecuteDistributedPhase(c)
  <2>1. PICK o \in CommandOutcomes(txn[c].phase, budget[c]) :
           txn' = [txn EXCEPT ![c].phaseFailed = (o[1] = "Failure")]
      BY Zenon, <1>7 DEF ExecuteDistributedPhase
  <2>2. /\ pc[c] = "exec" /\ pc'[c] = "proceed" /\ journal'[c] = journal[c]
      BY Zenon, <1>1, <1>7 DEF ExecuteDistributedPhase, Types
  <2>3. o[1] = "Failure" => txn[c].phase \notin {"Begin", "End"}
      BY DEF CommandOutcomes
  <2>4. /\ txn'[c].exists = txn[c].exists /\ txn'[c].phase = txn[c].phase
        /\ txn'[c].failed = txn[c].failed /\ txn'[c].ts = txn[c].ts
        /\ txn'[c].phaseFailed => o[1] = "Failure"
      BY Zenon, <1>1, <2>1 DEF Types, Transactions
  <2> QED
      BY Zenon, <1>1, <2>2, <2>3, <2>4 DEF CoordinatorOK, ProgressOK, FailureOK, JournalOK, Works
<1>8. CASE ProceedToNextPhase(c)
  <2>1. /\ txn'[c] = Proceeded(txn[c]) /\ pc[c] = "proceed" /\ pc'[c] = "idle"
        /\ journal'[c] = journal[c] /\ txn[c].phase # "End"
    <3>1. txn' = [txn EXCEPT ![c] = Proceeded(txn[c])]
        BY Zenon, <1>1, <1>8, ProceedValue
    <3> QED
        BY Zenon, <1>1, <1>8, <3>1 DEF ProceedToNextPhase, Types, UnlockRemotelyCoordinatedTransaction
  <2> QED
      BY Zenon, <1>1, <2>1, ProceededKeeps
<1>9. CASE FinishEnd(c)
  <2>1. /\ ~txn'[c].exists /\ txn'[c].phase = "NotStarted" /\ ~txn'[c].failed
        /\ ~txn'[c].phaseFailed /\ txn'[c].ts = txn[c].ts + 1
        /\ pc[c] = "proceed" /\ pc'[c] = "idle" /\ txn[c].phase = "End"
        /\ journal'[c] = journal[c]
      BY Zenon, <1>1, <1>9 DEF FinishEnd, Types, Absent
  <2> QED
      BY <1>1, <2>1 DEF CoordinatorOK, ProgressOK, FailureOK, JournalOK, Works, Transactions
<1> QED
    BY Zenon, <1>2, <1>3, <1>4, <1>5, <1>6, <1>7, <1>8, <1>9 DEF CoordinatorStep

\* A step of the resolution keeps its coordinator's invariant.
LEMMA ResolutionKeepsLocal ==
    ASSUME LocalInv, NEW c \in Coordinators, ResolutionStep(c)
    PROVE  CoordinatorOK(txn'[c], pc'[c], journal'[c])
<1>1. /\ Types /\ txn[c] \in Transactions /\ pc[c] \in PCs /\ journal[c] \in Journals
      /\ txn[c].blocked \in BOOLEAN /\ view[c].phase \in ExecutionPhases
      /\ txn[c].phase \in Phases
      /\ CoordinatorOK(txn[c], pc[c], journal[c])
    BY Zenon DEF LocalInv, Types, Transactions, Views
<1>2. Resting(pc[c]) /\ pc[c] # "idle" => txn[c].exists
    BY Zenon, <1>1 DEF CoordinatorOK, ProgressOK, Resting
<1>3. ASSUME Resting(pc[c]), Resting(pc'[c]), txn[c].exists, UNCHANGED <<txn, journal>>
      PROVE  CoordinatorOK(txn'[c], pc'[c], journal'[c])
    BY Zenon, <1>1, <1>3, FlagsKeep DEF SameButFlags
<1>4. CASE Expire(c)
  <2>1. txn'[c] = [txn[c] EXCEPT !.expired = TRUE] /\ UNCHANGED <<pc, journal>> /\ txn[c].exists
      BY Zenon, <1>1, <1>4 DEF Expire, Types
  <2>2. txn'[c] \in Transactions /\ SameButFlags(txn[c], txn'[c])
      BY Zenon, <1>1, <2>1, FlagUpdates
  <2> QED
      BY Zenon, <1>1, <2>1, <2>2, FlagsKeep
<1>5. CASE ResolveTransaction(c)
    BY Zenon, <1>1, <1>3, <1>5 DEF ResolveTransaction, Types, Resting
<1>6. CASE GetTransactionStatus(c)
    BY Zenon, <1>1, <1>2, <1>3, <1>6 DEF GetTransactionStatus, Types, Resting
<1>7. CASE GetTransactionStatusFails(c)
    BY Zenon, <1>1, <1>2, <1>7, OwnStepKeeps DEF GetTransactionStatusFails, Resting
<1>8. CASE OnRemoteTransactionNotFound(c)
    BY Zenon, <1>1, <1>2, <1>8, OwnStepKeeps DEF OnRemoteTransactionNotFound, Resting, ExecutionPhases
<1>9. CASE OnGetRemoteTransactionStatusCallback(c)
  <2>1. RollForwardPhase(txn[c].phase, view[c].phase, view[c].failed) \in ExecutionPhases
      BY Zenon, <1>1, PhaseConversions DEF RollForwardPhase, ExecutionPhases
  <2>2. \/ Release(c, txn[c].blocked) \/ Release(c, TRUE)
        \/ ExecuteOwn(c, RollForwardPhase(txn[c].phase, view[c].phase, view[c].failed))
      BY Zenon, <1>9 DEF OnGetRemoteTransactionStatusCallback
  <2>3. Resting(pc[c]) /\ txn[c].exists /\ UNCHANGED journal
      BY Zenon, <1>2, <1>9 DEF OnGetRemoteTransactionStatusCallback, Resting
  <2> QED
      BY Zenon, <1>1, <2>1, <2>2, <2>3, OwnStepKeeps
<1>10. CASE RollForwardLocalAndRemoteTransactions(c)
    BY Zenon, <1>1, <1>2, <1>3, <1>10 DEF RollForwardLocalAndRemoteTransactions, Types, Resting
<1>11. CASE OnRollForwardRemoteTransactionCallback(c)
    BY Zenon, <1>1, <1>2, <1>11, OwnStepKeeps DEF OnRollForwardRemoteTransactionCallback, Resting
<1> QED
    BY Zenon, <1>4, <1>5, <1>6, <1>7, <1>8, <1>9, <1>10, <1>11 DEF ResolutionStep

\* A crash and the recovery from it keep their coordinator's invariant.
LEMMA CrashKeepsLocal ==
    ASSUME LocalInv, NEW c \in Coordinators, Crash(c) \/ Recover(c)
    PROVE  CoordinatorOK(txn'[c], pc'[c], journal'[c])
<1>1. /\ Types /\ txn[c] \in Transactions /\ pc[c] \in PCs /\ journal[c] \in Journals
      /\ CoordinatorOK(txn[c], pc[c], journal[c])
    BY Zenon DEF LocalInv, Types
<1>2. CASE Crash(c)
  <2>1. /\ ~txn'[c].exists /\ txn'[c].phase = "NotStarted" /\ ~txn'[c].failed
        /\ ~txn'[c].phaseFailed /\ txn'[c].ts = txn[c].ts
        /\ pc'[c] = "down" /\ journal'[c] = journal[c]
      BY Zenon, <1>1, <1>2 DEF Crash, Types, Absent
  <2> QED
      BY Zenon, <1>1, <2>1 DEF CoordinatorOK, ProgressOK, FailureOK, JournalOK, Works
<1>3. CASE Recover(c)
  <2>1. /\ pc[c] = "down" /\ journal'[c] = journal[c]
        /\ journal[c].logged /\ journal[c].phase # "End" =>
             /\ txn'[c] = RecoveredTransaction(journal[c], txn[c].ts + 1)
             /\ pc'[c] = ResumeAt(journal[c])
        /\ ~(journal[c].logged /\ journal[c].phase # "End") =>
             txn'[c] = txn[c] /\ pc'[c] = "idle"
      BY Zenon, <1>1, <1>3 DEF Recover, Types
  <2> QED
      BY Zenon, <1>1, <2>1, RecoveredKeeps
<1> QED
    BY Zenon, <1>2, <1>3

\* The invariant of the coordinators holds in the beginning.
LEMMA InitLocal == Init => LocalInv
<1> SUFFICES ASSUME Init PROVE LocalInv
    BY Zenon
<1>1. ASSUME NEW c \in Coordinators
      PROVE  CoordinatorOK(txn[c], pc[c], journal[c])
    BY Zenon DEF Init, Absent, NoJournal, CoordinatorOK, ProgressOK, FailureOK, RecordOK, JournalOK, Works
<1> QED
    BY Zenon, <1>1, InitTypes DEF LocalInv

\* Every step keeps the invariant of the coordinators.
LEMMA NextLocal == LocalInv /\ [Next]_vars => LocalInv'
<1> SUFFICES ASSUME LocalInv, [Next]_vars PROVE LocalInv'
    BY Zenon
<1>1. Types /\ Types'
    BY Zenon, NextTypes DEF LocalInv
<1>2. CASE UNCHANGED <<txn, pc, journal>>
    BY Zenon, <1>1, <1>2 DEF LocalInv
<1>3. ASSUME NEW c \in Coordinators,
             CoordinatorStep(c) \/ ResolutionStep(c) \/ Crash(c) \/ Recover(c)
      PROVE  LocalInv'
  <2>1. CoordinatorOK(txn'[c], pc'[c], journal'[c])
      BY Zenon, <1>3, CoordinatorKeepsLocal, ResolutionKeepsLocal, CrashKeepsLocal
  <2>2. \A d \in Coordinators : d # c => CoordinatorOK(txn'[d], pc'[d], journal'[d])
      BY Zenon, <1>1, <1>3, OneMoves DEF OthersKeep, LocalInv
  <2> QED
      BY Zenon, <1>1, <2>1, <2>2 DEF LocalInv
<1>4. ClientProceeds \/ TimeOut \/ UNCHANGED vars
        \/ (\E c \in Coordinators : ClientGivesUp(c) \/ ClientGetsStatus(c))
      => UNCHANGED <<txn, pc, journal>>
    BY Zenon DEF ClientProceeds, TimeOut, vars, ClientGivesUp, ClientGetsStatus, coordVars
<1> QED
    BY Zenon, <1>2, <1>3, <1>4 DEF Next

\* The invariant about each coordinator's transaction and journal.
THEOREM LocalInvariance == Spec => []LocalInv
BY InitLocal, NextLocal, PTL DEF Spec

\* The journal of a coordinator changes only in the two log callbacks, and the
\* budget only when the commands of a phase run.
LEMMA JournalWrites ==
    ASSUME Types, [Next]_vars, NEW c \in Coordinators
    PROVE  /\ journal'[c] # journal[c] =>
                OnLogTransactionCallback(c) \/ OnLogStateCallback(c)
           /\ budget'[c] # budget[c] => ExecuteDistributedPhase(c)
<1>1. CASE UNCHANGED <<journal, budget>>
    BY Zenon, <1>1
<1>2. ASSUME NEW d \in Coordinators, OnLogTransactionCallback(d) \/ OnLogStateCallback(d)
      PROVE  budget' = budget /\ (journal'[c] # journal[c] => c = d)
    BY Zenon, <1>2 DEF OnLogTransactionCallback, OnLogStateCallback, Types
<1>3. ASSUME NEW d \in Coordinators, ExecuteDistributedPhase(d)
      PROVE  journal' = journal /\ (budget'[c] # budget[c] => c = d)
    BY Zenon, <1>3 DEF ExecuteDistributedPhase, Types
<1>4. ASSUME NEW d \in Coordinators,
             \/ BeginTransaction(d) \/ ProceedToNextPhase(d) \/ FinishEnd(d)
             \/ \E r \in clientReq \cup peerReq : ExecutePhase(d, r) \/ RefusePhase(d, r)
             \/ Crash(d) \/ Recover(d) \/ ClientGivesUp(d) \/ ClientGetsStatus(d)
      PROVE  UNCHANGED <<journal, budget>>
    BY Zenon, <1>4 DEF BeginTransaction, ProceedToNextPhase, FinishEnd, ExecutePhase, RefusePhase,
       Crash, Recover, ClientGivesUp, ClientGetsStatus, coordVars
<1>5. ASSUME NEW d \in Coordinators, ResolutionStep(d)
      PROVE  UNCHANGED <<journal, budget>>
    BY Zenon, <1>5 DEF ResolutionStep, Expire, ResolveTransaction, GetTransactionStatus,
       GetTransactionStatusFails, OnRemoteTransactionNotFound,
       OnGetRemoteTransactionStatusCallback, RollForwardLocalAndRemoteTransactions,
       OnRollForwardRemoteTransactionCallback
<1>6. CASE ClientProceeds \/ TimeOut \/ UNCHANGED vars
    BY Zenon, <1>1, <1>6 DEF ClientProceeds, TimeOut, vars, coordVars
<1> QED
    BY Zenon, <1>1, <1>2, <1>3, <1>4, <1>5, <1>6 DEF Next, CoordinatorStep

\* JournalNeverStale: the log that recovery calls impossible ("This should never
\* happen"), one whose phase is behind the one before it, is not written.
THEOREM JournalIsNeverStale == Spec => JournalNeverStale
<1>1. LocalInv /\ [Next]_vars =>
        [\A c \in Coordinators :
           journal'[c].phase # "NotStarted"
             => ~Ahead(journal[c].phase, journal'[c].phase)]_vars
  <2> SUFFICES ASSUME LocalInv, [Next]_vars, NEW c \in Coordinators,
                      journal'[c].phase # "NotStarted"
               PROVE  ~Ahead(journal[c].phase, journal'[c].phase)
      BY Zenon
  <2>1. /\ Types /\ CoordinatorOK(txn[c], pc[c], journal[c]) /\ journal[c] \in Journals
      BY Zenon DEF LocalInv, Types
  <2>2. CASE journal'[c] = journal[c]
      BY <2>1, <2>2, PhaseTable, RankTable DEF Ahead, Journals
  <2>3. CASE OnLogTransactionCallback(c)
      BY Zenon, <2>1, <2>3 DEF OnLogTransactionCallback, SerializeTransaction, NoJournal, Types
  <2>4. CASE OnLogStateCallback(c)
      BY Zenon, <2>1, <2>4 DEF OnLogStateCallback, SerializeState, Types, CoordinatorOK, JournalOK,
         ProgressOK
  <2> QED
      BY Zenon, <2>1, <2>2, <2>3, <2>4, JournalWrites
<1> QED
    BY <1>1, LocalInvariance, PTL DEF Spec, JournalNeverStale

\* AbortIsFinal: a coordinator that has journalled the abort runs no commands but
\* those of Abort and End, which spend nothing.
THEOREM AbortsAreFinal == Spec => AbortIsFinal
<1>1. LocalInv /\ [Next]_vars =>
        [\A c \in Coordinators :
           journal[c].phase = "AbortNotify" /\ budget'[c] = "spent"
             => budget[c] = "spent"]_vars
  <2> SUFFICES ASSUME LocalInv, [Next]_vars, NEW c \in Coordinators,
                      journal[c].phase = "AbortNotify", budget'[c] = "spent"
               PROVE  budget[c] = "spent"
      BY Zenon
  <2>1. /\ Types /\ CoordinatorOK(txn[c], pc[c], journal[c])
      BY Zenon DEF LocalInv
  <2>2. CASE ExecuteDistributedPhase(c)
    <3>1. txn[c].phase \in {"Begin", "AbortNotify"}
        BY Zenon, <2>1, <2>2 DEF ExecuteDistributedPhase, CoordinatorOK, JournalOK
    <3>2. PICK o \in CommandOutcomes(txn[c].phase, budget[c]) :
             budget' = [budget EXCEPT ![c] = o[2]]
        BY Zenon, <2>2 DEF ExecuteDistributedPhase
    <3>3. o[2] = "spent" => budget[c] = "spent"
        BY <3>1 DEF CommandOutcomes
    <3> QED
        BY Zenon, <2>1, <3>2, <3>3 DEF Types
  <2> QED
      BY Zenon, <2>1, <2>2, JournalWrites
<1> QED
    BY <1>1, LocalInvariance, PTL DEF Spec, AbortIsFinal

=============================================================================
