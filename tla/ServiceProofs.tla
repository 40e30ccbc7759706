----------------------------- MODULE ServiceProofs -----------------------------
(***************************************************************************)
(* Proofs about the parts of a server that TransactionManager and          *)
(* BudgetConsumption model: for any finite set of calls, any limit and any *)
(* number of times the manager is started; and for any clients, requests,  *)
(* hours and number of aborts, that the budgets are consumed the way       *)
(* BudgetLedger promises.                                                  *)
(***************************************************************************)
EXTENDS FiniteSums, TransactionManager, BudgetConsumption

-----------------------------------------------------------------------------
(* The transaction manager.                                                 *)

\* The component is closed while it is stopped or being stopped.
ClosedOK == lifecycle \in {"stopped", "draining"} => ~started

\* The inductive invariant. That the count is exact is what makes Stop's wait for
\* zero mean that nothing is left.
ManagerInv == TypeOK /\ CountIsExact /\ StopDrains /\ ClosedOK

-----------------------------------------------------------------------------
\* A step of one call moves that call only (GoTo).
LEMMA InsideIsFinite == IsFiniteSet(Inside) /\ Cardinality(Inside) \in Nat
<1>1. Inside \in SUBSET Calls
    BY Zenon DEF Inside
<1> QED
    BY Zenon, <1>1, ManagerAssumption, FS_Subset, FS_CardinalityType

\* The initial state is empty.
LEMMA InitManagerInv == Init => ManagerInv
<1> SUFFICES ASSUME Init PROVE ManagerInv
    BY Zenon
<1>1. Inside = {}
    BY Zenon DEF Init, Inside
<1>2. CountIsExact
    BY Zenon, <1>1, FS_EmptySet DEF Init, CountIsExact
<1>3. TypeOK
    <2>1. started \in BOOLEAN
        BY Zenon DEF Init
    <2>2. runs \in 0..MaxRuns /\ count \in Nat
        BY ManagerAssumption DEF Init
    <2> QED
        BY Zenon, <2>1, <2>2 DEF Init, TypeOK
<1>4. StopDrains /\ ClosedOK
    BY Zenon DEF Init, StopDrains, ClosedOK
<1> QED
    BY Zenon, <1>2, <1>3, <1>4 DEF ManagerInv

\* The steps that neither count nor uncount keep the count exact.
LEMMA SameInside ==
    ASSUME CountIsExact, count' = count, Inside' = Inside
    PROVE  CountIsExact'
BY Zenon DEF CountIsExact

\* Every step keeps the invariant.
LEMMA NextManagerInv == ManagerInv /\ [Next]_vars => ManagerInv'
<1> SUFFICES ASSUME ManagerInv, [Next]_vars PROVE ManagerInv'
    BY Zenon
<1> USE ManagerAssumption DEF GoTo
<1>0. TypeOK /\ CountIsExact /\ StopDrains /\ ClosedOK
    BY Zenon DEF ManagerInv
<1>1. ASSUME NEW c \in Calls, CheckLimit(c) PROVE ManagerInv'
    <2>1. count' = count /\ Inside' = Inside
        BY Zenon, <1>0, <1>1 DEF CheckLimit, Inside, TypeOK
    <2> QED
        BY <1>0, <1>1, <2>1, SameInside DEF CheckLimit, ManagerInv, TypeOK, StopDrains, ClosedOK
<1>2. ASSUME NEW c \in Calls, IncrementActiveTransactionsCount(c) PROVE ManagerInv'
    <2>1. c \notin Inside /\ Inside' = Inside \cup {c} /\ count' = count + 1
        BY Zenon, <1>0, <1>2 DEF IncrementActiveTransactionsCount, Inside, TypeOK
    <2>2. Cardinality(Inside') = Cardinality(Inside) + 1
        BY Zenon, <2>1, InsideIsFinite, FS_AddElement
    <2>3. CountIsExact'
        BY Zenon, <1>0, <2>1, <2>2 DEF CountIsExact
    <2> QED
        BY <1>0, <1>2, <2>3
        DEF IncrementActiveTransactionsCount, ManagerInv, TypeOK, StopDrains, ClosedOK
<1>3. ASSUME NEW c \in Calls, CheckStarted(c) PROVE ManagerInv'
    <2>1. count' = count /\ Inside' = Inside
        BY Zenon, <1>0, <1>3 DEF CheckStarted, Inside, TypeOK
    <2>2. CountIsExact'
        BY <1>0, <2>1, SameInside
    <2>3. TypeOK' /\ ClosedOK'
        BY Zenon, <1>0, <1>3 DEF CheckStarted, TypeOK, ClosedOK
    <2>4. StopDrains'
        BY Zenon, <1>0, <1>3 DEF CheckStarted, StopDrains, ClosedOK, TypeOK
    <2> QED
        BY Zenon, <2>2, <2>3, <2>4 DEF ManagerInv
<1>4. ASSUME NEW c \in Calls, RunTask(c) \/ FinishTransaction(c) PROVE ManagerInv'
    <2>1. count' = count /\ Inside' = Inside
        BY Zenon, <1>0, <1>4 DEF RunTask, FinishTransaction, Inside, TypeOK
    <2>2. CountIsExact'
        BY Zenon, <1>0, <2>1, SameInside
    <2>3. TypeOK' /\ ClosedOK'
        BY <1>0, <1>4 DEF RunTask, FinishTransaction, TypeOK, ClosedOK
    <2>4. StopDrains'
        BY Zenon, <1>0, <1>4 DEF RunTask, FinishTransaction, StopDrains, TypeOK
    <2> QED
        BY <2>2, <2>3, <2>4 DEF ManagerInv
<1>5. ASSUME NEW c \in Calls, DecrementActiveTransactionsCount(c) PROVE ManagerInv'
    <2>1. c \in Inside /\ Inside' = Inside \ {c} /\ count' = count - 1
        BY Zenon, <1>0, <1>5 DEF DecrementActiveTransactionsCount, Inside, TypeOK
    <2>2. Cardinality(Inside') = Cardinality(Inside) - 1 /\ Cardinality(Inside') \in Nat
        BY Zenon, <2>1, InsideIsFinite, FS_RemoveElement, FS_CardinalityType
    <2>3. CountIsExact' /\ count' \in Nat
        BY Zenon, <1>0, <2>1, <2>2, InsideIsFinite DEF CountIsExact
    <2>4. TypeOK' /\ ClosedOK' /\ StopDrains'
        BY <1>0, <1>5, <2>3
        DEF DecrementActiveTransactionsCount, TypeOK, StopDrains, ClosedOK
    <2> QED
        BY Zenon, <2>3, <2>4 DEF ManagerInv
<1>6. CASE Run \/ RunEngine \/ Stop
    <2>1. count' = count /\ Inside' = Inside
        BY Zenon, <1>6 DEF Run, RunEngine, Stop, Inside
    <2>2. CountIsExact'
        BY <1>0, <2>1, SameInside
    <2>3. TypeOK'
        <3>1. started' \in BOOLEAN
            BY Zenon, <1>0, <1>6 DEF Run, RunEngine, Stop, TypeOK
        <3>2. runs' \in 0..MaxRuns
            BY <1>0, <1>6 DEF Run, RunEngine, Stop, TypeOK
        <3> QED
            BY <1>0, <1>6, <3>1, <3>2 DEF Run, RunEngine, Stop, TypeOK
    <2>4. StopDrains' /\ ClosedOK'
        BY Zenon, <1>0, <1>6 DEF Run, RunEngine, Stop, StopDrains, ClosedOK
    <2> QED
        BY Zenon, <2>2, <2>3, <2>4 DEF ManagerInv
<1>7. CASE StopEngine
    <2>1. count' = count /\ Inside' = Inside
        BY Zenon, <1>7 DEF StopEngine, Inside
    <2>2. Inside = {}
        BY Zenon, <1>0, <1>7, InsideIsFinite, FS_EmptySet DEF StopEngine, CountIsExact
    <2>3. \A c \in Calls : pc[c] \notin {"task", "engine", "finished"}
        BY Zenon, <2>2 DEF Inside
    <2> QED
        BY Zenon, <1>0, <1>7, <2>1, <2>3, SameInside
        DEF StopEngine, ManagerInv, TypeOK, StopDrains, ClosedOK
<1>8. CASE UNCHANGED vars
    <2>1. count' = count /\ Inside' = Inside
        BY Zenon, <1>8 DEF vars, Inside
    <2> QED
        BY <1>0, <1>8, <2>1, SameInside DEF vars, ManagerInv, TypeOK, StopDrains, ClosedOK
<1> QED
    BY <1>1, <1>2, <1>3, <1>4, <1>5, <1>6, <1>7, <1>8 DEF Next, Call

-----------------------------------------------------------------------------
\* ManagerInv is an invariant of every behaviour.
THEOREM ManagerInvariance == Spec => []ManagerInv
BY InitManagerInv, NextManagerInv, PTL DEF Spec

\* Type correctness; active_transactions_count_, a size_t, never wraps.
THEOREM ManagerTypeCorrectness == Spec => []TypeOK
<1>1. ManagerInv => TypeOK
    BY Zenon DEF ManagerInv
<1> QED
    BY <1>1, ManagerInvariance, PTL

\* active_transactions_count_ is the number of calls between the increment and the
\* decrement.
THEOREM ExactCount == Spec => []CountIsExact
<1>1. ManagerInv => CountIsExact
    BY Zenon DEF ManagerInv
<1> QED
    BY <1>1, ManagerInvariance, PTL

\* Once Stop has returned no request is in the executor, the engine or its callback.
THEOREM StoppedIsDrained == Spec => []StopDrains
<1>1. ManagerInv => StopDrains
    BY Zenon DEF ManagerInv
<1> QED
    BY <1>1, ManagerInvariance, PTL

-----------------------------------------------------------------------------
(* The consumption of budgets.                                              *)

\* The records of a client keep their fields, and only a prepare request has
\* budgets and gets past its handler.
ShapeOK(c) ==
    LET http == cbHttp[c] txn == cbTxn[c] IN
    /\ http = [op |-> http.op, pc |-> http.pc, budgets |-> http.budgets]
    /\ txn = [read |-> txn.read, mutations |-> txn.mutations, aborts |-> txn.aborts]
    /\ CbWellFormed(http.budgets)
    /\ http.pc = "new" => http.op # "PREPARE"
    /\ http.pc \in {"read", "commit", "finish"} => http.op = "PREPARE"
    /\ http.op # "PREPARE" => http.budgets = <<>> /\ cbTaken[c] = 0

\* A transaction at work has consumed nothing, and one about to commit holds what
\* its function made of what it read.
WorkOK(c) ==
    LET http == cbHttp[c] txn == cbTxn[c] IN
    /\ http.pc \in {"new", "read", "commit"} =>
         cbTaken[c] = 0 /\ cbCaptured[c].result = "Success"
    /\ http.pc = "commit" =>
         /\ CbEnough(http.budgets, txn.read)
         /\ txn.mutations = UpdatePbsMutationsToConsumeBudgets(http.budgets, txn.read)

\* The result is what became of the budgets.
OutcomeOK(c) ==
    LET http == cbHttp[c] result == cbAnswer[c].result IN
    http.pc \in {"finish", "done"} /\ http.op = "PREPARE" =>
      /\ result # "none"
      /\ result = "Success" => cbTaken[c] = 1
      /\ result \notin {"Success", "FAIL_TO_COMMIT"} => cbTaken[c] = 0

ClientOK(c) == ShapeOK(c) /\ WorkOK(c) /\ OutcomeOK(c)

\* The variables are functions of the clients.
FamiliesOK ==
    /\ DOMAIN cbHttp = CbClients /\ cbHttp = [c \in CbClients |-> cbHttp[c]]
    /\ DOMAIN cbTxn = CbClients /\ cbTxn = [c \in CbClients |-> cbTxn[c]]
    /\ DOMAIN cbCaptured = CbClients /\ cbCaptured = [c \in CbClients |-> cbCaptured[c]]
    /\ DOMAIN cbAnswer = CbClients /\ cbAnswer = [c \in CbClients |-> cbAnswer[c]]
    /\ DOMAIN cbTaken = CbClients /\ cbTaken = [c \in CbClients |-> cbTaken[c]]

\* The inductive invariant.
ConsumptionInv == CbTypeOK /\ FamiliesOK /\ \A c \in CbClients : ClientOK(c)

-----------------------------------------------------------------------------
\* The budgets asked of an hour of a row among the first n.
AskedOf(budgets, n, row, hour) ==
    {j \in 1..n : CbRow(budgets[j]) = row /\ budgets[j].hour = hour}

\* A request asks whole tokens, and none of an hour it has no budget in.
LEMMA AskedType ==
    ASSUME NEW budgets, CbWellFormed(budgets), NEW n \in 0..Len(budgets), NEW row, NEW hour
    PROVE  /\ CbAsked(budgets, n, row, hour) \in Nat
           /\ AskedOf(budgets, n, row, hour) = {} => CbAsked(budgets, n, row, hour) = 0
<1> DEFINE S == AskedOf(budgets, n, row, hour)
           f == [i \in S |-> budgets[i].tokens]
<1>1. CbAsked(budgets, n, row, hour) = SumFunctionOnSet(f, S)
    BY Zenon DEF CbAsked, SumFunction, AskedOf
<1>2. IsFiniteSet(S)
    <2>1. IsFiniteSet(1..n) /\ S \subseteq 1..n
        BY FS_Interval DEF AskedOf
    <2> QED
        BY Zenon, <2>1, FS_Subset
<1>3. \A i \in S : f[i] \in Nat
    BY DEF CbWellFormed, AskedOf
<1> HIDE DEF S, f
<1> QED
    BY <1>1, <1>2, <1>3, SumNat, SumEmpty DEF S

\* The last budget of an hour has found the tokens of all of them.
LEMMA EnoughForAll ==
    ASSUME NEW budgets, CbWellFormed(budgets), NEW mutations, CbEnough(budgets, mutations),
           NEW row, NEW hour, AskedOf(budgets, Len(budgets), row, hour) # {}
    PROVE  CbAsked(budgets, Len(budgets), row, hour) <= CbRowOrNew(mutations, row)[hour]
<1> DEFINE Match(j) == CbRow(budgets[j]) = row /\ budgets[j].hour = hour
           Ends == {k \in Nat : \A j \in 1..Len(budgets) : j > k => ~Match(j)}
<1>1. Len(budgets) \in Ends
    OBVIOUS
<1>2. PICK k \in Ends : \A m \in Ends : k <= m
    BY Zenon, <1>1, LeastNatural
<1>3. k <= Len(budgets)
    BY <1>2
<1>4. k # 0
    BY DEF AskedOf
<1>5. k \in 1..Len(budgets) /\ Match(k)
    <2>1. k - 1 \in Nat /\ k - 1 \notin Ends
        BY <1>2, <1>4
    <2>2. PICK j \in 1..Len(budgets) : j > k - 1 /\ Match(j)
        BY Zenon, <2>1
    <2>3. ~(j > k)
        BY Zenon, <2>2
    <2> QED
        BY <2>2
<1>6. AskedOf(budgets, k, row, hour) = AskedOf(budgets, Len(budgets), row, hour)
    BY <1>3 DEF AskedOf
<1>7. CbAsked(budgets, k, row, hour) = CbAsked(budgets, Len(budgets), row, hour)
    BY Zenon, <1>6 DEF CbAsked, AskedOf
<1> QED
    BY <1>5, <1>7 DEF CbEnough

\* What a transaction that is still serial writes: each hour loses what the
\* request asks of it, which it has.
LEMMA Writes ==
    ASSUME ConsumptionInv, NEW c \in CbClients, cbHttp[c].pc = "commit", CbSerial(c), CbWrite(c),
           NEW row, NEW hour \in CbHours
    PROVE  LET bill == CbAsked(cbHttp[c].budgets, Len(cbHttp[c].budgets), row, hour) IN
           /\ bill \in Nat /\ CbRowOrNew(cbRows, row)[hour] \in 0..1
           /\ bill <= CbRowOrNew(cbRows, row)[hour]
           /\ CbRowOrNew(cbRows', row)[hour] = CbRowOrNew(cbRows, row)[hour] - bill
<1> DEFINE budgets == cbHttp[c].budgets
           bill == CbAsked(budgets, Len(budgets), row, hour)
           txn == cbTxn[c]
<1>1. /\ CbWellFormed(budgets) /\ CbEnough(budgets, txn.read)
      /\ txn.mutations = UpdatePbsMutationsToConsumeBudgets(budgets, txn.read)
    <2>1. ClientOK(c)
        BY Zenon DEF ConsumptionInv
    <2> QED
        BY Zenon, <2>1 DEF ClientOK, ShapeOK, WorkOK
<1>2. txn.read = [r \in CbRowsOf(budgets) \cap DOMAIN cbRows |-> cbRows[r]]
    BY Zenon DEF CbSerial, ReadPrivacyBudgetsForKeys
<1>3. \A r \in DOMAIN cbRows : cbRows[r] \in [CbHours -> 0..1]
    BY Zenon DEF ConsumptionInv, CbTypeOK, kDefaultPrivacyBudgetCount
<1>4. CbRowOrNew(cbRows, row)[hour] \in 0..1
    BY <1>3 DEF CbRowOrNew, ResetTokenCount, kDefaultPrivacyBudgetCount
<1>5. Len(budgets) \in Nat
    OBVIOUS
<1> HIDE DEF budgets, bill, txn
<1>6. bill \in Nat /\ (AskedOf(budgets, Len(budgets), row, hour) = {} => bill = 0)
    BY <1>1, AskedType DEF bill
<1>7. row \in CbRowsOf(budgets) => CbRowOrNew(txn.read, row) = CbRowOrNew(cbRows, row)
    BY Zenon, <1>2 DEF CbRowOrNew
<1>8. row \notin CbRowsOf(budgets) => AskedOf(budgets, Len(budgets), row, hour) = {}
    BY DEF AskedOf, CbRowsOf
<1>9. bill <= CbRowOrNew(cbRows, row)[hour]
    <2>1. CASE AskedOf(budgets, Len(budgets), row, hour) = {}
        BY <1>4, <1>6, <2>1
    <2>2. CASE AskedOf(budgets, Len(budgets), row, hour) # {}
        BY <1>1, <1>7, <1>8, <2>2, EnoughForAll DEF bill
    <2> QED
        BY Zenon, <2>1, <2>2
<1>10. DOMAIN txn.mutations = CbRowsOf(budgets)
    BY Zenon, <1>1, <1>2 DEF UpdatePbsMutationsToConsumeBudgets
<1>11. cbRows' = [r \in DOMAIN cbRows \cup DOMAIN txn.mutations |->
                    IF r \in DOMAIN txn.mutations THEN txn.mutations[r] ELSE cbRows[r]]
    BY Zenon DEF CbWrite, txn
<1>12. CASE row \in CbRowsOf(budgets)
    <2>1. CbRowOrNew(cbRows', row) = txn.mutations[row]
        BY <1>10, <1>11, <1>12 DEF CbRowOrNew
    <2>2. txn.mutations[row][hour] = CbRowOrNew(txn.read, row)[hour] - bill
        BY <1>1, <1>12 DEF UpdatePbsMutationsToConsumeBudgets, bill
    <2> QED
        BY Zenon, <1>4, <1>6, <1>7, <1>9, <1>12, <2>1, <2>2 DEF bill, budgets
<1>13. CASE row \notin CbRowsOf(budgets)
    <2>1. CbRowOrNew(cbRows', row) = CbRowOrNew(cbRows, row)
        BY Zenon, <1>10, <1>11, <1>13 DEF CbRowOrNew
    <2>2. bill = 0
        BY Zenon, <1>6, <1>8, <1>13
    <2> QED
        BY <1>4, <2>1, <2>2 DEF bill, budgets
<1> QED
    BY Zenon, <1>12, <1>13

\* The initial state.
LEMMA InitConsumptionInv == CbInit => ConsumptionInv
<1> SUFFICES ASSUME CbInit PROVE ConsumptionInv
    BY Zenon
<1>1. CbWellFormed(<<>>)
    BY DEF CbWellFormed
<1>2. CbTypeOK
    BY CbAssumption DEF CbInit, CbTypeOK, CbNoTxn, CbResult, ResetTokenCount,
                        kDefaultPrivacyBudgetCount
<1>3. FamiliesOK
    BY Zenon DEF CbInit, FamiliesOK
<1>4. ASSUME NEW c \in CbClients PROVE ClientOK(c)
    <2>1. ShapeOK(c)
        BY Zenon, <1>1 DEF CbInit, ShapeOK, CbNoTxn
    <2>2. WorkOK(c)
        BY Zenon DEF CbInit, WorkOK, CbResult
    <2>3. OutcomeOK(c)
        BY Zenon DEF CbInit, OutcomeOK
    <2> QED
        BY Zenon, <2>1, <2>2, <2>3 DEF ClientOK
<1> QED
    BY <1>2, <1>3, <1>4 DEF ConsumptionInv

\* What a step of one client has to show: the requests of the others are as
\* they were.
OnlyMoves(c) ==
    /\ FamiliesOK'
    /\ \A d \in CbClients \ {c} :
         /\ cbHttp'[d] = cbHttp[d] /\ cbTxn'[d] = cbTxn[d] /\ cbCaptured'[d] = cbCaptured[d]
         /\ cbAnswer'[d] = cbAnswer[d] /\ cbTaken'[d] = cbTaken[d]

RowsTyped == \A row \in DOMAIN cbRows : cbRows[row] \in [CbHours -> 0..kDefaultPrivacyBudgetCount]

\* The types of a client's records.
ClientTyped(c) ==
    /\ cbHttp[c].pc \in {"new", "read", "commit", "finish", "done"}
    /\ cbTxn[c].aborts \in 0..CbMaxAborts
    /\ cbAnswer[c].result \in {"none", "Success", "Refused", "EXHAUSTED", "PARSING_ERROR",
                               "FAIL_TO_COMMIT"}
    /\ cbTaken[c] \in 0..1

\* The invariant of the others follows.
LEMMA OneMoves ==
    ASSUME ConsumptionInv, NEW c \in CbClients, OnlyMoves(c),
           RowsTyped', ClientTyped(c)', ClientOK(c)'
    PROVE  ConsumptionInv'
<1>1. ASSUME NEW d \in CbClients \ {c} PROVE ClientOK(d)'
    <2>1. ClientOK(d)
        BY Zenon DEF ConsumptionInv
    <2> QED
        BY <1>1, <2>1 DEF OnlyMoves, ClientOK, ShapeOK, WorkOK, OutcomeOK
<1>2. ASSUME NEW d \in CbClients \ {c} PROVE ClientTyped(d)'
    <2>1. ClientTyped(d)
        BY Zenon DEF ConsumptionInv, CbTypeOK, ClientTyped
    <2> QED
        BY Zenon, <2>1 DEF OnlyMoves, ClientTyped
<1>3. \A d \in CbClients : ClientTyped(d)' /\ ClientOK(d)'
    BY Zenon, <1>1, <1>2
<1>4. CbTypeOK'
    BY <1>3 DEF CbTypeOK, RowsTyped, ClientTyped
<1> QED
    BY Zenon, <1>3, <1>4 DEF ConsumptionInv, OnlyMoves

\* The handlers.
LEMMA PrepareInv ==
    ASSUME ConsumptionInv, NEW c \in CbClients, NEW headers \in CbHeaders, NEW body \in CbBodies,
           V2PrepareTransaction(c, headers, body)
    PROVE  OnlyMoves(c) /\ ConsumptionInv'
<1>1. FamiliesOK /\ ClientOK(c) /\ ClientTyped(c) /\ RowsTyped
    BY Zenon DEF ConsumptionInv, CbTypeOK, ClientTyped, RowsTyped
<1>2. CbWellFormed(<<>>)
    BY DEF CbWellFormed
<1>3. OnlyMoves(c)
    BY Zenon, <1>1 DEF V2PrepareTransaction, OnlyMoves, FamiliesOK
<1>4. RowsTyped'
    BY Zenon, <1>1 DEF V2PrepareTransaction, RowsTyped
<1>5. ClientTyped(c)'
    BY <1>1 DEF V2PrepareTransaction, ClientTyped, FamiliesOK, CbResult
<1>6. ClientOK(c)'
    <2>1. ShapeOK(c)'
        BY <1>1, CbAssumption DEF V2PrepareTransaction, ClientOK, ShapeOK, FamiliesOK
    <2>2. WorkOK(c)'
        BY <1>1 DEF V2PrepareTransaction, ClientOK, WorkOK, FamiliesOK
    <2>3. OutcomeOK(c)'
        BY <1>1 DEF V2PrepareTransaction, ClientOK, WorkOK, OutcomeOK, FamiliesOK, CbResult
    <2> QED
        BY Zenon, <2>1, <2>2, <2>3 DEF ClientOK
<1> QED
    BY Zenon, <1>3, <1>4, <1>5, <1>6, OneMoves

\* A request that is answered at once changes nothing but its own client's
\* request (front_end_service_v2.cc: every phase but Prepare).
LEMMA AnswerInv ==
    ASSUME ConsumptionInv, NEW c \in CbClients, NEW op, op # "PREPARE", NEW ok, V2Answer(c, op, ok)
    PROVE  OnlyMoves(c) /\ ConsumptionInv'
<1>1. FamiliesOK /\ ClientOK(c) /\ ClientTyped(c) /\ RowsTyped
    BY Zenon DEF ConsumptionInv, CbTypeOK, ClientTyped, RowsTyped
<1>2. CbWellFormed(<<>>)
    BY DEF CbWellFormed
<1>3. OnlyMoves(c)
    BY Zenon, <1>1 DEF V2Answer, OnlyMoves, FamiliesOK
<1>4. RowsTyped'
    BY Zenon, <1>1 DEF V2Answer, RowsTyped
<1>5. ClientTyped(c)'
    BY <1>1 DEF V2Answer, ClientTyped, CbResult
<1>6. ClientOK(c)'
    <2>1. ShapeOK(c)'
        BY <1>1 DEF V2Answer, ClientOK, ShapeOK
    <2>2. WorkOK(c)'
        BY Zenon, <1>1 DEF V2Answer, WorkOK, FamiliesOK
    <2>3. OutcomeOK(c)'
        BY DEF V2Answer, OutcomeOK
    <2> QED
        BY Zenon, <2>1, <2>2, <2>3 DEF ClientOK
<1> QED
    BY Zenon, <1>3, <1>4, <1>5, <1>6, OneMoves

\* client.Commit fails: the function runs again, with nothing consumed, or the
\* request finishes with what the function captured.
LEMMA FailsMoves ==
    ASSUME FamiliesOK, NEW c \in CbClients, NEW status, NEW captured,
           CbFails(c, status, captured), cbTaken' = [cbTaken EXCEPT ![c] = cbTaken'[c]]
    PROVE  OnlyMoves(c)
<1>1. FamiliesOK'
    BY Zenon DEF FamiliesOK, CbFails, CbSetPc
<1> QED
    BY <1>1 DEF FamiliesOK, CbFails, CbSetPc, OnlyMoves

\* A failed attempt, rerun or given up, leaves its client's request well formed.
LEMMA FailsKeep ==
    ASSUME FamiliesOK, NEW c \in CbClients, ClientOK(c), ClientTyped(c),
           cbHttp[c].pc \in {"read", "commit"}, NEW status, NEW captured,
           CbFails(c, status, captured), cbTaken'[c] \in 0..1,
           captured.result \in {"Success", "EXHAUSTED", "PARSING_ERROR"},
           captured.result # "Success" => ~CbReruns(status),
           cbTaken'[c] # 0 => captured.result = "Success" /\ ~CbReruns(status)
    PROVE  ClientTyped(c)' /\ ClientOK(c)'
<1>1. /\ cbHttp'[c] = [op |-> cbHttp[c].op, pc |-> cbHttp'[c].pc, budgets |-> cbHttp[c].budgets]
      /\ cbHttp'[c].pc \in {"read", "finish"}
    BY DEF FamiliesOK, ClientOK, ShapeOK, CbFails, CbSetPc
<1>2. cbCaptured'[c] = captured
    BY Zenon DEF FamiliesOK, CbFails
<1>3. /\ cbTxn'[c] = [read |-> cbTxn'[c].read, mutations |-> cbTxn'[c].mutations,
                      aborts |-> cbTxn'[c].aborts]
      /\ cbTxn'[c].aborts \in 0..CbMaxAborts
    BY CbAssumption DEF FamiliesOK, ClientOK, ShapeOK, ClientTyped, CbFails, CbNoTxn
<1>4. cbHttp'[c].pc = "read" => /\ captured.result = "Success" /\ cbTaken'[c] = 0
                               /\ cbAnswer'[c] = cbAnswer[c]
    BY DEF FamiliesOK, ClientOK, ShapeOK, CbFails, CbSetPc
<1>5. cbHttp'[c].pc = "finish" =>
        cbAnswer'[c].result = IF captured.result # "Success" THEN captured.result
                              ELSE "FAIL_TO_COMMIT"
    BY DEF FamiliesOK, ClientOK, ShapeOK, CbFails, CbSetPc, CbResult
<1>6. ClientTyped(c)'
    BY Zenon, <1>1, <1>3, <1>4, <1>5 DEF ClientTyped
<1>7. cbHttp[c].op = "PREPARE" /\ CbWellFormed(cbHttp[c].budgets)
    BY Zenon DEF ClientOK, ShapeOK
<1>8. ClientOK(c)'
    <2>1. ShapeOK(c)'
        <3>1. /\ cbHttp'[c].op = cbHttp[c].op /\ cbHttp'[c].budgets = cbHttp[c].budgets
              /\ cbHttp'[c].pc # "new"
            BY <1>1
        <3> QED
            BY Zenon, <1>1, <1>3, <1>7, <3>1 DEF ShapeOK
    <2>2. WorkOK(c)'
        BY <1>1, <1>2, <1>4, <1>5, <1>7 DEF ClientOK, ShapeOK, WorkOK
    <2>3. OutcomeOK(c)'
        BY Zenon, <1>1, <1>2, <1>3, <1>4, <1>5, <1>7 DEF ClientOK, ShapeOK, WorkOK, OutcomeOK
    <2> QED
        BY Zenon, <2>1, <2>2, <2>3 DEF ClientOK
<1> QED
    BY Zenon, <1>6, <1>8

\* The function of the transaction.
LEMMA AttemptInv ==
    ASSUME ConsumptionInv, NEW c \in CbClients, CbAttempt(c)
    PROVE  OnlyMoves(c) /\ ConsumptionInv'
<1>1. FamiliesOK /\ ClientOK(c) /\ ClientTyped(c) /\ RowsTyped
    BY Zenon DEF ConsumptionInv, CbTypeOK, ClientTyped, RowsTyped
<1>2. RowsTyped' /\ cbTaken' = cbTaken /\ cbHttp[c].pc = "read"
    BY Zenon, <1>1 DEF CbAttempt, RowsTyped
<1>3. cbTaken[c] = 0 /\ cbCaptured[c].result = "Success" /\ cbTaken = [cbTaken EXCEPT ![c] = cbTaken[c]]
    BY <1>1, <1>2 DEF ClientOK, WorkOK, FamiliesOK
<1>4. ASSUME NEW status, NEW captured, CbFails(c, status, captured),
             captured.result \in {"Success", "EXHAUSTED", "PARSING_ERROR"},
             captured.result # "Success" => ~CbReruns(status)
      PROVE  OnlyMoves(c) /\ ConsumptionInv'
    <2>1. OnlyMoves(c)
        BY Zenon, <1>1, <1>2, <1>3, <1>4, FailsMoves
    <2>2. ClientTyped(c)' /\ ClientOK(c)'
        BY <1>1, <1>2, <1>3, <1>4, FailsKeep
    <2> QED
        BY <1>2, <2>1, <2>2, OneMoves
<1>5. ASSUME NEW status, CbFails(c, status, cbCaptured[c]) PROVE OnlyMoves(c) /\ ConsumptionInv'
    BY <1>3, <1>4, <1>5
<1>6. ASSUME NEW result \in {"EXHAUSTED", "PARSING_ERROR"}, NEW indices,
             CbFails(c, "kInvalidArgument", CbResult(result, indices))
      PROVE  OnlyMoves(c) /\ ConsumptionInv'
    <2>1. CbResult(result, indices).result = result /\ ~CbReruns("kInvalidArgument")
        BY Zenon DEF CbResult, CbReruns
    <2> QED
        BY Zenon, <1>4, <1>6, <2>1
<1>7. ASSUME NEW read, CbEnough(cbHttp[c].budgets, read),
             cbTxn' = [cbTxn EXCEPT ![c].read = read,
                         ![c].mutations = UpdatePbsMutationsToConsumeBudgets(cbHttp[c].budgets, read)],
             CbSetPc(c, "commit"), UNCHANGED <<cbCaptured, cbAnswer>>
      PROVE  OnlyMoves(c) /\ ConsumptionInv'
    <2> DEFINE mutations == UpdatePbsMutationsToConsumeBudgets(cbHttp[c].budgets, read)
    <2>0. mutations = UpdatePbsMutationsToConsumeBudgets(cbHttp[c].budgets, read)
        OBVIOUS
    <2>1. cbTxn' = [cbTxn EXCEPT ![c].read = read, ![c].mutations = mutations]
        BY Zenon, <1>7
    <2> HIDE DEF mutations
    <2>2. OnlyMoves(c)
        <3>1. FamiliesOK'
            BY <1>1, <1>2, <1>7, <2>1 DEF FamiliesOK, CbSetPc
        <3> QED
            BY Zenon, <1>2, <1>7, <3>1 DEF FamiliesOK, CbSetPc, OnlyMoves
    <2>3. cbTxn'[c] = [read |-> read, mutations |-> mutations, aborts |-> cbTxn[c].aborts]
        BY Zenon, <1>1, <2>1 DEF FamiliesOK, ClientOK, ShapeOK, WorkOK, OutcomeOK
    <2>4. cbHttp'[c] = [op |-> cbHttp[c].op, pc |-> "commit", budgets |-> cbHttp[c].budgets]
        BY Zenon, <1>1, <1>7 DEF FamiliesOK, ClientOK, ShapeOK, CbSetPc
    <2>5. ClientTyped(c)'
        BY <1>1, <1>2, <1>7, <2>3, <2>4 DEF ClientTyped
    <2>6. cbHttp[c].op = "PREPARE" /\ CbWellFormed(cbHttp[c].budgets)
        BY <1>1, <1>2 DEF ClientOK, ShapeOK
    <2>7. ClientOK(c)'
        <3>1. /\ CbEnough(cbHttp'[c].budgets, cbTxn'[c].read)
              /\ cbTxn'[c].mutations
                   = UpdatePbsMutationsToConsumeBudgets(cbHttp'[c].budgets, cbTxn'[c].read)
            BY <1>7, <2>0, <2>3, <2>4
        <3>2. /\ cbHttp'[c] = [op |-> cbHttp'[c].op, pc |-> cbHttp'[c].pc,
                               budgets |-> cbHttp'[c].budgets]
              /\ cbHttp'[c].pc = "commit" /\ cbHttp'[c].op = "PREPARE"
              /\ CbWellFormed(cbHttp'[c].budgets)
            BY <2>4, <2>6
        <3>3. cbTxn'[c] = [read |-> cbTxn'[c].read, mutations |-> cbTxn'[c].mutations,
                           aborts |-> cbTxn'[c].aborts]
            BY Zenon, <2>3
        <3>4. cbTaken'[c] = 0 /\ cbCaptured'[c].result = "Success"
            BY Zenon, <1>2, <1>3, <1>7
        <3> QED
            BY Zenon, <3>1, <3>2, <3>3, <3>4 DEF ClientOK, ShapeOK, WorkOK, OutcomeOK
    <2> QED
        BY Zenon, <1>2, <2>2, <2>5, <2>7, OneMoves
<1> QED
    BY <1>5, <1>6, <1>7 DEF CbAttempt

\* The commit.
LEMMA CommitInv ==
    ASSUME ConsumptionInv, NEW c \in CbClients, CbCommit(c)
    PROVE  OnlyMoves(c) /\ ConsumptionInv'
<1>1. FamiliesOK /\ ClientOK(c) /\ ClientTyped(c) /\ RowsTyped
    BY Zenon DEF ConsumptionInv, CbTypeOK, ClientTyped, RowsTyped
<1>2. cbHttp[c].pc = "commit"
    BY Zenon DEF CbCommit
<1>3. cbTaken[c] = 0 /\ cbCaptured[c].result = "Success" /\ cbTaken = [cbTaken EXCEPT ![c] = cbTaken[c]]
    BY <1>1, <1>2 DEF ClientOK, WorkOK, FamiliesOK
<1>4. ASSUME CbSerial(c), CbWrite(c)
      PROVE  RowsTyped' /\ cbTaken' = [cbTaken EXCEPT ![c] = 1] /\ cbTaken'[c] = 1
    <2>1. cbTaken' = [cbTaken EXCEPT ![c] = 1] /\ cbTaken'[c] = 1
        BY <1>1, <1>3, <1>4 DEF CbWrite, FamiliesOK
    <2>2. ASSUME NEW row \in DOMAIN cbRows' PROVE cbRows'[row] \in [CbHours -> 0..1]
        <3>1. \A hour \in CbHours : CbRowOrNew(cbRows', row)[hour] \in 0..1
            BY <1>2, <1>4, Writes
        <3>2. CbRowOrNew(cbRows', row) = cbRows'[row]
            BY Zenon DEF CbRowOrNew
        <3>3. cbRows'[row] = [h \in CbHours |-> cbRows'[row][h]]
            <4>1. CASE row \in DOMAIN cbTxn[c].mutations
                <5>1. cbRows'[row] = cbTxn[c].mutations[row]
                    BY Zenon, <1>4, <4>1 DEF CbWrite
                <5>2. cbTxn[c].mutations
                        = UpdatePbsMutationsToConsumeBudgets(cbHttp[c].budgets, cbTxn[c].read)
                    BY Zenon, <1>1, <1>2 DEF ClientOK, WorkOK
                <5> QED
                    BY Zenon, <4>1, <5>1, <5>2 DEF UpdatePbsMutationsToConsumeBudgets
            <4>2. CASE row \notin DOMAIN cbTxn[c].mutations
                <5>1. row \in DOMAIN cbRows /\ cbRows'[row] = cbRows[row]
                    BY Zenon, <1>4, <4>2 DEF CbWrite
                <5> QED
                    BY <1>1, <5>1 DEF RowsTyped
            <4> QED
                BY Zenon, <4>1, <4>2
        <3> QED
            BY Zenon, <3>1, <3>2, <3>3
    <2> QED
        BY Zenon, <2>1, <2>2 DEF RowsTyped, kDefaultPrivacyBudgetCount
<1>5. ASSUME NEW status, CbFails(c, status, cbCaptured[c]), RowsTyped',
             cbTaken' = [cbTaken EXCEPT ![c] = cbTaken'[c]], cbTaken'[c] \in 0..1,
             cbTaken'[c] # 0 => ~CbReruns(status)
      PROVE  OnlyMoves(c) /\ ConsumptionInv'
    <2>1. OnlyMoves(c)
        BY <1>1, <1>5, FailsMoves
    <2>2. ClientTyped(c)' /\ ClientOK(c)'
        BY <1>1, <1>2, <1>3, <1>5, FailsKeep
    <2> QED
        BY Zenon, <1>5, <2>1, <2>2, OneMoves
<1>6. CASE CbSerial(c) /\ CbWrite(c) /\ CbFails(c, "other", cbCaptured[c])
    <2>1. ~CbReruns("other")
        BY Zenon DEF CbReruns
    <2> QED
        BY <1>4, <1>5, <1>6, <2>1
<1>7. ASSUME NEW status, CbFails(c, status, cbCaptured[c]), UNCHANGED <<cbRows, cbTaken>>
      PROVE  OnlyMoves(c) /\ ConsumptionInv'
    <2>1. RowsTyped' /\ cbTaken'[c] = 0 /\ cbTaken' = [cbTaken EXCEPT ![c] = cbTaken'[c]]
        BY <1>1, <1>3, <1>7 DEF RowsTyped
    <2> QED
        BY <1>5, <1>7, <2>1
<1>8. ASSUME CbSerial(c), CbWrite(c), CbSetPc(c, "finish"), UNCHANGED <<cbTxn, cbCaptured>>,
             cbAnswer' = [cbAnswer EXCEPT ![c] = CbResult("Success", <<>>)]
      PROVE  OnlyMoves(c) /\ ConsumptionInv'
    <2>1. RowsTyped' /\ cbTaken' = [cbTaken EXCEPT ![c] = 1] /\ cbTaken'[c] = 1
        BY Zenon, <1>4, <1>8
    <2>2. OnlyMoves(c)
        <3>1. FamiliesOK'
            BY <1>1, <1>8, <2>1 DEF FamiliesOK, CbSetPc
        <3> QED
            BY <1>8, <2>1, <3>1 DEF CbSetPc, OnlyMoves
    <2>3. cbHttp'[c] = [op |-> cbHttp[c].op, pc |-> "finish", budgets |-> cbHttp[c].budgets]
        BY Zenon, <1>1, <1>8 DEF FamiliesOK, ClientOK, ShapeOK, CbSetPc
    <2>4. cbAnswer'[c].result = "Success"
        BY Zenon, <1>1, <1>8 DEF FamiliesOK, CbResult
    <2>5. ClientTyped(c)'
        BY <1>1, <1>8, <2>1, <2>3, <2>4 DEF ClientTyped
    <2>6. cbHttp[c].op = "PREPARE" /\ CbWellFormed(cbHttp[c].budgets)
          /\ cbTxn[c] = [read |-> cbTxn[c].read, mutations |-> cbTxn[c].mutations,
                         aborts |-> cbTxn[c].aborts]
        BY Zenon, <1>1, <1>2 DEF ClientOK, ShapeOK
    <2>7. ClientOK(c)'
        <3>1. ShapeOK(c)'
            BY <1>8, <2>1, <2>3, <2>6 DEF ShapeOK
        <3>2. WorkOK(c)'
            BY <2>3 DEF WorkOK
        <3>3. OutcomeOK(c)'
            BY <2>1, <2>4 DEF OutcomeOK
        <3> QED
            BY Zenon, <3>1, <3>2, <3>3 DEF ClientOK
    <2> QED
        BY Zenon, <2>1, <2>2, <2>5, <2>7, OneMoves
<1> QED
    BY <1>6, <1>7, <1>8 DEF CbCommit

\* The client is answered.
LEMMA CallbackInv ==
    ASSUME ConsumptionInv, NEW c \in CbClients, CbOnConsumeBudgetCallback(c)
    PROVE  OnlyMoves(c) /\ ConsumptionInv'
<1>1. FamiliesOK /\ ClientOK(c) /\ ClientTyped(c) /\ RowsTyped
    BY Zenon DEF ConsumptionInv, CbTypeOK, ClientTyped, RowsTyped
<1>2. FamiliesOK'
    BY <1>1 DEF CbOnConsumeBudgetCallback, CbSetPc, FamiliesOK
<1>3. OnlyMoves(c)
    BY <1>2 DEF CbOnConsumeBudgetCallback, CbSetPc, OnlyMoves
<1>4. cbHttp'[c] = [op |-> cbHttp[c].op, pc |-> "done", budgets |-> cbHttp[c].budgets]
    BY Zenon, <1>1 DEF CbOnConsumeBudgetCallback, CbSetPc, FamiliesOK, ClientOK, ShapeOK
<1>5. RowsTyped' /\ ClientTyped(c)'
    BY <1>1, <1>4 DEF CbOnConsumeBudgetCallback, RowsTyped, ClientTyped
<1>6. ClientOK(c)'
    <2>1. ShapeOK(c)'
        <3>1. /\ cbHttp'[c].op = cbHttp[c].op /\ cbHttp'[c].budgets = cbHttp[c].budgets
              /\ cbHttp'[c].pc = "done"
            BY <1>4
        <3>2. cbTxn' = cbTxn /\ cbTaken' = cbTaken
            BY Zenon DEF CbOnConsumeBudgetCallback
        <3> QED
            BY Zenon, <1>1, <1>4, <3>1, <3>2 DEF ClientOK, ShapeOK
    <2>2. WorkOK(c)'
        BY <1>4 DEF WorkOK
    <2>3. OutcomeOK(c)'
        BY <1>1 DEF CbOnConsumeBudgetCallback, ClientOK, ShapeOK, OutcomeOK
    <2> QED
        BY Zenon, <2>1, <2>2, <2>3 DEF ClientOK
<1> QED
    BY Zenon, <1>3, <1>5, <1>6, OneMoves

\* Every step keeps the invariant.
LEMMA NextConsumptionInv == ConsumptionInv /\ [CbNext]_cbVars => ConsumptionInv'
<1> SUFFICES ASSUME ConsumptionInv, [CbNext]_cbVars PROVE ConsumptionInv'
    BY Zenon
<1>1. CASE UNCHANGED cbVars
    BY <1>1 DEF cbVars, ConsumptionInv, CbTypeOK, FamiliesOK, ClientOK, ShapeOK, WorkOK, OutcomeOK
<1>2. ASSUME NEW c \in CbClients, NEW op \in {"BEGIN", "COMMIT", "NOTIFY", "ABORT", "END", "STATUS"},
             NEW ok, V2Answer(c, op, ok)
      PROVE  ConsumptionInv'
    BY Zenon, <1>2, AnswerInv
<1>3. ASSUME NEW c \in CbClients, NEW headers \in CbHeaders,
             \/ V2BeginTransaction(c, headers) \/ V2CommitTransaction(c, headers)
             \/ V2NotifyTransaction(c, headers) \/ V2AbortTransaction(c, headers)
             \/ V2EndTransaction(c, headers) \/ V2GetTransactionStatus(c)
      PROVE  ConsumptionInv'
    BY Zenon, <1>2, <1>3 DEF V2BeginTransaction, V2CommitTransaction, V2NotifyTransaction,
                      V2AbortTransaction, V2EndTransaction, V2GetTransactionStatus
<1> QED
    BY <1>1, <1>3, PrepareInv, AttemptInv, CommitInv, CallbackInv DEF CbNext, CbStep

\* The inductive invariant holds.
THEOREM ConsumptionInvariance == CbSpec => []ConsumptionInv
BY InitConsumptionInv, NextConsumptionInv, PTL DEF CbSpec

\* The states are well typed: in particular, no hour of a row ever has fewer
\* than no tokens or more than it started with (consume_budget.cc:264).
THEOREM ConsumptionTypeCorrectness == CbSpec => []CbTypeOK
<1>1. ConsumptionInv => CbTypeOK
    BY Zenon DEF ConsumptionInv
<1> QED
    BY <1>1, ConsumptionInvariance, PTL

-----------------------------------------------------------------------------
(* The refinement.                                                          *)

\* A client without budgets asks nothing.
LEMMA NoBill ==
    ASSUME NEW row, NEW hour
    PROVE  CbAsked(<<>>, Len(<<>>), row, hour) = 0
<1>1. CbWellFormed(<<>>) /\ Len(<<>>) \in 0..Len(<<>>)
    BY DEF CbWellFormed
<1>2. AskedOf(<<>>, Len(<<>>), row, hour) = {}
    BY DEF AskedOf
<1> QED
    BY Zenon, <1>1, <1>2, AskedType

\* The initial state is one of the ledger.
LEMMA InitIsLedger == CbInit => Ledger!LedgerInit
<1> SUFFICES ASSUME CbInit PROVE Ledger!LedgerInit
    BY Zenon
<1>1. CbBills = [c \in CbClients |-> [a \in CbAccounts |-> 0]]
    <2>1. \A c \in CbClients : cbHttp[c].budgets = <<>>
        BY DEF CbInit
    <2> QED
        BY Zenon, <2>1, NoBill DEF CbBills
<1>2. CbBalances = [a \in CbAccounts |-> kDefaultPrivacyBudgetCount]
    <2>1. \A row : CbRowOrNew(cbRows, row) = ResetTokenCount
        BY Zenon DEF CbInit, CbRowOrNew
    <2>2. \A a \in CbAccounts : a[2] \in CbHours
        BY DEF CbAccounts
    <2>3. \A a \in CbAccounts : CbRowOrNew(cbRows, a[1])[a[2]] = kDefaultPrivacyBudgetCount
        BY <2>1, <2>2 DEF ResetTokenCount
    <2> QED
        BY Zenon, <2>3 DEF CbBalances
<1>3. CbPaid = {}
    BY DEF CbInit, CbPaid
<1>4. CbVerdicts = [c \in CbClients |-> "none"]
    <2>1. \A c \in CbClients : CbVerdict(c) = "none"
        BY Zenon DEF CbInit, CbVerdict
    <2> QED
        BY Zenon, <2>1 DEF CbVerdicts
<1> QED
    BY Zenon, <1>1, <1>2, <1>3, <1>4 DEF Ledger!LedgerInit

\* The parts of the mapping that a step leaves alone.
LEMMA SameBills ==
    ASSUME \A c \in CbClients : cbHttp'[c].budgets = cbHttp[c].budgets
    PROVE  CbBills' = CbBills
BY Zenon DEF CbBills

\* The ledger's balances are read from the table.
LEMMA SameBalances == cbRows' = cbRows => CbBalances' = CbBalances
BY Zenon DEF CbBalances

\* Who has paid is read from the consumption counts.
LEMMA SamePaid == cbTaken' = cbTaken => CbPaid' = CbPaid
BY Zenon DEF CbPaid

\* The verdicts are those of the clients, one by one.
LEMMA SameVerdicts ==
    ASSUME \A c \in CbClients : CbVerdict(c)' = CbVerdict(c)
    PROVE  CbVerdicts' = CbVerdicts
BY Zenon DEF CbVerdicts

\* A step of one client leaves the verdicts of the others alone.
LEMMA OthersVerdict ==
    ASSUME NEW c \in CbClients, OnlyMoves(c)
    PROVE  \A d \in CbClients \ {c} : CbVerdict(d)' = CbVerdict(d)
BY Zenon DEF OnlyMoves, CbVerdict

\* A request that is answered at once is no concern of the ledger.
LEMMA AnswerStutters ==
    ASSUME ConsumptionInv, NEW c \in CbClients, NEW op, op # "PREPARE", NEW ok, V2Answer(c, op, ok)
    PROVE  UNCHANGED Ledger!ledgerVars
<1>1. OnlyMoves(c) /\ FamiliesOK /\ ClientOK(c)
    BY Zenon, AnswerInv DEF ConsumptionInv
<1>2. /\ cbHttp'[c] = [op |-> op, pc |-> "done", budgets |-> <<>>]
      /\ cbHttp[c].budgets = <<>> /\ cbHttp[c].pc = "new"
    BY <1>1 DEF V2Answer, FamiliesOK, ClientOK, ShapeOK, WorkOK
<1>3. CbBills' = CbBills
    BY <1>1, <1>2, SameBills DEF OnlyMoves
<1>4. CbVerdict(c) = "none" /\ CbVerdict(c)' = "none"
    BY <1>2 DEF CbVerdict
<1>5. CbVerdicts' = CbVerdicts
    BY Zenon, <1>1, <1>4, OthersVerdict, SameVerdicts
<1>6. CbBalances' = CbBalances /\ CbPaid' = CbPaid
    BY SameBalances, SamePaid DEF V2Answer
<1> QED
    BY Zenon, <1>3, <1>5, <1>6 DEF Ledger!ledgerVars

\* A step of one request that answers it tells its client.
LEMMA Tells ==
    ASSUME ConsumptionInv, ConsumptionInv', NEW c \in CbClients, OnlyMoves(c),
           cbHttp'[c].budgets = cbHttp[c].budgets, cbHttp[c].pc # "done",
           cbHttp'[c].pc = "done", cbHttp'[c].op = "PREPARE", UNCHANGED <<cbRows, cbTaken>>
    PROVE  Ledger!Tell(c)
<1>1. CbBills' = CbBills
    BY SameBills DEF OnlyMoves
<1>2. CbBalances' = CbBalances /\ CbPaid' = CbPaid
    BY Zenon, SameBalances, SamePaid
<1>3. CbVerdicts[c] = "none"
    BY Zenon DEF CbVerdicts, CbVerdict
<1>4. CbVerdicts' = [CbVerdicts EXCEPT ![c] = CbVerdict(c)']
    BY OthersVerdict DEF CbVerdicts
<1>5. CbVerdict(c)' \in {"unknown", IF c \in CbPaid THEN "Success" ELSE "denied"}
    <2>1. ClientOK(c)'
        BY Zenon DEF ConsumptionInv
    <2>2. /\ cbAnswer'[c].result = "Success" => cbTaken'[c] = 1
          /\ cbAnswer'[c].result \notin {"Success", "FAIL_TO_COMMIT"} => cbTaken'[c] = 0
        BY Zenon, <2>1 DEF ClientOK, OutcomeOK
    <2>3. CbVerdict(c)' = CASE cbAnswer'[c].result = "Success" -> "Success"
                            [] cbAnswer'[c].result = "FAIL_TO_COMMIT" -> "unknown"
                            [] OTHER -> "denied"
        BY DEF CbVerdict
    <2>4. c \in CbPaid <=> cbTaken'[c] > 0
        BY Zenon DEF CbPaid
    <2> QED
        BY <2>2, <2>3, <2>4
<1> QED
    BY Zenon, <1>1, <1>2, <1>3, <1>4, <1>5 DEF Ledger!Tell

\* A prepare request is asked, or refused and its client told.
LEMMA PrepareAsksOrTells ==
    ASSUME ConsumptionInv, NEW c \in CbClients, NEW headers \in CbHeaders, NEW body \in CbBodies,
           V2PrepareTransaction(c, headers, body)
    PROVE  Ledger!Ask(c) \/ Ledger!Tell(c)
<1>1. OnlyMoves(c) /\ FamiliesOK /\ ClientOK(c) /\ ConsumptionInv'
    BY PrepareInv DEF ConsumptionInv
<1>2. /\ cbHttp[c].pc = "new" /\ cbHttp[c].budgets = <<>>
      /\ cbHttp'[c].op = "PREPARE" /\ cbHttp'[c].pc \in {"done", "read"}
      /\ cbHttp'[c].pc = "done" => cbHttp'[c].budgets = <<>>
      /\ UNCHANGED <<cbRows, cbTaken>>
    BY <1>1 DEF V2PrepareTransaction, FamiliesOK, ClientOK, ShapeOK
<1>3. CASE cbHttp'[c].pc = "done"
    BY Zenon, <1>1, <1>2, <1>3, Tells
<1>4. CASE cbHttp'[c].pc = "read"
    <2>1. CbVerdict(c) = "none" /\ CbVerdict(c)' = "none"
        BY Zenon, <1>2, <1>4 DEF CbVerdict
    <2>2. CbVerdicts' = CbVerdicts /\ CbVerdicts[c] = "none"
        BY <1>1, <2>1, OthersVerdict DEF CbVerdicts
    <2>3. CbBalances' = CbBalances /\ CbPaid' = CbPaid
        BY <1>2, SameBalances, SamePaid
    <2>4. CbBills[c] = [a \in CbAccounts |-> 0]
        BY <1>2, NoBill DEF CbBills
    <2>5. CbBills' \in [CbClients -> [CbAccounts -> Nat]]
        <3>1. ASSUME NEW d \in CbClients, NEW a \in CbAccounts
              PROVE  CbAsked(cbHttp'[d].budgets, Len(cbHttp'[d].budgets), a[1], a[2]) \in Nat
            <4>1. ClientOK(d)'
                BY Zenon, <1>1 DEF ConsumptionInv
            <4>2. CbWellFormed(cbHttp'[d].budgets)
                BY Zenon, <4>1 DEF ClientOK, ShapeOK
            <4>3. Len(cbHttp'[d].budgets) \in 0..Len(cbHttp'[d].budgets)
                OBVIOUS
            <4> QED
                BY <4>2, AskedType
        <3> QED
            BY Zenon, <3>1 DEF CbBills
    <2>6. \A d \in CbClients \ {c} : CbBills'[d] = CbBills[d]
        BY Zenon, <1>1 DEF CbBills, OnlyMoves
    <2> QED
        BY <2>2, <2>3, <2>4, <2>5, <2>6 DEF Ledger!Ask
<1> QED
    BY Zenon, <1>2, <1>3, <1>4

\* A transaction at work tells nothing, and keeps its budgets.
LEMMA Working ==
    ASSUME ConsumptionInv, NEW c \in CbClients, CbAttempt(c) \/ CbCommit(c)
    PROVE  CbBills' = CbBills /\ CbVerdicts' = CbVerdicts /\ CbVerdicts[c] = "none"
<1>1. OnlyMoves(c) /\ FamiliesOK /\ ClientOK(c)
    BY Zenon, AttemptInv, CommitInv DEF ConsumptionInv
<1>2. cbHttp[c].pc \in {"read", "commit"}
    BY Zenon DEF CbAttempt, CbCommit
<1>3. PICK next \in {"read", "commit", "finish"} : CbSetPc(c, next)
    BY DEF CbAttempt, CbCommit, CbFails
<1>4. cbHttp'[c] = [op |-> cbHttp[c].op, pc |-> next, budgets |-> cbHttp[c].budgets]
    BY <1>1, <1>3 DEF CbSetPc, FamiliesOK, ClientOK, ShapeOK
<1>5. CbVerdict(c) = "none" /\ CbVerdict(c)' = "none"
    BY <1>2, <1>4 DEF CbVerdict
<1>6. CbVerdicts' = CbVerdicts /\ CbVerdicts[c] = "none"
    BY <1>1, <1>5, OthersVerdict DEF CbVerdicts
<1>7. CbBills' = CbBills
    BY <1>1, <1>4, SameBills DEF OnlyMoves
<1> QED
    BY Zenon, <1>6, <1>7

\* What the function reads and checks is no concern of the ledger.
LEMMA AttemptStutters ==
    ASSUME ConsumptionInv, NEW c \in CbClients, CbAttempt(c)
    PROVE  UNCHANGED Ledger!ledgerVars
<1>1. UNCHANGED <<cbRows, cbTaken>>
    BY Zenon DEF CbAttempt
<1> QED
    BY Zenon, <1>1, Working, SameBalances, SamePaid DEF Ledger!ledgerVars

\* A commit that takes place pays, whatever its caller hears; one that does not
\* changes nothing.
LEMMA CommitPays ==
    ASSUME ConsumptionInv, NEW c \in CbClients, CbCommit(c)
    PROVE  Ledger!Pay(c) \/ UNCHANGED Ledger!ledgerVars
<1>1. CbBills' = CbBills /\ CbVerdicts' = CbVerdicts /\ CbVerdicts[c] = "none"
    BY Zenon, Working
<1>2. CASE UNCHANGED <<cbRows, cbTaken>>
    BY <1>1, <1>2, SameBalances, SamePaid DEF Ledger!ledgerVars
<1>3. CASE CbSerial(c) /\ CbWrite(c)
    <2>1. cbHttp[c].pc = "commit" /\ FamiliesOK /\ ClientOK(c)
        BY Zenon DEF CbCommit, ConsumptionInv
    <2>2. c \notin CbPaid /\ CbPaid' = CbPaid \cup {c}
        <3>1. cbTaken[c] = 0
            BY Zenon, <2>1 DEF ClientOK, WorkOK
        <3>2. cbTaken' = [cbTaken EXCEPT ![c] = 1]
            BY <1>3, <3>1 DEF CbWrite
        <3> QED
            BY <2>1, <3>1, <3>2 DEF CbPaid, FamiliesOK
    <2>3. ASSUME NEW a \in CbAccounts
          PROVE  /\ CbBills[c][a] <= CbBalances[a]
                 /\ CbBalances'[a] = CbBalances[a] - CbBills[c][a]
        <3>1. a[2] \in CbHours
            BY DEF CbAccounts
        <3>2. /\ CbBills[c][a] = CbAsked(cbHttp[c].budgets, Len(cbHttp[c].budgets), a[1], a[2])
              /\ CbBalances[a] = CbRowOrNew(cbRows, a[1])[a[2]]
              /\ CbBalances'[a] = CbRowOrNew(cbRows', a[1])[a[2]]
            BY Zenon DEF CbBills, CbBalances
        <3> QED
            BY <1>3, <2>1, <3>1, <3>2, Writes
    <2>4. CbBalances' = [a \in CbAccounts |-> CbBalances[a] - CbBills[c][a]]
        <3>1. CbBalances' = [a \in CbAccounts |-> CbBalances'[a]]
            BY Zenon DEF CbBalances
        <3> QED
            BY Zenon, <2>3, <3>1
    <2> QED
        BY <1>1, <2>2, <2>3, <2>4 DEF Ledger!Pay
<1> QED
    BY Zenon, <1>2, <1>3 DEF CbCommit

\* Every step is one of the ledger, or none.
LEMMA NextIsLedger ==
    ConsumptionInv /\ [CbNext]_cbVars => [Ledger!LedgerNext]_(Ledger!ledgerVars)
<1> SUFFICES ASSUME ConsumptionInv, [CbNext]_cbVars
             PROVE  Ledger!LedgerNext \/ UNCHANGED Ledger!ledgerVars
    OBVIOUS
<1>1. CASE UNCHANGED cbVars
    <2>1. UNCHANGED <<cbRows, cbHttp, cbAnswer, cbTaken>>
        BY Zenon, <1>1 DEF cbVars
    <2>2. CbVerdicts' = CbVerdicts
        BY <2>1 DEF CbVerdicts, CbVerdict
    <2> QED
        BY <2>1, <2>2, SameBills, SameBalances, SamePaid DEF Ledger!ledgerVars
<1>2. ASSUME NEW c \in CbClients, NEW headers \in CbHeaders, NEW body \in CbBodies,
             V2PrepareTransaction(c, headers, body)
      PROVE  Ledger!LedgerNext
    BY Zenon, <1>2, PrepareAsksOrTells DEF Ledger!LedgerNext
<1>3. ASSUME NEW c \in CbClients, NEW headers \in CbHeaders,
             \/ V2BeginTransaction(c, headers) \/ V2CommitTransaction(c, headers)
             \/ V2NotifyTransaction(c, headers) \/ V2AbortTransaction(c, headers)
             \/ V2EndTransaction(c, headers) \/ V2GetTransactionStatus(c)
      PROVE  UNCHANGED Ledger!ledgerVars
    <2>1. ASSUME NEW op \in {"BEGIN", "COMMIT", "NOTIFY", "ABORT", "END", "STATUS"}, NEW ok,
                 V2Answer(c, op, ok)
          PROVE  UNCHANGED Ledger!ledgerVars
        BY <2>1, AnswerStutters
    <2> QED
        BY Zenon, <1>3, <2>1 DEF V2BeginTransaction, V2CommitTransaction, V2NotifyTransaction,
                          V2AbortTransaction, V2EndTransaction, V2GetTransactionStatus
<1>4. ASSUME NEW c \in CbClients, CbCommit(c) PROVE Ledger!LedgerNext \/ UNCHANGED Ledger!ledgerVars
    BY Zenon, <1>4, CommitPays DEF Ledger!LedgerNext
<1>5. ASSUME NEW c \in CbClients, CbOnConsumeBudgetCallback(c) PROVE Ledger!LedgerNext
    <2>1. OnlyMoves(c) /\ ConsumptionInv' /\ FamiliesOK /\ ClientOK(c)
        BY <1>5, CallbackInv DEF ConsumptionInv
    <2>2. /\ cbHttp[c].pc = "finish" /\ cbHttp[c].op = "PREPARE"
          /\ cbHttp'[c] = [op |-> "PREPARE", pc |-> "done", budgets |-> cbHttp[c].budgets]
          /\ UNCHANGED <<cbRows, cbTaken>>
        BY <1>5, <2>1 DEF CbOnConsumeBudgetCallback, CbSetPc, FamiliesOK, ClientOK, ShapeOK
    <2>3. Ledger!Tell(c)
        BY <2>1, <2>2, Tells
    <2> QED
        BY Zenon, <2>3 DEF Ledger!LedgerNext
<1> QED
    BY Zenon, <1>1, <1>2, <1>3, <1>4, <1>5, AttemptStutters DEF CbNext, CbStep

\* Prepare requests keep the promise of the ledger, for any clients, bodies,
\* hours and number of aborts: each is paid for whole or not at all and at most
\* once, no hour is overdrawn, and its client is told so (consume_budget.cc:441).
THEOREM ConsumptionRefinesLedger == CbSpec => ConsumptionImplementsLedger
BY InitIsLedger, NextIsLedger, ConsumptionInvariance, PTL
   DEF CbSpec, ConsumptionImplementsLedger, Ledger!LedgerSpec

=============================================================================
