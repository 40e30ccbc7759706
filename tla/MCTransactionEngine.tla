------------------------ MODULE MCTransactionEngine --------------------------
(***************************************************************************)
(* The view under which states are told apart. Timestamps only grow and    *)
(* are only compared for equality, so a request with an old timestamp can  *)
(* no longer be accepted and the values themselves do not matter. The      *)
(* request a coordinator executes matters while it executes, and only to   *)
(* a requester that may still hear the answer; the requests of the client  *)
(* matter while they may still arrive.                                     *)
(***************************************************************************)
EXTENDS TransactionEngine, TLC

Symmetry == Permutations(Coordinators)

Live(requests) ==
    {<<r.to, r.phase>> : r \in {x \in requests : x.ts = txn[x.to].ts}}

Awaited(c) ==
    CASE pc[c] \notin {"log", "exec", "proceed"} -> <<"nothing">>
      [] req[c].from = "client" -> <<"client", req[c].phase, cmd[c].ts = req[c].ts>>
      [] req[c].from = "peer" ->
           <<"peer", req[c].phase, view[Peer(c)].ts = req[c].ts>>
      [] OTHER -> <<req[c].from>>

CoordinatorView(c) ==
    <<[txn[c] EXCEPT !.ts = 0], txn[c].ts = 0, pc[c], journal[c], budget[c],
      [view[c] EXCEPT !.ts = 0], view[Peer(c)].ts = txn[c].ts,
      Awaited(c), cmd[c].state, ClientReaches /\ cmd[c].ts = txn[c].ts>>

EngineView ==
    <<[c \in Coordinators |-> CoordinatorView(c)],
      IF ClientReaches THEN Live(clientReq) ELSE {},
      Live(peerReq), client, timedOut, crashes>>


=============================================================================
