--------------------------- MODULE MCBudgetProtocol ---------------------------
(***************************************************************************)
(* Instances of BudgetProtocol: two buckets with two tokens each.          *)
(***************************************************************************)
EXTENDS BudgetProtocol, TLC

CONSTANTS t1, t2, t3

Want(b, n) == [bucket |-> b, tokens |-> n]

\* Two batches that compete for the same buckets, and a single command.
MixedRequests ==
    (t1 :> <<Want(1, 1), Want(2, 1)>>) @@ (t2 :> <<Want(1, 2), Want(2, 1)>>)
    @@ (t3 :> <<Want(2, 1)>>)

\* A batch that names the buckets in the opposite order of another one's.
DisorderedRequests ==
    (t1 :> <<Want(1, 1), Want(2, 1)>>) @@ (t2 :> <<Want(2, 1), Want(1, 1)>>)
    @@ (t3 :> <<Want(2, 1)>>)

Batches == {MixedRequests, DisorderedRequests}

\* Three single commands on one bucket.
Singles == {[t \in {t1, t2, t3} |-> <<Want(1, 1)>>]}

=============================================================================
