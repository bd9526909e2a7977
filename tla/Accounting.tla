----------------------------- MODULE Accounting -----------------------------
(***************************************************************************)
(* Complete-input accounting (engine/accounting.cpp): one record for every *)
(* committed order, saying what became of it, and the audit of such a      *)
(* manifest against the Merkle tree of the commitments.                    *)
(*                                                                         *)
(* An allocation is the quantity per order of the batch, by position.      *)
(***************************************************************************)
EXTENDS Merkle, FiniteSets

\* commit_order.
CommitOrder(preimage) == CommitRaw(<<"order", preimage.order, preimage.nonce>>)

LeavesOf(preimages) == [i \in 1..Len(preimages) |-> CommitOrder(preimages[i])]

\* What an allocation means for an order of the given quantity.
Disposition(allocated, qty) ==
  IF allocated = qty
  THEN [kind |-> "FullyExecuted", fill_qty |-> allocated, unfilled_qty |-> 0]
  ELSE IF 0 < allocated /\ allocated < qty
  THEN [kind |-> "PartiallyExecuted", fill_qty |-> allocated,
        unfilled_qty |-> qty - allocated]
  ELSE [kind |-> "Unfilled", fill_qty |-> 0, unfilled_qty |-> 0]

\* build_complete_input_accounting, of the preimages in batch order.
BuildAccounting(preimages, alloc) ==
  LET records == [i \in 1..Len(preimages) |->
                    [leaf_index  |-> i - 1,
                     order_id    |-> preimages[i].order.id,
                     commitment  |-> CommitOrder(preimages[i]),
                     disposition |-> Disposition(alloc[i], preimages[i].order.qty)]]
      number(kind) == Cardinality({i \in 1..Len(records) :
                                     records[i].disposition.kind = kind})
  IN  [records |-> records, total_committed |-> Len(preimages),
       total_fully_executed     |-> number("FullyExecuted"),
       total_partially_executed |-> number("PartiallyExecuted"),
       total_unfilled           |-> number("Unfilled")]

\* verify_complete_input_accounting.  It looks the leaf up by its index and
\* the order by its id; that the two belong together is not its concern.
VerifyAccounting(orders, leaves, manifest, alloc) ==
  LET n == Len(orders)
      records == manifest.records
  IN  /\ Len(leaves) = n
      /\ Len(records) = n
      /\ manifest.total_committed = n
      /\ \A j, k \in 1..n :
           j # k => /\ records[j].leaf_index # records[k].leaf_index
                    /\ records[j].order_id # records[k].order_id
      /\ \A k \in 1..n :
           /\ records[k].leaf_index < n
           /\ VerifyProof(GenerateProof(leaves, records[k].leaf_index),
                          MerkleRoot(leaves), records[k].commitment)
           /\ \E i \in 1..n :
                /\ orders[i].id = records[k].order_id
                /\ records[k].disposition = Disposition(alloc[i], orders[i].qty)
      /\ \A i \in 0..(n - 1) : \E k \in 1..n : records[k].leaf_index = i
=============================================================================
