---------------------------- MODULE MCWritePath ----------------------------
(* Instances of WritePath for TLC. *)
EXTENDS WritePath, TLC

(* Null and empty batches, and batches of one size of their own. *)
AllBatches == {NullBatch, 0, 2}
SmallBatches == {NullBatch, 0, 1}
FullBatches == {NullBatch, 1}

(* The calls are interchangeable. *)
Symmetry == Permutations(Calls)

(* A background error does not change what a Get can find: readers need not *)
(* be followed beyond one, nor once they have returned.                     *)
ReadsBeforeErrors ==
    \A r \in Readers : /\ reader[r].pc # "returned"
                       /\ reader[r].pc = "reading" => ~bg_error
=============================================================================
