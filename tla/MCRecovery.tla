----------------------------- MODULE MCRecovery -----------------------------
(* Bounds of the instances of Recovery. *)
EXTENDS Recovery

(* A database is only opened again before a memtable is flushed inside a    *)
(* compaction, and a third time, after two crashes, with at most one entry, *)
(* few files, unless the MANIFEST is spoilt, and no failed call.            *)
Small ==
    op.at = "recover" =>
        /\ \A f \in Dir(disk).files : f[2] <= 6
        /\ opens = 3 => /\ faults = 0 /\ Cardinality(acked) <= 1
                        /\ Intact => \A f \in Dir(disk).files : f[2] <= 4
=============================================================================
