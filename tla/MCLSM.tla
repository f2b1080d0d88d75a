------------------------------- MODULE MCLSM --------------------------------
(* Small instances of LSM. *)
EXTENDS LSM

Put(k) == [key |-> k, del |-> FALSE]
Delete(k) == [key |-> k, del |-> TRUE]

TwoKeys == {Put(1), Delete(1), Put(2)}
Puts == {Put(1), Put(2)}
ThreeKeys == {Put(1), Put(2), Put(3)}

Both == {[lo |-> 1, hi |-> 2]}
Everything == {[lo |-> 0, hi |-> 4]}

(* The callers of CompactRange are interchangeable. *)
Symmetry == Permutations(Callers)

(* An iterator only holds a version: it is followed beside one caller of    *)
(* CompactRange, and two callers without it.                                *)
IteratorOrTwoCallers ==
    \/ \A r \in Readers : readers[r] = NoReader
    \/ Cardinality({c \in Callers : manual[c] # NoManual}) < 2

(* Keys 1 and 3 have been written twice, and each write flushed: the first  *)
(* time to level 1, where nothing was in the way.                           *)
FlushedInit ==
    /\ log = <<Put(1), Put(3), Put(1), Put(3)>> /\ mem = {} /\ imm = {}
    /\ current = [l \in Levels |-> CASE l = 0 -> {SST(3, {3}), SST(4, {4})}
                                     [] l = 1 -> {SST(1, {1}), SST(2, {2})}
                                     [] OTHER -> {}]
    /\ refs = One(current)
    /\ next_file = 5 /\ disk = 1..4 /\ pending = {}
    /\ compact_pointer = [l \in Levels |-> NoKey] /\ seek = NoSeek
    /\ snapshots = <<>> /\ readers = [r \in Readers |-> NoReader]
    /\ compaction = NoCompaction /\ bg_error = FALSE
    /\ manual = [c \in Callers |-> NoManual] /\ manual_compaction_ = NoCaller

FlushedSpec == FlushedInit /\ [][Next]_vars
=============================================================================
