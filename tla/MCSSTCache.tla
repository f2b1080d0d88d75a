----------------------------- MODULE MCSSTCache -----------------------------
(* SSTCache with interchangeable files, entries and threads. *)
EXTENDS SSTCache, TLC

CONSTANTS k1, k2, h1, h2, h3, h4, h5, t1, t2, t3

Symmetry ==
    Permutations({k1, k2}) \cup Permutations({h1, h2, h3, h4, h5}) \cup
    Permutations({t1, t2, t3})
=============================================================================
