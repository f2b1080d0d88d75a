----------------------------- MODULE LSMProofs ------------------------------
(***************************************************************************)
(* Proofs about LSM, for any callers of CompactRange, levels, sizes and     *)
(* failures.                                                                *)
(***************************************************************************)
EXTENDS LSM, FiniteSetTheorems, WellFoundedInduction, TLAPS

(* What ManualAlive rests on: records have the fields that are read. *)
ManualInv ==
    /\ manual_compaction_ \in Callers \cup {NoCaller}
    /\ DOMAIN manual = Callers
    /\ \A c \in Callers : "level" \in DOMAIN manual[c]
    /\ compaction # NoCompaction => "m" \in DOMAIN compaction
    /\ ManualAlive

LEMMA ManualInit == Init => ManualInv
BY CallersAssumption DEF Init, ManualInv, ManualAlive, NoManual, NoCompaction

(* Steps of clients and flushes that do not touch manual compactions. *)
LEMMA ManualQuiet ==
    ASSUME ManualInv, UNCHANGED <<compaction, manual, manual_compaction_>>
    PROVE  ManualInv'
BY DEF ManualInv, ManualAlive

(* A caller that manual_compaction_ does not point to goes on. *)
LEMMA ManualOwn ==
    ASSUME ManualInv, NEW c \in Callers, NEW r, "level" \in DOMAIN r,
           manual_compaction_ # c \/ r.level >= 0,
           manual' = [manual EXCEPT ![c] = r],
           UNCHANGED <<compaction, manual_compaction_>>
    PROVE  ManualInv'
BY DEF ManualInv, ManualAlive

(* A step of a caller of CompactRange. *)
LEMMA ManualCaller ==
    ASSUME ManualInv, NEW c \in Callers,
           RangeCaller(c) \/ \E range \in Ranges : CompactRange(c, range)
    PROVE  ManualInv'
<1>1. CASE \E range \in Ranges : CompactRange(c, range)
  <2>1. PICK range \in Ranges : CompactRange(c, range)
    BY <1>1
  <2>2. manual_compaction_ # c
    BY <2>1, CallersAssumption DEF CompactRange, ManualInv, ManualAlive, NoManual
  <2>. DEFINE r == [level |-> -1, range |-> range, written |-> FALSE,
                    max |-> MaxLevelWithFiles(range, 1)]
  <2>3. manual' = [manual EXCEPT ![c] = r]
    BY <2>1 DEF CompactRange
  <2>4. "level" \in DOMAIN r
    OBVIOUS
  <2>5. UNCHANGED <<compaction, manual_compaction_>>
    BY <2>1 DEF CompactRange
  <2>. HIDE DEF r
  <2>. QED
    BY <2>2, <2>3, <2>4, <2>5, ManualOwn
<1>2. CASE NullWrite(c)
  <2>1. manual' = [manual EXCEPT ![c] = [manual[c] EXCEPT !.written = TRUE]]
    BY <1>2 DEF NullWrite, ManualInv
  <2>2. manual_compaction_ # c
    BY <1>2, CallersAssumption DEF NullWrite, ManualInv, ManualAlive
  <2>3. "level" \in DOMAIN [manual[c] EXCEPT !.written = TRUE]
    BY DEF ManualInv
  <2>4. UNCHANGED <<compaction, manual_compaction_>>
    BY <1>2 DEF NullWrite
  <2>. QED
    BY <2>1, <2>2, <2>3, <2>4, ManualOwn
<1>3. ASSUME NEW level, NEW max, EnterLevel(c, level, max)
      PROVE  \E r : "level" \in DOMAIN r /\ manual' = [manual EXCEPT ![c] = r]
  <2>. DEFINE entered == [level |-> level, range |-> manual[c].range, max |-> max,
                          begin |-> manual[c].range.lo, done |-> FALSE,
                          goal |-> {f \in current[level] :
                                       Overlaps(f, manual[c].range.lo, manual[c].range.hi)}]
              r == IF level >= max THEN NoManual ELSE entered
  <2>1. "level" \in DOMAIN entered /\ "level" \in DOMAIN NoManual
    BY DEF NoManual
  <2>2. manual' = [manual EXCEPT ![c] = r]
    BY <1>3 DEF EnterLevel
  <2>. HIDE DEF entered
  <2>3. "level" \in DOMAIN r
    BY <2>1
  <2>. HIDE DEF r
  <2>. QED
    BY <2>2, <2>3
<1>4. CASE MemTableCompacted(c)
  <2>1. PICK r : "level" \in DOMAIN r /\ manual' = [manual EXCEPT ![c] = r]
    BY <1>3, <1>4 DEF MemTableCompacted
  <2>2. manual_compaction_ # c
    BY <1>4, CallersAssumption DEF MemTableCompacted, ManualInv, ManualAlive
  <2>3. UNCHANGED <<compaction, manual_compaction_>>
    BY <1>4 DEF MemTableCompacted
  <2>. QED
    BY <2>1, <2>2, <2>3, ManualOwn
<1>5. CASE PostManual(c)
  <2>1. compaction # NoCompaction => compaction.m = NoCaller
    BY <1>5, CallersAssumption DEF PostManual, ManualInv, ManualAlive
  <2>. QED
    BY <1>5, <2>1 DEF PostManual, ManualInv, ManualAlive
<1>6. CASE ReturnManual(c)
  <2>1. PICK r : "level" \in DOMAIN r /\ manual' = [manual EXCEPT ![c] = r]
    BY <1>3, <1>6 DEF ReturnManual
  <2>2. compaction = NoCompaction /\ compaction' = compaction
    BY <1>6 DEF ReturnManual, Scheduled
  <2>3. /\ manual_compaction_' # c
        /\ manual_compaction_' \in {manual_compaction_, NoCaller}
    BY <1>6, CallersAssumption DEF ReturnManual
  <2>. QED
    BY <2>1, <2>2, <2>3, CallersAssumption DEF ManualInv, ManualAlive
<1>. QED
  BY <1>1, <1>2, <1>4, <1>5, <1>6 DEF RangeCaller

(* The end of a compaction. *)
LEMMA ManualEnd ==
    ASSUME ManualInv, compaction # NoCompaction, NEW ok \in BOOLEAN, EndManual(ok),
           compaction' = NoCompaction
    PROVE  ManualInv'
<1>1. CASE compaction.m = NoCaller
  BY <1>1 DEF EndManual, manualVars, ManualInv, ManualAlive
<1>2. CASE compaction.m # NoCaller
  <2>1. manual_compaction_ \in Callers
    BY <1>2 DEF ManualInv, ManualAlive
  <2>2. PICK d, b : manual' = [[manual EXCEPT
                 ![manual_compaction_] = [manual[manual_compaction_] EXCEPT !.done = d]] EXCEPT
                 ![manual_compaction_] = [@ EXCEPT !.begin = b]]
    BY <1>2, <2>1 DEF EndManual, ManualInv
  <2>. QED
    BY <1>2, <2>1, <2>2, CallersAssumption DEF EndManual, ManualInv, ManualAlive
<1>. QED
  BY <1>1, <1>2

(* A step of the background thread. *)
LEMMA ManualBackground == ManualInv /\ Background => ManualInv'
<1>. SUFFICES ASSUME ManualInv, Background PROVE ManualInv'
  OBVIOUS
<1>1. CASE CompactMemTable
  BY <1>1, ManualQuiet DEF CompactMemTable, manualVars
<1>2. CASE CompactMemTableFails
  BY <1>2, ManualQuiet DEF CompactMemTableFails, manualVars
<1>3. CASE MoveSST
  BY <1>3, ManualQuiet DEF MoveSST, manualVars
<1>4. ASSUME NEW c, NEW m, StartCompactionOf(c, m), m \in {NoCaller, manual_compaction_}
      PROVE  ManualInv'
  <2>1. "m" \in DOMAIN compaction' /\ compaction'.m = m
    BY <1>4 DEF StartCompactionOf
  <2>2. UNCHANGED <<manual, manual_compaction_>>
    BY <1>4 DEF StartCompactionOf, manualVars
  <2>. QED
    BY <1>4, <2>1, <2>2 DEF ManualInv, ManualAlive
<1>5. CASE StartCompaction
  BY <1>4, <1>5 DEF StartCompaction
<1>6. CASE StartManual
  BY <1>4, <1>6 DEF StartManual
<1>7. CASE ManualDone
  <2>1. manual_compaction_ \in Callers /\ compaction = NoCompaction /\ compaction' = compaction
    BY <1>7 DEF ManualDone, ManualInv, Idle
  <2>2. /\ manual' = [manual EXCEPT ![manual_compaction_] =
                                       [manual[manual_compaction_] EXCEPT !.done = TRUE]]
        /\ manual_compaction_' = NoCaller
    BY <1>7 DEF ManualDone
  <2>. QED
    BY <2>1, <2>2, CallersAssumption DEF ManualInv, ManualAlive
<1>8. CASE \E finish \in BOOLEAN : CompactEntry(finish)
  <2>1. PICK t, o, out : /\ compaction # NoCompaction
                         /\ \/ compaction' = [compaction EXCEPT !.todo = t]
                            \/ compaction' = [compaction EXCEPT !.todo = t, !.open = o, !.outputs = out]
    <3>1. PICK finish \in BOOLEAN : CompactEntry(finish)
      BY <1>8
    <3>. DEFINE e == FirstEntry(compaction.todo)
                number == IF compaction.open = 0 THEN next_file ELSE compaction.open
                built == IF compaction.open = 0 THEN {}
                         ELSE (CHOOSE x \in compaction.outputs : x.num = compaction.open).ents
                t == compaction.todo \ {e}
                o == IF finish THEN 0 ELSE number
                out == {x \in compaction.outputs : x.num # number}
                           \cup {SST(number, built \cup {e})}
    <3>2. compaction # NoCompaction
      BY <3>1 DEF CompactEntry
    <3>3. \/ compaction' = [compaction EXCEPT !.todo = t]
          \/ compaction' = [compaction EXCEPT !.todo = t, !.open = o, !.outputs = out]
      BY <3>1 DEF CompactEntry
    <3>. HIDE DEF t, o, out
    <3>. QED
      BY <3>2, <3>3
  <2>2. "m" \in DOMAIN compaction' /\ compaction'.m = compaction.m
    BY <2>1 DEF ManualInv
  <2>3. UNCHANGED <<manual, manual_compaction_>>
    BY <1>8 DEF CompactEntry, manualVars
  <2>. QED
    BY <2>1, <2>2, <2>3 DEF ManualInv, ManualAlive
<1>9. CASE InstallCompactionResults
  BY <1>9, ManualEnd DEF InstallCompactionResults
<1>10. CASE CompactionFails
  BY <1>10, ManualEnd DEF CompactionFails
<1>. QED
  BY <1>1, <1>2, <1>3, <1>5, <1>6, <1>7, <1>8, <1>9, <1>10 DEF Background

(* A step of a client. *)
LEMMA ManualClient == ManualInv /\ Client => ManualInv'
<1>. SUFFICES ASSUME ManualInv, Client PROVE ManualInv'
  OBVIOUS
<1>1. CASE \E op \in Ops : Write(op)
  BY <1>1, ManualQuiet DEF Write, manualVars
<1>2. CASE SwitchMemTable
  BY <1>2, ManualQuiet DEF SwitchMemTable, manualVars
<1>3. CASE GetSnapshot \/ \E i \in DOMAIN snapshots : ReleaseSnapshot(i)
  BY <1>3, ManualQuiet DEF GetSnapshot, ReleaseSnapshot, manualVars
<1>4. CASE \E r \in Readers : NewIterator(r) \/ DeleteIterator(r)
  BY <1>4, ManualQuiet DEF NewIterator, DeleteIterator, manualVars
<1>5. CASE \E key \in Keys, seq \in SeqsToRead : UpdateStats(key, seq)
  BY <1>5, ManualQuiet DEF UpdateStats, manualVars
<1>6. CASE \E c \in Callers : RangeCaller(c) \/ \E range \in Ranges : CompactRange(c, range)
  BY <1>6, ManualCaller
<1>. QED
  BY <1>1, <1>2, <1>3, <1>4, <1>5, <1>6 DEF Client

(* BackgroundCompaction never writes through a manual_compaction_ whose     *)
(* TEST_CompactRange has returned, nor to another call than the one it      *)
(* worked for, for any number of callers and whatever fails.                *)
THEOREM ManualNeverDangles == Spec => []ManualAlive
<1>1. Init => ManualInv
  BY ManualInit
<1>2. ManualInv /\ [Next]_vars => ManualInv'
  BY ManualClient, ManualBackground, ManualQuiet DEF Next, vars, manualVars
<1>3. ManualInv => ManualAlive
  BY DEF ManualInv
<1>. QED
  BY <1>1, <1>2, <1>3, PTL DEF Spec

-----------------------------------------------------------------------------
(***************************************************************************)
(* Least elements                                                          *)
(***************************************************************************)

(* A set of natural numbers that is not empty has a least element. *)
LEMMA Least ==
    ASSUME NEW T \in SUBSET Nat, T # {}
    PROVE  \E m \in T : \A y \in T : m <= y
<1>. DEFINE R == OpToRel(<, Nat)
<1>1. \E m \in T : \A y \in T : ~(<<y, m>> \in R)
  <2>. HIDE DEF R
  <2>1. IsWellFoundedOn(R, Nat)
    BY NatLessThanWellFounded DEF R
  <2>. QED
    BY <2>1, WFMin, Zenon
<1>2. \A y, m \in Nat : y < m => <<y, m>> \in R
  BY Zenon DEF OpToRel
<1>. HIDE DEF R
<1>3. PICK m \in T : \A y \in T : ~(<<y, m>> \in R)
  BY <1>1, Zenon
<1>4. \A y \in T : ~(y < m)
  BY <1>2, <1>3, Zenon
<1>5. \A y \in T : m <= y
  BY <1>4
<1>. QED
  BY <1>5

(* One that is bounded has a greatest element as well. *)
LEMMA Greatest ==
    ASSUME NEW b \in Nat, NEW T \in SUBSET (0..b), T # {}
    PROVE  \E m \in T : \A y \in T : y <= m
<1>. DEFINE U == {n \in Nat : b - n \in T}
<1>1. U # {}
  <2>1. PICK t \in T : TRUE
    OBVIOUS
  <2>2. b - t \in U
    BY <2>1
  <2>. QED BY <2>2
<1>2. PICK n \in U : \A y \in U : n <= y
  BY <1>1, Least
<1>3. ASSUME NEW y \in T PROVE y <= b - n
  <2>1. b - y \in U
    OBVIOUS
  <2>. QED BY <2>1, <1>2
<1>. QED
  BY <1>2, <1>3

(* FirstSST is a file of the set: among the files with the least key, and  *)
(* of those with the last sequence number, the one with the least number.  *)
LEMMA FirstSSTExists ==
    ASSUME NEW files, files # {}, NEW n \in Nat,
           \A f \in files : f.num \in Nat /\ f.smallest_key \in Nat \X (0..n),
           \A f, g \in files : f.num = g.num => f = g
    PROVE  FirstSST(files) \in files
<1>. DEFINE K == {f.smallest_key[1] : f \in files}
<1>1. PICK k \in K : \A y \in K : k <= y
  <2>1. K \in SUBSET Nat /\ K # {}
    OBVIOUS
  <2>. QED BY <2>1, Least
<1>. DEFINE F1 == {f \in files : f.smallest_key[1] = k}
            Q == {f.smallest_key[2] : f \in F1}
<1>2. PICK q \in Q : \A y \in Q : y <= q
  <2>1. Q \in SUBSET (0..n) /\ Q # {}
    BY <1>1
  <2>. HIDE DEF Q
  <2>. QED BY <2>1, Greatest
<1>. DEFINE F2 == {f \in F1 : f.smallest_key[2] = q}
            M == {f.num : f \in F2}
<1>3. PICK m \in M : \A y \in M : m <= y
  <2>1. M \in SUBSET Nat /\ M # {}
    BY <1>2
  <2>. HIDE DEF M
  <2>. QED BY <2>1, Least
<1>4. PICK f \in F2 : f.num = m
  BY <1>3
<1>5. /\ f \in files /\ f.smallest_key[1] = k /\ f.smallest_key[2] = q /\ f.num = m
      /\ k \in Nat /\ q \in Nat /\ m \in Nat
  BY <1>4
<1>6. ASSUME NEW g \in files
      PROVE  /\ g.smallest_key[1] \in Nat /\ k <= g.smallest_key[1]
             /\ g.smallest_key[1] = k => g.smallest_key[2] \in Nat /\ g.smallest_key[2] <= q
             /\ (g.smallest_key[1] = k /\ g.smallest_key[2] = q) => g.num \in Nat /\ m <= g.num
  BY <1>1, <1>2, <1>3
<1>. HIDE DEF K, F1, F2, M, Q
<1>7. ASSUME NEW g \in files PROVE f = g \/ OrderBySmallestKey(f, g)
  <2>1. CASE g.smallest_key[1] # k
    BY <2>1, <1>5, <1>6 DEF OrderBySmallestKey, KeyLess
  <2>2. CASE g.smallest_key[1] = k /\ g.smallest_key[2] # q
    BY <2>2, <1>5, <1>6 DEF OrderBySmallestKey, KeyLess
  <2>3. CASE g.smallest_key[1] = k /\ g.smallest_key[2] = q
    <3>1. f.smallest_key = g.smallest_key
      BY <2>3, <1>5
    <3>2. f.num = g.num => f = g
      BY <1>5
    <3>. QED BY <3>1, <3>2, <2>3, <1>5, <1>6 DEF OrderBySmallestKey
  <2>. QED BY <2>1, <2>2, <2>3
<1>. QED
  BY <1>5, <1>7 DEF FirstSST

(* FirstEntry is an entry of the set: the last one for the least key. *)
LEMMA FirstEntryExists ==
    ASSUME log \in Seq(Ops), NEW ents \in SUBSET (1..Len(log)), ents # {}
    PROVE  FirstEntry(ents) \in ents
<1>. DEFINE K == {log[e].key : e \in ents}
<1>0. \A e \in ents : log[e].key \in Nat
  BY LSMAssumption
<1>1. PICK k \in K : \A y \in K : k <= y
  <2>1. K \in SUBSET Nat /\ K # {}
    BY <1>0
  <2>. QED BY <2>1, Least
<1>. DEFINE E == {e \in ents : log[e].key = k}
<1>2. PICK m \in E : \A y \in E : y <= m
  <2>1. Len(log) \in Nat
    OBVIOUS
  <2>2. E # {}
    BY <1>1
  <2>3. E \in SUBSET (0..Len(log))
    <3>1. 1..Len(log) \subseteq 0..Len(log)
      BY <2>1
    <3>2. E \subseteq ents
      BY Zenon
    <3>. QED BY <3>1, <3>2, Zenon
  <2>. HIDE DEF E
  <2>. QED BY <2>1, <2>2, <2>3, Greatest
<1>3. ASSUME NEW x \in ents PROVE x = m \/ KeyLess(InternalKey(m), InternalKey(x))
  <2>1. log[x].key \in Nat /\ k <= log[x].key /\ k \in Nat /\ log[m].key = k
    BY <1>0, <1>1, <1>2
  <2>2. log[x].key = k => x <= m
    BY <1>2
  <2>. QED BY <2>1, <2>2, <1>2 DEF KeyLess, InternalKey
<1>. QED
  BY <1>2, <1>3 DEF FirstEntry

-----------------------------------------------------------------------------
(***************************************************************************)
(* Recursive functions                                                     *)
(***************************************************************************)

(* f computes, from x, m steps of G, which stays in X. *)
StaysIn(G, X) == G \in [X -> X]
Iterates(f, X, G, x, m) ==
    f \in [0..m -> X] /\ f[0] = x /\ \A n \in 1..m : f[n] = G[f[n - 1]]

(* What is computed step by step from 0 to m exists. *)
LEMMA IterationExists ==
    ASSUME NEW X, NEW G, NEW x \in X, NEW m \in Nat, StaysIn(G, X)
    PROVE  \E f : Iterates(f, X, G, x, m)
<1>. USE DEF StaysIn, Iterates
<1>. DEFINE P(k) == \E f \in [0..k -> X] : f[0] = x /\ \A n \in 1..k : f[n] = G[f[n - 1]]
            T == {k \in Nat : ~P(k)}
<1>. SUFFICES ASSUME T # {} PROVE FALSE
  OBVIOUS
<1>1. PICK k \in T : \A y \in T : k <= y
  BY Least
<1>2. P(0)
  <2>. DEFINE f == [n \in 0..0 |-> x]
  <2>1. f \in [0..0 -> X] /\ f[0] = x /\ \A n \in 1..0 : f[n] = G[f[n - 1]]
    OBVIOUS
  <2>. HIDE DEF f
  <2>. QED BY <2>1
<1>3. k # 0 /\ k - 1 \in Nat /\ P(k - 1)
  <2>1. k # 0 /\ k \in Nat
    BY <1>1, <1>2
  <2>2. k - 1 \notin T
    <3>. HIDE DEF T
    <3>. QED BY <2>1, <1>1
  <2>3. k - 1 \in Nat
    BY <2>1
  <2>. HIDE DEF P
  <2>. QED BY <2>1, <2>2, <2>3
<1>4. PICK f \in [0..(k - 1) -> X] : f[0] = x /\ \A n \in 1..(k - 1) : f[n] = G[f[n - 1]]
  BY <1>3
<1>. DEFINE g == [n \in 0..k |-> IF n = k THEN G[f[k - 1]] ELSE f[n]]
<1>5. g \in [0..k -> X]
  <2>1. k - 1 \in 0..(k - 1) /\ k \in Nat
    BY <1>3
  <2>2. G[f[k - 1]] \in X
    BY <2>1
  <2>3. \A n \in 0..k : n # k => n \in 0..(k - 1)
    BY <2>1
  <2>. QED BY <2>2, <2>3
<1>6. g[0] = x
  BY <1>3, <1>4
<1>7. ASSUME NEW n \in 1..k PROVE g[n] = G[g[n - 1]]
  <2>1. g[n - 1] = f[n - 1]
    BY <1>3
  <2>2. CASE n = k
    BY <2>1, <2>2, <1>3
  <2>3. CASE n # k
    BY <2>1, <2>3, <1>3, <1>4
  <2>. QED BY <2>2, <2>3
<1>8. P(k)
  <2>. HIDE DEF g
  <2>. QED BY <1>5, <1>6, <1>7
<1>. QED
  BY <1>1, <1>8

(* What is computed step by step stays in a set that every step stays in. *)
LEMMA IterationStays ==
    ASSUME NEW X, NEW m \in Nat, NEW f,
           f[0] \in X, \A n \in 1..m : f[n - 1] \in X => f[n] \in X
    PROVE  f[m] \in X
<1>. DEFINE T == {n \in 0..m : f[n] \notin X}
<1>. SUFFICES ASSUME f[m] \notin X PROVE FALSE
  OBVIOUS
<1>1. T \in SUBSET Nat /\ T # {}
  OBVIOUS
<1>2. PICK n \in T : \A y \in T : n <= y
  BY <1>1, Least
<1>3. n # 0 /\ n \in 1..m
  BY <1>2
<1>4. n - 1 \notin T /\ n - 1 \in 0..m
  BY <1>2, <1>3
<1>. QED
  BY <1>2, <1>3, <1>4

(* AddBoundaryInputs only adds files of the level. *)
LEMMA BoundaryInputsFromLevel ==
    ASSUME NEW files, IsFiniteSet(files), NEW inputs \in SUBSET files, NEW n \in Nat,
           \A f \in files : f.num \in Nat /\ f.smallest_key \in Nat \X (0..n),
           \A f, g \in files : f.num = g.num => f = g
    PROVE  AddBoundaryInputs(files, inputs) \subseteq files
<1>. DEFINE more(in) == IF in = {} THEN {} ELSE BoundarySSTs(files, FindLargestKey(in))
            m == Cardinality(files)
            X == SUBSET files
            G == [in \in X |-> IF more(in) = {} THEN in ELSE in \cup {FirstSST(more(in))}]
            Eq(a) == a = [i \in 0..m |->
                             IF i = 0 THEN inputs
                             ELSE LET in == a[i - 1]
                                  IN  IF more(in) = {} THEN in ELSE in \cup {FirstSST(more(in))}]
            add == CHOOSE a : Eq(a)
<1>0. m \in Nat
  BY FS_CardinalityType
<1>1. AddBoundaryInputs(files, inputs) = add[m]
  BY DEF AddBoundaryInputs
<1>2. ASSUME NEW in \in X, more(in) # {} PROVE FirstSST(more(in)) \in files
  <2>1. more(in) \subseteq files
    BY DEF BoundarySSTs
  <2>2. /\ \A f \in more(in) : f.num \in Nat /\ f.smallest_key \in Nat \X (0..n)
        /\ \A f, g \in more(in) : f.num = g.num => f = g
    BY <2>1
  <2>. HIDE DEF more
  <2>3. FirstSST(more(in)) \in more(in)
    BY <1>2, <2>2, FirstSSTExists
  <2>. QED BY <2>1, <2>3
<1>. HIDE DEF more
<1>3. G \in [X -> X]
  BY <1>2
<1>. HIDE DEF m
<1>4. \E a : Eq(a)
  <2>1. PICK f \in [0..m -> X] : f[0] = inputs /\ \A i \in 1..m : f[i] = G[f[i - 1]]
    <3>1. inputs \in X
      OBVIOUS
    <3>2. StaysIn(G, X)
      BY <1>3 DEF StaysIn
    <3>. HIDE DEF G, X
    <3>3. PICK f : Iterates(f, X, G, inputs, m)
      BY <3>1, <3>2, <1>0, IterationExists
    <3>. QED BY <3>3 DEF Iterates
  <2>2. ASSUME NEW i \in 0..m
        PROVE  f[i] = IF i = 0 THEN inputs
                      ELSE LET in == f[i - 1]
                           IN  IF more(in) = {} THEN in ELSE in \cup {FirstSST(more(in))}
    <3>1. CASE i = 0
      BY <3>1, <2>1
    <3>2. CASE i # 0
      <4>1. i - 1 \in 0..m /\ i \in 1..m
        BY <3>2, <1>0
      <4>2. f[i - 1] \in X
        <5>. HIDE DEF X
        <5>. QED BY <4>1
      <4>3. f[i] = G[f[i - 1]]
        BY <4>1, <2>1
      <4>. QED BY <3>2, <4>2, <4>3
    <3>. QED BY <3>1, <3>2
  <2>3. f = [i \in 0..m |-> f[i]]
    <3>. HIDE DEF X
    <3>. QED OBVIOUS
  <2>. HIDE DEF G
  <2>4. Eq(f)
    BY <2>2, <2>3
  <2>. QED BY <2>4
<1>5. Eq(add)
  BY <1>4
<1>. HIDE DEF add
<1>6. add[0] \in X
  BY <1>0, <1>5
<1>7. ASSUME NEW i \in 1..m, add[i - 1] \in X PROVE add[i] \in X
  <2>1. i \in 0..m /\ i # 0
    BY <1>0
  <2>2. add[i] = LET in == add[i - 1]
                 IN  IF more(in) = {} THEN in ELSE in \cup {FirstSST(more(in))}
    BY <2>1, <1>5
  <2>. QED BY <2>2, <1>2, <1>7
<1>8. add[m] \in X
  <2>. HIDE DEF X, Eq
  <2>. QED BY <1>0, <1>6, <1>7, IterationStays
<1>. QED
  BY <1>1, <1>8

(* MaxBytesForLevel is a positive number at every level. *)
LEMMA MaxBytesPositive == \A l \in Levels : MaxBytesForLevel[l] \in Nat \ {0}
<1>. DEFINE P == Nat \ {0}
            m == NumLevels - 1
            G == [z \in P |-> 10 * z]
            Eq(a) == a = [l \in Levels |-> IF l <= 1 THEN MaxBytesForLevel1 ELSE 10 * a[l - 1]]
<1>0. NumLevels \in Nat /\ NumLevels > 1 /\ m \in Nat /\ MaxBytesForLevel1 \in P
  <2>1. NumLevels \in Nat /\ NumLevels > 1
    BY LSMAssumption, Zenon
  <2>2. MaxBytesForLevel1 \in P
    BY LSMAssumption, Zenon
  <2>. QED BY <2>1, <2>2
<1>1. MaxBytesForLevel = CHOOSE a : Eq(a)
  BY DEF MaxBytesForLevel
<1>2. \E a : Eq(a)
  <2>1. StaysIn(G, P)
    BY DEF StaysIn
  <2>2. PICK f : Iterates(f, P, G, MaxBytesForLevel1, m)
    <3>. HIDE DEF G, P, m
    <3>. QED BY <2>1, <1>0, IterationExists
  <2>3. /\ f \in [0..m -> P] /\ f[0] = MaxBytesForLevel1
        /\ \A n \in 1..m : f[n] = 10 * f[n - 1]
    <3>1. f \in [0..m -> P] /\ f[0] = MaxBytesForLevel1 /\ \A n \in 1..m : f[n] = G[f[n - 1]]
      BY <2>2 DEF Iterates
    <3>2. \A n \in 1..m : f[n - 1] \in P
      BY <3>1, <1>0
    <3>. QED BY <3>1, <3>2
  <2>. DEFINE a == [l \in Levels |-> IF l = 0 THEN MaxBytesForLevel1 ELSE f[l - 1]]
  <2>4. ASSUME NEW l \in Levels
        PROVE  a[l] = IF l <= 1 THEN MaxBytesForLevel1 ELSE 10 * a[l - 1]
    <3>1. CASE l <= 1
      BY <3>1, <2>3 DEF Levels
    <3>2. CASE l > 1
      <4>1. l - 1 \in 1..m /\ l - 1 \in Levels /\ l - 1 # 0
        BY <3>2, <1>0 DEF Levels
      <4>2. a[l] = f[l - 1] /\ a[l - 1] = f[l - 1 - 1]
        BY <3>2, <4>1
      <4>3. f[l - 1] = 10 * f[l - 1 - 1]
        BY <4>1, <2>3
      <4>. QED BY <3>2, <4>2, <4>3, <1>0 DEF Levels
    <3>. QED BY <3>1, <3>2, <1>0 DEF Levels
  <2>5. a = [l \in Levels |-> a[l]]
    OBVIOUS
  <2>. HIDE DEF a
  <2>6. Eq(a)
    BY <2>4, <2>5
  <2>. QED BY <2>6
<1>. DEFINE M == MaxBytesForLevel
<1>3. Eq(M)
  BY <1>1, <1>2
<1>. HIDE DEF M
<1>4. ASSUME NEW l \in Levels PROVE M[l] \in P
  <2>1. l \in Nat /\ l < NumLevels
    BY <1>0 DEF Levels
  <2>2. M[0] \in P
    BY <1>0, <1>3 DEF Levels
  <2>3. ASSUME NEW n \in 1..l, M[n - 1] \in P PROVE M[n] \in P
    <3>1. n \in Levels
      BY <2>1, <1>0 DEF Levels
    <3>2. M[n] = IF n <= 1 THEN MaxBytesForLevel1 ELSE 10 * M[n - 1]
      BY <3>1, <1>3
    <3>. QED BY <3>2, <2>3, <1>0
  <2>. HIDE DEF P
  <2>. QED BY <2>1, <2>2, <2>3, IterationStays
<1>. QED
  BY <1>4 DEF M

(* u / v > p / q and p / q >= r / s give u / v > r / s. *)
LEMMA FractionsTransitive ==
    ASSUME NEW p \in Nat, NEW q \in Nat \ {0}, NEW r \in Nat, NEW s \in Nat \ {0},
           NEW u \in Nat, NEW v \in Nat \ {0}, u * q > p * v, p * s >= r * q
    PROVE  u * s > r * v
<1>. DEFINE A == u * s
            B == r * v
<1>1. A \in Int /\ B \in Int
  OBVIOUS
<1>2. (u * q) * s > (p * v) * s /\ (p * s) * v >= (r * q) * v
  OBVIOUS
<1>3. A * q > B * q
  BY <1>2
<1>. HIDE DEF A, B
<1>4. A > B
  BY <1>1, <1>3
<1>. QED
  BY <1>4 DEF A, B

(* Among fractions a[l] / b[l] there is a first one that is greatest. *)
LEMMA FirstGreatest ==
    ASSUME NEW N \in Nat, NEW a \in [0..N -> Nat], NEW b \in [0..N -> Nat \ {0}]
    PROVE  \E l \in 0..N : \A o \in 0..N :
               IF o < l THEN a[l] * b[o] > a[o] * b[l] ELSE a[l] * b[o] >= a[o] * b[l]
<1>. DEFINE Best(l, n) == \A o \in 0..n : IF o < l THEN a[l] * b[o] > a[o] * b[l]
                                          ELSE a[l] * b[o] >= a[o] * b[l]
            T == {n \in 0..N : ~(\E l \in 0..n : Best(l, n))}
<1>1. T = {}
  <2>. SUFFICES ASSUME T # {} PROVE FALSE
    OBVIOUS
  <2>1. PICK n \in T : \A y \in T : n <= y
    <3>1. T \in SUBSET Nat
      OBVIOUS
    <3>. HIDE DEF T
    <3>. QED BY <3>1, Least
  <2>2. n # 0
    <3>1. Best(0, 0) /\ 0 \in 0..0
      OBVIOUS
    <3>2. 0 \notin T
      BY <3>1
    <3>. QED BY <3>2
  <2>3. n \in 1..N /\ n - 1 \in 0..N
    BY <2>2
  <2>4. PICK l \in 0..(n - 1) : Best(l, n - 1)
    <3>1. n - 1 \notin T
      <4>. HIDE DEF T
      <4>. QED BY <2>1, <2>3
    <3>. HIDE DEF Best
    <3>. QED BY <3>1, <2>3
  <2>5. /\ l \in 0..N /\ l \in 0..n /\ l < n /\ n \in 0..n
        /\ a[l] \in Nat /\ a[n] \in Nat /\ b[l] \in Nat \ {0} /\ b[n] \in Nat \ {0}
    BY <2>3
  <2>6. ASSUME NEW o \in 0..n
        PROVE o \in 0..N /\ a[o] \in Nat /\ b[o] \in Nat \ {0} /\ (o # n => o \in 0..(n - 1))
    BY <2>3
  <2>7. CASE a[l] * b[n] >= a[n] * b[l]
    <3>1. Best(l, n)
      <4>. SUFFICES ASSUME NEW o \in 0..n
                    PROVE  IF o < l THEN a[l] * b[o] > a[o] * b[l] ELSE a[l] * b[o] >= a[o] * b[l]
        OBVIOUS
      <4>1. CASE o = n
        BY <4>1, <2>5, <2>7
      <4>2. CASE o # n
        BY <4>2, <2>4, <2>6
      <4>. QED BY <4>1, <4>2
    <3>. HIDE DEF Best
    <3>. QED BY <3>1, <2>1, <2>5
  <2>8. CASE ~(a[l] * b[n] >= a[n] * b[l])
    <3>1. Best(n, n)
      <4>. SUFFICES ASSUME NEW o \in 0..n
                    PROVE  IF o < n THEN a[n] * b[o] > a[o] * b[n] ELSE a[n] * b[o] >= a[o] * b[n]
        OBVIOUS
      <4>1. CASE o = n
        BY <4>1, <2>5
      <4>2. CASE o # n
        <5>1. o < n /\ a[l] * b[o] >= a[o] * b[l]
          <6>1. o \in 0..(n - 1) /\ o < n
            BY <4>2, <2>5, <2>6
          <6>2. IF o < l THEN a[l] * b[o] > a[o] * b[l] ELSE a[l] * b[o] >= a[o] * b[l]
            BY <6>1, <2>4, Zenon
          <6>3. a[l] * b[o] \in Int /\ a[o] * b[l] \in Int
            <7>1. a[o] \in Nat /\ b[o] \in Nat /\ a[l] \in Nat /\ b[l] \in Nat
              BY <2>5, <2>6
            <7>. HIDE DEF Best, T
            <7>. QED BY <7>1
          <6>. HIDE DEF Best
          <6>. QED BY <6>1, <6>2, <6>3
        <5>2. a[n] * b[l] > a[l] * b[n]
          BY <2>5, <2>8
        <5>. QED BY <5>1, <5>2, <2>5, <2>6, FractionsTransitive
      <4>. QED BY <4>1, <4>2
    <3>. HIDE DEF Best
    <3>. QED BY <3>1, <2>1, <2>5
  <2>. QED BY <2>7, <2>8
<1>2. N \notin T
  BY <1>1
<1>. QED
  BY <1>2

-----------------------------------------------------------------------------
(***************************************************************************)
(* References to versions                                                  *)
(***************************************************************************)

(* How many references to v are in B. *)
Copies(v, B) == IF v \in DOMAIN B THEN B[v] ELSE 0

(* Version::Ref adds one reference. *)
LEMMA RefCopies ==
    ASSUME NEW B, IsABag(B), NEW v
    PROVE  /\ IsABag(Ref(B, v))
           /\ DOMAIN Ref(B, v) = DOMAIN B \cup {v}
           /\ \A w : Copies(w, Ref(B, v)) = Copies(w, B) + (IF w = v THEN 1 ELSE 0)
BY DEF Ref, One, SetToBag, (+), IsABag, Copies

(* Version::Unref takes one away. *)
LEMMA UnrefCopies ==
    ASSUME NEW B, IsABag(B), NEW v \in DOMAIN B
    PROVE  /\ IsABag(Unref(B, v))
           /\ DOMAIN Unref(B, v) \subseteq DOMAIN B
           /\ \A w : Copies(w, Unref(B, v)) = Copies(w, B) - (IF w = v THEN 1 ELSE 0)
BY DEF Unref, One, SetToBag, (-), IsABag, Copies

LEMMA NoneReleased ==
    ASSUME NEW B, IsABag(B)
    PROVE  B (-) EmptyBag = B
BY DEF EmptyBag, SetToBag, (-), IsABag

(* Who refers to version v: current_, iterators, the compaction. *)
Holders(v) == {r \in Readers : readers[r] = v}
Working(v) == compaction # NoCompaction /\ compaction.version = v
Users(v) ==
    (IF v = current THEN 1 ELSE 0) + Cardinality(Holders(v)) + (IF Working(v) THEN 1 ELSE 0)

VersionTypes ==
    /\ DOMAIN current = Levels
    /\ DOMAIN readers = Readers
    /\ \A r \in Readers : readers[r] # NoReader => DOMAIN readers[r] = Levels
    /\ compaction # NoCompaction =>
          /\ {"version", "level", "todo", "open", "outputs"} \subseteq DOMAIN compaction
          /\ DOMAIN compaction.version = Levels

(* The bag has one copy of a version for each of its users. *)
RefsInv ==
    /\ IsABag(refs) /\ NoReader \notin DOMAIN refs
    /\ \A v : v # NoReader => IsFiniteSet(Holders(v)) /\ Copies(v, refs) = Users(v)

LEMMA LevelsNotEmpty == 0 \in Levels /\ \A v : DOMAIN v = Levels => v # NoReader
<1>1. NumLevels \in Nat /\ NumLevels > 1
  BY LSMAssumption, Zenon
<1>2. 0 \in Levels
  BY <1>1 DEF Levels
<1>3. DOMAIN NoReader = {}
  BY DEF NoReader
<1>. QED
  BY <1>2, <1>3

(* Versions in use are those with references. *)
LEMMA RefsInvImplies ==
    ASSUME VersionTypes, RefsInv
    PROVE  RefsExact
<1>1. ASSUME NEW v \in Versions PROVE v \in DOMAIN refs
  <2>1. /\ v # NoReader
        /\ v = current \/ (\E r \in Readers : readers[r] = v) \/ Working(v)
    BY LevelsNotEmpty DEF Versions, Working, VersionTypes
  <2>2. IsFiniteSet(Holders(v)) /\ Copies(v, refs) = Users(v)
    BY <2>1 DEF RefsInv
  <2>3. Cardinality(Holders(v)) \in Nat
    BY <2>2, FS_CardinalityType
  <2>4. (\E r \in Readers : readers[r] = v) => Cardinality(Holders(v)) # 0
    BY <2>2, FS_EmptySet DEF Holders
  <2>5. Users(v) > 0
    BY <2>1, <2>3, <2>4 DEF Users
  <2>. QED BY <2>2, <2>5 DEF Copies
<1>2. ASSUME NEW v \in DOMAIN refs PROVE v \in Versions
  <2>1. v # NoReader /\ IsFiniteSet(Holders(v)) /\ Copies(v, refs) = Users(v)
    BY DEF RefsInv
  <2>2. Copies(v, refs) > 0
    BY DEF RefsInv, IsABag, Copies
  <2>3. CASE v = current \/ Working(v)
    BY <2>3 DEF Versions, Working
  <2>4. CASE v # current /\ ~Working(v)
    <3>1. Cardinality(Holders(v)) # 0
      BY <2>1, <2>2, <2>4, FS_CardinalityType DEF Users
    <3>2. PICK r \in Readers : readers[r] = v
      BY <3>1, <2>1, FS_EmptySet DEF Holders
    <3>. QED BY <3>2, <2>1 DEF Versions
  <2>. QED BY <2>3, <2>4
<1>. QED
  BY <1>1, <1>2 DEF RefsExact, BagToSet

(* A version in use has references. *)
LEMMA UsedHasRef ==
    ASSUME VersionTypes, RefsInv, NEW v \in Versions
    PROVE  v \in DOMAIN refs
BY RefsInvImplies DEF RefsExact, BagToSet

(* Steps that only rename what the compaction works on. *)
LEMMA RefsQuiet ==
    ASSUME RefsInv, UNCHANGED <<refs, current, readers>>,
           \A v : Working(v)' <=> Working(v)
    PROVE  RefsInv'
<1>1. ASSUME NEW v PROVE Holders(v)' = Holders(v) /\ Users(v)' = Users(v)
  BY DEF Holders, Users
<1>. QED
  BY <1>1 DEF RefsInv

(* NewIterator *)
LEMMA RefsNewIterator ==
    ASSUME VersionTypes, RefsInv, NEW r \in Readers, readers[r] = NoReader,
           readers' = [readers EXCEPT ![r] = current], refs' = Ref(refs, current),
           UNCHANGED <<current, compaction>>
    PROVE  RefsInv'
<1>0. current # NoReader
  BY LevelsNotEmpty DEF VersionTypes
<1>1. /\ IsABag(refs') /\ DOMAIN refs' = DOMAIN refs \cup {current}
      /\ \A w : Copies(w, refs') = Copies(w, refs) + (IF w = current THEN 1 ELSE 0)
  BY RefCopies DEF RefsInv
<1>2. ASSUME NEW v, v # NoReader
      PROVE  IsFiniteSet(Holders(v)') /\ Copies(v, refs') = Users(v)'
  <2>1. IsFiniteSet(Holders(v)) /\ Copies(v, refs) = Users(v) /\ r \notin Holders(v)
    BY <1>2 DEF RefsInv, Holders
  <2>2. Cardinality(Holders(v)) \in Nat /\ (Working(v)' <=> Working(v))
    BY <2>1, FS_CardinalityType DEF Working
  <2>3. CASE v = current
    <3>1. Holders(v)' = Holders(v) \cup {r}
      BY <2>3 DEF Holders, VersionTypes
    <3>2. IsFiniteSet(Holders(v)') /\ Cardinality(Holders(v)') = Cardinality(Holders(v)) + 1
      BY <3>1, <2>1, FS_AddElement
    <3>. QED BY <3>2, <2>1, <2>2, <2>3, <1>1 DEF Users
  <2>4. CASE v # current
    <3>1. Holders(v)' = Holders(v)
      BY <2>4, <1>2 DEF Holders, VersionTypes
    <3>. QED BY <3>1, <2>1, <2>2, <2>4, <1>1 DEF Users
  <2>. QED BY <2>3, <2>4
<1>. QED
  BY <1>0, <1>1, <1>2 DEF RefsInv

(* DeleteIterator *)
LEMMA RefsDeleteIterator ==
    ASSUME VersionTypes, RefsInv, NEW r \in Readers, readers[r] # NoReader,
           readers' = [readers EXCEPT ![r] = NoReader], refs' = Unref(refs, readers[r]),
           UNCHANGED <<current, compaction>>
    PROVE  RefsInv'
<1>0. readers[r] \in DOMAIN refs
  BY UsedHasRef DEF Versions
<1>1. /\ IsABag(refs') /\ DOMAIN refs' \subseteq DOMAIN refs
      /\ \A w : Copies(w, refs') = Copies(w, refs) - (IF w = readers[r] THEN 1 ELSE 0)
  BY <1>0, UnrefCopies DEF RefsInv
<1>2. ASSUME NEW v, v # NoReader
      PROVE  IsFiniteSet(Holders(v)') /\ Copies(v, refs') = Users(v)'
  <2>1. IsFiniteSet(Holders(v)) /\ Copies(v, refs) = Users(v)
    BY <1>2 DEF RefsInv
  <2>2. Cardinality(Holders(v)) \in Nat /\ (Working(v)' <=> Working(v))
    BY <2>1, FS_CardinalityType DEF Working
  <2>3. CASE v = readers[r]
    <3>1. Holders(v)' = Holders(v) \ {r} /\ r \in Holders(v)
      BY <2>3, <1>2 DEF Holders, VersionTypes
    <3>2. IsFiniteSet(Holders(v)') /\ Cardinality(Holders(v)') = Cardinality(Holders(v)) - 1
      BY <3>1, <2>1, FS_RemoveElement
    <3>. QED BY <3>2, <2>1, <2>2, <2>3, <1>1 DEF Users
  <2>4. CASE v # readers[r]
    <3>1. Holders(v)' = Holders(v)
      BY <2>4, <1>2 DEF Holders, VersionTypes
    <3>. QED BY <3>1, <2>1, <2>2, <2>4, <1>1 DEF Users
  <2>. QED BY <2>3, <2>4
<1>. QED
  BY <1>1, <1>2 DEF RefsInv

(* The compaction takes a reference to its input version. *)
LEMMA RefsStart ==
    ASSUME VersionTypes, RefsInv, compaction = NoCompaction,
           compaction' # NoCompaction, compaction'.version = current,
           refs' = Ref(refs, current), UNCHANGED <<current, readers>>
    PROVE  RefsInv'
<1>0. current # NoReader
  BY LevelsNotEmpty DEF VersionTypes
<1>1. /\ IsABag(refs') /\ DOMAIN refs' = DOMAIN refs \cup {current}
      /\ \A w : Copies(w, refs') = Copies(w, refs) + (IF w = current THEN 1 ELSE 0)
  BY RefCopies DEF RefsInv
<1>2. ASSUME NEW v, v # NoReader
      PROVE  IsFiniteSet(Holders(v)') /\ Copies(v, refs') = Users(v)'
  <2>1. IsFiniteSet(Holders(v)) /\ Copies(v, refs) = Users(v) /\ Holders(v)' = Holders(v)
    BY <1>2 DEF RefsInv, Holders
  <2>2. /\ Cardinality(Holders(v)) \in Nat /\ ~Working(v)
        /\ Working(v)' <=> v = current
    BY <2>1, FS_CardinalityType DEF Working, NoCompaction
  <2>. QED BY <2>1, <2>2, <1>1 DEF Users
<1>. QED
  BY <1>0, <1>1, <1>2 DEF RefsInv

(* A new version becomes current_. *)
LEMMA RefsAppend ==
    ASSUME VersionTypes, RefsInv, NEW v, DOMAIN v = Levels, AppendVersion(v, EmptyBag),
           UNCHANGED <<readers, compaction>>
    PROVE  RefsInv'
<1>. DEFINE B == Unref(refs, current)
<1>0. v # NoReader /\ current \in DOMAIN refs
  BY LevelsNotEmpty, UsedHasRef DEF Versions
<1>1. /\ IsABag(B) /\ DOMAIN B \subseteq DOMAIN refs
      /\ \A w : Copies(w, B) = Copies(w, refs) - (IF w = current THEN 1 ELSE 0)
  BY <1>0, UnrefCopies DEF RefsInv
<1>2. current' = v /\ refs' = Ref(B, v)
  BY <1>1, NoneReleased DEF AppendVersion
<1>. HIDE DEF B
<1>3. /\ IsABag(refs') /\ DOMAIN refs' = DOMAIN B \cup {v}
      /\ \A w : Copies(w, refs') = Copies(w, B) + (IF w = v THEN 1 ELSE 0)
  BY <1>1, <1>2, RefCopies
<1>4. ASSUME NEW w, w # NoReader
      PROVE  IsFiniteSet(Holders(w)') /\ Copies(w, refs') = Users(w)'
  <2>1. IsFiniteSet(Holders(w)) /\ Copies(w, refs) = Users(w) /\ Holders(w)' = Holders(w)
    BY <1>4 DEF RefsInv, Holders
  <2>2. Cardinality(Holders(w)) \in Nat /\ (Working(w)' <=> Working(w))
    BY <2>1, FS_CardinalityType DEF Working
  <2>3. Copies(w, refs') =
            Users(w) - (IF w = current THEN 1 ELSE 0) + (IF w = v THEN 1 ELSE 0)
    BY <2>1, <1>1, <1>3
  <2>. QED BY <2>1, <2>2, <2>3, <1>2 DEF Users
<1>. QED
  BY <1>0, <1>1, <1>3, <1>4 DEF RefsInv

(* The results of a compaction, which releases its input version. *)
LEMMA RefsInstall ==
    ASSUME VersionTypes, RefsInv, compaction # NoCompaction, NEW v, DOMAIN v = Levels,
           AppendVersion(v, One(compaction.version)), compaction' = NoCompaction,
           UNCHANGED readers
    PROVE  RefsInv'
<1>. DEFINE B == Unref(refs, current)
            old == compaction.version
            C == Unref(B, old)
<1>0. /\ v # NoReader /\ current \in DOMAIN refs /\ current # NoReader
      /\ old # NoReader /\ Working(old)
  BY LevelsNotEmpty, UsedHasRef DEF Versions, VersionTypes, Working
<1>1. /\ IsABag(B) /\ DOMAIN B \subseteq DOMAIN refs
      /\ \A w : Copies(w, B) = Copies(w, refs) - (IF w = current THEN 1 ELSE 0)
  BY <1>0, UnrefCopies DEF RefsInv
<1>2. current' = v /\ refs' = Ref(C, v)
  BY DEF AppendVersion, Unref
<1>. HIDE DEF B, C, old
<1>3. old \in DOMAIN B
  <2>1. IsFiniteSet(Holders(old)) /\ Copies(old, refs) = Users(old)
    BY <1>0 DEF RefsInv
  <2>2. Cardinality(Holders(old)) \in Nat
    BY <2>1, FS_CardinalityType
  <2>3. Copies(old, B) > 0
    BY <2>1, <2>2, <1>0, <1>1 DEF Users
  <2>. QED BY <2>3 DEF Copies
<1>4. /\ IsABag(C) /\ DOMAIN C \subseteq DOMAIN B
      /\ \A w : Copies(w, C) = Copies(w, B) - (IF w = old THEN 1 ELSE 0)
  BY <1>1, <1>3, UnrefCopies DEF C
<1>5. /\ IsABag(refs') /\ DOMAIN refs' = DOMAIN C \cup {v}
      /\ \A w : Copies(w, refs') = Copies(w, C) + (IF w = v THEN 1 ELSE 0)
  BY <1>2, <1>4, RefCopies
<1>6. ASSUME NEW w, w # NoReader
      PROVE  IsFiniteSet(Holders(w)') /\ Copies(w, refs') = Users(w)'
  <2>1. IsFiniteSet(Holders(w)) /\ Copies(w, refs) = Users(w) /\ Holders(w)' = Holders(w)
    BY <1>6 DEF RefsInv, Holders
  <2>2. /\ Cardinality(Holders(w)) \in Nat /\ ~Working(w)'
        /\ Working(w) <=> w = old
    BY <2>1, FS_CardinalityType DEF Working, old
  <2>3. Copies(w, refs') =
            Users(w) - (IF w = current THEN 1 ELSE 0) - (IF w = old THEN 1 ELSE 0)
                     + (IF w = v THEN 1 ELSE 0)
    BY <2>1, <1>1, <1>4, <1>5
  <2>. QED BY <2>1, <2>2, <2>3, <1>2 DEF Users
<1>. QED
  BY <1>0, <1>1, <1>4, <1>5, <1>6 DEF RefsInv

(* A compaction that fails releases it, too. *)
LEMMA RefsFail ==
    ASSUME VersionTypes, RefsInv, compaction # NoCompaction, compaction' = NoCompaction,
           refs' = Unref(refs, compaction.version), UNCHANGED <<current, readers>>
    PROVE  RefsInv'
<1>. DEFINE old == compaction.version
<1>0. old \in DOMAIN refs
  BY UsedHasRef DEF Versions
<1>1. /\ IsABag(refs') /\ DOMAIN refs' \subseteq DOMAIN refs
      /\ \A w : Copies(w, refs') = Copies(w, refs) - (IF w = old THEN 1 ELSE 0)
  BY <1>0, UnrefCopies DEF RefsInv
<1>2. ASSUME NEW w, w # NoReader
      PROVE  IsFiniteSet(Holders(w)') /\ Copies(w, refs') = Users(w)'
  <2>1. IsFiniteSet(Holders(w)) /\ Copies(w, refs) = Users(w) /\ Holders(w)' = Holders(w)
    BY <1>2 DEF RefsInv, Holders
  <2>2. /\ Cardinality(Holders(w)) \in Nat /\ ~Working(w)'
        /\ Working(w) <=> w = old
    BY <2>1, FS_CardinalityType DEF Working
  <2>. QED BY <2>1, <2>2, <1>1 DEF Users
<1>. QED
  BY <1>1, <1>2 DEF RefsInv

-----------------------------------------------------------------------------
(***************************************************************************)
(* The files of the current version, and what is picked from them          *)
(***************************************************************************)

CurrentFiles == UNION {current[l] : l \in Levels}

(* What is known of every SST file. *)
IsFile(f) ==
    /\ f.num \in 1..(next_file - 1)
    /\ f.ents \subseteq 1..Len(log)
    /\ f.smallest_key \in Nat \X (0..Len(log))

(* The levels that a compaction may start from. *)
UpperLevels == 0..(NumLevels - 2)

FileInv ==
    /\ log \in Seq(Ops) /\ mem \subseteq 1..Len(log) /\ imm \subseteq 1..Len(log)
    /\ next_file \in Nat \ {0}
    /\ \A l \in Levels : IsFiniteSet(current[l])
    /\ \A f \in CurrentFiles : IsFile(f)
    /\ \A f, g \in CurrentFiles : f.num = g.num => f = g
    /\ seek # NoSeek => seek.level \in UpperLevels /\ seek.file \in current[seek.level]

LEMMA LevelFacts ==
    /\ NumLevels \in Nat /\ NumLevels > 1 /\ UpperLevels \subseteq Levels
    /\ \A l \in UpperLevels : l + 1 \in Levels /\ l \in Nat /\ l + 1 # l /\ l + 1 # 0
<1>1. NumLevels \in Nat /\ NumLevels > 1
  BY LSMAssumption, Zenon
<1>. QED
  BY <1>1 DEF UpperLevels, Levels

LEMMA LevelFiles ==
    ASSUME FileInv, NEW l \in Levels, NEW files \in SUBSET current[l]
    PROVE  /\ IsFiniteSet(files) /\ files \subseteq CurrentFiles
           /\ Len(log) \in Nat
           /\ \A f \in files : f.num \in Nat /\ f.smallest_key \in Nat \X (0..Len(log))
           /\ \A f, g \in files : f.num = g.num => f = g
<1>1. files \subseteq CurrentFiles
  BY Zenon DEF CurrentFiles
<1>2. IsFiniteSet(current[l])
  BY DEF FileInv
<1>3. IsFiniteSet(files)
  BY <1>2, FS_Subset
<1>4. Len(log) \in Nat
  BY DEF FileInv
<1>5. ASSUME NEW f \in files
      PROVE  f.num \in Nat /\ f.smallest_key \in Nat \X (0..Len(log))
  <2>1. IsFile(f)
    BY <1>1 DEF FileInv
  <2>. QED BY <2>1 DEF IsFile, FileInv
<1>6. \A f, g \in files : f.num = g.num => f = g
  BY <1>1 DEF FileInv
<1>. QED
  BY <1>1, <1>3, <1>4, <1>5, <1>6

(* GetOverlapSSTs gives files of the level. *)
LEMMA OverlapFromLevel ==
    ASSUME NEW v, NEW l, NEW lo, NEW hi
    PROVE  GetOverlapSSTs(v, l, lo, hi) \subseteq v[l]
BY Zenon DEF GetOverlapSSTs

(* SetupOtherInputs takes its inputs from the level and from the next one. *)
LEMMA InputsFromLevels ==
    ASSUME FileInv, NEW l \in UpperLevels, NEW picked \in SUBSET current[l]
    PROVE  /\ SetupOtherInputs(current, l, picked).level = l
           /\ SetupOtherInputs(current, l, picked).version = current
           /\ SetupOtherInputs(current, l, picked).in0 \subseteq current[l]
           /\ SetupOtherInputs(current, l, picked).in1 \subseteq current[l + 1]
<1>. DEFINE below(files) == GetOverlapSSTs(current, l + 1, RangeLo(files), RangeHi(files))
            in0 == AddBoundaryInputs(current[l], picked)
            in1 == AddBoundaryInputs(current[l + 1], below(in0))
            all == in0 \cup in1
            over == GetOverlapSSTs(current, l, RangeLo(all), RangeHi(all))
            expanded0 == AddBoundaryInputs(current[l], over)
            expanded1 == AddBoundaryInputs(current[l + 1], below(expanded0))
            expand == /\ in1 # {} /\ Cardinality(expanded0) > Cardinality(in0)
                      /\ TotalSize(in1) + TotalSize(expanded0) < ExpandLimit
                      /\ Cardinality(expanded1) = Cardinality(in1)
<1>1. l \in Levels /\ l + 1 \in Levels
  BY LevelFacts
<1>2. ASSUME NEW k \in Levels, NEW files \in SUBSET current[k]
      PROVE  AddBoundaryInputs(current[k], files) \subseteq current[k]
  <2>1. /\ IsFiniteSet(current[k]) /\ Len(log) \in Nat
        /\ \A f \in current[k] : f.num \in Nat /\ f.smallest_key \in Nat \X (0..Len(log))
        /\ \A f, g \in current[k] : f.num = g.num => f = g
    BY LevelFiles
  <2>. QED BY <2>1, BoundaryInputsFromLevel
<1>3. SetupOtherInputs(current, l, picked) =
        [level |-> l, version |-> current, in0 |-> IF expand THEN expanded0 ELSE in0,
         in1 |-> IF expand THEN expanded1 ELSE in1]
  BY DEF SetupOtherInputs
<1>4. in0 \subseteq current[l]
  BY <1>1, <1>2
<1>5. over \subseteq current[l] /\ \A files : below(files) \subseteq current[l + 1]
  BY OverlapFromLevel
<1>. HIDE DEF over, below, expand
<1>6. in1 \subseteq current[l + 1]
  BY <1>1, <1>2, <1>5
<1>7. expanded0 \subseteq current[l]
  BY <1>1, <1>2, <1>5
<1>8. expanded1 \subseteq current[l + 1]
  BY <1>1, <1>2, <1>5
<1>. HIDE DEF in0, in1, expanded0, expanded1
<1>. QED
  BY <1>3, <1>4, <1>6, <1>7, <1>8

(* How full a level is, and how full it may be. *)
LEMMA ScoresDefined ==
    ASSUME FileInv, NEW l \in Levels
    PROVE  Fill(current, l) \in Nat /\ Full(l) \in Nat \ {0}
<1>0. IsFiniteSet(current[l]) /\ Len(log) \in Nat
  BY LevelFiles
<1>1. Cardinality(current[l]) \in Nat
  BY <1>0, FS_CardinalityType
<1>2. UNION {f.ents : f \in current[l]} \subseteq 1..Len(log)
  BY LevelFiles DEF FileInv, IsFile
<1>3. IsFiniteSet(1..Len(log))
  BY <1>0, FS_Interval
<1>4. TotalSize(current[l]) \in Nat
  BY <1>2, <1>3, FS_Subset, FS_CardinalityType DEF TotalSize
<1>5. L0Trigger \in Nat \ {0}
  BY LSMAssumption, Zenon
<1>. QED
  BY <1>1, <1>4, <1>5, MaxBytesPositive DEF Fill, Full

(* Finalize finds a level, and never the last. *)
LEMMA CompactionLevelExists ==
    ASSUME FileInv
    PROVE  CompactionLevel(current) \in UpperLevels
<1>. DEFINE N == NumLevels - 2
            a == [l \in 0..N |-> Fill(current, l)]
            b == [l \in 0..N |-> Full(l)]
<1>0. N \in Nat
  BY LevelFacts
<1>1. \A l \in 0..N : Fill(current, l) \in Nat /\ Full(l) \in Nat \ {0}
  BY ScoresDefined, LevelFacts DEF UpperLevels
<1>2. a \in [0..N -> Nat] /\ b \in [0..N -> Nat \ {0}]
  BY <1>1
<1>3. PICK l \in 0..N : \A o \in 0..N :
             IF o < l THEN a[l] * b[o] > a[o] * b[l] ELSE a[l] * b[o] >= a[o] * b[l]
  <2>. HIDE DEF a, b, N
  <2>. QED BY <1>0, <1>2, FirstGreatest
<1>4. ASSUME NEW o \in 0..N
      PROVE  IF o < l THEN Score(current, l, o) > Score(current, o, l)
             ELSE Score(current, l, o) >= Score(current, o, l)
  <2>1. /\ a[l] = Fill(current, l) /\ a[o] = Fill(current, o)
        /\ b[l] = Full(l) /\ b[o] = Full(o)
    OBVIOUS
  <2>2. IF o < l THEN a[l] * b[o] > a[o] * b[l] ELSE a[l] * b[o] >= a[o] * b[l]
    BY <1>3
  <2>. HIDE DEF a, b
  <2>. QED BY <2>1, <2>2 DEF Score
<1>. QED
  BY <1>4 DEF CompactionLevel, UpperLevels

(* A level that is full has files, and NextSST is one of them. *)
LEMMA NextSSTInLevel ==
    ASSUME FileInv, NEW l \in Levels, Fill(current, l) >= Full(l)
    PROVE  NextSST(l) \in current[l]
<1>. DEFINE after == {f \in current[l] : \/ compact_pointer[l] = NoKey
                                         \/ KeyLess(compact_pointer[l], f.largest_key)}
            files == IF after = {} THEN current[l] ELSE after
<1>1. current[l] # {}
  <2>. SUFFICES ASSUME current[l] = {} PROVE FALSE
    OBVIOUS
  <2>1. Cardinality({}) = 0
    BY FS_EmptySet
  <2>2. Fill(current, l) = 0
    BY <2>1 DEF Fill, TotalSize
  <2>. QED BY <2>2, ScoresDefined
<1>2. NextSST(l) = FirstSST(files)
  BY DEF NextSST
<1>3. files # {} /\ files \in SUBSET current[l]
  BY <1>1
<1>. HIDE DEF files
<1>4. /\ Len(log) \in Nat
      /\ \A f \in files : f.num \in Nat /\ f.smallest_key \in Nat \X (0..Len(log))
      /\ \A f, g \in files : f.num = g.num => f = g
  BY <1>3, LevelFiles
<1>5. FirstSST(files) \in files
  BY <1>3, <1>4, FirstSSTExists
<1>. QED
  BY <1>2, <1>3, <1>5

(* PickCompaction finds a level and takes its inputs from there and from   *)
(* the next one.                                                           *)
LEMMA PickedFromLevels ==
    ASSUME FileInv, IsNeedCompaction
    PROVE  /\ PickCompaction.level \in UpperLevels
           /\ PickCompaction.version = current
           /\ PickCompaction.in0 \subseteq current[PickCompaction.level]
           /\ PickCompaction.in1 \subseteq current[PickCompaction.level + 1]
<1>. DEFINE level == IF SizeCompaction THEN CompactionLevel(current) ELSE seek.level
            f == IF SizeCompaction THEN NextSST(level) ELSE seek.file
            picked == IF level = 0 THEN GetOverlapSSTs(current, 0, Lo(f), Hi(f)) ELSE {f}
<1>1. level \in UpperLevels /\ f \in current[level]
  <2>1. CASE SizeCompaction
    <3>1. CompactionLevel(current) \in UpperLevels /\ CompactionLevel(current) \in Levels
      BY CompactionLevelExists, LevelFacts
    <3>2. NextSST(CompactionLevel(current)) \in current[CompactionLevel(current)]
      BY <2>1, <3>1, NextSSTInLevel DEF SizeCompaction
    <3>. QED BY <2>1, <3>1, <3>2
  <2>2. CASE ~SizeCompaction
    BY <2>2 DEF IsNeedCompaction, FileInv
  <2>. QED BY <2>1, <2>2
<1>2. PickCompaction = SetupOtherInputs(current, level, picked)
  BY DEF PickCompaction
<1>3. picked \in SUBSET current[level]
  <2>. HIDE DEF f
  <2>. QED BY <1>1, OverlapFromLevel
<1>. HIDE DEF level, picked
<1>. QED
  BY <1>1, <1>2, <1>3, InputsFromLevels

(* A read looks into level 0, where the newest file comes first, and into   *)
(* at most one file of every other level.                                   *)
LEMMA FirstCallExists ==
    ASSUME FileInv, NEW key, NEW seq, NEW calls, calls = OverlapSSTs(current, key, seq),
           calls # {}
    PROVE  /\ FirstCall(calls) \in calls
           /\ FirstCall(calls)[1] \in Levels
           /\ FirstCall(calls)[2] \in current[FirstCall(calls)[1]]
           /\ FirstCall(calls)[1] = NumLevels - 1 => calls = {FirstCall(calls)}
<1>0. NumLevels \in Nat /\ NumLevels > 1
  BY LevelFacts
<1>1. ASSUME NEW p \in calls
      PROVE  /\ p = <<p[1], p[2]>> /\ p[1] \in Levels /\ p[2] \in current[p[1]]
             /\ p[1] # 0 => LET ssts == Sorted(current[p[1]])
                            IN  p[2] = ssts[FindSST(ssts, <<key, seq>>)]
  <2>1. CASE \E f \in {g \in current[0] : Overlaps(g, key, key)} : p = <<0, f>>
    BY <2>1, LevelsNotEmpty
  <2>2. CASE \E l \in 1..(NumLevels - 1) :
               LET ssts == Sorted(current[l])
                   i == FindSST(ssts, <<key, seq>>)
               IN  \E f \in {g \in current[l] : i <= Len(ssts) /\ g = ssts[i] /\ Lo(g) <= key} :
                       p = <<l, f>>
    BY <2>2, <1>0 DEF Levels
  <2>3. \/ p \in {<<0, f>> : f \in {g \in current[0] : Overlaps(g, key, key)}}
        \/ p \in UNION {{<<l, f>> : f \in
                LET ssts == Sorted(current[l])
                    i == FindSST(ssts, <<key, seq>>)
                IN  {g \in current[l] : i <= Len(ssts) /\ g = ssts[i] /\ Lo(g) <= key}}
                         : l \in 1..(NumLevels - 1)}
    BY Zenon DEF OverlapSSTs
  <2>. QED BY <2>1, <2>2, <2>3, Zenon
<1>2. ASSUME NEW p \in calls, NEW q \in calls, p[1] = q[1], p[1] # 0 PROVE p = q
  BY <1>1, <1>2
<1>. DEFINE K == {p[1] : p \in calls}
<1>3. PICK k \in K : \A y \in K : k <= y
  <2>1. K # {}
    OBVIOUS
  <2>2. K \in SUBSET Nat
    BY <1>0, <1>1 DEF Levels
  <2>. HIDE DEF K
  <2>. QED BY <2>1, <2>2, Least
<1>4. k \in Levels /\ k \in Nat /\ \A q \in calls : k <= q[1]
  BY <1>0, <1>1, <1>3 DEF Levels
<1>. DEFINE C == {p \in calls : p[1] = k}
            M == {p[2].num : p \in C}
<1>5. PICK p \in C : \A q \in C : q[2].num <= p[2].num
  <2>1. M # {}
    BY <1>3
  <2>2. next_file \in Nat
    BY DEF FileInv
  <2>3. M \in SUBSET (0..next_file)
    <3>1. ASSUME NEW c \in C PROVE c[2].num \in 0..next_file
      <4>1. c[2] \in CurrentFiles
        BY <1>1 DEF CurrentFiles
      <4>2. IsFile(c[2])
        BY <4>1 DEF FileInv
      <4>. QED BY <4>2, <2>2 DEF IsFile
    <3>. QED BY <3>1
  <2>. HIDE DEF M
  <2>4. PICK m \in M : \A y \in M : y <= m
    BY <2>1, <2>2, <2>3, Greatest
  <2>. QED BY <2>4 DEF M
<1>6. ASSUME NEW q \in calls
      PROVE  p = q \/ p[1] < q[1] \/ (p[1] = q[1] /\ p[2].num > q[2].num)
  <2>1. CASE q[1] # k
    <3>1. q[1] \in Nat
      BY <1>0, <1>1 DEF Levels
    <3>. QED BY <2>1, <3>1, <1>4, <1>5
  <2>2. CASE q[1] = k
    <3>1. q \in C /\ q[2].num <= p[2].num
      BY <2>2, <1>5
    <3>2. p[2] \in current[k] /\ q[2] \in current[k]
      BY <2>2, <1>1, <1>5
    <3>3. p[2].num \in Nat /\ q[2].num \in Nat /\ (p[2].num = q[2].num => p[2] = q[2])
      BY <3>2, <1>4, LevelFiles
    <3>4. p[2] = q[2] => p = q
      BY <2>2, <1>1, <1>5
    <3>. QED BY <2>2, <3>1, <3>3, <3>4, <1>5
  <2>. QED BY <2>1, <2>2
<1>7. FirstCall(calls) \in calls
  BY <1>5, <1>6 DEF FirstCall
<1>. DEFINE first == FirstCall(calls)
<1>8. \A q \in calls : first = q \/ first[1] < q[1] \/ first[1] = q[1]
  BY <1>5, <1>6 DEF FirstCall
<1>. HIDE DEF first
<1>9. first[1] = NumLevels - 1 => calls = {first}
  <2>. SUFFICES ASSUME first[1] = NumLevels - 1, NEW q \in calls PROVE q = first
    BY <1>7 DEF first
  <2>1. q[1] \in Levels /\ first \in calls
    BY <1>1, <1>7 DEF first
  <2>2. ~(first[1] < q[1])
    BY <2>1, <1>0 DEF Levels
  <2>3. first[1] # 0
    BY <1>0
  <2>. QED BY <2>1, <2>2, <2>3, <1>2, <1>8
<1>. QED
  BY <1>1, <1>7, <1>9 DEF first

-----------------------------------------------------------------------------
(***************************************************************************)
(* Versions, files and the compaction under way, step by step              *)
(***************************************************************************)

CompactionInv ==
    compaction # NoCompaction =>
        /\ compaction.level \in UpperLevels
        /\ compaction.todo \subseteq 1..Len(log)
        /\ IsFiniteSet(compaction.outputs)
        /\ \A o \in compaction.outputs :
              IsFile(o) /\ o.num \in pending /\ \A f \in CurrentFiles : f.num # o.num
        /\ \A f, g \in compaction.outputs : f.num = g.num => f = g
        /\ compaction.open = 0 \/ \E o \in compaction.outputs : o.num = compaction.open

StoreInv == VersionTypes /\ RefsInv /\ FileInv /\ CompactionInv /\ FilesPresent

LEMMA StoreInit == Init => StoreInv
<1>. SUFFICES ASSUME Init PROVE StoreInv
  OBVIOUS
<1>1. VersionTypes
  BY DEF Init, VersionTypes
<1>2. current # NoReader
  BY <1>1, LevelsNotEmpty DEF VersionTypes
<1>3. IsABag(refs) /\ DOMAIN refs = {current} /\ refs[current] = 1
  BY DEF Init, One, SetToBag, IsABag
<1>4. RefsInv
  <2>1. ASSUME NEW v, v # NoReader
        PROVE  IsFiniteSet(Holders(v)) /\ Copies(v, refs) = Users(v)
    <3>1. Holders(v) = {} /\ ~Working(v)
      BY <2>1 DEF Init, Holders, Working
    <3>2. IsFiniteSet(Holders(v)) /\ Cardinality(Holders(v)) = 0
      BY <3>1, FS_EmptySet
    <3>3. Copies(v, refs) = IF v = current THEN 1 ELSE 0
      BY <1>3 DEF Copies
    <3>. QED BY <3>1, <3>2, <3>3 DEF Users
  <2>. QED BY <2>1, <1>2, <1>3 DEF RefsInv
<1>5. FileInv
  <2>1. CurrentFiles = {} /\ \A l \in Levels : current[l] = {}
    BY DEF Init, CurrentFiles
  <2>2. log \in Seq(Ops) /\ mem = {} /\ imm = {} /\ next_file = 1 /\ seek = NoSeek
    BY DEF Init
  <2>3. next_file \in Nat \ {0} /\ mem \subseteq 1..Len(log) /\ imm \subseteq 1..Len(log)
    BY <2>2
  <2>4. \A l \in Levels : IsFiniteSet(current[l])
    BY <2>1, FS_EmptySet
  <2>. QED BY <2>1, <2>2, <2>3, <2>4, Zenon DEF FileInv
<1>6. CompactionInv
  BY DEF Init, CompactionInv
<1>7. FilesPresent
  <2>1. compaction = NoCompaction /\ Versions = {current}
    BY DEF Init, Versions
  <2>2. \A l \in Levels : Numbers(current[l]) = {}
    BY DEF Init, Numbers
  <2>. QED BY <2>1, <2>2 DEF FilesPresent
<1>. QED
  BY <1>1, <1>4, <1>5, <1>6, <1>7 DEF StoreInv

(* A file stays one while files and writes are added. *)
LEMMA StaysFile ==
    ASSUME log \in Seq(Ops), log' \in Seq(Ops), Len(log) <= Len(log'),
           next_file \in Nat, next_file' \in Nat, next_file <= next_file', NEW f, IsFile(f)
    PROVE  IsFile(f)'
<1>1. Len(log) \in Nat /\ Len(log') \in Nat
  OBVIOUS
<1>2. /\ 1..Len(log) \subseteq 1..Len(log') /\ 0..Len(log) \subseteq 0..Len(log')
      /\ 1..(next_file - 1) \subseteq 1..(next_file' - 1)
  <2>1. \A a, b \in Nat : a <= b => /\ 1..a \subseteq 1..b /\ 0..a \subseteq 0..b
                                    /\ 1..(a - 1) \subseteq 1..(b - 1)
    OBVIOUS
  <2>. QED BY <1>1, <2>1, Zenon
<1>. QED
  BY <1>2 DEF IsFile

(* Writes, snapshots, callers of CompactRange, flushes that fail: no file   *)
(* in use is touched.                                                       *)
LEMMA StoreQuiet ==
    ASSUME StoreInv, UNCHANGED <<current, refs, pending, seek, readers, compaction>>,
           next_file' \in Nat, next_file <= next_file', disk \subseteq disk',
           log' \in Seq(Ops), Len(log) <= Len(log'),
           mem' \subseteq 1..Len(log'), imm' \subseteq 1..Len(log')
    PROVE  StoreInv'
<1>0. VersionTypes /\ RefsInv /\ FileInv /\ CompactionInv /\ FilesPresent
  BY DEF StoreInv
<1>1. VersionTypes'
  BY <1>0 DEF VersionTypes
<1>2. RefsInv'
  BY <1>0, RefsQuiet DEF Working
<1>3. log \in Seq(Ops) /\ next_file \in Nat \ {0}
  BY <1>0 DEF FileInv
<1>4. ASSUME NEW f, IsFile(f) PROVE IsFile(f)'
  BY <1>3, <1>4, StaysFile
<1>5. CurrentFiles' = CurrentFiles
  BY DEF CurrentFiles
<1>6. FileInv'
  <2>1. next_file' \in Nat \ {0}
    BY <1>3
  <2>. QED BY <2>1, <1>0, <1>3, <1>4, <1>5 DEF FileInv
<1>7. CompactionInv'
  <2>. SUFFICES ASSUME compaction # NoCompaction PROVE CompactionInv'
    BY DEF CompactionInv
  <2>1. compaction.todo \subseteq 1..Len(log')
    <3>1. 1..Len(log) \subseteq 1..Len(log')
      BY <1>3
    <3>. QED BY <3>1, <1>0 DEF CompactionInv
  <2>2. \A o \in compaction.outputs :
            IsFile(o)' /\ o.num \in pending /\ \A f \in CurrentFiles : f.num # o.num
    BY <1>0, <1>4 DEF CompactionInv
  <2>. QED BY <2>1, <2>2, <1>0, <1>5 DEF CompactionInv
<1>8. FilesPresent'
  BY <1>0 DEF FilesPresent, Versions
<1>. QED
  BY <1>1, <1>2, <1>6, <1>7, <1>8 DEF StoreInv

(* UpdateStats remembers a file of the current version, and never one of   *)
(* the last level.                                                         *)
LEMMA StoreUpdateStats ==
    ASSUME StoreInv, NEW key, NEW seq, UpdateStats(key, seq)
    PROVE  StoreInv'
<1>. DEFINE calls == OverlapSSTs(current, key, seq)
            first == FirstCall(calls)
<1>0. VersionTypes /\ RefsInv /\ FileInv /\ CompactionInv /\ FilesPresent
  BY DEF StoreInv
<1>1. /\ \E p, q \in calls : p # q
      /\ seek' = [file |-> first[2], level |-> first[1]]
      /\ UNCHANGED <<log, mem, imm, current, refs, next_file, disk, pending, readers, compaction>>
  BY DEF UpdateStats
<1>. HIDE DEF calls
<1>2. /\ first \in calls /\ first[1] \in Levels /\ first[2] \in current[first[1]]
      /\ first[1] = NumLevels - 1 => calls = {first}
  BY <1>0, <1>1, FirstCallExists DEF calls
<1>. HIDE DEF first
<1>3. first[1] \in UpperLevels
  BY <1>1, <1>2, LevelFacts DEF Levels, UpperLevels
<1>4. FileInv'
  <2>1. seek'.level \in UpperLevels /\ seek'.file \in current[seek'.level]
    BY <1>1, <1>2, <1>3
  <2>. QED BY <2>1, <1>0, <1>1 DEF FileInv, CurrentFiles, IsFile
<1>5. VersionTypes' /\ CompactionInv' /\ FilesPresent'
  BY <1>0, <1>1 DEF VersionTypes, CompactionInv, FilesPresent, Versions, CurrentFiles, IsFile
<1>6. RefsInv'
  BY <1>0, <1>1, RefsQuiet DEF Working
<1>. QED
  BY <1>4, <1>5, <1>6 DEF StoreInv

(* Iterators take references to versions and give them back. *)
LEMMA StoreIterators ==
    ASSUME StoreInv, NEW r \in Readers, NewIterator(r) \/ DeleteIterator(r)
    PROVE  StoreInv'
<1>0. VersionTypes /\ RefsInv /\ FileInv /\ CompactionInv /\ FilesPresent
  BY DEF StoreInv
<1>1. UNCHANGED <<log, mem, imm, current, next_file, disk, pending, seek, compaction>>
  BY DEF NewIterator, DeleteIterator
<1>2. RefsInv' /\ VersionTypes' /\ Versions' \subseteq Versions
  <2>1. CASE NewIterator(r)
    <3>1. /\ readers[r] = NoReader /\ readers' = [readers EXCEPT ![r] = current]
          /\ refs' = Ref(refs, current)
      BY <2>1 DEF NewIterator
    <3>2. RefsInv'
      BY <3>1, <1>0, <1>1, RefsNewIterator
    <3>3. VersionTypes'
      BY <3>1, <1>0, <1>1 DEF VersionTypes
    <3>4. Versions' \subseteq Versions
      BY <3>1, <1>0, <1>1 DEF Versions, VersionTypes
    <3>. QED BY <3>2, <3>3, <3>4
  <2>2. CASE DeleteIterator(r)
    <3>1. /\ readers[r] # NoReader /\ readers' = [readers EXCEPT ![r] = NoReader]
          /\ refs' = Unref(refs, readers[r])
      BY <2>2 DEF DeleteIterator
    <3>2. RefsInv'
      BY <3>1, <1>0, <1>1, RefsDeleteIterator
    <3>3. VersionTypes'
      BY <3>1, <1>0, <1>1 DEF VersionTypes
    <3>4. Versions' \subseteq Versions
      BY <3>1, <1>0, <1>1 DEF Versions, VersionTypes
    <3>. QED BY <3>2, <3>3, <3>4
  <2>. QED BY <2>1, <2>2
<1>3. FileInv' /\ CompactionInv'
  BY <1>0, <1>1 DEF FileInv, CompactionInv, CurrentFiles, IsFile
<1>4. FilesPresent'
  BY <1>0, <1>1, <1>2 DEF FilesPresent
<1>. QED
  BY <1>2, <1>3, <1>4 DEF StoreInv

(* What BuildSST and FinishCompactionOutputSST know of a file. *)
Describes(f, num, ents) ==
    f.num = num /\ f.ents = ents /\ f.smallest_key \in Nat \X (0..Len(log))

LEMMA SSTFields ==
    ASSUME log \in Seq(Ops), NEW num, NEW ents, ents \subseteq 1..Len(log), ents # {}
    PROVE  Describes(SST(num, ents), num, ents)
<1>. DEFINE e == FirstEntry(ents)
<1>1. e \in ents
  BY FirstEntryExists
<1>. HIDE DEF e
<1>2. e \in 1..Len(log) /\ e \in 0..Len(log)
  BY <1>1
<1>3. log[e] \in Ops
  BY <1>2
<1>4. log[e].key \in Nat
  BY <1>3, LSMAssumption, Zenon
<1>5. SST(num, ents).smallest_key = <<log[e].key, e>>
  BY DEF SST, InternalKey, e
<1>6. SST(num, ents).num = num /\ SST(num, ents).ents = ents
  BY DEF SST
<1>. QED
  BY <1>2, <1>4, <1>5, <1>6 DEF Describes

(* A version made of files of the current one and of new files, with        *)
(* numbers of their own.                                                    *)
MadeOf(v, new) ==
    /\ DOMAIN v = Levels
    /\ \A l \in Levels : IsFiniteSet(v[l]) /\ v[l] \subseteq CurrentFiles \cup new
NewFiles(new) ==
    /\ \A f \in new : IsFile(f)' /\ \A g \in CurrentFiles : g.num # f.num
    /\ \A f, g \in new : f.num = g.num => f = g

LEMMA FilesOfNewVersion ==
    ASSUME FileInv, NEW v, NEW new, current' = v, seek' = NoSeek, log' = log,
           mem' \subseteq 1..Len(log), imm' \subseteq 1..Len(log),
           next_file' \in Nat \ {0}, next_file <= next_file', MadeOf(v, new), NewFiles(new)
    PROVE  FileInv' /\ CurrentFiles' \subseteq CurrentFiles \cup new
<1>. USE DEF MadeOf, NewFiles
<1>0. /\ log \in Seq(Ops) /\ next_file \in Nat \ {0} /\ Len(log) \in Nat
      /\ \A f \in CurrentFiles : IsFile(f)
      /\ \A f, g \in CurrentFiles : f.num = g.num => f = g
  BY DEF FileInv
<1>1. CurrentFiles' \subseteq CurrentFiles \cup new
  <2>1. CurrentFiles' = UNION {v[l] : l \in Levels}
    BY DEF CurrentFiles
  <2>. QED BY <2>1
<1>2. ASSUME NEW f \in CurrentFiles' PROVE IsFile(f)'
  <2>1. CASE f \in new
    BY <2>1
  <2>2. CASE f \in CurrentFiles
    <3>1. IsFile(f)
      BY <2>2, <1>0
    <3>2. Len(log) <= Len(log')
      BY <1>0
    <3>. QED BY <3>1, <3>2, <1>0, StaysFile
  <2>. QED BY <2>1, <2>2, <1>1
<1>3. ASSUME NEW f \in CurrentFiles', NEW g \in CurrentFiles', f.num = g.num PROVE f = g
  BY <1>0, <1>1, <1>3
<1>4. \A l \in Levels : IsFiniteSet(current'[l])
  OBVIOUS
<1>5. /\ log' \in Seq(Ops) /\ mem' \subseteq 1..Len(log') /\ imm' \subseteq 1..Len(log')
      /\ next_file' \in Nat \ {0} /\ seek' = NoSeek
  BY <1>0
<1>6. FileInv'
  BY <1>2, <1>3, <1>4, <1>5, Zenon DEF FileInv
<1>. QED
  BY <1>1, <1>6

(* RemoveObsoleteFiles keeps the files of the versions with references. *)
LEMMA LiveFilesKept ==
    ASSUME RefsExact', NEW d, NEW p, disk' = RemoveObsoleteFiles(d, refs', p),
           NEW v \in Versions', NEW l \in Levels, Numbers(v[l]) \subseteq d
    PROVE  Numbers(v[l]) \subseteq disk'
<1>1. v \in BagToSet(refs')
  BY DEF RefsExact
<1>2. Numbers(v[l]) \subseteq LiveFiles(refs')
  <2>1. Numbers(v[l]) \in {Numbers(w[k]) : w \in BagToSet(refs'), k \in Levels}
    BY <1>1
  <2>. QED BY <2>1 DEF LiveFiles
<1>. QED
  BY <1>2 DEF RemoveObsoleteFiles

(* The files of the current version are on disk. *)
LEMMA CurrentPresent ==
    ASSUME FilesPresent, NEW f \in CurrentFiles
    PROVE  f.num \in disk
<1>1. PICK l \in Levels : f \in current[l]
  BY DEF CurrentFiles
<1>2. f.num \in Numbers(current[l])
  BY <1>1 DEF Numbers
<1>3. current \in Versions
  BY DEF Versions
<1>. QED
  BY <1>2, <1>3 DEF FilesPresent

(* The versions after a new one was appended. *)
LEMMA VersionsAfterAppend ==
    ASSUME NEW v, current' = v, UNCHANGED readers, compaction' = compaction \/ compaction' = NoCompaction
    PROVE  Versions' \subseteq Versions \cup {v}
BY DEF Versions

(* CompactMemTable *)
LEMMA StoreFlush ==
    ASSUME StoreInv, CompactMemTable
    PROVE  StoreInv'
<1>0. VersionTypes /\ RefsInv /\ FileInv /\ CompactionInv /\ FilesPresent
  BY DEF StoreInv
<1>. PICK f : f = SST(next_file, imm)
  OBVIOUS
<1>. PICK level : level = PickLevelForMemTableCompactionOutput(current, Lo(f), Hi(f))
  OBVIOUS
<1>. PICK v : v = [current EXCEPT ![level] = @ \cup {f}]
  OBVIOUS
<1>1. /\ FlushDue /\ AppendVersion(v, EmptyBag) /\ imm' = {} /\ next_file' = next_file + 1
      /\ disk' = RemoveObsoleteFiles(disk \cup {next_file}, refs', pending)
      /\ UNCHANGED <<log, mem, pending, readers, compaction>>
  BY DEF CompactMemTable
<1>2. /\ imm # {} /\ log \in Seq(Ops) /\ imm \in SUBSET (1..Len(log)) /\ mem \subseteq 1..Len(log)
      /\ next_file \in Nat \ {0} /\ Len(log) \in Nat
  BY <1>0, <1>1 DEF FlushDue, FileInv
<1>3. /\ f.num = next_file /\ f.ents = imm /\ f.smallest_key \in Nat \X (0..Len(log))
  BY <1>2, SSTFields DEF Describes
<1>4. /\ DOMAIN v = Levels
      /\ \A l \in Levels : v[l] = current[l] \/ v[l] = current[l] \cup {f}
  BY <1>0 DEF VersionTypes
<1>5. current' = v /\ seek' = NoSeek
  BY <1>1 DEF AppendVersion
<1>6. VersionTypes'
  BY <1>0, <1>1, <1>4, <1>5 DEF VersionTypes
<1>7. RefsInv'
  BY <1>0, <1>1, <1>4, RefsAppend
<1>8. FileInv' /\ CurrentFiles' \subseteq CurrentFiles \cup {f}
  <2>1. IsFile(f)'
    <3>1. f.num \in 1..(next_file' - 1)
      BY <1>1, <1>2, <1>3
    <3>. QED BY <3>1, <1>1, <1>2, <1>3 DEF IsFile
  <2>2. ASSUME NEW g \in CurrentFiles PROVE g.num # f.num
    <3>1. IsFile(g)
      BY <1>0 DEF FileInv
    <3>. QED BY <3>1, <1>2, <1>3 DEF IsFile
  <2>3. ASSUME NEW l \in Levels
        PROVE  IsFiniteSet(v[l]) /\ v[l] \subseteq CurrentFiles \cup {f}
    <3>1. IsFiniteSet(current[l]) /\ current[l] \subseteq CurrentFiles
      BY <1>0, LevelFiles
    <3>2. IsFiniteSet(current[l] \cup {f})
      BY <3>1, FS_AddElement
    <3>. QED BY <3>1, <3>2, <1>4
  <2>4. /\ mem' \subseteq 1..Len(log) /\ imm' \subseteq 1..Len(log) /\ log' = log
        /\ next_file' \in Nat \ {0} /\ next_file <= next_file'
    BY <1>1, <1>2
  <2>5. NewFiles({f})
    BY <2>1, <2>2 DEF NewFiles
  <2>6. MadeOf(v, {f})
    BY <2>3, <1>4 DEF MadeOf
  <2>. QED BY <2>4, <2>5, <2>6, <1>0, <1>5, FilesOfNewVersion
<1>9. CompactionInv'
  <2>. SUFFICES ASSUME compaction # NoCompaction PROVE CompactionInv'
    BY <1>1 DEF CompactionInv
  <2>1. ASSUME NEW o \in compaction.outputs
        PROVE  IsFile(o)' /\ o.num \in pending /\ \A g \in CurrentFiles' : g.num # o.num
    <3>1. IsFile(o) /\ o.num \in pending /\ \A g \in CurrentFiles : g.num # o.num
      BY <1>0 DEF CompactionInv
    <3>2. o.num # next_file
      BY <3>1, <1>2 DEF IsFile
    <3>3. IsFile(o)'
      <4>1. /\ Len(log) <= Len(log') /\ next_file' \in Nat /\ next_file <= next_file'
            /\ log' \in Seq(Ops) /\ next_file \in Nat
        BY <1>1, <1>2
      <4>. QED BY <4>1, <3>1, <1>2, StaysFile
    <3>. QED BY <3>1, <3>2, <3>3, <1>3, <1>8
  <2>2. /\ compaction'.level \in UpperLevels /\ compaction'.todo \subseteq 1..Len(log')
        /\ IsFiniteSet(compaction'.outputs)
        /\ \A g, h \in compaction'.outputs : g.num = h.num => g = h
        /\ compaction'.open = 0 \/ \E o \in compaction'.outputs : o.num = compaction'.open
    BY <1>0, <1>1, Zenon DEF CompactionInv
  <2>. QED BY <2>1, <2>2, <1>1 DEF CompactionInv
<1>10. FilesPresent'
  <2>1. RefsExact'
    <3>1. VersionTypes /\ RefsInv => RefsExact
      BY RefsInvImplies
    <3>. QED BY <1>6, <1>7, RefsInvImplies, PTL
  <2>2. ASSUME NEW w \in Versions', NEW l \in Levels
        PROVE  Numbers(w[l]) \subseteq disk \cup {next_file}
    <3>1. w \in Versions \/ w = v
      BY <1>1, <1>5, VersionsAfterAppend
    <3>2. current \in Versions
      BY DEF Versions
    <3>. QED BY <3>1, <3>2, <1>0, <1>3, <1>4 DEF FilesPresent, Numbers
  <2>3. \A w \in Versions', l \in Levels : Numbers(w[l]) \subseteq disk'
    BY <2>1, <2>2, <1>1, LiveFilesKept
  <2>4. compaction # NoCompaction => Numbers(compaction.outputs) \subseteq disk'
    BY <1>0, <1>1 DEF FilesPresent, CompactionInv, Numbers, RemoveObsoleteFiles
  <2>. QED BY <2>3, <2>4, <1>1 DEF FilesPresent
<1>. QED
  BY <1>6, <1>7, <1>8, <1>9, <1>10 DEF StoreInv

(* A file that is only moved to the next level. *)
LEMMA StoreMove ==
    ASSUME StoreInv, MoveSST
    PROVE  StoreInv'
<1>0. VersionTypes /\ RefsInv /\ FileInv /\ CompactionInv /\ FilesPresent
  BY DEF StoreInv
<1>. PICK c : c = PickCompaction
  OBVIOUS
<1>. PICK v : v = [current EXCEPT ![c.level] = @ \ c.in0, ![c.level + 1] = @ \cup c.in0]
  OBVIOUS
<1>1. /\ Idle /\ IsNeedCompaction
      /\ AppendVersion(v, EmptyBag) \/ UNCHANGED <<current, refs, seek>>
      /\ UNCHANGED <<log, mem, imm, next_file, disk, pending, readers, compaction>>
  BY DEF MoveSST
<1>2. /\ log \in Seq(Ops) /\ mem \subseteq 1..Len(log) /\ imm \subseteq 1..Len(log)
      /\ next_file \in Nat \ {0} /\ Len(log) \in Nat
  BY <1>0 DEF FileInv
<1>3. CASE UNCHANGED <<current, refs, seek>>
  <2>1. /\ UNCHANGED <<current, refs, pending, seek, readers, compaction>>
        /\ next_file' \in Nat /\ next_file <= next_file' /\ disk \subseteq disk'
        /\ log' \in Seq(Ops) /\ Len(log) <= Len(log')
        /\ mem' \subseteq 1..Len(log') /\ imm' \subseteq 1..Len(log')
    BY <1>1, <1>2, <1>3
  <2>. QED BY <2>1, StoreQuiet
<1>4. CASE AppendVersion(v, EmptyBag)
  <2>1. /\ c.level \in Levels /\ c.level + 1 \in Levels /\ c.level + 1 # c.level
        /\ c.in0 \subseteq current[c.level]
    BY <1>0, <1>1, PickedFromLevels, LevelFacts
  <2>2. c.in0 \subseteq CurrentFiles /\ IsFiniteSet(c.in0)
    BY <2>1, <1>0, LevelFiles
  <2>3. DOMAIN v = Levels
    BY <1>0 DEF VersionTypes
  <2>4. ASSUME NEW l \in Levels
        PROVE  IsFiniteSet(v[l]) /\ v[l] \subseteq CurrentFiles
    <3>1. IsFiniteSet(current[l]) /\ current[l] \subseteq CurrentFiles
      BY <1>0, LevelFiles
    <3>2. IsFiniteSet(current[l] \cup c.in0) /\ IsFiniteSet(current[l] \ c.in0)
      BY <3>1, <2>2, FS_Union, FS_Subset
    <3>3. v[l] = current[l] \/ v[l] = current[l] \ c.in0 \/ v[l] = current[l] \cup c.in0
      BY <2>1, <1>0 DEF VersionTypes
    <3>. QED BY <2>2, <3>1, <3>2, <3>3
  <2>5. current' = v /\ seek' = NoSeek
    BY <1>4 DEF AppendVersion
  <2>6. VersionTypes'
    BY <1>0, <1>1, <2>3, <2>5 DEF VersionTypes
  <2>7. RefsInv'
    BY <1>0, <1>1, <1>4, <2>3, RefsAppend
  <2>8. FileInv' /\ CurrentFiles' \subseteq CurrentFiles
    <3>1. MadeOf(v, {}) /\ NewFiles({})
      BY <2>3, <2>4 DEF MadeOf, NewFiles
    <3>2. /\ log' = log /\ mem' \subseteq 1..Len(log) /\ imm' \subseteq 1..Len(log)
          /\ next_file' \in Nat \ {0} /\ next_file <= next_file'
      BY <1>1, <1>2
    <3>3. FileInv' /\ CurrentFiles' \subseteq CurrentFiles \cup {}
      BY <3>1, <3>2, <2>5, <1>0, FilesOfNewVersion
    <3>. QED BY <3>3
  <2>9. CompactionInv'
    BY <1>1 DEF CompactionInv, Idle
  <2>10. FilesPresent'
    <3>1. ASSUME NEW w \in Versions', NEW l \in Levels PROVE Numbers(w[l]) \subseteq disk
      <4>1. w \in Versions \/ w = v
        BY <1>1, <2>5, VersionsAfterAppend
      <4>2. Numbers(v[l]) \subseteq disk
        BY <2>4, <1>0, CurrentPresent DEF Numbers
      <4>. QED BY <4>1, <4>2, <1>0 DEF FilesPresent
    <3>. QED BY <3>1, <1>1, Zenon DEF FilesPresent, Idle
  <2>. QED BY <2>6, <2>7, <2>8, <2>9, <2>10 DEF StoreInv
<1>. QED
  BY <1>1, <1>3, <1>4

(* A compaction starts, of files of a level and of the next one. *)
LEMMA StoreStart ==
    ASSUME StoreInv, compaction = NoCompaction, NEW c, NEW m, StartCompactionOf(c, m),
           c.level \in UpperLevels, c.version = current,
           c.in0 \subseteq current[c.level], c.in1 \subseteq current[c.level + 1]
    PROVE  StoreInv'
<1>0. VersionTypes /\ RefsInv /\ FileInv /\ CompactionInv /\ FilesPresent
  BY DEF StoreInv
<1>. PICK todo : todo = UNION {f.ents : f \in c.in0 \cup c.in1}
  OBVIOUS
<1>1. /\ refs' = Ref(refs, current)
      /\ compaction' = [level |-> c.level, version |-> c.version, in0 |-> c.in0, in1 |-> c.in1,
                        m |-> m, smallest_snapshot |-> SmallestSnapshot, todo |-> todo,
                        open |-> 0, outputs |-> {}]
      /\ UNCHANGED <<log, mem, imm, current, next_file, disk, pending, seek, readers>>
  BY DEF StartCompactionOf
<1>2. /\ compaction'.level = c.level /\ compaction'.version = current /\ compaction'.todo = todo
      /\ compaction'.open = 0 /\ compaction'.outputs = {}
      /\ {"version", "level", "todo", "open", "outputs"} \subseteq DOMAIN compaction'
  BY <1>1
<1>3. compaction' # NoCompaction
  <2>1. "version" \notin DOMAIN NoCompaction
    BY DEF NoCompaction
  <2>. QED BY <2>1, <1>2
<1>4. todo \subseteq 1..Len(log)
  <2>1. c.level \in Levels /\ c.level + 1 \in Levels
    BY LevelFacts
  <2>2. c.in0 \subseteq CurrentFiles /\ c.in1 \subseteq CurrentFiles
    BY <2>1, <1>0, LevelFiles
  <2>. QED BY <2>2, <1>0 DEF FileInv, IsFile
<1>5. VersionTypes'
  BY <1>0, <1>1, <1>2 DEF VersionTypes
<1>6. RefsInv'
  BY <1>0, <1>1, <1>2, <1>3, RefsStart
<1>7. FileInv'
  <2>1. CurrentFiles' = CurrentFiles
    BY <1>1 DEF CurrentFiles
  <2>2. \A f : IsFile(f)' <=> IsFile(f)
    BY <1>1 DEF IsFile
  <2>. QED BY <2>1, <2>2, <1>0, <1>1 DEF FileInv
<1>8. CompactionInv'
  <2>1. IsFiniteSet(compaction'.outputs)
    BY <1>2, FS_EmptySet
  <2>. QED BY <2>1, <1>1, <1>2, <1>4 DEF CompactionInv
<1>9. FilesPresent'
  <2>1. Versions' \subseteq Versions
    BY <1>1, <1>2 DEF Versions
  <2>2. \A w \in Versions', l \in Levels : Numbers(w[l]) \subseteq disk'
    BY <2>1, <1>0, <1>1 DEF FilesPresent
  <2>3. Numbers(compaction'.outputs) = {}
    BY <1>2 DEF Numbers
  <2>. QED BY <2>2, <2>3 DEF FilesPresent
<1>. QED
  BY <1>5, <1>6, <1>7, <1>8, <1>9 DEF StoreInv

(* A compaction that goes on with other entries and outputs. *)
GoesOn(c, d, t, o, out) ==
    \/ d = [c EXCEPT !.todo = t]
    \/ d = [c EXCEPT !.todo = t, !.open = o, !.outputs = out]
HasGoneOn(c, d, t, o, out) ==
    /\ d # NoCompaction /\ d.level = c.level /\ d.version = c.version /\ d.todo = t
    /\ \/ d.open = c.open /\ d.outputs = c.outputs
       \/ d.open = o /\ d.outputs = out
    /\ {"version", "level", "todo", "open", "outputs"} \subseteq DOMAIN d

LEMMA StoreProgress ==
    ASSUME NEW c, NEW d, NEW t, NEW o, NEW out, GoesOn(c, d, t, o, out),
           {"version", "level", "todo", "open", "outputs"} \subseteq DOMAIN c
    PROVE  HasGoneOn(c, d, t, o, out)
<1>1. "version" \notin DOMAIN NoCompaction
  BY DEF NoCompaction
<1>2. DOMAIN d = DOMAIN c
  BY DEF GoesOn
<1>. QED
  BY <1>1, <1>2 DEF GoesOn, HasGoneOn

(* What is in the output file that is open. *)
Built(c) == IF c.open = 0 THEN {} ELSE (CHOOSE x \in c.outputs : x.num = c.open).ents

(* A turn of the loop leaves out an entry or writes it to an output file. *)
LEMMA StoreEntry ==
    ASSUME StoreInv, NEW finish \in BOOLEAN, CompactEntry(finish)
    PROVE  StoreInv'
<1>0. VersionTypes /\ RefsInv /\ FileInv /\ CompactionInv /\ FilesPresent
  BY DEF StoreInv
<1>. PICK c : c = compaction
  OBVIOUS
<1>. PICK e : e = FirstEntry(c.todo)
  OBVIOUS
<1>. PICK number : number = IF c.open = 0 THEN next_file ELSE c.open
  OBVIOUS
<1>. PICK built : built = Built(c)
  OBVIOUS
<1>. PICK sst : sst = SST(number, built \cup {e})
  OBVIOUS
<1>. PICK open : open = IF finish THEN 0 ELSE number
  OBVIOUS
<1>. PICK outputs : outputs = {x \in c.outputs : x.num # number} \cup {sst}
  OBVIOUS
<1>1. /\ c # NoCompaction /\ c.todo # {}
      /\ \/ /\ compaction' = [c EXCEPT !.todo = c.todo \ {e}]
            /\ UNCHANGED <<next_file, disk, pending>>
         \/ /\ compaction' = [c EXCEPT !.todo = c.todo \ {e}, !.open = open, !.outputs = outputs]
            /\ next_file' = IF c.open = 0 THEN next_file + 1 ELSE next_file
            /\ disk' = disk \cup {number} /\ pending' = pending \cup {number}
      /\ UNCHANGED <<log, mem, imm, current, refs, seek, readers>>
  BY DEF CompactEntry, Built
<1>2. /\ c.level \in UpperLevels /\ c.todo \subseteq 1..Len(log) /\ IsFiniteSet(c.outputs)
      /\ \A x \in c.outputs : IsFile(x) /\ x.num \in pending /\ \A f \in CurrentFiles : f.num # x.num
      /\ \A f, g \in c.outputs : f.num = g.num => f = g
      /\ c.open = 0 \/ \E x \in c.outputs : x.num = c.open
      /\ Numbers(c.outputs) \subseteq disk
  BY <1>0, <1>1 DEF CompactionInv, FilesPresent
<1>3. /\ log \in Seq(Ops) /\ next_file \in Nat \ {0} /\ Len(log) \in Nat
      /\ \A f \in CurrentFiles : IsFile(f)
  BY <1>0 DEF FileInv
<1>4. e \in 1..Len(log)
  BY <1>1, <1>2, <1>3, FirstEntryExists
<1>5. /\ next_file' \in Nat \ {0} /\ next_file <= next_file'
      /\ disk \subseteq disk' /\ pending \subseteq pending'
  BY <1>1, <1>3
<1>6. ASSUME NEW f, IsFile(f) PROVE IsFile(f)'
  <2>1. /\ log' \in Seq(Ops) /\ Len(log) <= Len(log') /\ next_file \in Nat /\ next_file' \in Nat
    BY <1>1, <1>3, <1>5
  <2>. QED BY <2>1, <1>3, <1>5, <1>6, StaysFile
<1>7. CurrentFiles' = CurrentFiles
  BY <1>1 DEF CurrentFiles
<1>8. /\ compaction' # NoCompaction
      /\ compaction'.level = c.level /\ compaction'.version = c.version
      /\ compaction'.todo = c.todo \ {e}
      /\ \/ compaction'.open = c.open /\ compaction'.outputs = c.outputs
         \/ compaction'.open = open /\ compaction'.outputs = outputs
      /\ {"version", "level", "todo", "open", "outputs"} \subseteq DOMAIN compaction'
  <2>. PICK t : t = c.todo \ {e}
    OBVIOUS
  <2>1. GoesOn(c, compaction', t, open, outputs)
    BY <1>1 DEF GoesOn
  <2>2. {"version", "level", "todo", "open", "outputs"} \subseteq DOMAIN c
    BY <1>0, <1>1 DEF VersionTypes
  <2>3. HasGoneOn(c, compaction', t, open, outputs)
    BY <2>1, <2>2, StoreProgress
  <2>. QED BY <2>3 DEF HasGoneOn
<1>9. VersionTypes'
  BY <1>0, <1>1, <1>8 DEF VersionTypes
<1>10. RefsInv'
  BY <1>0, <1>1, <1>8, RefsQuiet DEF Working
<1>11. FileInv'
  BY <1>0, <1>1, <1>3, <1>5, <1>6, <1>7 DEF FileInv
<1>12. Versions' = Versions
  BY <1>1, <1>8 DEF Versions
<1>13. \A w \in Versions', l \in Levels : Numbers(w[l]) \subseteq disk'
  BY <1>0, <1>5, <1>12 DEF FilesPresent
<1>14. CASE compaction' = [c EXCEPT !.todo = c.todo \ {e}]
  <2>1. compaction'.open = c.open /\ compaction'.outputs = c.outputs
    BY <1>14, <1>0, <1>1 DEF VersionTypes
  <2>2. CompactionInv'
    BY <2>1, <1>2, <1>1, <1>5, <1>6, <1>7, <1>8 DEF CompactionInv
  <2>3. FilesPresent'
    BY <2>1, <1>2, <1>5, <1>13 DEF FilesPresent
  <2>. QED BY <2>2, <2>3, <1>9, <1>10, <1>11 DEF StoreInv
<1>15. CASE /\ compaction' = [c EXCEPT !.todo = c.todo \ {e}, !.open = open, !.outputs = outputs]
            /\ next_file' = IF c.open = 0 THEN next_file + 1 ELSE next_file
            /\ disk' = disk \cup {number} /\ pending' = pending \cup {number}
  <2>1. compaction'.open = open /\ compaction'.outputs = outputs
    BY <1>15, <1>0, <1>1 DEF VersionTypes
  <2>2. /\ number \in 1..(next_file' - 1) /\ \A f \in CurrentFiles : f.num # number
        /\ built \subseteq 1..Len(log)
    <3>1. CASE c.open = 0
      BY <3>1, <1>3, <1>15 DEF IsFile, Built
    <3>2. CASE c.open # 0
      <4>. PICK x : x = CHOOSE y \in c.outputs : y.num = c.open
        OBVIOUS
      <4>1. x \in c.outputs /\ x.num = c.open
        BY <3>2, <1>2
      <4>2. IsFile(x) /\ \A f \in CurrentFiles : f.num # x.num
        BY <4>1, <1>2
      <4>3. built = x.ents /\ number = x.num /\ next_file' = next_file
        BY <3>2, <4>1, <1>15 DEF Built
      <4>. QED BY <4>2, <4>3 DEF IsFile
    <3>. QED BY <3>1, <3>2
  <2>3. sst.num = number /\ sst.ents = built \cup {e} /\ sst.smallest_key \in Nat \X (0..Len(log))
    <3>1. built \cup {e} \in SUBSET (1..Len(log)) /\ built \cup {e} # {}
      BY <2>2, <1>4
    <3>. PICK ents : ents = built \cup {e}
      OBVIOUS
    <3>2. ents \subseteq 1..Len(log) /\ ents # {} /\ sst = SST(number, ents)
      BY <3>1
    <3>3. Describes(SST(number, ents), number, ents)
      BY <3>2, <1>3, SSTFields
    <3>. QED BY <3>2, <3>3 DEF Describes
  <2>4. IsFile(sst)'
    BY <2>2, <2>3, <1>1, <1>4 DEF IsFile
  <2>5. IsFiniteSet(outputs)
    <3>1. IsFiniteSet({x \in c.outputs : x.num # number})
      BY <1>2, FS_Subset
    <3>. QED BY <3>1, FS_AddElement
  <2>6. ASSUME NEW x \in outputs
        PROVE  IsFile(x)' /\ x.num \in pending' /\ \A f \in CurrentFiles' : f.num # x.num
    <3>1. CASE x = sst
      <4>1. number \in pending'
        BY <1>15
      <4>2. \A f \in CurrentFiles' : f.num # number
        BY <2>2, <1>7
      <4>. QED BY <3>1, <4>1, <4>2, <2>3, <2>4, Zenon
    <3>2. CASE x # sst
      <4>1. x \in c.outputs
        BY <3>2
      <4>. QED BY <4>1, <1>2, <1>5, <1>6, <1>7
    <3>. QED BY <3>1, <3>2
  <2>7. \A f, g \in outputs : f.num = g.num => f = g
    BY <1>2, <2>3
  <2>8. open = 0 \/ \E x \in outputs : x.num = open
    BY <2>3
  <2>9. c.todo \ {e} \subseteq 1..Len(log')
    BY <1>1, <1>2
  <2>10. CompactionInv'
    BY <2>1, <2>5, <2>6, <2>7, <2>8, <2>9, <1>2, <1>8, Zenon DEF CompactionInv
  <2>11. Numbers(outputs) \subseteq disk'
    <3>1. number \in disk' /\ Numbers(c.outputs) \subseteq disk'
      BY <1>2, <1>5, <1>15
    <3>2. ASSUME NEW x \in outputs PROVE x.num \in disk'
      <4>1. x = sst \/ x \in c.outputs
        OBVIOUS
      <4>. QED BY <4>1, <3>1, <2>3 DEF Numbers
    <3>. QED BY <3>2 DEF Numbers
  <2>12. FilesPresent'
    BY <2>1, <2>11, <1>13 DEF FilesPresent
  <2>. QED BY <2>10, <2>12, <1>9, <1>10, <1>11 DEF StoreInv
<1>. QED
  BY <1>1, <1>14, <1>15

(* The outputs of a compaction take the place of its inputs. *)
LEMMA StoreInstall ==
    ASSUME StoreInv, InstallCompactionResults
    PROVE  StoreInv'
<1>0. VersionTypes /\ RefsInv /\ FileInv /\ CompactionInv /\ FilesPresent
  BY DEF StoreInv
<1>. PICK c : c = compaction
  OBVIOUS
<1>. PICK v : v = [current EXCEPT ![c.level] = @ \ c.in0,
                                  ![c.level + 1] = (@ \ c.in1) \cup c.outputs]
  OBVIOUS
<1>1. /\ compaction # NoCompaction /\ AppendVersion(v, One(compaction.version))
      /\ disk' = RemoveObsoleteFiles(disk, refs', pending') /\ compaction' = NoCompaction
      /\ UNCHANGED <<log, mem, imm, next_file, readers>>
  BY DEF InstallCompactionResults
<1>2. /\ c.level \in UpperLevels /\ IsFiniteSet(c.outputs)
      /\ \A x \in c.outputs : IsFile(x) /\ \A f \in CurrentFiles : f.num # x.num
      /\ \A f, g \in c.outputs : f.num = g.num => f = g
      /\ Numbers(c.outputs) \subseteq disk
  BY <1>0, <1>1 DEF CompactionInv, FilesPresent
<1>3. /\ log \in Seq(Ops) /\ mem \subseteq 1..Len(log) /\ imm \subseteq 1..Len(log)
      /\ next_file \in Nat \ {0}
  BY <1>0 DEF FileInv
<1>4. DOMAIN v = Levels
  BY <1>0 DEF VersionTypes
<1>5. ASSUME NEW l \in Levels
      PROVE  IsFiniteSet(v[l]) /\ v[l] \subseteq CurrentFiles \cup c.outputs
  <2>1. IsFiniteSet(current[l]) /\ current[l] \subseteq CurrentFiles
    BY <1>0, LevelFiles
  <2>2. IsFiniteSet(current[l] \ c.in0) /\ IsFiniteSet(current[l] \ c.in1)
    BY <2>1, FS_Subset
  <2>3. IsFiniteSet((current[l] \ c.in1) \cup c.outputs)
    BY <2>2, <1>2, FS_Union
  <2>4. \/ v[l] = current[l] \/ v[l] = current[l] \ c.in0
        \/ v[l] = (current[l] \ c.in1) \cup c.outputs
    <3>1. c.level \in Levels /\ c.level + 1 \in Levels /\ c.level + 1 # c.level
      BY <1>2, LevelFacts
    <3>. QED BY <3>1, <1>0 DEF VersionTypes
  <2>. QED BY <2>1, <2>2, <2>3, <2>4
<1>6. current' = v /\ seek' = NoSeek
  BY <1>1 DEF AppendVersion
<1>7. VersionTypes'
  BY <1>0, <1>1, <1>4, <1>6 DEF VersionTypes
<1>8. RefsInv'
  BY <1>0, <1>1, <1>4, RefsInstall
<1>9. FileInv'
  <2>1. ASSUME NEW x \in c.outputs PROVE IsFile(x)'
    BY <1>1, <1>2 DEF IsFile
  <2>2. NewFiles(c.outputs)
    BY <2>1, <1>2 DEF NewFiles
  <2>3. MadeOf(v, c.outputs)
    BY <1>4, <1>5 DEF MadeOf
  <2>4. /\ log' = log /\ mem' \subseteq 1..Len(log) /\ imm' \subseteq 1..Len(log)
        /\ next_file' \in Nat \ {0} /\ next_file <= next_file'
    BY <1>1, <1>3
  <2>. QED BY <2>2, <2>3, <2>4, <1>0, <1>6, FilesOfNewVersion
<1>10. CompactionInv'
  BY <1>1 DEF CompactionInv
<1>11. FilesPresent'
  <2>1. RefsExact'
    BY <1>7, <1>8, RefsInvImplies, PTL
  <2>2. ASSUME NEW w \in Versions', NEW l \in Levels
        PROVE  Numbers(w[l]) \subseteq disk
    <3>1. w \in Versions \/ w = v
      BY <1>1, <1>6, VersionsAfterAppend
    <3>2. ASSUME NEW f \in v[l] PROVE f.num \in disk
      <4>1. f \in CurrentFiles \/ f \in c.outputs
        BY <1>5
      <4>. QED BY <4>1, <1>0, <1>2, CurrentPresent DEF Numbers
    <3>. QED BY <3>1, <3>2, <1>0 DEF FilesPresent, Numbers
  <2>3. \A w \in Versions', l \in Levels : Numbers(w[l]) \subseteq disk'
    <3>. PICK p : p = pending'
      OBVIOUS
    <3>. QED BY <2>1, <2>2, <1>1, LiveFilesKept
  <2>. QED BY <2>3, <1>1 DEF FilesPresent
<1>. QED
  BY <1>7, <1>8, <1>9, <1>10, <1>11 DEF StoreInv

(* A compaction that fails gives up its version and its outputs. *)
LEMMA StoreFail ==
    ASSUME StoreInv, CompactionFails
    PROVE  StoreInv'
<1>0. VersionTypes /\ RefsInv /\ FileInv /\ CompactionInv /\ FilesPresent
  BY DEF StoreInv
<1>1. /\ compaction # NoCompaction /\ compaction' = NoCompaction
      /\ refs' = Unref(refs, compaction.version)
      /\ UNCHANGED <<log, mem, imm, current, next_file, disk, seek, readers>>
  BY DEF CompactionFails
<1>2. VersionTypes'
  BY <1>0, <1>1 DEF VersionTypes
<1>3. RefsInv'
  BY <1>0, <1>1, RefsFail
<1>4. FileInv'
  <2>1. CurrentFiles' = CurrentFiles
    BY <1>1 DEF CurrentFiles
  <2>2. \A f : IsFile(f)' <=> IsFile(f)
    BY <1>1 DEF IsFile
  <2>. QED BY <2>1, <2>2, <1>0, <1>1 DEF FileInv
<1>5. CompactionInv'
  BY <1>1 DEF CompactionInv
<1>6. FilesPresent'
  <2>1. Versions' \subseteq Versions
    BY <1>1 DEF Versions
  <2>. QED BY <2>1, <1>0, <1>1 DEF FilesPresent
<1>. QED
  BY <1>2, <1>3, <1>4, <1>5, <1>6 DEF StoreInv

-----------------------------------------------------------------------------
(***************************************************************************)
(* The levels of a manual compaction                                       *)
(***************************************************************************)

ManualRecord(r) ==
    r # NoManual =>
        /\ {"level", "max"} \subseteq DOMAIN r
        /\ r.level \in -1..(NumLevels - 2) /\ r.max \in 1..(NumLevels - 1)
ManualLevels == \A c \in Callers : ManualRecord(manual[c])

(* CompactRange finds a level below the first, and one that exists. *)
LEMMA MaxLevelExists ==
    ASSUME NEW range, NEW unless \in 1..(NumLevels - 1)
    PROVE  MaxLevelWithFiles(range, unless) \in 1..(NumLevels - 1)
<1>. DEFINE levels == {l \in 1..(NumLevels - 1) : IsOverlapInLevel(current, l, range.lo, range.hi)}
<1>0. NumLevels - 1 \in Nat
  BY LevelFacts
<1>1. levels \subseteq 1..(NumLevels - 1) /\ levels \subseteq 0..(NumLevels - 1)
  BY <1>0
<1>2. MaxLevelWithFiles(range, unless) = IF levels = {} THEN unless ELSE Max(levels)
  BY DEF MaxLevelWithFiles
<1>. HIDE DEF levels
<1>3. CASE levels # {}
  <2>1. PICK m \in levels : \A y \in levels : y <= m
    BY <1>0, <1>1, <1>3, Greatest
  <2>2. \A y \in levels : m >= y
    BY <2>1, <1>0, <1>1
  <2>3. Max(levels) \in levels
    BY <2>2, Zenon DEF Max
  <2>. QED BY <2>3, <1>1, <1>2, <1>3
<1>. QED
  BY <1>2, <1>3

(* The record of one caller changes. *)
LEMMA ManualLevelsOwn ==
    ASSUME ManualInv, ManualLevels, NEW c, NEW r, ManualRecord(r),
           manual' = [manual EXCEPT ![c] = r]
    PROVE  ManualLevels'
<1>1. ASSUME NEW d \in Callers PROVE ManualRecord(manual'[d])
  BY DEF ManualInv, ManualLevels
<1>. QED
  BY <1>1 DEF ManualLevels

(* done, begin and written say nothing of the level. *)
LEMMA ManualRecordOther ==
    ASSUME NEW r, ManualRecord(r), r # NoManual, NEW x, NEW y
    PROVE  /\ ManualRecord([r EXCEPT !.written = x])
           /\ ManualRecord([r EXCEPT !.done = x])
           /\ ManualRecord([[r EXCEPT !.done = x] EXCEPT !.begin = y])
BY DEF ManualRecord

LEMMA ManualLevelsOther ==
    ASSUME ManualLevels, UNCHANGED manual
    PROVE  ManualLevels'
BY DEF ManualLevels

(* TEST_CompactRange goes to the next level, or CompactRange returns. *)
LEMMA ManualLevelsEnter ==
    ASSUME ManualInv, ManualLevels, NEW c, NEW level \in Nat, NEW max \in 1..(NumLevels - 1),
           EnterLevel(c, level, max)
    PROVE  ManualLevels'
<1>0. NumLevels \in Nat
  BY LevelFacts
<1>. DEFINE entered == [level |-> level, range |-> manual[c].range, max |-> max,
                        begin |-> manual[c].range.lo, done |-> FALSE,
                        goal |-> {f \in current[level] :
                                     Overlaps(f, manual[c].range.lo, manual[c].range.hi)}]
<1>. PICK r : r = IF level >= max THEN NoManual ELSE entered
  OBVIOUS
<1>1. manual' = [manual EXCEPT ![c] = r]
  BY DEF EnterLevel
<1>2. level < max => ManualRecord(entered)
  BY <1>0 DEF ManualRecord
<1>. HIDE DEF entered
<1>3. ManualRecord(r)
  BY <1>0, <1>2 DEF ManualRecord
<1>. QED
  BY <1>1, <1>3, ManualLevelsOwn

(* A step of a caller of CompactRange. *)
LEMMA ManualLevelsCaller ==
    ASSUME ManualInv, ManualLevels, NEW c \in Callers,
           RangeCaller(c) \/ \E range \in Ranges : CompactRange(c, range)
    PROVE  ManualLevels'
<1>0. ManualRecord(manual[c]) /\ NumLevels \in Nat /\ NumLevels > 1
  BY LevelFacts DEF ManualLevels
<1>1. CASE \E range \in Ranges : CompactRange(c, range)
  <2>1. PICK range \in Ranges : CompactRange(c, range)
    BY <1>1
  <2>. PICK max : max = MaxLevelWithFiles(range, 1)
    OBVIOUS
  <2>. PICK r : r = [level |-> -1, range |-> range, written |-> FALSE, max |-> max]
    OBVIOUS
  <2>2. 1 \in 1..(NumLevels - 1)
    BY <1>0
  <2>3. max \in 1..(NumLevels - 1)
    BY <2>2, MaxLevelExists
  <2>4. ManualRecord(r)
    BY <2>3, <1>0 DEF ManualRecord
  <2>5. manual' = [manual EXCEPT ![c] = r]
    BY <2>1 DEF CompactRange
  <2>. QED BY <2>4, <2>5, ManualLevelsOwn
<1>2. CASE NullWrite(c)
  <2>1. /\ manual[c].level = -1
        /\ manual' = [manual EXCEPT ![c] = [manual[c] EXCEPT !.written = TRUE]]
    BY <1>2 DEF NullWrite, ManualInv
  <2>. PICK r : r = [manual[c] EXCEPT !.written = TRUE]
    OBVIOUS
  <2>2. ManualRecord(r)
    <3>1. manual[c] # NoManual
      BY <2>1 DEF NoManual
    <3>. QED BY <3>1, <1>0, ManualRecordOther
  <2>. QED BY <2>1, <2>2, ManualLevelsOwn
<1>3. CASE MemTableCompacted(c)
  <2>. PICK max : max = MaxLevelWithFiles(manual[c].range, manual[c].max)
    OBVIOUS
  <2>1. manual[c].level = -1 /\ EnterLevel(c, 0, max)
    BY <1>3 DEF MemTableCompacted
  <2>2. manual[c].max \in 1..(NumLevels - 1)
    BY <2>1, <1>0 DEF ManualRecord, NoManual
  <2>3. max \in 1..(NumLevels - 1)
    BY <2>2, MaxLevelExists
  <2>. QED BY <2>1, <2>3, ManualLevelsEnter
<1>4. CASE PostManual(c)
  BY <1>4, ManualLevelsOther DEF PostManual
<1>5. CASE ReturnManual(c)
  <2>1. manual[c].level >= 0 /\ EnterLevel(c, manual[c].level + 1, manual[c].max)
    BY <1>5 DEF ReturnManual
  <2>2. manual[c] # NoManual
    BY <2>1 DEF NoManual
  <2>3. manual[c].level \in -1..(NumLevels - 2) /\ manual[c].max \in 1..(NumLevels - 1)
    BY <2>2, <1>0 DEF ManualRecord
  <2>4. manual[c].level + 1 \in Nat
    BY <2>1, <2>3
  <2>. QED BY <2>1, <2>3, <2>4, ManualLevelsEnter
<1>. QED
  BY <1>1, <1>2, <1>3, <1>4, <1>5 DEF RangeCaller

(* The end of a compaction. *)
LEMMA ManualLevelsEnd ==
    ASSUME ManualInv, ManualLevels, compaction # NoCompaction, NEW ok \in BOOLEAN, EndManual(ok)
    PROVE  ManualLevels'
<1>1. CASE compaction.m = NoCaller
  BY <1>1, ManualLevelsOther DEF EndManual, manualVars
<1>2. CASE compaction.m # NoCaller
  <2>. PICK m : m = manual_compaction_
    OBVIOUS
  <2>1. m \in Callers /\ manual[m].level >= 0
    BY <1>2 DEF ManualInv, ManualAlive
  <2>2. PICK d, b : manual' = [[manual EXCEPT
                 ![manual_compaction_] = [manual[manual_compaction_] EXCEPT !.done = d]] EXCEPT
                 ![manual_compaction_] = [@ EXCEPT !.begin = b]]
    BY <1>2, <2>1 DEF EndManual, ManualInv
  <2>. PICK r : r = [[manual[m] EXCEPT !.done = d] EXCEPT !.begin = b]
    OBVIOUS
  <2>3. manual' = [manual EXCEPT ![m] = r]
    BY <2>1, <2>2 DEF ManualInv
  <2>4. manual[m] # NoManual /\ ManualRecord(manual[m])
    BY <2>1 DEF NoManual, ManualLevels
  <2>5. ManualRecord(r)
    BY <2>4, ManualRecordOther
  <2>. QED BY <2>3, <2>5, ManualLevelsOwn
<1>. QED
  BY <1>1, <1>2

(* The background thread finds the range done. *)
LEMMA ManualLevelsDone ==
    ASSUME ManualInv, ManualLevels, ManualDone
    PROVE  ManualLevels'
<1>. PICK m : m = manual_compaction_
  OBVIOUS
<1>. PICK r : r = [manual[m] EXCEPT !.done = TRUE]
  OBVIOUS
<1>1. m \in Callers /\ manual[m].level >= 0
  BY DEF ManualDone, ManualInv, ManualAlive
<1>2. manual' = [manual EXCEPT ![m] = r]
  BY DEF ManualDone
<1>3. manual[m] # NoManual /\ ManualRecord(manual[m])
  BY <1>1 DEF NoManual, ManualLevels
<1>4. ManualRecord(r)
  BY <1>3, ManualRecordOther
<1>. QED
  BY <1>2, <1>4, ManualLevelsOwn

(* A manual compaction takes its inputs from its level and the next one. *)
LEMMA StoreStartManual ==
    ASSUME StoreInv, ManualInv, ManualLevels, StartManual
    PROVE  StoreInv'
<1>. PICK m : m = manual_compaction_
  OBVIOUS
<1>. PICK level : level = manual[m].level
  OBVIOUS
<1>. PICK inputs : inputs = RangeInputs(level, manual[m].begin, manual[m].range.hi)
  OBVIOUS
<1>. PICK c : c = SetupOtherInputs(current, level, inputs)
  OBVIOUS
<1>1. m # NoCaller /\ compaction = NoCompaction /\ StartCompactionOf(c, m)
  BY DEF StartManual, Idle
<1>2. m \in Callers /\ level >= 0
  BY <1>1 DEF ManualInv, ManualAlive
<1>3. level \in UpperLevels
  <2>1. manual[m] # NoManual /\ ManualRecord(manual[m]) /\ NumLevels \in Nat
    BY <1>2, LevelFacts DEF NoManual, ManualLevels
  <2>2. level \in -1..(NumLevels - 2)
    BY <2>1 DEF ManualRecord
  <2>. QED BY <2>1, <2>2, <1>2 DEF UpperLevels
<1>4. inputs \in SUBSET current[level]
  <2>1. inputs \subseteq GetOverlapSSTs(current, level, manual[m].begin, manual[m].range.hi)
    BY Zenon DEF RangeInputs
  <2>. QED BY <2>1, OverlapFromLevel
<1>5. FileInv
  BY DEF StoreInv
<1>6. /\ c.level = level /\ c.version = current
      /\ c.in0 \subseteq current[level] /\ c.in1 \subseteq current[level + 1]
  BY <1>3, <1>4, <1>5, InputsFromLevels
<1>. QED
  BY <1>1, <1>3, <1>6, StoreStart

-----------------------------------------------------------------------------
(***************************************************************************)
(* The whole store                                                         *)
(***************************************************************************)

(* Steps that leave files and versions alone, and do not write. *)
LEMMA StoreSame ==
    ASSUME StoreInv, UNCHANGED <<log, fileVars, readers, compaction>>,
           mem' \in {mem, {}}, imm' \in {imm, mem}
    PROVE  StoreInv'
<1>1. /\ log \in Seq(Ops) /\ mem \subseteq 1..Len(log) /\ imm \subseteq 1..Len(log)
      /\ next_file \in Nat /\ Len(log) \in Nat
  BY DEF StoreInv, FileInv
<1>2. UNCHANGED <<current, refs, next_file, disk, pending, seek, readers, compaction, log>>
  BY DEF fileVars
<1>3. /\ next_file' \in Nat /\ next_file <= next_file' /\ disk \subseteq disk'
      /\ log' \in Seq(Ops) /\ Len(log) <= Len(log')
      /\ mem' \subseteq 1..Len(log') /\ imm' \subseteq 1..Len(log')
  <2>1. next_file' \in Nat /\ next_file <= next_file' /\ disk \subseteq disk'
    BY <1>1, <1>2
  <2>2. log' \in Seq(Ops) /\ Len(log) <= Len(log')
    BY <1>1, <1>2
  <2>3. mem' \subseteq 1..Len(log) /\ imm' \subseteq 1..Len(log) /\ log' = log
    BY <1>1, <1>2
  <2>. QED BY <2>1, <2>2, <2>3
<1>. QED
  BY <1>2, <1>3, StoreQuiet

LEMMA StoreWrite ==
    ASSUME StoreInv, NEW op \in Ops, Write(op)
    PROVE  StoreInv'
<1>1. /\ log \in Seq(Ops) /\ mem \subseteq 1..Len(log) /\ imm \subseteq 1..Len(log)
      /\ next_file \in Nat /\ Len(log) \in Nat
  BY DEF StoreInv, FileInv
<1>2. /\ log' = Append(log, op) /\ mem' = mem \cup {Len(log) + 1}
      /\ UNCHANGED <<imm, current, refs, next_file, disk, pending, seek, readers, compaction>>
  BY DEF Write, fileVars
<1>3. log' \in Seq(Ops) /\ Len(log') = Len(log) + 1
  BY <1>1, <1>2
<1>4. 1..Len(log) \subseteq 1..Len(log') /\ Len(log) + 1 \in 1..Len(log')
  BY <1>1, <1>3
<1>5. /\ next_file' \in Nat /\ next_file <= next_file' /\ disk \subseteq disk'
      /\ Len(log) <= Len(log') /\ mem' \subseteq 1..Len(log') /\ imm' \subseteq 1..Len(log')
  <2>1. next_file' \in Nat /\ next_file <= next_file' /\ disk \subseteq disk'
    BY <1>1, <1>2
  <2>2. Len(log) <= Len(log')
    BY <1>1, <1>3
  <2>3. mem' \subseteq 1..Len(log') /\ imm' \subseteq 1..Len(log')
    BY <1>1, <1>2, <1>4
  <2>. QED BY <2>1, <2>2, <2>3
<1>. QED
  BY <1>2, <1>3, <1>5, StoreQuiet

(* A step of a client. *)
LEMMA StoreClient == StoreInv /\ Client => StoreInv'
<1>. SUFFICES ASSUME StoreInv, Client PROVE StoreInv'
  OBVIOUS
<1>1. CASE \E op \in Ops : Write(op)
  BY <1>1, StoreWrite
<1>2. CASE SwitchMemTable
  BY <1>2, StoreSame DEF SwitchMemTable
<1>3. CASE GetSnapshot \/ \E i \in DOMAIN snapshots : ReleaseSnapshot(i)
  BY <1>3, StoreSame DEF GetSnapshot, ReleaseSnapshot
<1>4. CASE \E r \in Readers : NewIterator(r) \/ DeleteIterator(r)
  BY <1>4, StoreIterators
<1>5. CASE \E key \in Keys, seq \in SeqsToRead : UpdateStats(key, seq)
  BY <1>5, StoreUpdateStats
<1>6. CASE \E c \in Callers : RangeCaller(c) \/ \E range \in Ranges : CompactRange(c, range)
  <2>1. PICK c \in Callers : RangeCaller(c) \/ \E range \in Ranges : CompactRange(c, range)
    BY <1>6
  <2>2. CASE NullWrite(c)
    BY <2>2, StoreSame DEF NullWrite
  <2>3. CASE MemTableCompacted(c)
    BY <2>3, StoreSame DEF MemTableCompacted
  <2>4. CASE PostManual(c)
    BY <2>4, StoreSame DEF PostManual
  <2>5. CASE ReturnManual(c)
    BY <2>5, StoreSame DEF ReturnManual
  <2>6. CASE \E range \in Ranges : CompactRange(c, range)
    BY <2>6, StoreSame DEF CompactRange
  <2>. QED BY <2>1, <2>2, <2>3, <2>4, <2>5, <2>6 DEF RangeCaller
<1>. QED
  BY <1>1, <1>2, <1>3, <1>4, <1>5, <1>6 DEF Client

(* A step of the background thread. *)
LEMMA StoreBackground ==
    ASSUME StoreInv, ManualInv, ManualLevels, Background
    PROVE  StoreInv'
<1>1. CASE CompactMemTable
  BY <1>1, StoreFlush
<1>2. CASE CompactMemTableFails
  <2>1. /\ next_file' = next_file + 1 /\ disk \subseteq disk'
        /\ UNCHANGED <<log, mem, imm, current, refs, pending, seek, readers, compaction>>
    BY <1>2 DEF CompactMemTableFails
  <2>2. /\ log \in Seq(Ops) /\ mem \subseteq 1..Len(log) /\ imm \subseteq 1..Len(log)
        /\ next_file \in Nat /\ Len(log) \in Nat
    BY DEF StoreInv, FileInv
  <2>3. /\ next_file' \in Nat /\ next_file <= next_file' /\ log' \in Seq(Ops)
        /\ Len(log) <= Len(log') /\ mem' \subseteq 1..Len(log') /\ imm' \subseteq 1..Len(log')
    BY <2>1, <2>2
  <2>. QED BY <2>1, <2>3, StoreQuiet
<1>3. CASE MoveSST
  BY <1>3, StoreMove
<1>4. CASE StartCompaction
  <2>. PICK c : c = PickCompaction
    OBVIOUS
  <2>1. IsNeedCompaction /\ compaction = NoCompaction /\ StartCompactionOf(c, NoCaller)
    BY <1>4 DEF StartCompaction, Idle
  <2>2. /\ c.level \in UpperLevels /\ c.version = current
        /\ c.in0 \subseteq current[c.level] /\ c.in1 \subseteq current[c.level + 1]
    BY <2>1, PickedFromLevels DEF StoreInv
  <2>. QED BY <2>1, <2>2, StoreStart
<1>5. CASE StartManual
  BY <1>5, StoreStartManual
<1>6. CASE ManualDone
  BY <1>6, StoreSame DEF ManualDone
<1>7. CASE \E finish \in BOOLEAN : CompactEntry(finish)
  BY <1>7, StoreEntry
<1>8. CASE InstallCompactionResults
  BY <1>8, StoreInstall
<1>9. CASE CompactionFails
  BY <1>9, StoreFail
<1>. QED
  BY <1>1, <1>2, <1>3, <1>4, <1>5, <1>6, <1>7, <1>8, <1>9 DEF Background

(* Only callers and the end of their compactions change manual. *)
LEMMA ManualLevelsNext ==
    ASSUME ManualInv, ManualLevels, Next
    PROVE  ManualLevels'
<1>1. CASE UNCHANGED manual
  BY <1>1, ManualLevelsOther
<1>2. CASE \E c \in Callers : RangeCaller(c) \/ \E range \in Ranges : CompactRange(c, range)
  BY <1>2, ManualLevelsCaller
<1>3. CASE ManualDone
  BY <1>3, ManualLevelsDone
<1>4. CASE InstallCompactionResults
  BY <1>4, ManualLevelsEnd DEF InstallCompactionResults
<1>5. CASE CompactionFails
  BY <1>5, ManualLevelsEnd DEF CompactionFails
<1>6. CASE Client
  BY <1>1, <1>2, <1>6 DEF Client, Write, SwitchMemTable, GetSnapshot, ReleaseSnapshot,
     NewIterator, DeleteIterator, UpdateStats, manualVars
<1>7. CASE Background
  BY <1>1, <1>3, <1>4, <1>5, <1>7 DEF Background, CompactMemTable, CompactMemTableFails, MoveSST,
     StartCompaction, StartManual, StartCompactionOf, CompactEntry, manualVars
<1>. QED
  BY <1>6, <1>7 DEF Next

(* The inductive invariant of the store. *)
LSMInv == ManualInv /\ ManualLevels /\ StoreInv

LEMMA LSMInvariant == Spec => []LSMInv
<1>1. Init => LSMInv
  <2>. SUFFICES ASSUME Init PROVE LSMInv
    OBVIOUS
  <2>1. ManualLevels
    BY DEF Init, ManualLevels, ManualRecord
  <2>. QED BY <2>1, ManualInit, StoreInit DEF LSMInv
<1>2. LSMInv /\ [Next]_vars => LSMInv'
  <2>. SUFFICES ASSUME LSMInv, [Next]_vars PROVE LSMInv'
    OBVIOUS
  <2>1. ManualInv /\ ManualLevels /\ StoreInv
    BY DEF LSMInv
  <2>2. CASE Next
    <3>1. ManualInv'
      BY <2>1, <2>2, ManualClient, ManualBackground DEF Next
    <3>2. ManualLevels'
      BY <2>1, <2>2, ManualLevelsNext
    <3>3. StoreInv'
      BY <2>1, <2>2, StoreClient, StoreBackground DEF Next
    <3>. QED BY <3>1, <3>2, <3>3 DEF LSMInv
  <2>3. CASE UNCHANGED vars
    <3>1. ManualInv'
      BY <2>1, <2>3, ManualQuiet DEF vars, manualVars
    <3>2. ManualLevels'
      BY <2>1, <2>3, ManualLevelsOther DEF vars, manualVars
    <3>3. StoreInv'
      BY <2>1, <2>3, StoreSame DEF vars
    <3>. QED BY <3>1, <3>2, <3>3 DEF LSMInv
  <2>. QED BY <2>2, <2>3
<1>. QED
  BY <1>1, <1>2, PTL DEF Spec

(* Version::Ref and Unref are balanced: a version exists as long as         *)
(* current_, an iterator or the compaction under way uses it, and no        *)
(* longer, for any readers and whatever fails.                              *)
THEOREM VersionsLiveExactly == Spec => []RefsExact
<1>1. LSMInv => RefsExact
  BY RefsInvImplies DEF LSMInv, StoreInv
<1>. QED
  BY <1>1, LSMInvariant, PTL

(* RemoveObsoleteFiles never deletes a file that a version in use names or  *)
(* that the compaction under way writes, for any number of levels, readers  *)
(* and callers, any sizes and limits, and whatever fails.                   *)
THEOREM FilesStayPresent == Spec => []FilesPresent
<1>1. LSMInv => FilesPresent
  BY DEF LSMInv, StoreInv
<1>. QED
  BY <1>1, LSMInvariant, PTL
=============================================================================
