------------------------ MODULE SequenceNumberProofs ------------------------
(***************************************************************************)
(* More proofs about Recovery: the next sequence number is above that of    *)
(* every entry, whatever parts of the WAL files and the MANIFEST are left.  *)
(***************************************************************************)
EXTENDS CrashProofs

-----------------------------------------------------------------------------
(***************************************************************************)
(* Steps of the disk, by the contents of its files                          *)
(***************************************************************************)

(* Only the files in but have other contents than before, or none.         *)
SameData(dk, new, but) ==
    \A f \in DOMAIN new.data :
        f \in but \/ new.data[f] = <<>> \/ (f \in DOMAIN dk.data /\ new.data[f] = dk.data[f])

LEMMA SameDataRefl ==
    ASSUME NEW dk, NEW new, new.data = dk.data
    PROVE  SameData(dk, new, {})
BY DEF SameData

LEMMA SameDataMore ==
    ASSUME NEW dk, NEW new, NEW b, NEW c, SameData(dk, new, b), b \subseteq c
    PROVE  SameData(dk, new, c)
BY DEF SameData

LEMMA SameDataTwice ==
    ASSUME NEW dk, NEW new, NEW newer, NEW b, NEW c, SameData(dk, new, b), SameData(new, newer, c)
    PROVE  SameData(dk, newer, b \cup c)
<1>. SUFFICES ASSUME NEW f \in DOMAIN newer.data
     PROVE  \/ f \in b \cup c \/ newer.data[f] = <<>>
            \/ (f \in DOMAIN dk.data /\ newer.data[f] = dk.data[f])
  BY DEF SameData
<1>1. CASE f \in c
  BY <1>1
<1>2. CASE f \notin c
  <2>1. newer.data[f] = <<>> \/ (f \in DOMAIN new.data /\ newer.data[f] = new.data[f])
    BY <1>2 DEF SameData
  <2>2. f \in DOMAIN new.data => f \in b \/ new.data[f] = <<>> \/ (f \in DOMAIN dk.data /\ new.data[f] = dk.data[f])
    BY DEF SameData
  <2>. QED BY <2>1, <2>2
<1>. QED BY <1>1, <1>2

LEMMA SameDataOn ==
    ASSUME NEW dk, NEW new, NEW newer, NEW b, SameData(dk, new, b), SameData(new, newer, {})
    PROVE  SameData(dk, newer, b)
<1>1. SameData(dk, newer, b \cup {})
  BY SameDataTwice
<1>2. b \cup {} = b
  OBVIOUS
<1>. QED BY <1>1, <1>2

LEMMA TidyData ==
    ASSUME NEW dk, Base(dk)
    PROVE  SameData(dk, Tidy(dk), {})
<1>. DEFINE left == UNION {dk.dir[i].files : i \in DOMAIN dk.dir}
<1>. PICK new : new = Tidy(dk)
  OBVIOUS
<1>1. DOMAIN new.data = left /\ \A f \in left : new.data[f] = dk.data[f]
  BY DEF Tidy
<1>2. left \subseteq DOMAIN dk.data
  <2>1. \A d \in States(dk) : d.files \subseteq DOMAIN dk.data
    BY StatesOK DEF Base
  <2>2. left = UNION {d.files : d \in States(dk)}
    BY DEF States
  <2>. QED BY <2>1, <2>2
<1>. HIDE DEF left
<1>. QED BY <1>1, <1>2 DEF SameData

LEMMA ChangeDirData ==
    ASSUME NEW dk, Base(dk), NEW dir
    PROVE  SameData(dk, ChangeDir(dk, dir), {})
<1>1. ChangeDir(dk, dir).data = dk.data
  BY DEF ChangeDir, Base, DiskOK
<1>. QED BY <1>1, SameDataRefl

LEMMA SyncFdData ==
    ASSUME NEW dk, Base(dk), NEW f
    PROVE  /\ SameData(dk, SyncFd(dk, f), {})
           /\ \A g \in Dir(dk).files : SyncFd(dk, f).data[g] = dk.data[g]
<1>. PICK one : one = [dk EXCEPT !.synced[f] = Len(dk.data[f]), !.dir = <<Last(@)>>]
  OBVIOUS
<1>1. /\ DOMAIN one = {"dir", "data", "synced"} /\ one.data = dk.data /\ one.dir = <<Last(dk.dir)>>
      /\ DOMAIN one.synced = DOMAIN dk.synced
  BY DEF DiskOK, Base
<1>2. DiskOK(one)
  BY <1>1, LastDir DEF Base, Calm
<1>3. Base(one)
  BY <1>1, <1>2 DEF Base
<1>4. SameData(one, Tidy(one), {})
  BY <1>3, TidyData
<1>5. SameData(dk, one, {})
  BY <1>1, SameDataRefl
<1>6. Dir(dk) \in States(one)
  BY <1>1 DEF Dir, States, Last
<1>7. \A g \in Dir(dk).files : Tidy(one).data[g] = one.data[g]
  BY <1>3, <1>6, TidyEvolves
<1>8. SyncFd(dk, f) = Tidy(one)
  BY DEF SyncFd
<1>. QED BY <1>1, <1>4, <1>5, <1>7, <1>8, SameDataOn

LEMMA RemoveFileData ==
    ASSUME NEW dk, Base(dk), NEW f
    PROVE  SameData(dk, RemoveFile(dk, f), {})
<1>. PICK dir : dir = [Dir(dk) EXCEPT !.files = @ \ {f}]
  OBVIOUS
<1>1. dir \in Dirs /\ dir.files \subseteq DOMAIN dk.data /\ dir.cur = Dir(dk).cur
  BY DirOK DEF Dirs, Base
<1>. PICK new : new = ChangeDir(dk, dir)
  OBVIOUS
<1>2. Dir(dk).files \ {f} \subseteq dir.files
  BY DirOK DEF Base, Dirs
<1>3. Base(new)
  BY <1>1, <1>2, ChangeDirEvolves DEF Evolves
<1>4. SameData(dk, new, {}) /\ SameData(new, Tidy(new), {})
  BY <1>3, ChangeDirData, TidyData
<1>5. RemoveFile(dk, f) = Tidy(new)
  BY DEF RemoveFile
<1>. QED BY <1>4, <1>5, SameDataOn

LEMMA NewFileData ==
    ASSUME NEW dk, Base(dk), NEW f
    PROVE  SameData(dk, NewWritableFile(dk, f), {})
<1>. PICK cut : cut = [dk EXCEPT !.data = [g \in DOMAIN @ \cup {f} |-> IF g = f THEN <<>> ELSE @[g]],
                          !.synced = [g \in DOMAIN @ \cup {f} |-> IF g = f THEN 0 ELSE @[g]]]
  OBVIOUS
<1>1. /\ DOMAIN cut = {"dir", "data", "synced"} /\ cut.dir = dk.dir
      /\ cut.data = [g \in DOMAIN dk.data \cup {f} |-> IF g = f THEN <<>> ELSE dk.data[g]]
  BY Zenon DEF DiskOK, Base
<1>2. SameData(dk, cut, {})
  BY <1>1 DEF SameData
<1>3. Dir(cut) = Dir(dk)
  BY <1>1 DEF Dir
<1>. PICK new : new = NewWritableFile(dk, f)
  OBVIOUS
<1>4. new = ChangeDir(cut, [Dir(dk) EXCEPT !.files = @ \cup {f}])
  BY Zenon DEF NewWritableFile
<1>5. new.data = cut.data
  BY <1>1, <1>4 DEF ChangeDir
<1>. QED BY <1>2, <1>5 DEF SameData

WithData(dk, f, e) == [dk EXCEPT !.data[f] = e]

LEMMA SetDataData ==
    ASSUME NEW dk, Base(dk), NEW f, NEW e, NEW new, new = WithData(dk, f, e)
    PROVE  /\ SameData(dk, new, {f}) /\ DOMAIN new.data = DOMAIN dk.data
           /\ f \in DOMAIN dk.data => new.data[f] = e
BY DEF SameData, Base, DiskOK, WithData

LEMMA AddRecordData ==
    ASSUME NEW dk, Base(dk), NEW f, NEW rec
    PROVE  LET new == AddRecord(dk, f, rec)
           IN  /\ SameData(dk, new, {f}) /\ DOMAIN new.data = DOMAIN dk.data
               /\ f \in DOMAIN dk.data => new.data[f] = Append(dk.data[f], rec)
<1>. PICK e : e = Append(dk.data[f], rec)
  OBVIOUS
<1>3. PICK new : new = WithData(dk, f, e)
  OBVIOUS
<1>1. AddRecord(dk, f, rec) = new
  BY <1>3 DEF AddRecord, WithData
<1>2. /\ SameData(dk, new, {f}) /\ DOMAIN new.data = DOMAIN dk.data
      /\ f \in DOMAIN dk.data => new.data[f] = e
  BY ONLY <1>3, Base(dk), SetDataData
<1>. QED BY <1>1, <1>2

LEMMA WriteStringData ==
    ASSUME NEW dk, Base(dk), NEW n \in Nat
    PROVE  SameData(dk, WriteStringToFileSync(dk, n), {Temp(n)})
<1>1. Temp(n) \in Files /\ Temp(n)[1] = "dbtmp" /\ \A k \in Nat : Temp(n) # Manifest(k)
  BY FileNames
<1>. PICK one : one = NewWritableFile(dk, Temp(n))
  OBVIOUS
<1>. PICK none : none = {}
  OBVIOUS
<1>2. Base(one) /\ SameData(dk, one, {})
  BY <1>1, NewFileEvolves, NewFileData DEF Evolves
<1>. PICK two : two = AddRecord(one, Temp(n), n)
  OBVIOUS
<1>3. Base(two) /\ SameData(one, two, {Temp(n)})
  BY <1>1, <1>2, AddDataEvolves, AddRecordData DEF Evolves
<1>4. SameData(two, SyncFd(two, Temp(n)), {})
  BY <1>3, SyncFdData
<1>5. WriteStringToFileSync(dk, n) = SyncFd(two, Temp(n))
  BY Zenon DEF WriteStringToFileSync
<1>6. SameData(dk, two, {Temp(n)})
  <2>1. SameData(dk, two, {} \cup {Temp(n)})
    BY <1>2, <1>3, SameDataTwice
  <2>2. {} \cup {Temp(n)} = {Temp(n)}
    OBVIOUS
  <2>. QED BY <2>1, <2>2
<1>. QED BY <1>4, <1>5, <1>6, SameDataOn

LEMMA BuildSSTData ==
    ASSUME NEW dk, Base(dk), NEW n \in Nat, NEW ents
    PROVE  LET new == BuildSST(dk, n, ents)
           IN  /\ SameData(dk, new, {Sst(n)})
               /\ Sst(n) \in DOMAIN new.data => new.data[Sst(n)] \in {<<>>, SetToSeq(ents)}
<1>. PICK e : e = SetToSeq(ents)
  OBVIOUS
<1>. PICK one : one = WithData(dk, Sst(n), e)
  OBVIOUS
<1>1. Base(one) /\ Dir(one) = Dir(dk)
  BY FileNames, SetDataEvolves DEF Evolves, WithData
<1>2. /\ SameData(dk, one, {Sst(n)}) /\ DOMAIN one.data = DOMAIN dk.data
      /\ Sst(n) \in DOMAIN dk.data => one.data[Sst(n)] = e
  BY SetDataData
<1>. PICK new : new = SyncFd(one, Sst(n))
  OBVIOUS
<1>3. SameData(one, new, {})
  BY <1>1, SyncFdData
<1>4. BuildSST(dk, n, ents) = new
  BY SyncIs DEF BuildSST, WithData
<1>5. SameData(dk, new, {Sst(n)})
  BY <1>2, <1>3, SameDataOn
<1>6. Sst(n) \in DOMAIN new.data => new.data[Sst(n)] \in {<<>>, e}
  BY <1>2, <1>3 DEF SameData
<1>. QED BY <1>4, <1>5, <1>6

DomainsOK(dk) == DOMAIN dk = {"dir", "data", "synced"}

LEMMA RenameData ==
    ASSUME NEW dk, Base(dk), NEW k \in Nat
    PROVE  SameData(dk, RenameToCurrent(dk, k), {})
<1>. PICK dir : dir = [cur |-> k, files |-> Dir(dk).files \ {Temp(k)}]
  OBVIOUS
<1>. PICK new : new = ChangeDir(dk, dir)
  OBVIOUS
<1>1. dir \in Dirs /\ dir.files \subseteq DOMAIN dk.data
  BY DirOK DEF Dirs, Base
<1>2. DiskOK(new)
  BY <1>1, ChangeDirGood DEF Base
<1>5. new.data = dk.data /\ new.synced = dk.synced
  <2>. DomainsOK(dk)
    BY DEF DomainsOK, Base, DiskOK
  <2>. QED BY DEF ChangeDir, DomainsOK
<1>3. Base(new)
  BY <1>2, <1>5 DEF Base
<1>4. RenameToCurrent(dk, k) = Tidy(new)
  BY DEF RenameToCurrent
<1>. QED BY <1>5, <1>3, <1>4, TidyData, SameDataRefl, SameDataOn

LEMMA AbandonData ==
    ASSUME NEW dk, Base(dk)
    PROVE  SameData(dk, Abandon(dk), {}) /\ SameData(dk, NotCurrent(dk), {})
BY RemoveFileData, SameDataRefl DEF Abandon, NotCurrent
-----------------------------------------------------------------------------
(***************************************************************************)
(* Sets and sequences of entries                                           *)
(***************************************************************************)

LEMMA PartOf ==
    ASSUME NEW s, IsSeq(s), NEW m \in Nat, NEW n \in Nat, 1 <= m, n <= Len(s)
    PROVE  IsSeq(SubSeq(s, m, n)) /\ ToSet(SubSeq(s, m, n)) \subseteq ToSet(s)
<1>1. PICK S : s \in Seq(S)
  BY DEF IsSeq
<1>2. CASE m <= n
  <2>1. \A i \in m..n : s[i] \in S
    BY <1>1
  <2>2. /\ SubSeq(s, m, n) \in Seq(S) /\ Len(SubSeq(s, m, n)) = n - m + 1
        /\ \A i \in 1..n - m + 1 : SubSeq(s, m, n)[i] = s[m + i - 1]
    BY <1>2, <2>1, SubSeqProperties
  <2>. PICK part : part = SubSeq(s, m, n)
    OBVIOUS
  <2>3. IsSeq(part)
    BY <2>2 DEF IsSeq
  <2>4. DOMAIN part = 1..n - m + 1 /\ DOMAIN s = 1..Len(s) /\ Len(s) \in Nat
    BY <2>2, <1>1
  <2>5. \A i \in DOMAIN part : part[i] = s[m + i - 1] /\ m + i - 1 \in DOMAIN s
    BY <2>2, <2>4
  <2>6. ToSet(part) \subseteq ToSet(s)
    BY <2>5 DEF ToSet
  <2>. QED BY <2>3, <2>6
<1>3. CASE n < m
  <2>1. SubSeq(s, m, n) = <<>>
    BY <1>3, SubSeqEmpty
  <2>2. IsSeq(<<>>) /\ ToSet(<<>>) = {}
    BY DEF IsSeq, ToSet
  <2>. QED BY <2>1, <2>2
<1>. QED BY <1>2, <1>3

(* A sequence of numbers has a bound. *)
LEMMA BoundedEntries ==
    ASSUME NEW s, IsSeq(s), ToSet(s) \subseteq Nat
    PROVE  \E b \in Nat : \A e \in ToSet(s) : e <= b
<1>1. Len(s) \in Nat /\ DOMAIN s = 1..Len(s)
  BY SeqFacts
<1>2. \A i \in 1..Len(s) : s[i] \in Nat
  BY <1>1 DEF ToSet
<1>. DEFINE Bound(n) == \E b \in Nat : \A i \in 1..n : s[i] <= b
            T == {n \in 0..Len(s) : ~Bound(n)}
<1>3. T = {}
  <2>. SUFFICES ASSUME T # {} PROVE FALSE
    OBVIOUS
  <2>1. T \in SUBSET Nat
    BY <1>1
  <2>2. \A n : n \in T <=> n \in 0..Len(s) /\ ~Bound(n)
    OBVIOUS
  <2>3. Bound(0)
    <3>1. \A i \in 1..0 : s[i] <= 0
      OBVIOUS
    <3>. QED BY <3>1
  <2>4. ASSUME NEW n \in 0..Len(s), n # Len(s), Bound(n)
        PROVE  Bound(n + 1)
    <3>1. PICK b \in Nat : \A i \in 1..n : s[i] <= b
      BY <2>4
    <3>6. n \in Nat /\ n + 1 \in 1..Len(s) /\ \A i \in 1..n : i \in 1..Len(s)
      <4>. PICK l \in Nat : l = Len(s)
        BY <1>1
      <4>2. n \in 0..l /\ n # l
        BY <2>4
      <4>1. n \in Nat /\ n + 1 \in 1..l /\ \A i \in 1..n : i \in 1..l
        BY ONLY <4>2, l \in Nat
      <4>. QED BY <4>1
    <3>2. s[n + 1] \in Nat /\ \A i \in 1..n : s[i] \in Nat
      BY <1>2, <3>6
    <3>. PICK x : x = s[n + 1]
      OBVIOUS
    <3>3. \A i \in 1..n + 1 : i \in 1..n \/ s[i] = x
      <4>1. \A i \in 1..n + 1 : i \in 1..n \/ i = n + 1
        BY <3>6
      <4>. QED BY <4>1
    <3>4. CASE x <= b
      <4>1. \A i \in 1..n + 1 : s[i] <= b
        BY <3>1, <3>3, <3>4
      <4>. QED BY <4>1
    <3>5. CASE b < x
      <4>1. \A i \in 1..n + 1 : s[i] <= x
        <5>1. x \in Nat /\ \A i \in 1..n : s[i] <= x
          BY ONLY <3>1, <3>2, <3>5, x = s[n + 1], b \in Nat
        <5>2. x <= x
          BY ONLY <5>1
        <5>. QED BY ONLY <3>3, <5>1, <5>2
      <4>. QED BY <4>1, <3>2
    <3>7. x \in Nat /\ b \in Nat
      BY <3>2
    <3>8. x <= b \/ b < x
      BY ONLY <3>7
    <3>. HIDE DEF Bound
    <3>. QED BY <3>8, <3>4, <3>5
  <2>. HIDE DEF T, Bound
  <2>5. PICK m \in T : \A y \in T : m <= y
    BY <2>1, LeastNumber
  <2>6. m \in 0..Len(s) /\ ~Bound(m) /\ m # 0
    BY <2>2, <2>3, <2>5
  <2>7. m - 1 \in 0..Len(s) /\ m - 1 # Len(s) /\ m - 1 + 1 = m /\ ~(m <= m - 1)
    BY <2>6, <1>1
  <2>8. Bound(m - 1)
    BY <2>2, <2>5, <2>7
  <2>9. Bound(m - 1 + 1)
    BY <2>4, <2>7, <2>8
  <2>. QED BY <2>6, <2>7, <2>9
<1>4. PICK b \in Nat : \A i \in 1..Len(s) : s[i] <= b
  <2>1. Bound(Len(s))
    <3>. HIDE DEF Bound
    <3>. QED BY <1>1, <1>3
  <2>. QED BY <2>1
<1>5. \A e \in ToSet(s) : e <= b
  BY <1>1, <1>4 DEF ToSet
<1>. QED BY <1>5

LEMMA MaxOf ==
    ASSUME NEW n \in Nat, NEW s, IsSeq(s), ToSet(s) \subseteq Nat
    PROVE  LET m == Max({n} \cup ToSet(s))
           IN  m \in Nat /\ n <= m /\ \A e \in ToSet(s) : e <= m
<1>1. PICK b \in Nat : \A e \in ToSet(s) : e <= b
  BY BoundedEntries
<1>. DEFINE T == {n} \cup ToSet(s)
            c == IF b < n THEN n ELSE b
<1>2. c \in Nat /\ T \in SUBSET (0..c) /\ T # {} /\ n \in T
  BY <1>1
<1>3. \A e \in ToSet(s) : e \in T
  OBVIOUS
<1>. HIDE DEF T, c
<1>. PICK x : x = Max(T)
  OBVIOUS
<1>4. x \in T /\ \A y \in T : y <= x
  BY <1>2, GreatestNumber
<1>5. x \in Nat
  <2>1. x \in 0..c
    BY <1>2, <1>4
  <2>. QED BY <2>1, <1>2
<1>6. x \in Nat /\ n <= x /\ \A e \in ToSet(s) : e <= x
  BY <1>2, <1>3, <1>4, <1>5
<1>. QED BY <1>6 DEF T

LEMMA SetToSeqIs ==
    ASSUME NEW S, IsFiniteSet(S)
    PROVE  IsSeq(SetToSeq(S)) /\ ToSet(SetToSeq(S)) \subseteq S
<1>1. PICK n \in Nat : ExistsBijection(1..n, S)
  BY FS_NatBijection
<1>2. Cardinality(S) = n
  BY <1>1, FS_CountingElements
<1>3. \E f \in [1..n -> S] : IsInjective(f)
  BY <1>1 DEF ExistsBijection, Bijection, Injection, IsInjective
<1>. PICK f : f = SetToSeq(S)
  OBVIOUS
<1>4. f \in [1..n -> S]
  BY <1>2, <1>3 DEF SetToSeq
<1>5. f \in Seq(S)
  BY <1>4
<1>. QED BY <1>4, <1>5 DEF IsSeq, ToSet
-----------------------------------------------------------------------------
(***************************************************************************)
(* Entries and the records of a MANIFEST                                   *)
(***************************************************************************)
SstEnts(dk, n) == IF Sst(n) \in DOMAIN dk.data THEN ToSet(dk.data[Sst(n)]) ELSE {}
ContentsOK(dk) ==
    \A n : /\ Sst(n) \in DOMAIN dk.data => IsSeq(dk.data[Sst(n)])
           /\ Wal(n) \in DOMAIN dk.data =>
                 IsSeq(dk.data[Wal(n)]) /\ ToSet(dk.data[Wal(n)]) \subseteq Nat

(* No SST file but those of the numbers in but has an entry more.          *)
Fewer(dk, new, but) == \A n : n \notin but => SstEnts(new, n) \subseteq SstEnts(dk, n)

(* The entries of the SST files are at most v. *)
Under(dk, files, v) == \A n \in files : \A e \in SstEnts(dk, n) : e \in Nat /\ e <= v

(* A last sequence number in the MANIFEST is not below that of an entry of *)
(* the SST files that were named up to there.                              *)
InOrder(dk, recs) ==
    \A i \in 1..Len(recs) : \A v \in Field(recs[i], "last") :
        v \in Nat /\ \A j \in 1..i : Under(dk, Field(recs[j], "new"), v)

LEMMA FewerUnder ==
    ASSUME NEW dk, NEW new, NEW but, Fewer(dk, new, but), NEW files, NEW v, Under(dk, files, v),
           \A n \in files : n \notin but
    PROVE  Under(new, files, v)
BY DEF Fewer, Under

LEMMA UnderMore ==
    ASSUME NEW dk, NEW files, NEW v \in Nat, NEW w \in Nat, v <= w, Under(dk, files, v),
           NEW some, some \subseteq files
    PROVE  Under(dk, some, w)
<1>1. \A n \in some : \A e \in SstEnts(dk, n) : e \in Nat /\ e <= v
  BY DEF Under
<1>2. \A e \in Nat : e <= v => e <= w
  OBVIOUS
<1>. QED BY <1>1, <1>2 DEF Under

LEMMA UnderBoth ==
    ASSUME NEW dk, NEW files, NEW more, NEW v, Under(dk, files, v), Under(dk, more, v)
    PROVE  Under(dk, files \cup more, v)
BY DEF Under

LEMMA SameFewer ==
    ASSUME NEW dk, NEW new, NEW but, SameData(dk, new, but), ContentsOK(dk),
           \A n : Sst(n) \notin but /\ Wal(n) \notin but
    PROVE  Fewer(dk, new, {}) /\ ContentsOK(new)
<1>1. IsSeq(<<>>) /\ ToSet(<<>>) = {}
  BY DEF IsSeq, ToSet
<1>2. \A n : Sst(n) \in DOMAIN new.data =>
         new.data[Sst(n)] = <<>> \/ (Sst(n) \in DOMAIN dk.data /\ new.data[Sst(n)] = dk.data[Sst(n)])
  BY DEF SameData
<1>3. \A n : Wal(n) \in DOMAIN new.data =>
         new.data[Wal(n)] = <<>> \/ (Wal(n) \in DOMAIN dk.data /\ new.data[Wal(n)] = dk.data[Wal(n)])
  BY DEF SameData
<1>4. \A n : SstEnts(new, n) \subseteq SstEnts(dk, n)
  <2>. SUFFICES ASSUME NEW n PROVE SstEnts(new, n) \subseteq SstEnts(dk, n)
    OBVIOUS
  <2>1. CASE Sst(n) \notin DOMAIN new.data
    BY <2>1 DEF SstEnts
  <2>2. CASE Sst(n) \in DOMAIN new.data /\ new.data[Sst(n)] = <<>>
    BY <2>2, <1>1 DEF SstEnts
  <2>3. CASE Sst(n) \in DOMAIN new.data /\ Sst(n) \in DOMAIN dk.data /\ new.data[Sst(n)] = dk.data[Sst(n)]
    BY <2>3 DEF SstEnts
  <2>. QED BY <1>2, <2>1, <2>2, <2>3
<1>5. \A n : Sst(n) \in DOMAIN new.data => IsSeq(new.data[Sst(n)])
  BY <1>1, <1>2 DEF ContentsOK
<1>6. \A n : Wal(n) \in DOMAIN new.data => IsSeq(new.data[Wal(n)]) /\ ToSet(new.data[Wal(n)]) \subseteq Nat
  <2>1. {} \subseteq Nat
    OBVIOUS
  <2>. QED BY <1>1, <1>3, <2>1 DEF ContentsOK
<1>7. Fewer(dk, new, {})
  BY <1>4 DEF Fewer
<1>. QED BY <1>5, <1>6, <1>7 DEF ContentsOK

LEMMA NewsIs ==
    ASSUME NEW recs, IsSeq(recs)
    PROVE  /\ \A n : n \in News(recs) <=> \E i \in 1..Len(recs) : n \in Field(recs[i], "new")
           /\ \A i \in 1..Len(recs) : Field(recs[i], "new") \subseteq News(recs)
BY SeqFacts DEF News

LEMMA NewsAdded ==
    ASSUME NEW recs, IsSeq(recs), NEW rec
    PROVE  News(Append(recs, rec)) = News(recs) \cup Field(rec, "new")
<1>. PICK new : new = Append(recs, rec)
  OBVIOUS
<1>1. /\ IsSeq(new) /\ Len(new) = Len(recs) + 1 /\ new[Len(recs) + 1] = rec
      /\ \A i \in 1..Len(recs) : new[i] = recs[i]
  BY SeqAppend
<1>2. Len(recs) \in Nat
  BY SeqFacts
<1>3. \A i \in 1..Len(new) : i \in 1..Len(recs) \/ i = Len(recs) + 1
  BY ONLY <1>1, <1>2
<1>4. \A i \in 1..Len(recs) : i \in 1..Len(new)
  BY ONLY <1>1, <1>2
<1>5. Len(recs) + 1 \in 1..Len(new)
  BY ONLY <1>1, <1>2
<1>6. \A n : n \in News(new) <=> \E i \in 1..Len(new) : n \in Field(new[i], "new")
  BY <1>1, NewsIs
<1>7. \A n : n \in News(recs) <=> \E i \in 1..Len(recs) : n \in Field(recs[i], "new")
  BY NewsIs
<1>8. ASSUME NEW n PROVE n \in News(new) <=> n \in News(recs) \cup Field(rec, "new")
  BY ONLY <1>1, <1>3, <1>4, <1>5, <1>6, <1>7
<1>. QED BY <1>8

LEMMA NewsTorn ==
    ASSUME NEW recs, IsSeq(recs)
    PROVE  News(Append(recs, Torn)) = News(recs)
<1>1. Field(Torn, "new") = {}
  BY FieldTorn DEF Tags
<1>. QED BY <1>1, NewsAdded

LEMMA FewerInOrder ==
    ASSUME NEW dk, NEW new, NEW but, Fewer(dk, new, but), NEW recs, IsSeq(recs), InOrder(dk, recs),
           \A n \in but : n \notin News(recs)
    PROVE  InOrder(new, recs)
<1>. SUFFICES ASSUME NEW i \in 1..Len(recs), NEW v \in Field(recs[i], "last")
     PROVE  v \in Nat /\ \A j \in 1..i : Under(new, Field(recs[j], "new"), v)
  BY DEF InOrder
<1>1. v \in Nat /\ \A j \in 1..i : Under(dk, Field(recs[j], "new"), v)
  BY DEF InOrder
<1>. SUFFICES ASSUME NEW j \in 1..i PROVE Under(new, Field(recs[j], "new"), v)
  BY <1>1
<1>2. j \in 1..Len(recs)
  BY SeqFacts
<1>3. \A n \in Field(recs[j], "new") : n \notin but
  BY <1>2, NewsIs
<1>. QED BY <1>1, <1>3, FewerUnder

LEMMA InOrderEmpty == ASSUME NEW dk PROVE InOrder(dk, <<>>)
BY DEF InOrder

(* A record more. *)
LEMMA InOrderMore ==
    ASSUME NEW dk, NEW recs, IsSeq(recs), InOrder(dk, recs), NEW rec,
           \A v \in Field(rec, "last") : v \in Nat /\ Under(dk, News(recs), v) /\ Under(dk, Field(rec, "new"), v)
    PROVE  InOrder(dk, Append(recs, rec))
<1>. PICK new : new = Append(recs, rec)
  OBVIOUS
<1>1. /\ IsSeq(new) /\ Len(new) = Len(recs) + 1 /\ new[Len(recs) + 1] = rec
      /\ \A i \in 1..Len(recs) : new[i] = recs[i]
  BY SeqAppend
<1>2. Len(recs) \in Nat
  BY SeqFacts
<1>. SUFFICES ASSUME NEW i \in 1..Len(new), NEW v \in Field(new[i], "last"), NEW j \in 1..i
     PROVE  v \in Nat /\ Under(dk, Field(new[j], "new"), v)
  <2>1. \A i \in 1..Len(new) : i \in 1..i
    BY ONLY <1>1, <1>2
  <2>. QED BY <2>1 DEF InOrder
<1>3. CASE i \in 1..Len(recs)
  <2>1. j \in 1..Len(recs) /\ v \in Field(recs[i], "last") /\ new[j] = recs[j]
    BY ONLY <1>1, <1>2, <1>3, v \in Field(new[i], "last"), j \in 1..i
  <2>. QED BY <1>3, <2>1 DEF InOrder
<1>4. CASE i = Len(recs) + 1
  <2>1. v \in Field(rec, "last")
    BY <1>1, <1>4
  <2>2. v \in Nat /\ Under(dk, News(recs), v) /\ Under(dk, Field(rec, "new"), v)
    BY <2>1
  <2>3. CASE j \in 1..Len(recs)
    <3>1. Field(new[j], "new") \subseteq News(recs)
      BY <2>3, <1>1, NewsIs
    <3>. QED BY <3>1, <2>2 DEF Under
  <2>4. CASE j = Len(recs) + 1
    BY <2>2, <2>4, <1>1
  <2>5. j \in 1..Len(recs) \/ j = Len(recs) + 1
    BY ONLY <1>2, <1>4, j \in 1..i
  <2>. QED BY <2>3, <2>4, <2>5
<1>5. i \in 1..Len(recs) \/ i = Len(recs) + 1
  BY ONLY <1>1, <1>2, i \in 1..Len(new)
<1>. QED BY <1>3, <1>4, <1>5

LEMMA InOrderTorn ==
    ASSUME NEW dk, NEW recs, IsSeq(recs), InOrder(dk, recs)
    PROVE  InOrder(dk, Append(recs, Torn))
<1>1. Field(Torn, "last") = {}
  BY FieldTorn DEF Tags
<1>. QED BY <1>1, InOrderMore

LEMMA InOrderPrefix ==
    ASSUME NEW dk, NEW recs, IsSeq(recs), InOrder(dk, recs), NEW n \in 0..Len(recs)
    PROVE  InOrder(dk, SubSeq(recs, 1, n))
<1>. PICK some : some = SubSeq(recs, 1, n)
  OBVIOUS
<1>1. Len(some) = n /\ \A i \in 1..n : some[i] = recs[i]
  BY SeqPrefix
<1>2. Len(recs) \in Nat
  BY SeqFacts
<1>3. \A i \in 1..n : i \in 1..Len(recs) /\ \A j \in 1..i : j \in 1..n
  BY ONLY <1>2, n \in 0..Len(recs)
<1>4. \A i \in 1..n : \A v \in Field(some[i], "last") :
         v \in Nat /\ \A j \in 1..i : Under(dk, Field(some[j], "new"), v)
  BY <1>1, <1>3 DEF InOrder
<1>. QED BY <1>1, <1>4 DEF InOrder

(* The last sequence number that VersionSet::Recover takes.                *)
LEMMA ReadLast ==
    ASSUME NEW dk, NEW k, NEW recs, GoodManifest(k, recs), InOrder(dk, recs),
           LastField(recs, "last") # {}
    PROVE  /\ The(LastField(recs, "last")) \in Nat
           /\ Under(dk, News(recs), The(LastField(recs, "last")))
<1>1. IsSeq(recs) /\ \A i \in 1..Len(recs) : GoodRecord(k, recs, i)
  BY DEF GoodManifest
<1>2. PICK i \in 1..Len(recs) :
        /\ LastField(recs, "last") = Field(recs[i], "last")
        /\ \A j \in 1..Len(recs) : j > i => Field(recs[j], "last") = {}
  BY <1>1, LastFieldFrom DEF Tags
<1>. PICK v : v = The(LastField(recs, "last"))
  OBVIOUS
<1>3. v \in Field(recs[i], "last")
  BY <1>2 DEF The
<1>4. v \in Nat /\ \A j \in 1..i : Under(dk, Field(recs[j], "new"), v)
  BY <1>3 DEF InOrder
<1>5. Len(recs) \in Nat
  BY <1>1, SeqFacts
<1>6. ASSUME NEW j \in 1..Len(recs) PROVE Under(dk, Field(recs[j], "new"), v)
  <2>1. CASE j \in 1..i
    BY <1>4, <2>1
  <2>2. CASE j > i
    <3>1. j > 1
      BY ONLY <2>2, <1>5, i \in 1..Len(recs), j \in 1..Len(recs)
    <3>2. Field(recs[j], "next") = {}
      BY <1>1, <1>2, <2>2 DEF GoodRecord
    <3>3. recs[j] = Torn
      BY <1>1, <3>1, <3>2 DEF GoodRecord
    <3>4. Field(recs[j], "new") = {}
      BY <3>3, FieldTorn DEF Tags
    <3>. QED BY <3>4 DEF Under
  <2>3. j \in 1..i \/ j > i
    BY ONLY <1>5, i \in 1..Len(recs), j \in 1..Len(recs)
  <2>. QED BY <2>1, <2>2, <2>3
<1>7. Under(dk, News(recs), v)
  BY <1>1, <1>6, NewsIs DEF Under
<1>. QED BY <1>4, <1>7
-----------------------------------------------------------------------------
(***************************************************************************)
(* The inductive invariant                                                 *)
(***************************************************************************)
CurrentOf(dk) == dk.data[CM(Dir(dk))]
Seen2(e, vs, o) == e \in Nat /\ (e <= vs.last \/ e <= o.max_sequence)

TypesSeq ==
    /\ versions.last \in Nat /\ op.max_sequence \in Nat /\ op.pos \in Nat
    /\ ContentsOK(disk) /\ \A n \in op.wals : Wal(n) \in Dir(disk).files

(* MANIFESTs, and the one that is being written. *)
CurSeq(dk) == \A d \in States(dk) : d.cur # 0 => InOrder(dk, dk.data[CM(d)])
TargetSeq == op.at \in {"snapshot"} \cup Whole => InOrder(disk, disk.data[Target])

(* LastSequence is not below an entry of a file that the version has or     *)
(* that CURRENT leads to.                                                  *)
VersionSeq ==
    /\ Under(disk, versions.files, versions.last)
    /\ Known => Under(disk, News(CurrentOf(disk)), versions.last)

(* Nor, with max_sequence, below one that was replayed; FinishRecover       *)
(* brings the two together.                                                *)
EntrySeq ==
    /\ \A n \in op.edit.new : \A e \in SstEnts(disk, n) : Seen2(e, versions, op)
    /\ \A e \in op.ents \cup mem \cup UNION imm : Seen2(e, versions, op)
    /\ ~(pc = "opening" /\ op.at \in Replaying) => op.max_sequence <= versions.last

(* The edit that is on its way to a MANIFEST. *)
EditUnder(v) ==
    /\ v \in Nat /\ v <= versions.last /\ Under(disk, op.edit.new, v)
    /\ op.at \in {"create", "snapshot"} => Under(disk, versions.files, v)
    /\ op.at \in Whole => Under(disk, News(disk.data[Target]), v)
EditSeq == op.at \in Logging => \A v \in op.edit.last : EditUnder(v)

(* No MANIFEST names the output of a compaction before its edit does. *)
OutSeq ==
    compaction # NoCompaction =>
        /\ compaction.in \subseteq versions.files
        /\ op.call # "compact" => compaction.out \notin News(CurrentOf(disk)) \cup op.edit.new
        /\ ~(op.call = "compact" /\ op.at = "remove")
FlushSeq == pc = "opened" /\ op.call # "compact" => op.edit.deleted = {}

SeqOK == TypesSeq /\ CurSeq(disk) /\ TargetSeq /\ VersionSeq /\ EntrySeq /\ EditSeq /\ OutSeq /\ FlushSeq
SeqInv == ~lost => SeqOK

-----------------------------------------------------------------------------
(***************************************************************************)
(* What a step keeps                                                       *)
(***************************************************************************)
CurrentSeq(dk) == IsSeq(CurrentOf(dk))

LEMMA CurrentFacts ==
    ASSUME CrashInv, Dir(disk).cur # 0
    PROVE  /\ CurrentSeq(disk) /\ CM(Dir(disk)) \in DOMAIN disk.data
           /\ GoodManifest(Dir(disk).cur, CurrentOf(disk)) /\ Dir(disk).cur \in Nat
<1>1. /\ DiskOK(disk) /\ Dir(disk) \in States(disk) /\ Leads(disk, Dir(disk)) /\ Dir(disk).cur \in Nat
      /\ Dir(disk).files \subseteq DOMAIN disk.data
  BY DirFacts
<1>2. CM(Dir(disk)) \in Dir(disk).files
  BY <1>1 DEF Leads
<1>3. GoodManifest(Dir(disk).cur, CurrentOf(disk))
  BY <1>1, <1>2, StatesOK DEF CurrentOf
<1>. QED BY <1>1, <1>2, <1>3 DEF GoodManifest, CurrentSeq

(* The MANIFESTs that CURRENT names or may name after a power failure. *)
LEMMA CurSeqKept ==
    ASSUME CrashInv, CurSeq(disk), NEW gone, NEW touched, NEW but, Evolves(disk, disk', gone, touched),
           \A k \in Nat : k \in touched => Dir(disk).cur < k,
           Dir(disk).cur # 0 => CM(Dir(disk)) \notin gone, Fewer(disk, disk', but),
           but = {} \/ \A d \in States(disk') : \A n \in but : d.cur # 0 => n \notin News(disk.data[CM(d)])
    PROVE  /\ CurSeq(disk')
           /\ Dir(disk).cur # 0 => CurrentOf(disk') = CurrentOf(disk)
<1>1. \A d \in States(disk) : d.cur # 0 => d.cur \notin touched
  BY Untouched
<1>2. CurOK(disk) /\ DiskOK(disk) /\ Dir(disk) \in States(disk) /\ Dir(disk).cur \in Nat
  BY DirFacts
<1>3. \A d \in States(disk') : d.cur # 0 => disk'.data[CM(d)] = disk.data[CM(d)]
  BY <1>1, <1>2, StatesKept
<1>4. \A d \in States(disk') : d \in States(disk) \/ d.cur = Dir(disk).cur
  BY DEF Evolves
<1>5. \A d \in States(disk') : d.cur # 0 => InOrder(disk, disk.data[CM(d)]) /\ IsSeq(disk.data[CM(d)])
  <2>1. \A d \in States(disk) : d.cur # 0 => InOrder(disk, disk.data[CM(d)])
    BY DEF CurSeq
  <2>2. \A d \in States(disk) : d.cur # 0 => IsSeq(disk.data[CM(d)])
    BY <1>2, StatesOK DEF CurOK, Leads, GoodManifest
  <2>. QED BY <1>2, <1>4, <2>1, <2>2 DEF CM
<1>6. \A d \in States(disk') : d.cur # 0 => InOrder(disk', disk'.data[CM(d)])
  <2>. SUFFICES ASSUME NEW d \in States(disk'), d.cur # 0 PROVE InOrder(disk', disk'.data[CM(d)])
    OBVIOUS
  <2>1. \A n \in but : n \notin News(disk.data[CM(d)])
    OBVIOUS
  <2>2. InOrder(disk', disk.data[CM(d)])
    BY <1>5, <2>1, FewerInOrder
  <2>. QED BY <1>3, <2>2
<1>7. Dir(disk).cur # 0 => CurrentOf(disk') = CurrentOf(disk)
  BY CurrentKept DEF CurrentOf
<1>. QED BY <1>6, <1>7 DEF CurSeq

(* A MANIFEST that a step does not write to. *)
LEMMA TargetSeqKept ==
    ASSUME CrashInv, NEW gone, NEW touched, Evolves(disk, disk', gone, touched), Fewer(disk, disk', {}),
           NEW k \in Nat, k \notin touched, Manifest(k) \in Dir(disk).files, Manifest(k) \notin gone,
           InOrder(disk, disk.data[Manifest(k)])
    PROVE  InOrder(disk', disk'.data[Manifest(k)]) /\ disk'.data[Manifest(k)] = disk.data[Manifest(k)]
<1>1. disk'.data[Manifest(k)] = disk.data[Manifest(k)]
  BY ManifestKept
<1>2. DiskOK(disk) /\ Dir(disk).files \subseteq DOMAIN disk.data
  BY DirFacts
<1>3. IsSeq(disk.data[Manifest(k)])
  BY <1>2 DEF DiskOK, GoodManifest
<1>. PICK none : none = {}
  OBVIOUS
<1>4. Fewer(disk, disk', none) /\ \A n \in none : n \notin News(disk.data[Manifest(k)])
  OBVIOUS
<1>5. InOrder(disk', disk.data[Manifest(k)])
  BY <1>3, <1>4, FewerInOrder
<1>. QED BY <1>1, <1>5

(* The last sequence number and max_sequence do not shrink. *)
SeenMore(vs, o, ws, p) ==
    /\ vs.last \in Nat /\ o.max_sequence \in Nat /\ ws.last \in Nat /\ p.max_sequence \in Nat
    /\ vs.last <= ws.last
    /\ o.max_sequence <= p.max_sequence \/ o.max_sequence <= ws.last

LEMMA SeenKept ==
    ASSUME NEW vs, NEW o, NEW ws, NEW p, SeenMore(vs, o, ws, p)
    PROVE  \A e : Seen2(e, vs, o) => Seen2(e, ws, p)
BY DEF SeenMore, Seen2

(* The process goes on. *)
LEMMA GoesSeq ==
    ASSUME CrashInv, SeqOK, Fewer(disk, disk', {}), ContentsOK(disk'), CurSeq(disk'),
           Known, News(CurrentOf(disk')) \subseteq News(CurrentOf(disk)),
           SeenMore(versions, op, versions', op'), versions'.files = versions.files, op'.pos \in Nat,
           op'.edit.new \subseteq op.edit.new,
           \A e \in op'.ents \cup mem' \cup UNION imm' :
               Seen2(e, versions', op') \/ e \in op.ents \cup mem \cup UNION imm,
           (pc' = "opening" /\ op'.at \in Replaying) \/ op'.max_sequence <= versions'.last,
           \A n \in op'.wals : Wal(n) \in Dir(disk').files,
           TargetSeq', EditSeq', OutSeq', FlushSeq'
    PROVE  SeqOK'
<1>1. TypesSeq'
  BY DEF TypesSeq, SeenMore
<1>2. \A e : Seen2(e, versions, op) => Seen2(e, versions', op')
  BY SeenKept
<1>3. VersionSeq'
  <2>1. /\ versions.last \in Nat /\ versions'.last \in Nat /\ versions.last <= versions'.last
    BY DEF SeenMore
  <2>2. Under(disk, versions.files, versions.last) /\ Under(disk, News(CurrentOf(disk)), versions.last)
    BY DEF SeqOK, VersionSeq
  <2>3. Under(disk, versions.files, versions'.last) /\ Under(disk, News(CurrentOf(disk')), versions'.last)
    BY <2>1, <2>2, UnderMore
  <2>. PICK none : none = {}
    OBVIOUS
  <2>4. Fewer(disk, disk', none) /\ \A n : n \notin none
    OBVIOUS
  <2>5. Under(disk', versions.files, versions'.last) /\ Under(disk', News(CurrentOf(disk')), versions'.last)
    BY <2>3, <2>4, FewerUnder
  <2>. QED BY <2>5 DEF VersionSeq
<1>4. EntrySeq'
  <2>1. \A n \in op'.edit.new : \A e \in SstEnts(disk', n) : Seen2(e, versions', op')
    BY <1>2 DEF SeqOK, EntrySeq, Fewer
  <2>2. \A e \in op'.ents \cup mem' \cup UNION imm' : Seen2(e, versions', op')
    BY <1>2 DEF SeqOK, EntrySeq
  <2>. QED BY <2>1, <2>2 DEF EntrySeq
<1>. QED BY <1>1, <1>3, <1>4 DEF SeqOK

LEMMA NoTarget == op'.at \notin Logging => TargetSeq' /\ EditSeq'
BY DEF TargetSeq, EditSeq, Logging, Whole

LEMMA OutSeqKept ==
    ASSUME SeqOK, compaction' \in {compaction, NoCompaction},
           op.call = "compact" => op'.call = "compact" \/ compaction' = NoCompaction,
           op'.call = "compact" /\ op'.at = "remove" => op.call = "compact" /\ op.at = "remove",
           compaction # NoCompaction => versions.files \subseteq versions'.files,
           News(CurrentOf(disk')) \cup op'.edit.new \subseteq News(CurrentOf(disk)) \cup op.edit.new
    PROVE  OutSeq'
BY DEF SeqOK, OutSeq

LEMMA NoOpSeq ==
    /\ NoOp.max_sequence = 0 /\ NoOp.pos = 0 /\ NoOp.ents = {} /\ NoOp.edit.new = {}
    /\ NoOp.edit.deleted = {} /\ NoOp.wals = {} /\ NewVersionSet.last = 0 /\ NewVersionSet.files = {}
BY DEF NoOp, NoEdit, NewVersionSet

(* The process has ended. *)
LEMMA ForgetSeq ==
    ASSUME Forget, pc' \in {"closed", "corrupt"}, lost' \/ (ContentsOK(disk') /\ CurSeq(disk'))
    PROVE  SeqInv'
<1>. SUFFICES ASSUME ~lost' PROVE SeqOK'
  BY DEF SeqInv
<1>1. /\ op' = NoOp /\ versions' = NewVersionSet /\ mem' = {} /\ imm' = {} /\ compaction' = NoCompaction
      /\ op'.at = "none" /\ op'.call = "none"
  BY NoOpFields DEF Forget
<1>2. ~Known'
  BY DEF Known
<1>3. TypesSeq' /\ EntrySeq' /\ FlushSeq'
  BY <1>1, NoOpSeq DEF TypesSeq, EntrySeq, FlushSeq
<1>4. TargetSeq' /\ EditSeq' /\ OutSeq'
  BY <1>1, NoTarget DEF OutSeq, Logging, Whole
<1>5. VersionSeq'
  BY <1>1, <1>2, NoOpSeq DEF VersionSeq, Under
<1>. QED BY <1>3, <1>4, <1>5 DEF SeqOK

(* A call fails that left dk. *)
LEMMA FailSeq ==
    ASSUME CrashInv, SeqInv, NEW dk, Fail(dk), pc \in {"opening", "opened"}, lost' = lost,
           lost \/ (/\ Fewer(disk, dk, {}) /\ ContentsOK(dk) /\ CurSeq(dk)
                    /\ Known => News(CurrentOf(dk)) \subseteq News(CurrentOf(disk)))
    PROVE  SeqInv'
<1>1. disk' = dk
  BY DEF Fail
<1>2. CASE pc = "opening"
  <2>1. Forget /\ pc' = "closed"
    BY <1>2 DEF Fail
  <2>. QED BY <1>1, <2>1, ForgetSeq
<1>3. CASE pc = "opened"
  <2>1. /\ op' = NoOp /\ UNCHANGED <<pc, versions, memory>>
        /\ compaction' = IF op.call = "compact" THEN NoCompaction ELSE compaction
    BY <1>3 DEF Fail
  <2>2. UNCHANGED <<mem, imm>>
    BY <2>1 DEF memory
  <2>. SUFFICES ASSUME ~lost PROVE SeqOK'
    BY DEF SeqInv
  <2>3. SeqOK
    BY DEF SeqInv
  <2>4. Known
    BY <1>3, OpenedKnown
  <2>5. op'.at = "none" /\ op'.call = "none"
    BY <2>1, NoOpFields
  <2>6. TargetSeq' /\ EditSeq' /\ FlushSeq'
    BY <2>1, <2>5, NoOpSeq, NoTarget DEF FlushSeq, Logging, Whole
  <2>7. versions.last \in Nat /\ op.max_sequence \in Nat /\ op.max_sequence <= versions.last
    BY <2>3, <1>3 DEF SeqOK, TypesSeq, EntrySeq
  <2>8. SeenMore(versions, op, versions', op') /\ op'.max_sequence <= versions'.last
    BY <2>1, <2>7, NoOpSeq DEF SeenMore
  <2>9. OutSeq'
    BY <1>1, <2>1, <2>3, <2>4, <2>5, NoOpSeq, OutSeqKept
  <2>. QED BY <1>1, <2>1, <2>2, <2>3, <2>4, <2>6, <2>8, <2>9, NoOpSeq, GoesSeq
<1>. QED BY <1>2, <1>3
-----------------------------------------------------------------------------
(***************************************************************************)
(* LogAndApply and NewDB                                                   *)
(***************************************************************************)

(* Steps of the disk that leave SST files and WAL files alone. *)
LEMMA PlainSteps ==
    ASSUME NEW dk, Base(dk), ContentsOK(dk)
    PROVE  /\ \A k \in Nat : \A rec : /\ Fewer(dk, AddRecord(dk, Manifest(k), rec), {})
                                        /\ ContentsOK(AddRecord(dk, Manifest(k), rec))
           /\ \A f : Fewer(dk, RemoveFile(dk, f), {}) /\ ContentsOK(RemoveFile(dk, f))
           /\ \A f : Fewer(dk, SyncFd(dk, f), {}) /\ ContentsOK(SyncFd(dk, f))
           /\ \A f : Fewer(dk, NewWritableFile(dk, f), {}) /\ ContentsOK(NewWritableFile(dk, f))
           /\ \A k \in Nat : /\ Fewer(dk, WriteStringToFileSync(dk, k), {})
                             /\ ContentsOK(WriteStringToFileSync(dk, k))
           /\ \A k \in Nat : Fewer(dk, RenameToCurrent(dk, k), {}) /\ ContentsOK(RenameToCurrent(dk, k))
           /\ Fewer(dk, Abandon(dk), {}) /\ ContentsOK(Abandon(dk))
           /\ Fewer(dk, NotCurrent(dk), {}) /\ ContentsOK(NotCurrent(dk))
<1>. PICK none : none = {}
  OBVIOUS
<1>0. \A n : Sst(n) \notin none /\ Wal(n) \notin none
  OBVIOUS
<1>1. ASSUME NEW new, SameData(dk, new, none) PROVE Fewer(dk, new, {}) /\ ContentsOK(new)
  BY <1>0, <1>1, SameFewer
<1>2. ASSUME NEW k \in Nat, NEW rec
      PROVE  /\ Fewer(dk, AddRecord(dk, Manifest(k), rec), {})
             /\ ContentsOK(AddRecord(dk, Manifest(k), rec))
  <2>. PICK new : new = AddRecord(dk, Manifest(k), rec)
    OBVIOUS
  <2>1. SameData(dk, new, {Manifest(k)})
    BY AddRecordData
  <2>2. \A n : Sst(n) \notin {Manifest(k)} /\ Wal(n) \notin {Manifest(k)}
    BY DEF Sst, Wal, Manifest
  <2>. QED BY <2>1, <2>2, SameFewer
<1>3. ASSUME NEW k \in Nat
      PROVE  Fewer(dk, WriteStringToFileSync(dk, k), {}) /\ ContentsOK(WriteStringToFileSync(dk, k))
  <2>. PICK new : new = WriteStringToFileSync(dk, k)
    OBVIOUS
  <2>1. SameData(dk, new, {Temp(k)})
    BY WriteStringData
  <2>2. \A n : Sst(n) \notin {Temp(k)} /\ Wal(n) \notin {Temp(k)}
    BY DEF Sst, Wal, Temp
  <2>. QED BY <2>1, <2>2, SameFewer
<1>4. \A f : Fewer(dk, RemoveFile(dk, f), {}) /\ ContentsOK(RemoveFile(dk, f))
  BY <1>1, RemoveFileData
<1>5. \A f : Fewer(dk, SyncFd(dk, f), {}) /\ ContentsOK(SyncFd(dk, f))
  BY <1>1, SyncFdData
<1>6. \A f : Fewer(dk, NewWritableFile(dk, f), {}) /\ ContentsOK(NewWritableFile(dk, f))
  BY <1>1, NewFileData
<1>7. \A k \in Nat : Fewer(dk, RenameToCurrent(dk, k), {}) /\ ContentsOK(RenameToCurrent(dk, k))
  BY <1>1, RenameData
<1>8. /\ Fewer(dk, Abandon(dk), {}) /\ ContentsOK(Abandon(dk))
      /\ Fewer(dk, NotCurrent(dk), {}) /\ ContentsOK(NotCurrent(dk))
  BY <1>1, AbandonData
<1>. QED BY <1>2, <1>3, <1>4, <1>5, <1>6, <1>7, <1>8

LEMMA FewerTwice ==
    ASSUME NEW dk, NEW new, NEW newer, Fewer(dk, new, {}), Fewer(new, newer, {})
    PROVE  Fewer(dk, newer, {})
BY DEF Fewer

LEMMA FewerSame == ASSUME NEW dk PROVE Fewer(dk, dk, {})
BY DEF Fewer

(* A record more in the MANIFEST that CURRENT names. *)
LEMMA AddCurSeq ==
    ASSUME CrashInv, CurSeq(disk), ContentsOK(disk), Dir(disk).cur # 0, NEW rec,
           GoodManifest(Dir(disk).cur, Append(CurrentOf(disk), rec)),
           InOrder(disk, Append(CurrentOf(disk), rec)),
           NEW new, new = AddRecord(disk, CM(Dir(disk)), rec)
    PROVE  /\ CurSeq(new) /\ CurrentOf(new) = Append(CurrentOf(disk), rec)
           /\ Fewer(disk, new, {}) /\ ContentsOK(new)
<1>. PICK k : k = Dir(disk).cur
  OBVIOUS
<1>1. k \in Nat /\ Base(disk) /\ CurOK(disk) /\ Manifest(k) \in DOMAIN disk.data /\ IsSeq(disk.data[Manifest(k)])
  BY DirFacts, CurrentFacts DEF CM, CurrentSeq, CurrentOf
<1>2. GoodManifest(k, Append(disk.data[Manifest(k)], rec)) /\ new = AddRecord(disk, Manifest(k), rec)
  BY DEF CM, CurrentOf
<1>3. /\ Evolves(disk, new, {}, {k}) /\ States(new) = States(disk) /\ Dir(new) = Dir(disk)
      /\ new.data[Manifest(k)] = Append(disk.data[Manifest(k)], rec)
  BY ONLY <1>1, <1>2, AddManifestEvolves
<1>4. Fewer(disk, new, {}) /\ ContentsOK(new)
  BY <1>1, <1>2, PlainSteps
<1>5. CurrentOf(new) = Append(CurrentOf(disk), rec)
  BY <1>3 DEF CurrentOf, CM
<1>6. ASSUME NEW d \in States(new), d.cur # 0 PROVE InOrder(new, new.data[CM(d)])
  <2>1. d \in States(disk) /\ InOrder(disk, disk.data[CM(d)]) /\ Leads(disk, d) /\ d.cur \in Nat
    BY <1>1, <1>3, <1>6, StatesOK DEF CurSeq, CurOK, Base
  <2>2. IsSeq(disk.data[CM(d)]) /\ CM(d) \in DOMAIN new.data
    <3>1. CM(d) \in d.files
      BY <2>1 DEF Leads
    <3>2. DiskOK(new) /\ DiskOK(disk)
      BY <1>1, <1>3 DEF Evolves, Base
    <3>. QED BY <2>1, <3>1, <3>2, StatesOK DEF GoodManifest
  <2>. PICK none : none = {}
    OBVIOUS
  <2>3. Fewer(disk, new, none) /\ \A recs : \A n \in none : n \notin News(recs)
    BY <1>4
  <2>4. CASE d.cur = k
    <3>1. new.data[CM(d)] = Append(CurrentOf(disk), rec) /\ IsSeq(Append(CurrentOf(disk), rec))
      BY <1>1, <1>3, <2>4, SeqAppend DEF CM, CurrentOf
    <3>. QED BY <3>1, <2>3, FewerInOrder
  <2>5. CASE d.cur # k
    <3>1. SameManifest(disk, new, d.cur)
      BY <1>3, <2>1, <2>2, <2>5 DEF Evolves, CM
    <3>2. new.data[CM(d)] = disk.data[CM(d)]
      BY <3>1 DEF SameManifest, CM
    <3>. QED BY <2>1, <2>2, <2>3, <3>2, FewerInOrder
  <2>. QED BY <2>4, <2>5
<1>. QED BY <1>4, <1>5, <1>6 DEF CurSeq

(* A failed call of LogAndApply that touches no MANIFEST in use. *)
LEMMA LogFailsSeq ==
    ASSUME CrashInv, SeqInv, op.at \in Logging, NEW dk, Fail(dk), NEW gone, NEW touched,
           Evolves(disk, dk, gone, touched), gone \subseteq AbandonGone \cup {Temp(ManifestNumber)},
           \A k \in Nat : k \in touched => Dir(disk).cur < k,
           ~lost => Fewer(disk, dk, {}) /\ ContentsOK(dk)
    PROVE  SeqInv'
<1>1. disk' = dk /\ lost' = lost
  BY DEF Fail, history
<1>2. /\ pc \in {"opening", "opened"} /\ ManifestNumber \in Nat
      /\ NewManifest => Dir(disk).cur < ManifestNumber
  BY LogTarget
<1>3. CM(Dir(disk)) \notin gone
  <2>1. Dir(disk).cur \in Nat
    BY DirFacts
  <2>. QED BY <1>2, <2>1 DEF AbandonGone, Target, CM, Manifest, Temp
<1>4. ASSUME ~lost
      PROVE  /\ Fewer(disk, dk, {}) /\ ContentsOK(dk) /\ CurSeq(dk)
             /\ Known => News(CurrentOf(dk)) \subseteq News(CurrentOf(disk))
  <2>1. CurSeq(disk)
    BY <1>4 DEF SeqInv, SeqOK
  <2>. PICK none : none = {}
    OBVIOUS
  <2>2. Fewer(disk, disk', none) /\ Evolves(disk, disk', gone, touched) /\ ContentsOK(dk)
    BY <1>1, <1>4
  <2>3. CurSeq(disk') /\ (Dir(disk).cur # 0 => CurrentOf(disk') = CurrentOf(disk))
    BY <1>3, <2>1, <2>2, CurSeqKept
  <2>4. Known => Dir(disk).cur # 0
    BY DEF CrashInv, KnownInv
  <2>. QED BY <1>1, <1>4, <2>3, <2>4
<1>. QED BY <1>1, <1>2, <1>4, FailSeq

(* A record that is written in part. *)
LEMMA TornSeq ==
    ASSUME CrashInv, SeqInv, op.at \in {"snapshot"} \cup Whole,
           Fail(Abandon(AddRecord(disk, Target, Torn)))
    PROVE  SeqInv'
<1>. PICK k : k = ManifestNumber
  OBVIOUS
<1>5. PICK dk : dk = AddRecord(disk, Target, Torn)
  OBVIOUS
<1>0. op.at \in Logging
  BY DEF Logging
<1>1. /\ k \in Nat /\ Target = Manifest(k) /\ Target \in Dir(disk).files
      /\ pc \in {"opening", "opened"} /\ Base(disk)
  BY <1>0, LogTarget, DirFacts DEF CrashInv, LogState, Target
<1>2. GoodManifest(k, Append(disk.data[Manifest(k)], Torn))
  <2>1. GoodManifest(k, disk.data[Manifest(k)])
    BY <1>1, DirFacts DEF DiskOK
  <2>. QED BY <2>1, GoodTorn
<1>3. Evolves(disk, dk, {}, {k})
  BY ONLY <1>1, <1>2, <1>5, AddManifestEvolves
<1>4. ~lost => Fewer(disk, dk, {}) /\ ContentsOK(dk)
  <2>1. ~lost => ContentsOK(disk)
    BY DEF SeqInv, SeqOK, TypesSeq
  <2>. QED BY <1>1, <1>5, <2>1, PlainSteps
<1>6. CASE NewManifest
  <2>1. Evolves(dk, Abandon(dk), AbandonGone, {}) /\ Base(dk)
    BY <1>3, AbandonEvolves DEF Evolves
  <2>2. Evolves(disk, Abandon(dk), {} \cup AbandonGone, {k} \cup {})
    BY <1>3, <2>1, EvolvesTwice
  <2>3. \A j \in Nat : j \in {k} \cup {} => Dir(disk).cur < j
    BY <1>0, <1>6, LogTarget
  <2>4. ~lost => Fewer(disk, Abandon(dk), {}) /\ ContentsOK(Abandon(dk))
    BY <1>4, <2>1, PlainSteps, FewerTwice
  <2>5. {} \cup AbandonGone \subseteq AbandonGone \cup {Temp(ManifestNumber)}
    OBVIOUS
  <2>. QED BY <1>0, <1>5, <2>2, <2>3, <2>4, <2>5, LogFailsSeq
<1>7. CASE ~NewManifest
  <2>1. Fail(dk) /\ lost' = lost
    BY <1>5, <1>7 DEF Abandon, Fail, history
  <2>2. k = Dir(disk).cur /\ k # 0
    BY <1>0, <1>7, LogTarget
  <2>3. IsSeq(CurrentOf(disk))
    BY <2>2, CurrentFacts DEF CurrentSeq
  <2>4. ASSUME ~lost
        PROVE  /\ Fewer(disk, dk, {}) /\ ContentsOK(dk) /\ CurSeq(dk)
               /\ News(CurrentOf(dk)) \subseteq News(CurrentOf(disk))
    <3>1. CurSeq(disk) /\ ContentsOK(disk) /\ InOrder(disk, CurrentOf(disk))
      <4>1. CurSeq(disk) /\ ContentsOK(disk)
        BY <2>4 DEF SeqInv, SeqOK, TypesSeq
      <4>. QED BY <2>2, <4>1, DirFacts DEF CurSeq, CurrentOf
    <3>2. InOrder(disk, Append(CurrentOf(disk), Torn))
      BY <2>3, <3>1, InOrderTorn
    <3>3. /\ GoodManifest(Dir(disk).cur, Append(CurrentOf(disk), Torn))
          /\ dk = AddRecord(disk, CM(Dir(disk)), Torn)
      BY <1>1, <1>2, <1>5, <2>2 DEF CurrentOf, CM
    <3>4. /\ CurSeq(dk) /\ CurrentOf(dk) = Append(CurrentOf(disk), Torn)
          /\ Fewer(disk, dk, {}) /\ ContentsOK(dk)
      BY <2>2, <3>1, <3>2, <3>3, AddCurSeq
    <3>. QED BY <2>3, <3>4, NewsTorn
  <2>. QED BY <1>1, <2>1, <2>4, FailSeq
<1>. QED BY <1>6, <1>7

(* From one call to the next. *)
LEMMA LogGoesSeq ==
    ASSUME CrashInv, SeqOK, op.at \in Logging, NEW a \in Logging, op' = [op EXCEPT !.at = a],
           UNCHANGED <<pc, versions, mem, imm, compaction>>,
           Fewer(disk, disk', {}), ContentsOK(disk'), CurSeq(disk'),
           Known => News(CurrentOf(disk')) \subseteq News(CurrentOf(disk)) \cup op.edit.new,
           a \in {"create", "snapshot"} => op.at \in {"create", "snapshot"},
           a \in {"snapshot"} \cup Whole => InOrder(disk', disk'.data[Target]),
           a \in Whole => \A v \in op.edit.last : EditUnder(v) => Under(disk', News(disk'.data[Target]), v)
    PROVE  SeqOK'
<1>1. /\ op'.at = a /\ op'.call = op.call /\ op'.edit = op.edit /\ op'.ents = op.ents
      /\ op'.max_sequence = op.max_sequence /\ op'.pos = op.pos /\ op'.wals = {}
  BY DEF CrashInv, RecInv, OpInv, OpFields, Logging, Whole, Replaying
<1>2. ManifestNumber' = ManifestNumber /\ Target' = Target
  BY <1>1 DEF ManifestNumber, Target
<1>. PICK none : none = {}
  OBVIOUS
<1>3. Fewer(disk, disk', none) /\ \A n : n \notin none
  OBVIOUS
<1>4. TypesSeq' /\ FlushSeq'
  BY <1>1 DEF TypesSeq, FlushSeq, SeqOK
<1>5. TargetSeq'
  BY <1>1, <1>2 DEF TargetSeq
<1>6. EditSeq'
  <2>. SUFFICES ASSUME NEW v \in op.edit.last PROVE EditUnder(v)'
    BY <1>1 DEF EditSeq
  <2>1. EditUnder(v)
    BY DEF SeqOK, EditSeq
  <2>2. v \in Nat /\ v <= versions.last /\ Under(disk', op.edit.new, v)
    BY <1>3, <2>1, FewerUnder DEF EditUnder
  <2>3. a \in {"create", "snapshot"} => Under(disk', versions.files, v)
    BY <1>3, <2>1, FewerUnder DEF EditUnder
  <2>4. a \in Whole => Under(disk', News(disk'.data[Target]), v)
    BY <2>1
  <2>. QED BY <1>1, <1>2, <2>2, <2>3, <2>4 DEF EditUnder
<1>7. VersionSeq'
  <2>1. Under(disk', versions.files, versions.last)
    BY <1>3, FewerUnder DEF SeqOK, VersionSeq
  <2>2. ASSUME Known PROVE Under(disk', News(CurrentOf(disk')), versions.last)
    <3>1. PICK x \in Nat : EditFor(x)
      BY DEF CrashInv, RecInv, EditInv
    <3>2. PICK v \in op.edit.last : TRUE
      BY <3>1 DEF EditFor, SoundEdit
    <3>3. v \in Nat /\ v <= versions.last /\ Under(disk, op.edit.new, v) /\ versions.last \in Nat
      BY DEF SeqOK, EditSeq, EditUnder, TypesSeq
    <3>4. Under(disk, op.edit.new, versions.last)
      BY <3>3, UnderMore
    <3>5. Under(disk, News(CurrentOf(disk)) \cup op.edit.new, versions.last)
      BY <2>2, <3>4, UnderBoth DEF SeqOK, VersionSeq
    <3>6. Under(disk, News(CurrentOf(disk')), versions.last)
      BY <2>2, <3>5 DEF Under
    <3>. QED BY <1>3, <3>6, FewerUnder
  <2>3. Known' => Known
    BY <1>1, LogTarget DEF Known
  <2>. QED BY <2>1, <2>2, <2>3 DEF VersionSeq
<1>8. EntrySeq'
  <2>1. op.max_sequence <= versions.last
    BY DEF SeqOK, EntrySeq, Logging, Whole, Replaying
  <2>2. \A n \in op.edit.new : \A e \in SstEnts(disk', n) : Seen2(e, versions, op)
    BY DEF SeqOK, EntrySeq, Fewer
  <2>3. \A e \in op.ents \cup mem \cup UNION imm : Seen2(e, versions, op)
    BY DEF SeqOK, EntrySeq
  <2>4. \A e : Seen2(e, versions, op) => Seen2(e, versions', op')
    BY <1>1 DEF Seen2
  <2>. QED BY <1>1, <2>1, <2>2, <2>3, <2>4 DEF EntrySeq
<1>9. OutSeq'
  <2>1. compaction # NoCompaction => Known
    <3>1. op.call # "newdb" => Known
      BY LogTarget
    <3>2. op.call = "newdb" => compaction = NoCompaction
      <4>1. op.call = "newdb" => versions.log_open = FALSE
        BY WhileLogging DEF CrashInv
      <4>2. pc = "opened" => versions.log_open
        BY OpenedKnown
      <4>. QED BY <4>1, <4>2 DEF CrashInv, CallInv
    <3>. QED BY <3>1, <3>2
  <2>2. SeqOK => OutSeq
    BY DEF SeqOK
  <2>3. a # "remove"
    BY DEF Logging, Whole
  <2>. QED BY <1>1, <2>1, <2>2, <2>3 DEF OutSeq
<1>. QED BY <1>4, <1>5, <1>6, <1>7, <1>8, <1>9 DEF SeqOK

LEMMA CreateManifestSeq == CrashInv /\ SeqInv /\ CreateManifest => SeqInv'
<1>. SUFFICES ASSUME CrashInv, SeqInv, CreateManifest PROVE SeqInv'
  OBVIOUS
<1>1. op.at = "create" /\ op.at \in Logging /\ NewManifest
  BY DEF CreateManifest, Logging, CrashInv, LogState
<1>. PICK none : none = {}
  OBVIOUS
<1>2. CASE Fail(disk)
  <2>1. Evolves(disk, disk, none, none) /\ none \subseteq AbandonGone \cup {Temp(ManifestNumber)}
        /\ \A k \in Nat : k \in none => Dir(disk).cur < k
    BY DirFacts, EvolvesSame
  <2>2. ~lost => Fewer(disk, disk, {}) /\ ContentsOK(disk)
    BY FewerSame DEF SeqInv, SeqOK, TypesSeq
  <2>. QED BY <1>1, <1>2, <2>1, <2>2, LogFailsSeq
<1>3. CASE ~Fail(disk)
  <2>. PICK k : k = ManifestNumber
    OBVIOUS
  <2>. PICK a : a = IF op.call = "newdb" THEN "record" ELSE "snapshot"
    OBVIOUS
  <2>1. /\ disk' = NewWritableFile(disk, Target) /\ op' = [op EXCEPT !.at = a]
        /\ UNCHANGED <<pc, versions, mem, imm, compaction, lost>>
    BY <1>3 DEF CreateManifest, Target, history, memory
  <2>. SUFFICES ASSUME ~lost PROVE SeqOK'
    BY <2>1 DEF SeqInv
  <2>0. SeqOK /\ CurSeq(disk) /\ ContentsOK(disk) /\ Base(disk)
    BY DirFacts DEF SeqInv, SeqOK, TypesSeq
  <2>2. k \in Nat /\ Target \in Files /\ (\A j \in Nat : Target = Manifest(j) => j \in {k}) /\ Dir(disk).cur < k
    BY <1>1, LogTarget, FileNames DEF Target, Manifest
  <2>3. Evolves(disk, disk', none, {k}) /\ disk'.data[Target] = <<>>
    BY <2>0, <2>1, <2>2, NewFileEvolves
  <2>4. Fewer(disk, disk', none) /\ ContentsOK(disk')
    BY <2>0, <2>1, PlainSteps
  <2>5. CurSeq(disk') /\ (Dir(disk).cur # 0 => CurrentOf(disk') = CurrentOf(disk))
    <3>1. /\ \A j \in Nat : j \in {k} => Dir(disk).cur < j
          /\ CM(Dir(disk)) \notin none
      BY <2>2
    <3>. QED BY <2>0, <2>3, <2>4, <3>1, CurSeqKept
  <2>6. Known => Dir(disk).cur # 0
    BY DEF CrashInv, KnownInv
  <2>7. InOrder(disk', disk'.data[Target])
    BY <2>3, InOrderEmpty
  <2>8. News(disk'.data[Target]) = {}
    BY <2>3 DEF News
  <2>9. \A v : Under(disk', News(disk'.data[Target]), v)
    BY <2>8 DEF Under
  <2>10. a \in Logging /\ (a \in {"create", "snapshot"} => op.at \in {"create", "snapshot"})
    BY <1>1 DEF Logging, Whole
  <2>. QED BY <1>1, <2>0, <2>1, <2>4, <2>5, <2>6, <2>7, <2>9, <2>10, LogGoesSeq
<1>. QED BY <1>2, <1>3

LEMMA WriteSnapshotSeq == CrashInv /\ SeqInv /\ WriteSnapshot => SeqInv'
<1>. SUFFICES ASSUME CrashInv, SeqInv, WriteSnapshot PROVE SeqInv'
  OBVIOUS
<1>. PICK k : k = ManifestNumber
  OBVIOUS
<1>. PICK none : none = {}
  OBVIOUS
<1>. PICK edit : edit = [NoEdit EXCEPT !.new = versions.files]
  OBVIOUS
<1>. PICK rec : rec = EncodeTo(edit)
  OBVIOUS
<1>1. op.at = "snapshot" /\ op.at \in Logging /\ NewManifest
  BY DEF WriteSnapshot, Logging, CrashInv, LogState
<1>2. /\ k \in Nat /\ Target = Manifest(k) /\ Target \in Dir(disk).files
      /\ op.call # "newdb" /\ k = versions.manifest /\ Dir(disk).cur < k
  BY <1>1, LogTarget, WhileLogging DEF CrashInv, LogState, Target
<1>3. CASE Fail(Abandon(AddRecord(disk, Target, Torn)))
  BY <1>1, <1>3, TornSeq
<1>4. CASE ~Fail(Abandon(AddRecord(disk, Target, Torn)))
  <2>1. Write(rec)
    BY DEF WriteSnapshot
  <2>2. /\ disk' = AddRecord(disk, Manifest(k), rec) /\ op' = [op EXCEPT !.at = "record"]
        /\ UNCHANGED <<pc, versions, mem, imm, compaction, lost>>
    BY <1>1, <1>4, <2>1 DEF Write, Target, history, memory
  <2>. SUFFICES ASSUME ~lost PROVE SeqOK'
    BY <2>2 DEF SeqInv
  <2>0. SeqOK /\ CurSeq(disk) /\ ContentsOK(disk) /\ Base(disk)
    BY DirFacts DEF SeqInv, SeqOK, TypesSeq
  <2>3. disk.data[Manifest(k)] = <<>>
    <3>1. Emptied
      BY <1>1 DEF CrashInv, RecInv, EditInv, EditFor
    <3>. QED BY <1>2, <3>1, DirFacts DEF Emptied
  <2>4. DOMAIN edit = Tags /\ edit.new = versions.files /\ edit.last = {} /\ versions.files \in SUBSET Nat
    BY DEF NoEdit, Tags, CrashInv, RecInv, VersionInv
  <2>5. Field(rec, "new") = versions.files /\ Field(rec, "last") = {}
    <3>1. "new" \in Tags /\ "last" \in Tags
      BY DEF Tags
    <3>. QED BY <2>4, <3>1, FieldEncoded
  <2>8. GoodManifest(k, Append(disk.data[Manifest(k)], rec)) /\ Manifest(k) \in DOMAIN disk.data
    BY <1>2, <2>3, <2>4, GoodSnapshot, DirFacts
  <2>9. /\ Evolves(disk, disk', {}, {k})
        /\ disk'.data[Manifest(k)] = Append(disk.data[Manifest(k)], rec)
    BY ONLY <1>2, <2>0, <2>2, <2>8, AddManifestEvolves
  <2>10. Fewer(disk, disk', none) /\ ContentsOK(disk')
    BY <1>2, <2>0, <2>2, PlainSteps
  <2>11. CurSeq(disk') /\ (Dir(disk).cur # 0 => CurrentOf(disk') = CurrentOf(disk))
    <3>1. /\ \A j \in Nat : j \in {k} => Dir(disk).cur < j
          /\ CM(Dir(disk)) \notin none /\ Evolves(disk, disk', none, {k})
      BY <1>2, <2>9
    <3>. QED BY <2>0, <2>10, <3>1, CurSeqKept
  <2>12. Known => Dir(disk).cur # 0
    BY DEF CrashInv, KnownInv
  <2>. PICK empty : empty = <<>>
    OBVIOUS
  <2>13. IsSeq(empty) /\ News(empty) = {} /\ InOrder(disk', empty)
    BY GoodEmpty, InOrderEmpty DEF GoodManifest, News
  <2>14. disk'.data[Target] = Append(empty, rec)
    BY <1>2, <2>3, <2>9
  <2>15. InOrder(disk', disk'.data[Target])
    BY <2>5, <2>13, <2>14, InOrderMore
  <2>16. News(disk'.data[Target]) = versions.files
    <3>1. News(Append(empty, rec)) = News(empty) \cup Field(rec, "new")
      BY ONLY <2>13, NewsAdded
    <3>. QED BY <2>5, <2>13, <2>14, <3>1
  <2>17. \A v \in op.edit.last : EditUnder(v) => Under(disk', News(disk'.data[Target]), v)
    <3>1. \A n : n \notin none
      OBVIOUS
    <3>. QED BY <1>1, <2>10, <2>16, <3>1, FewerUnder DEF EditUnder
  <2>. PICK a : a = "record"
    OBVIOUS
  <2>18. a \in Logging /\ a \notin {"create", "snapshot"} /\ op' = [op EXCEPT !.at = a]
    BY <2>2 DEF Logging, Whole
  <2>. QED BY <1>1, <2>0, <2>2, <2>10, <2>11, <2>12, <2>15, <2>17, <2>18, LogGoesSeq
<1>. QED BY <1>3, <1>4

LEMMA WriteEditSeq == CrashInv /\ SeqInv /\ WriteEdit => SeqInv'
<1>. SUFFICES ASSUME CrashInv, SeqInv, WriteEdit PROVE SeqInv'
  OBVIOUS
<1>. PICK k : k = ManifestNumber
  OBVIOUS
<1>. PICK none : none = {}
  OBVIOUS
<1>. PICK rec : rec = EncodeTo(op.edit)
  OBVIOUS
<1>. PICK recs : recs = disk.data[Manifest(k)]
  OBVIOUS
<1>1. op.at = "record" /\ op.at \in Logging /\ op.at \in Whole
  BY DEF WriteEdit, Logging, Whole
<1>2. /\ k \in Nat /\ Target = Manifest(k) /\ Target \in Dir(disk).files
  BY <1>1, LogTarget DEF CrashInv, LogState, Target
<1>3. CASE Fail(Abandon(AddRecord(disk, Target, Torn)))
  BY <1>1, <1>3, TornSeq
<1>4. CASE ~Fail(Abandon(AddRecord(disk, Target, Torn)))
  <2>1. Write(rec)
    BY DEF WriteEdit
  <2>2. /\ disk' = AddRecord(disk, Manifest(k), rec) /\ op' = [op EXCEPT !.at = "sync"]
        /\ UNCHANGED <<pc, versions, mem, imm, compaction, lost>>
    BY <1>1, <1>4, <2>1 DEF Write, Target, history, memory
  <2>. SUFFICES ASSUME ~lost PROVE SeqOK'
    BY <2>2 DEF SeqInv
  <2>0. SeqOK /\ CurSeq(disk) /\ ContentsOK(disk) /\ Base(disk)
    BY DirFacts DEF SeqInv, SeqOK, TypesSeq
  <2>4. PICK x \in Nat : EditFor(x)
    BY <1>1 DEF CrashInv, RecInv, EditInv
  <2>5. DOMAIN op.edit = Tags /\ SoundEdit(op.edit, x)
    BY <2>4 DEF EditFor, SoundEdit
  <2>6. Field(rec, "new") = op.edit.new /\ Field(rec, "last") = op.edit.last
    <3>1. "new" \in Tags /\ "last" \in Tags
      BY DEF Tags
    <3>. QED BY <2>5, <3>1, FieldEncoded
  <2>7. Manifest(k) \in DOMAIN disk.data /\ GoodManifest(k, recs) /\ IsSeq(recs)
    BY <1>2, DirFacts DEF DiskOK, GoodManifest
  <2>9. GoodManifest(k, Append(recs, rec))
    <3>1. NewsBelow(recs, x) /\ k < x
      BY <1>1, <1>2, <2>4, <2>7 DEF EditFor, BelowIn
    <3>. QED BY <2>5, <2>7, <3>1, GoodEdit
  <2>10. Evolves(disk, disk', none, {k}) /\ disk'.data[Manifest(k)] = Append(recs, rec)
    <3>2. Manifest(k) \in DOMAIN disk.data => GoodManifest(k, Append(disk.data[Manifest(k)], rec))
      BY <2>9
    <3>. QED BY <1>2, <2>0, <2>2, <2>7, <3>2, AddManifestEvolves
  <2>11. Fewer(disk, disk', none) /\ ContentsOK(disk') /\ \A n : n \notin none
    BY <1>2, <2>0, <2>2, PlainSteps
  <2>12. \A v \in op.edit.last : v \in Nat /\ Under(disk, News(recs), v) /\ Under(disk, op.edit.new, v)
    BY <1>1, <1>2, <2>0 DEF SeqOK, EditSeq, EditUnder
  <2>13. InOrder(disk, recs)
    BY <1>1, <1>2, <2>0 DEF SeqOK, TargetSeq
  <2>14. InOrder(disk, Append(recs, rec)) /\ IsSeq(Append(recs, rec))
    BY <2>6, <2>7, <2>12, <2>13, InOrderMore, SeqAppend
  <2>15. InOrder(disk', disk'.data[Target])
    <3>1. \A n \in none : n \notin News(Append(recs, rec))
      BY <2>11
    <3>. QED BY <1>2, <2>10, <2>11, <2>14, <3>1, FewerInOrder
  <2>16. News(disk'.data[Target]) = News(recs) \cup op.edit.new
    BY <1>2, <2>6, <2>7, <2>10, NewsAdded
  <2>17. \A v \in op.edit.last : Under(disk', News(disk'.data[Target]), v)
    <3>1. \A v \in op.edit.last : Under(disk, News(recs) \cup op.edit.new, v)
      BY <2>12, UnderBoth
    <3>. QED BY <2>11, <2>16, <3>1, FewerUnder
  <2>18. CurSeq(disk') /\ (Known => News(CurrentOf(disk')) \subseteq News(CurrentOf(disk)) \cup op.edit.new)
    <3>1. CASE NewManifest
      <4>1. /\ \A j \in Nat : j \in {k} => Dir(disk).cur < j
            /\ CM(Dir(disk)) \notin none
        BY <1>1, <3>1, LogTarget
      <4>2. CurSeq(disk') /\ (Dir(disk).cur # 0 => CurrentOf(disk') = CurrentOf(disk))
        BY <2>0, <2>10, <2>11, <4>1, CurSeqKept
      <4>3. Known => Dir(disk).cur # 0
        BY DEF CrashInv, KnownInv
      <4>. QED BY <4>2, <4>3
    <3>2. CASE ~NewManifest
      <4>1. k = Dir(disk).cur /\ k # 0
        BY <1>1, <3>2, LogTarget
      <4>2. CurrentOf(disk) = recs /\ disk' = AddRecord(disk, CM(Dir(disk)), rec)
        BY <2>2, <4>1 DEF CurrentOf, CM
      <4>3. CurSeq(disk') /\ CurrentOf(disk') = Append(recs, rec)
        <5>. PICK new : new = disk'
          OBVIOUS
        <5>1. CurSeq(new) /\ CurrentOf(new) = Append(CurrentOf(disk), rec)
          BY <2>0, <2>9, <2>14, <4>1, <4>2, AddCurSeq
        <5>. QED BY <4>2, <5>1
      <4>. QED BY <1>2, <2>10, <2>16, <4>2, <4>3
    <3>. QED BY <3>1, <3>2
  <2>. PICK a : a = "sync"
    OBVIOUS
  <2>19. a \in Logging /\ a \notin {"create", "snapshot"} /\ op' = [op EXCEPT !.at = a]
    BY <2>2 DEF Logging, Whole
  <2>. QED BY <1>1, <2>0, <2>2, <2>11, <2>15, <2>17, <2>18, <2>19, LogGoesSeq
<1>. QED BY <1>3, <1>4

(* The new version is installed. *)
LEMMA InstallSeq ==
    ASSUME CrashInv, SeqOK, op.at \in {"sync", "rename"}, op.call # "newdb", Install(disk'),
           UNCHANGED <<pc, mem>>, Fewer(disk, disk', {}), ContentsOK(disk'), CurSeq(disk'),
           CurrentOf(disk') = disk.data[Target]
    PROVE  SeqOK'
<1>. PICK vs : vs = [versions EXCEPT !.files = SaveTo(@, Apply(NoChange, op.edit)),
                                     !.wal = The(op.edit.wal), !.log_open = TRUE]
  OBVIOUS
<1>. PICK none : none = {}
  OBVIOUS
<1>0. op.at \in Logging /\ op.at \in Whole /\ Known /\ pc \in {"opening", "opened"}
  BY LogTarget DEF Logging, Whole
<1>1. /\ versions' = vs /\ imm' = (IF op.call = "flush" THEN {} ELSE imm)
      /\ compaction' = (IF op.call = "compact" THEN NoCompaction ELSE compaction)
      /\ op' = [NoOp EXCEPT !.call = op.call, !.at = "remove",
                            !.todo = IF bg_error THEN {} ELSE Obsolete(Dir(disk'), vs, {compaction'.out})]
  BY DEF Install, BeginRemove
<1>2. versions'.files = (versions.files \ op.edit.deleted) \cup op.edit.new /\ versions'.last = versions.last
  BY <1>1 DEF CrashInv, RecInv, VersionInv, VersionFields, SaveTo, Apply, NoChange
<1>3. /\ op'.at = "remove" /\ op'.call = op.call /\ op'.edit = NoEdit /\ op'.ents = {}
      /\ op'.max_sequence = 0 /\ op'.pos = 0 /\ op'.edit.new = {} /\ op'.edit.deleted = {}
      /\ op'.wals = {}
  BY <1>1, NoOpFields, NoOpSeq DEF OpFields
<1>4. Fewer(disk, disk', none) /\ \A n : n \notin none
  OBVIOUS
<1>5. TypesSeq' /\ FlushSeq' /\ TargetSeq' /\ EditSeq'
  BY <1>2, <1>3, NoTarget DEF TypesSeq, FlushSeq, SeqOK, Logging, Whole
<1>6. PICK v \in op.edit.last : EditUnder(v)
  <2>1. PICK x \in Nat : EditFor(x)
    BY <1>0 DEF CrashInv, RecInv, EditInv
  <2>. QED BY <1>0, <2>1 DEF EditFor, SoundEdit, SeqOK, EditSeq
<1>7. VersionSeq'
  <2>1. /\ v \in Nat /\ versions.last \in Nat /\ v <= versions.last
        /\ Under(disk, op.edit.new, v) /\ Under(disk, News(disk.data[Target]), v)
    BY <1>0, <1>6 DEF EditUnder, SeqOK, TypesSeq
  <2>2. Under(disk, op.edit.new, versions.last) /\ Under(disk, News(disk.data[Target]), versions.last)
    BY <2>1, UnderMore
  <2>3. Under(disk, versions'.files, versions.last)
    BY <1>2, <2>2 DEF Under, SeqOK, VersionSeq
  <2>4. Under(disk', versions'.files, versions.last) /\ Under(disk', News(CurrentOf(disk')), versions.last)
    BY <1>4, <2>2, <2>3, FewerUnder
  <2>. QED BY <1>2, <2>4 DEF VersionSeq
<1>8. EntrySeq'
  <2>1. op.max_sequence <= versions.last /\ op.max_sequence \in Nat /\ versions.last \in Nat
    BY <1>0 DEF SeqOK, EntrySeq, TypesSeq, Whole, Replaying
  <2>2. \A e \in mem \cup UNION imm : Seen2(e, versions, op)
    BY DEF SeqOK, EntrySeq
  <2>3. \A e : Seen2(e, versions, op) => Seen2(e, versions', op')
    BY <1>2, <1>3, <2>1 DEF Seen2
  <2>4. mem' = mem /\ UNION imm' \subseteq UNION imm
    BY <1>1
  <2>5. op'.max_sequence <= versions'.last
    BY <1>2, <1>3, <2>1
  <2>. QED BY <1>3, <2>2, <2>3, <2>4, <2>5 DEF EntrySeq
<1>9. OutSeq'
  <2>. SUFFICES ASSUME compaction' # NoCompaction PROVE OutSeq'
    BY DEF OutSeq
  <2>1. op.call # "compact" /\ compaction' = compaction
    BY <1>1
  <2>2. pc = "opened"
    BY <1>0, <2>1 DEF CrashInv, CallInv
  <2>3. op.edit.deleted = {}
    BY <2>1, <2>2 DEF SeqOK, FlushSeq
  <2>4. CurrentOf(disk') = CurrentOf(disk)
    <3>1. ~NewManifest => ManifestNumber = Dir(disk).cur
      BY <1>0, LogTarget
    <3>2. ~NewManifest
      BY <1>0, <2>2, LogTarget
    <3>. QED BY <3>1, <3>2 DEF CurrentOf, CM, Target
  <2>. QED BY <1>2, <1>3, <2>1, <2>3, <2>4 DEF SeqOK, OutSeq
<1>. QED BY <1>5, <1>7, <1>8, <1>9 DEF SeqOK

LEMMA SyncManifestSeq == CrashInv /\ SeqInv /\ SyncManifest => SeqInv'
<1>. SUFFICES ASSUME CrashInv, SeqInv, SyncManifest PROVE SeqInv'
  OBVIOUS
<1>. PICK k : k = ManifestNumber
  OBVIOUS
<1>. PICK none : none = {}
  OBVIOUS
<1>0. Base(disk)
  BY DirFacts
<1>1. op.at = "sync" /\ op.at \in Logging /\ op.at \in Whole /\ op.at \in {"sync", "rename"}
  BY DEF SyncManifest, Logging, Whole
<1>2. /\ k \in Nat /\ Target = Manifest(k) /\ Target \in Dir(disk).files
  BY <1>1, LogTarget DEF CrashInv, LogState, Target
<1>3. CASE Fail(Abandon(disk))
  <2>1. Evolves(disk, Abandon(disk), AbandonGone, none)
    BY <1>0, AbandonEvolves
  <2>2. /\ \A j \in Nat : j \in none => Dir(disk).cur < j
        /\ AbandonGone \subseteq AbandonGone \cup {Temp(ManifestNumber)}
    OBVIOUS
  <2>3. ~lost => Fewer(disk, Abandon(disk), {}) /\ ContentsOK(Abandon(disk))
    BY <1>0, PlainSteps DEF SeqInv, SeqOK, TypesSeq
  <2>. QED BY <1>1, <1>3, <2>1, <2>2, <2>3, LogFailsSeq
<1>4. CASE ~Fail(Abandon(disk))
  <2>1. disk' = SyncFd(disk, Target) /\ UNCHANGED <<pc, mem, lost>>
    BY <1>4, SyncIs DEF SyncManifest, Target, history
  <2>. SUFFICES ASSUME ~lost PROVE SeqOK'
    BY <2>1 DEF SeqInv
  <2>0. SeqOK /\ CurSeq(disk) /\ ContentsOK(disk)
    BY DEF SeqInv, SeqOK, TypesSeq
  <2>2. Evolves(disk, disk', none, none) /\ Dir(disk') = Dir(disk) /\ disk'.data[Target] = disk.data[Target]
    BY <1>0, <1>2, <2>1, SyncFdEvolves
  <2>3. Fewer(disk, disk', none) /\ ContentsOK(disk')
    BY <1>0, <2>0, <2>1, PlainSteps
  <2>4. CurSeq(disk') /\ (Dir(disk).cur # 0 => CurrentOf(disk') = CurrentOf(disk))
    <3>1. (\A j \in Nat : j \in none => Dir(disk).cur < j) /\ CM(Dir(disk)) \notin none
      OBVIOUS
    <3>. QED BY <2>0, <2>2, <2>3, <3>1, CurSeqKept
  <2>5. Known => Dir(disk).cur # 0
    BY DEF CrashInv, KnownInv
  <2>6. CASE NewManifest
    <3>. PICK a : a = "temp"
      OBVIOUS
    <3>1. /\ op' = [op EXCEPT !.at = a] /\ UNCHANGED <<versions, imm, compaction>>
          /\ a \in Logging /\ a \notin {"create", "snapshot"}
      BY <1>4, <2>6 DEF SyncManifest, Logging, Whole
    <3>2. InOrder(disk', disk'.data[Target])
      <4>1. InOrder(disk, disk.data[Manifest(k)]) /\ k \notin none /\ Manifest(k) \notin none
        BY <1>1, <1>2, <2>0 DEF SeqOK, TargetSeq
      <4>. QED BY <1>2, <2>2, <2>3, <4>1, TargetSeqKept
    <3>3. \A v \in op.edit.last : EditUnder(v) => Under(disk', News(disk'.data[Target]), v)
      <4>1. \A n : n \notin none
        OBVIOUS
      <4>. QED BY <1>1, <2>2, <2>3, <4>1, FewerUnder DEF EditUnder
    <3>4. Known => News(CurrentOf(disk')) \subseteq News(CurrentOf(disk)) \cup op.edit.new
      BY <2>4, <2>5
    <3>. QED BY <1>1, <2>0, <2>1, <2>3, <2>4, <3>1, <3>2, <3>3, <3>4, LogGoesSeq
  <2>7. CASE ~NewManifest
    <3>1. op.call # "newdb" /\ Install(disk')
      BY <1>4, <2>7 DEF SyncManifest, NewManifest
    <3>2. Dir(disk').cur = k /\ k # 0
      BY <1>1, <2>2, <2>7, LogTarget
    <3>3. CurrentOf(disk') = disk.data[Target]
      BY <1>2, <2>2, <3>2 DEF CurrentOf, CM
    <3>. QED BY <1>1, <2>0, <2>1, <2>3, <2>4, <3>1, <3>3, InstallSeq
  <2>. QED BY <2>6, <2>7
<1>. QED BY <1>3, <1>4

LEMMA WriteTempSeq == CrashInv /\ SeqInv /\ WriteTemp => SeqInv'
<1>. SUFFICES ASSUME CrashInv, SeqInv, WriteTemp PROVE SeqInv'
  OBVIOUS
<1>. PICK k : k = ManifestNumber
  OBVIOUS
<1>. PICK none : none = {}
  OBVIOUS
<1>0. Base(disk)
  BY DirFacts
<1>1. op.at = "temp" /\ op.at \in Logging /\ op.at \in Whole
  BY DEF WriteTemp, Logging, Whole
<1>2. /\ k \in Nat /\ Target = Manifest(k) /\ Target \in Dir(disk).files
  BY <1>1, LogTarget DEF CrashInv, LogState, Target
<1>. PICK one : one = NewWritableFile(disk, Temp(k))
  OBVIOUS
<1>. PICK two : two = RemoveFile(one, Temp(k))
  OBVIOUS
<1>. PICK gone : gone = ({} \cup {Temp(k)}) \cup AbandonGone
  OBVIOUS
<1>3. CASE Fail(NotCurrent(two))
  <2>1. Evolves(disk, one, {}, {})
    <3>1. Temp(k) \in Files /\ \A j \in Nat : Temp(k) # Manifest(j)
      BY <1>2, FileNames
    <3>. QED BY <1>0, <3>1, NewFileEvolves
  <2>2. Evolves(one, two, {Temp(k)}, {})
    BY <2>1, RemoveFileEvolves DEF Evolves
  <2>3. Evolves(disk, two, {} \cup {Temp(k)}, {} \cup {})
    BY <2>1, <2>2, EvolvesTwice
  <2>4. Evolves(two, NotCurrent(two), AbandonGone, {})
    BY <2>2, AbandonEvolves DEF Evolves
  <2>5. Evolves(disk, NotCurrent(two), gone, none)
    <3>1. Evolves(disk, NotCurrent(two), ({} \cup {Temp(k)}) \cup AbandonGone, ({} \cup {}) \cup {})
      BY <2>3, <2>4, EvolvesTwice
    <3>2. ({} \cup {}) \cup {} = none
      OBVIOUS
    <3>. QED BY <3>1, <3>2
  <2>6. gone \subseteq AbandonGone \cup {Temp(ManifestNumber)} /\ \A j \in Nat : j \in none => Dir(disk).cur < j
    OBVIOUS
  <2>7. ASSUME ~lost PROVE Fewer(disk, NotCurrent(two), {}) /\ ContentsOK(NotCurrent(two))
    <3>1. ContentsOK(disk) /\ Base(one) /\ Base(two)
      BY <2>1, <2>2, <2>7 DEF SeqInv, SeqOK, TypesSeq, Evolves
    <3>2. Fewer(disk, one, {}) /\ ContentsOK(one)
      BY <1>0, <3>1, PlainSteps
    <3>3. Fewer(one, two, {}) /\ ContentsOK(two)
      BY <3>1, <3>2, PlainSteps
    <3>4. Fewer(two, NotCurrent(two), {}) /\ ContentsOK(NotCurrent(two))
      BY <3>1, <3>3, PlainSteps
    <3>. QED BY <3>2, <3>3, <3>4, FewerTwice
  <2>. QED BY <1>1, <1>3, <2>5, <2>6, <2>7, LogFailsSeq
<1>4. CASE ~Fail(NotCurrent(two))
  <2>. PICK a : a = "rename"
    OBVIOUS
  <2>1. /\ disk' = WriteStringToFileSync(disk, k) /\ op' = [op EXCEPT !.at = a]
        /\ UNCHANGED <<pc, versions, mem, imm, compaction, lost>>
        /\ a \in Logging /\ a \notin {"create", "snapshot"}
    BY <1>4 DEF WriteTemp, history, memory, Logging, Whole
  <2>. SUFFICES ASSUME ~lost PROVE SeqOK'
    BY <2>1 DEF SeqInv
  <2>0. SeqOK /\ CurSeq(disk) /\ ContentsOK(disk)
    BY DEF SeqInv, SeqOK, TypesSeq
  <2>2. Evolves(disk, disk', none, none)
    BY <1>0, <1>2, <2>1, WriteStringEvolves
  <2>3. Fewer(disk, disk', none) /\ ContentsOK(disk')
    BY <1>0, <1>2, <2>0, <2>1, PlainSteps
  <2>4. CurSeq(disk') /\ (Dir(disk).cur # 0 => CurrentOf(disk') = CurrentOf(disk))
    <3>1. (\A j \in Nat : j \in none => Dir(disk).cur < j) /\ CM(Dir(disk)) \notin none
      OBVIOUS
    <3>. QED BY <2>0, <2>2, <2>3, <3>1, CurSeqKept
  <2>5. Known => News(CurrentOf(disk')) \subseteq News(CurrentOf(disk)) \cup op.edit.new
    BY <2>4 DEF CrashInv, KnownInv
  <2>6. InOrder(disk', disk'.data[Target]) /\ disk'.data[Target] = disk.data[Target]
    <3>1. InOrder(disk, disk.data[Manifest(k)]) /\ k \notin none /\ Manifest(k) \notin none
      BY <1>1, <1>2, <2>0 DEF SeqOK, TargetSeq
    <3>. QED BY <1>2, <2>2, <2>3, <3>1, TargetSeqKept
  <2>7. \A v \in op.edit.last : EditUnder(v) => Under(disk', News(disk'.data[Target]), v)
    <3>1. \A n : n \notin none
      OBVIOUS
    <3>. QED BY <1>1, <2>3, <2>6, <3>1, FewerUnder DEF EditUnder
  <2>. QED BY <1>1, <2>0, <2>1, <2>3, <2>4, <2>5, <2>6, <2>7, LogGoesSeq
<1>. QED BY <1>3, <1>4

LEMMA RenameTempSeq == CrashInv /\ SeqInv /\ RenameTemp => SeqInv'
<1>. SUFFICES ASSUME CrashInv, SeqInv, RenameTemp PROVE SeqInv'
  OBVIOUS
<1>. PICK k : k = ManifestNumber
  OBVIOUS
<1>. PICK none : none = {}
  OBVIOUS
<1>0. Base(disk) /\ CurOK(disk) /\ DiskOK(disk) /\ Dir(disk).files \subseteq DOMAIN disk.data
  BY DirFacts
<1>1. op.at = "rename" /\ op.at \in Logging /\ op.at \in Whole /\ op.at \in {"sync", "rename"}
  BY DEF RenameTemp, Logging, Whole
<1>2. /\ k \in Nat /\ Target = Manifest(k) /\ Target \in Dir(disk).files
      /\ Dir(disk).cur < k /\ pc = "opening" /\ (op.call # "newdb" => Known)
  BY <1>1, LogTarget DEF CrashInv, LogState, Target
<1>. PICK two : two = RemoveFile(disk, Temp(k))
  OBVIOUS
<1>3. CASE Fail(NotCurrent(two))
  <2>1. Evolves(disk, two, {Temp(k)}, {})
    BY <1>0, RemoveFileEvolves
  <2>2. Evolves(two, NotCurrent(two), AbandonGone, {})
    BY <2>1, AbandonEvolves DEF Evolves
  <2>. PICK gone : gone = {Temp(k)} \cup AbandonGone
    OBVIOUS
  <2>3. Evolves(disk, NotCurrent(two), gone, none)
    <3>1. Evolves(disk, NotCurrent(two), {Temp(k)} \cup AbandonGone, {} \cup {})
      BY <2>1, <2>2, EvolvesTwice
    <3>2. {} \cup {} = none
      OBVIOUS
    <3>. QED BY <3>1, <3>2
  <2>4. gone \subseteq AbandonGone \cup {Temp(ManifestNumber)} /\ \A j \in Nat : j \in none => Dir(disk).cur < j
    OBVIOUS
  <2>5. ASSUME ~lost PROVE Fewer(disk, NotCurrent(two), {}) /\ ContentsOK(NotCurrent(two))
    <3>1. ContentsOK(disk) /\ Base(two)
      BY <2>1, <2>5 DEF SeqInv, SeqOK, TypesSeq, Evolves
    <3>2. Fewer(disk, two, {}) /\ ContentsOK(two)
      BY <1>0, <3>1, PlainSteps
    <3>3. Fewer(two, NotCurrent(two), {}) /\ ContentsOK(NotCurrent(two))
      BY <3>1, <3>2, PlainSteps
    <3>. QED BY <3>2, <3>3, FewerTwice
  <2>. QED BY <1>1, <1>3, <2>3, <2>4, <2>5, LogFailsSeq
<1>4. CASE ~Fail(NotCurrent(two))
  <2>1. /\ disk' = RenameToCurrent(disk, k) /\ Install(disk')
        /\ UNCHANGED <<pc, mem, lost>>
    BY <1>4 DEF RenameTemp, history
  <2>. SUFFICES ASSUME ~lost PROVE SeqOK'
    BY <2>1 DEF SeqInv
  <2>0. SeqOK /\ CurSeq(disk) /\ ContentsOK(disk)
    BY DEF SeqInv, SeqOK, TypesSeq
  <2>2. disk.synced[Manifest(k)] = Len(disk.data[Manifest(k)]) /\ Complete(disk.data[Manifest(k)])
    BY <1>1, <1>2 DEF CrashInv, LogState
  <2>. PICK new : new = RenameToCurrent(disk, k)
    OBVIOUS
  <2>3. /\ Dir(new).cur = k /\ new.data[Manifest(k)] = disk.data[Manifest(k)]
        /\ \A d \in States(new) : d.cur # 0 =>
              (d \in States(disk) \/ d.cur = k) /\ new.data[CM(d)] = disk.data[CM(d)]
    <3>1. CurOK(disk) /\ Manifest(k) \in Dir(disk).files /\ k \in Nat /\ Dir(disk).cur < k
      BY <1>0, <1>2
    <3>. QED BY <2>2, <3>1, RenameKept
  <2>4. Fewer(disk, new, none) /\ ContentsOK(new)
    BY <1>0, <1>2, <2>0, PlainSteps
  <2>5. ASSUME NEW d \in States(new), d.cur # 0 PROVE InOrder(new, new.data[CM(d)])
    <3>1. InOrder(disk, disk.data[CM(d)]) /\ IsSeq(disk.data[CM(d)])
      <4>1. CASE d \in States(disk)
        <5>1. Leads(disk, d) /\ d.cur \in Nat
          BY <1>0, <2>5, <4>1, StatesOK DEF CurOK
        <5>2. CM(d) \in DOMAIN disk.data
          BY <1>0, <4>1, <5>1, StatesOK DEF Leads
        <5>. QED BY <1>0, <2>0, <2>5, <4>1, <5>1, <5>2 DEF CurSeq, DiskOK, GoodManifest, CM
      <4>2. CASE d.cur = k
        <5>1. CM(d) = Target
          BY <1>2, <4>2 DEF CM
        <5>2. IsSeq(disk.data[Target])
          BY <1>0, <1>2 DEF DiskOK, GoodManifest
        <5>. QED BY <1>1, <2>0, <5>1, <5>2 DEF SeqOK, TargetSeq
      <4>. QED BY <2>3, <2>5, <4>1, <4>2
    <3>2. \A n \in none : n \notin News(disk.data[CM(d)])
      OBVIOUS
    <3>3. new.data[CM(d)] = disk.data[CM(d)]
      BY <2>3, <2>5
    <3>. QED BY <2>4, <3>1, <3>2, <3>3, FewerInOrder
  <2>6. CurSeq(new) /\ CurrentOf(new) = disk.data[Target]
    BY <1>2, <2>3, <2>5 DEF CurSeq, CurrentOf, CM
  <2>8. CASE op.call # "newdb"
    BY <1>1, <2>0, <2>1, <2>4, <2>6, <2>8, InstallSeq
  <2>9. CASE op.call = "newdb"
    <3>1. op' = [NoOp EXCEPT !.call = "open", !.at = "recover"] /\ UNCHANGED <<versions, imm, compaction>>
      BY <2>1, <2>9 DEF Install
    <3>2. /\ op'.call = "open" /\ op'.at = "recover" /\ op'.edit.new = {} /\ op'.edit.deleted = {}
          /\ op'.ents = {} /\ op'.max_sequence = 0 /\ op'.pos = 0 /\ op'.wals = {}
      BY <3>1, NoOpFields, NoOpSeq DEF OpFields
    <3>3. versions.last \in Nat /\ op.max_sequence <= versions.last /\ op.max_sequence \in Nat
      BY <1>1, <2>0 DEF SeqOK, TypesSeq, EntrySeq, Replaying
    <3>4. TypesSeq' /\ FlushSeq'
      BY <2>1, <2>4, <3>1, <3>2, <3>3 DEF TypesSeq, FlushSeq
    <3>5. TargetSeq' /\ EditSeq'
      BY <3>2, NoTarget DEF Logging, Whole
    <3>6. VersionSeq'
      <4>1. versions'.files = {} /\ ~Known'
        BY <2>9, <3>1, <3>2, NewVersionFields DEF CrashInv, RecInv, OpInv, Known
      <4>. QED BY <4>1 DEF VersionSeq, Under
    <3>7. EntrySeq'
      <4>1. \A e \in mem \cup UNION imm : Seen2(e, versions, op)
        BY <2>0 DEF SeqOK, EntrySeq
      <4>2. \A e : Seen2(e, versions, op) => Seen2(e, versions', op')
        BY <3>1, <3>2, <3>3 DEF Seen2
      <4>. QED BY <2>1, <3>1, <3>2, <3>3, <4>1, <4>2 DEF EntrySeq
    <3>8. OutSeq'
      <4>1. compaction' = NoCompaction
        BY <1>2, <3>1 DEF CrashInv, CallInv
      <4>. QED BY <4>1 DEF OutSeq
    <3>. QED BY <2>1, <2>6, <3>4, <3>5, <3>6, <3>7, <3>8 DEF SeqOK
  <2>. QED BY <2>8, <2>9
<1>. QED BY <1>3, <1>4
-----------------------------------------------------------------------------
(***************************************************************************)
(* The open database                                                       *)
(***************************************************************************)

LEMMA CurGoes ==
    ASSUME CrashInv, Known, CurSeq(disk), NEW gone, NEW none, none = {}, Evolves(disk, disk', gone, none),
           CM(Dir(disk)) \notin gone, Fewer(disk, disk', none)
    PROVE  /\ CurSeq(disk') /\ CurrentOf(disk') = CurrentOf(disk) /\ Dir(disk).cur # 0
           /\ CM(Dir(disk')) = CM(Dir(disk)) /\ InOrder(disk', CurrentOf(disk'))
<1>1. Dir(disk).cur # 0 /\ \A k \in Nat : k \in none => Dir(disk).cur < k
  BY DEF CrashInv, KnownInv
<1>2. CurSeq(disk') /\ CurrentOf(disk') = CurrentOf(disk)
  BY <1>1, CurSeqKept
<1>3. Dir(disk').cur = Dir(disk).cur /\ Dir(disk') \in States(disk')
  BY StatesOK DEF Evolves, Base
<1>4. InOrder(disk', CurrentOf(disk'))
  BY <1>1, <1>2, <1>3 DEF CurSeq, CurrentOf
<1>. QED BY <1>1, <1>2, <1>3, <1>4 DEF CM

(* Calls that do not touch what the background thread is at. *)
LEMMA SameCallSeq ==
    ASSUME CrashInv, SeqOK, pc = "opened", pc' = pc, op' = op, compaction' = compaction,
           NEW none, none = {}, Evolves(disk, disk', none, none), Fewer(disk, disk', none), ContentsOK(disk'),
           versions'.files = versions.files, versions'.manifest = versions.manifest,
           versions'.last \in Nat, versions.last <= versions'.last,
           \A e \in mem' \cup UNION imm' : (e \in Nat /\ e <= versions'.last) \/ e \in mem \cup UNION imm
    PROVE  SeqOK'
<1>1. Known /\ op.call # "newdb" /\ op.wals = {}
  BY OpenedKnown, WhileOpened DEF CrashInv
<1>2. /\ CurSeq(disk') /\ CurrentOf(disk') = CurrentOf(disk)
      /\ CM(Dir(disk')) = CM(Dir(disk)) /\ InOrder(disk', CurrentOf(disk'))
  <2>1. CurSeq(disk) /\ CM(Dir(disk)) \notin none
    BY DEF SeqOK
  <2>. QED BY <1>1, <2>1, CurGoes
<1>3. op.at \in Logging => Target = CM(Dir(disk)) /\ ~NewManifest
  BY LogTarget DEF Target, CM
<1>4. Target' = Target
  BY <1>1 DEF Target, ManifestNumber
<1>5. op.at \in Logging => disk'.data[Target'] = CurrentOf(disk') /\ disk.data[Target] = CurrentOf(disk)
  BY <1>2, <1>3, <1>4 DEF CurrentOf
<1>6. TargetSeq'
  BY <1>2, <1>5 DEF TargetSeq, Logging
<1>7. EditSeq'
  <2>. SUFFICES ASSUME op.at \in Logging, NEW v \in op.edit.last PROVE EditUnder(v)'
    BY DEF EditSeq
  <2>1. EditUnder(v) /\ versions.last \in Nat
    BY DEF SeqOK, EditSeq, TypesSeq
  <2>2. v \in Nat /\ v <= versions'.last
    BY <2>1 DEF EditUnder
  <2>. \A n : n \notin none
    OBVIOUS
  <2>3. Under(disk', op.edit.new, v)
    BY <2>1, FewerUnder DEF EditUnder
  <2>4. op.at \in {"create", "snapshot"} => Under(disk', versions.files, v)
    BY <2>1, FewerUnder DEF EditUnder
  <2>5. op.at \in Whole => Under(disk', News(disk'.data[Target']), v)
    <3>1. op.at \in Whole => Under(disk', News(disk.data[Target]), v)
      BY <2>1, FewerUnder DEF EditUnder
    <3>. QED BY <1>2, <1>5, <3>1
  <2>. QED BY <2>2, <2>3, <2>4, <2>5 DEF EditUnder
<1>8. OutSeq' /\ FlushSeq'
  <2>1. FlushSeq'
    BY DEF SeqOK, FlushSeq
  <2>2. OutSeq'
    BY <1>2, OutSeqKept
  <2>. QED BY <2>1, <2>2
<1>9. SeenMore(versions, op, versions', op') /\ op'.max_sequence <= versions'.last
  <2>1. versions.last \in Nat /\ op.max_sequence \in Nat /\ op.max_sequence <= versions.last
    BY DEF SeqOK, TypesSeq, EntrySeq
  <2>. QED BY <2>1 DEF SeenMore
<1>10. \A e \in op'.ents \cup mem' \cup UNION imm' :
           Seen2(e, versions', op') \/ e \in op.ents \cup mem \cup UNION imm
  BY DEF Seen2
<1>11. op'.pos \in Nat /\ \A n \in op'.wals : Wal(n) \in Dir(disk').files
  BY <1>1 DEF SeqOK, TypesSeq
<1>. QED BY <1>1, <1>2, <1>6, <1>7, <1>8, <1>9, <1>10, <1>11, GoesSeq

LEMMA AddEntry ==
    ASSUME NEW dk, Base(dk), ContentsOK(dk), NEW n, NEW e \in Nat, NEW new, new = AddRecord(dk, Wal(n), e)
    PROVE  Fewer(dk, new, {}) /\ ContentsOK(new)
<1>1. /\ SameData(dk, new, {Wal(n)}) /\ DOMAIN new.data = DOMAIN dk.data
      /\ Wal(n) \in DOMAIN dk.data => new.data[Wal(n)] = Append(dk.data[Wal(n)], e)
  BY AddRecordData
<1>2. \A k : Sst(k) # Wal(n)
  BY DEF Sst, Wal
<1>. PICK none : none = {}
  OBVIOUS
<1>3. /\ \A k : Sst(k) \in DOMAIN new.data => Sst(k) \in DOMAIN dk.data
      /\ \A k : Sst(k) \in DOMAIN new.data => new.data[Sst(k)] = <<>> \/ new.data[Sst(k)] = dk.data[Sst(k)]
  BY <1>1, <1>2 DEF SameData
<1>4. IsSeq(<<>>) /\ ToSet(<<>>) = {}
  BY DEF IsSeq, ToSet
<1>5. Fewer(dk, new, {})
  BY <1>1, <1>3, <1>4 DEF Fewer, SstEnts
<1>6. \A k : Sst(k) \in DOMAIN new.data => IsSeq(new.data[Sst(k)])
  BY <1>3, <1>4 DEF ContentsOK
<1>7. ASSUME NEW k, Wal(k) \in DOMAIN new.data
      PROVE  IsSeq(new.data[Wal(k)]) /\ ToSet(new.data[Wal(k)]) \subseteq Nat
  <2>1. Wal(k) \in DOMAIN dk.data /\ IsSeq(dk.data[Wal(k)]) /\ ToSet(dk.data[Wal(k)]) \subseteq Nat
    BY <1>1, <1>7 DEF ContentsOK
  <2>2. CASE Wal(k) = Wal(n)
    <3>. PICK s : s = dk.data[Wal(k)]
      OBVIOUS
    <3>. PICK t : t = Append(s, e)
      OBVIOUS
    <3>1. /\ IsSeq(t) /\ Len(t) = Len(s) + 1 /\ DOMAIN t = 1..(Len(s) + 1)
          /\ (\A i \in 1..Len(s) : t[i] = s[i]) /\ t[Len(s) + 1] = e
      BY <2>1, SeqAppend
    <3>2. Len(s) \in Nat /\ DOMAIN s = 1..Len(s)
      BY <2>1, SeqFacts
    <3>3. \A i \in DOMAIN t : i \in DOMAIN s \/ i = Len(s) + 1
      BY ONLY <3>1, <3>2
    <3>4. \A i \in DOMAIN s : s[i] \in Nat
      BY <2>1 DEF ToSet
    <3>5. \A i \in DOMAIN t : t[i] \in Nat
      BY <3>1, <3>2, <3>3, <3>4
    <3>6. ToSet(t) \subseteq Nat
      BY <3>5 DEF ToSet
    <3>. QED BY <1>1, <2>1, <2>2, <3>1, <3>6
  <2>3. CASE Wal(k) # Wal(n)
    <3>1. new.data[Wal(k)] = <<>> \/ new.data[Wal(k)] = dk.data[Wal(k)]
      BY <1>1, <1>7, <2>3 DEF SameData
    <3>2. {} \subseteq Nat
      OBVIOUS
    <3>. QED BY <1>4, <2>1, <3>1, <3>2
  <2>. QED BY <2>2, <2>3
<1>. QED BY <1>5, <1>6, <1>7 DEF ContentsOK

LEMMA WriteEntrySeq ==
    ASSUME NEW sync \in BOOLEAN, CrashInv, SeqInv, WriteEntry(sync)
    PROVE  SeqInv'
<1>. PICK e : e = versions.last + 1
  OBVIOUS
<1>. PICK f : f = Wal(wal_file_number)
  OBVIOUS
<1>. PICK one : one = AddRecord(disk, f, e)
  OBVIOUS
<1>. PICK none : none = {}
  OBVIOUS
<1>1. /\ disk' = (IF sync THEN Sync(one, f) ELSE one) /\ mem' = mem \cup {e}
      /\ versions' = [versions EXCEPT !.last = e] /\ pc = "opened"
      /\ UNCHANGED <<pc, op, imm, compaction, lost>>
  BY DEF WriteEntry
<1>. SUFFICES ASSUME ~lost PROVE SeqOK'
  BY <1>1 DEF SeqInv
<1>2. SeqOK /\ ContentsOK(disk) /\ Base(disk) /\ versions.last \in Nat /\ e \in Nat /\ versions.last <= e
  BY DirFacts DEF SeqInv, SeqOK, TypesSeq
<1>3. /\ versions'.files = versions.files /\ versions'.manifest = versions.manifest /\ versions'.last = e
  BY <1>1 DEF CrashInv, RecInv, VersionInv, VersionFields
<1>4. Evolves(disk, one, none, none) /\ Base(one)
  <2>1. wal_file_number \in Nat /\ f[1] = "wal"
    BY FileNames DEF CrashInv, RecInv, VersionInv
  <2>. QED BY <1>2, <2>1, AddDataEvolves DEF Evolves
<1>5. Fewer(disk, one, {}) /\ ContentsOK(one)
  BY <1>2, AddEntry
<1>6. Evolves(disk, disk', none, none) /\ Fewer(disk, disk', none) /\ ContentsOK(disk')
  <2>1. CASE ~sync
    BY <1>1, <1>4, <1>5, <2>1
  <2>2. CASE sync
    <3>. PICK new : new = SyncFd(one, f)
      OBVIOUS
    <3>1. disk' = new
      BY <1>1, <2>2, SyncIs
    <3>2. Evolves(one, new, {}, {}) /\ Fewer(one, new, {}) /\ ContentsOK(new)
      BY <1>4, <1>5, SyncFdEvolves, PlainSteps
    <3>3. Evolves(disk, new, none, none) /\ Fewer(disk, new, {})
      BY <1>4, <1>5, <3>2, EvolvesOn, FewerTwice
    <3>. QED BY <3>1, <3>2, <3>3
  <2>. QED BY <2>1, <2>2
<1>7. \A x \in mem' \cup UNION imm' : (x \in Nat /\ x <= versions'.last) \/ x \in mem \cup UNION imm
  BY <1>1, <1>2, <1>3
<1>. QED BY <1>1, <1>2, <1>3, <1>6, <1>7, SameCallSeq

LEMMA SwitchSeq == CrashInv /\ SeqInv /\ Switch => SeqInv'
<1>. SUFFICES ASSUME CrashInv, SeqInv, Switch PROVE SeqInv'
  OBVIOUS
<1>. PICK none : none = {}
  OBVIOUS
<1>. PICK f : f = Wal(versions.next)
  OBVIOUS
<1>1. /\ disk' = NewWritableFile(disk, f) /\ versions' = NewFileNumber(versions)
      /\ mem' = {} /\ imm' = {mem} /\ pc = "opened" /\ UNCHANGED <<pc, op, compaction, lost>>
  BY DEF Switch, history
<1>. SUFFICES ASSUME ~lost PROVE SeqOK'
  BY <1>1 DEF SeqInv
<1>2. SeqOK /\ ContentsOK(disk) /\ Base(disk) /\ versions.last \in Nat
  BY DirFacts DEF SeqInv, SeqOK, TypesSeq
<1>3. /\ versions'.files = versions.files /\ versions'.manifest = versions.manifest
      /\ versions'.last = versions.last
  BY <1>1 DEF CrashInv, RecInv, VersionInv, VersionFields, NewFileNumber
<1>4. f \in Files /\ \A k \in Nat : f = Manifest(k) => k \in none
  <2>1. versions.next \in Nat
    BY DEF CrashInv, RecInv, VersionInv
  <2>. QED BY <2>1, FileNames
<1>5. Evolves(disk, disk', none, none)
  BY <1>1, <1>2, <1>4, NewFileEvolves
<1>6. Fewer(disk, disk', none) /\ ContentsOK(disk')
  BY <1>1, <1>2, PlainSteps
<1>7. \A x \in mem' \cup UNION imm' : (x \in Nat /\ x <= versions'.last) \/ x \in mem \cup UNION imm
  BY <1>1
<1>. QED BY <1>1, <1>2, <1>3, <1>5, <1>6, <1>7, SameCallSeq

LEMMA RemoveOneSeq == CrashInv /\ SeqInv /\ RemoveOne => SeqInv'
<1>. SUFFICES ASSUME CrashInv, SeqInv, RemoveOne PROVE SeqInv'
  OBVIOUS
<1>1. PICK f \in op.todo : disk' = RemoveFile(disk, f) /\ op' = [op EXCEPT !.todo = @ \ {f}]
  BY DEF RemoveOne
<1>2. op.at = "remove" /\ UNCHANGED <<pc, versions, mem, imm, compaction, lost>>
  BY DEF RemoveOne, history, memory
<1>. SUFFICES ASSUME ~lost PROVE SeqOK'
  BY <1>2 DEF SeqInv
<1>3. /\ op'.at = "remove" /\ op'.call = op.call /\ op'.edit = op.edit /\ op'.ents = op.ents
      /\ op'.max_sequence = op.max_sequence /\ op'.pos = op.pos /\ op'.wals = op.wals
  BY <1>1, <1>2 DEF CrashInv, RecInv, OpInv, OpFields
<1>4. Known /\ versions.log_open
  BY <1>2, NewVersionFields, NoOpFields DEF CrashInv, RecInv, LogInv, OpInv, Known, Logging, Whole
<1>. PICK gone : gone = {f}
  OBVIOUS
<1>. PICK none : none = {}
  OBVIOUS
<1>5. Evolves(disk, disk', gone, none) /\ Base(disk)
  BY <1>1, DirFacts, RemoveFileEvolves
<1>6. CM(Dir(disk)) \notin gone
  <2>1. versions.manifest = Dir(disk).cur /\ Dir(disk).cur \in Nat
    BY <1>4, DirFacts DEF CrashInv, KnownInv
  <2>2. f[1] = "manifest" => f[2] < versions.manifest
    BY <1>2 DEF CrashInv, RemoveState
  <2>. QED BY <2>1, <2>2 DEF CM, Manifest
<1>7. SeqOK /\ CurSeq(disk) /\ ContentsOK(disk)
  BY DEF SeqInv, SeqOK, TypesSeq
<1>8. Fewer(disk, disk', none) /\ ContentsOK(disk')
  BY <1>1, <1>5, <1>7, PlainSteps
<1>9. CurSeq(disk') /\ CurrentOf(disk') = CurrentOf(disk)
  BY <1>4, <1>5, <1>6, <1>7, <1>8, CurGoes
<1>10. TargetSeq' /\ EditSeq'
  BY <1>3, NoTarget DEF Logging, Whole
<1>11. OutSeq' /\ FlushSeq'
  <2>1. FlushSeq'
    BY <1>2, <1>3, <1>7 DEF SeqOK, FlushSeq
  <2>2. OutSeq'
    BY <1>2, <1>3, <1>7, <1>9, OutSeqKept
  <2>. QED BY <2>1, <2>2
<1>12. /\ versions.last \in Nat /\ op.max_sequence \in Nat /\ op.max_sequence <= versions.last
       /\ op.pos \in Nat /\ op.wals = {}
  BY <1>2, <1>7 DEF SeqOK, TypesSeq, EntrySeq, Replaying, CrashInv, RecInv, OpInv
<1>13. SeenMore(versions, op, versions', op') /\ op'.max_sequence <= versions'.last
  BY <1>2, <1>3, <1>12 DEF SeenMore
<1>14. op'.pos \in Nat /\ \A n \in op'.wals : Wal(n) \in Dir(disk').files
  BY <1>3, <1>12
<1>. QED BY <1>2, <1>3, <1>4, <1>7, <1>8, <1>9, <1>10, <1>11, <1>13, <1>14, GoesSeq

LEMMA RemoveDoneSeq == CrashInv /\ SeqInv /\ RemoveDone => SeqInv'
<1>. SUFFICES ASSUME CrashInv, SeqInv, RemoveDone PROVE SeqInv'
  OBVIOUS
<1>2. /\ op.at = "remove" /\ UNCHANGED <<disk, versions, mem, imm, compaction, lost>>
      /\ op' = NoOp /\ pc' = "opened"
  BY DEF RemoveDone, history, memory
<1>. SUFFICES ASSUME ~lost PROVE SeqOK'
  BY <1>2 DEF SeqInv
<1>3. /\ op'.at = "none" /\ op'.call = "none" /\ op'.edit.new = {} /\ op'.edit.deleted = {}
      /\ op'.ents = {} /\ op'.max_sequence = 0 /\ op'.pos = 0 /\ op'.wals = {}
  BY <1>2, NoOpFields, NoOpSeq
<1>4. Known /\ versions.log_open
  BY <1>2, NewVersionFields, NoOpFields DEF CrashInv, RecInv, LogInv, OpInv, Known, Logging, Whole
<1>7. SeqOK /\ CurSeq(disk') /\ ContentsOK(disk') /\ Fewer(disk, disk', {})
  BY <1>2, FewerSame DEF SeqInv, SeqOK, TypesSeq
<1>10. TargetSeq' /\ EditSeq'
  BY <1>3, NoTarget DEF Logging, Whole
<1>11. OutSeq' /\ FlushSeq'
  <2>1. op.call = "compact" => compaction = NoCompaction
    BY <1>2, <1>7 DEF SeqOK, OutSeq
  <2>2. OutSeq'
    BY <1>2, <1>3, <1>7, <2>1, OutSeqKept
  <2>. QED BY <1>3, <2>2 DEF FlushSeq
<1>12. /\ versions.last \in Nat /\ op.max_sequence \in Nat /\ op.max_sequence <= versions.last
  BY <1>2, <1>7 DEF SeqOK, TypesSeq, EntrySeq, Replaying
<1>13. SeenMore(versions, op, versions', op') /\ op'.max_sequence <= versions'.last /\ op'.pos \in Nat
  BY <1>2, <1>3, <1>12 DEF SeenMore
<1>. QED BY <1>2, <1>3, <1>4, <1>7, <1>10, <1>11, <1>13, GoesSeq

(* A number that no MANIFEST in use has reached. *)
LEMMA BelowNews ==
    ASSUME CrashInv, Dir(disk).cur # 0, NEW x \in Nat, BelowIn(disk, Dir(disk).cur, x)
    PROVE  x \notin News(CurrentOf(disk))
<1>1. IsSeq(CurrentOf(disk)) /\ CM(Dir(disk)) \in DOMAIN disk.data
  BY CurrentFacts DEF CurrentSeq
<1>2. NewsBelow(CurrentOf(disk), x)
  BY <1>1 DEF BelowIn, CurrentOf, CM
<1>3. \A n \in News(CurrentOf(disk)) : n < x
  BY <1>1, <1>2, NewsIs DEF NewsBelow
<1>4. ~(x < x)
  OBVIOUS
<1>. QED BY <1>3, <1>4

LEMMA VersionKept ==
    ASSUME SeqOK, Known, Fewer(disk, disk', {}), News(CurrentOf(disk')) \subseteq News(CurrentOf(disk)),
           versions'.last \in Nat, versions.last <= versions'.last, versions'.files = versions.files
    PROVE  /\ Under(disk', versions'.files, versions'.last)
           /\ Under(disk', News(CurrentOf(disk')), versions'.last)
<1>1. versions.last \in Nat /\ Under(disk, versions.files, versions.last)
      /\ Under(disk, News(CurrentOf(disk)), versions.last)
  BY DEF SeqOK, VersionSeq, TypesSeq
<1>2. Under(disk, versions.files, versions'.last) /\ Under(disk, News(CurrentOf(disk')), versions'.last)
  BY <1>1, UnderMore
<1>. PICK none : none = {}
  OBVIOUS
<1>3. Fewer(disk, disk', none) /\ \A n : n \notin none
  OBVIOUS
<1>. QED BY <1>2, <1>3, FewerUnder

(* LogAndApply begins with an edit that has all entries under LastSequence. *)
LEMMA RecordSeq ==
    ASSUME Base(disk'), CurSeq(disk'), Dir(disk').cur # 0,
           Under(disk', versions'.files, versions'.last), Under(disk', News(CurrentOf(disk')), versions'.last),
           Under(disk', op'.edit.new, versions'.last),
           versions'.last \in Nat, op'.edit.last = {versions'.last},
           (op'.at = "record" /\ Target' = CM(Dir(disk'))) \/ op'.at = "create"
    PROVE  TargetSeq' /\ EditSeq'
<1>1. op'.at = "create" => op'.at \notin {"snapshot"} \cup Whole
  BY DEF Whole
<1>2. op'.at = "record" => op'.at \notin {"create", "snapshot"}
  OBVIOUS
<1>3. Dir(disk') \in States(disk')
  BY StatesOK DEF Base
<1>4. InOrder(disk', CurrentOf(disk'))
  BY <1>3 DEF CurSeq, CurrentOf
<1>5. TargetSeq'
  BY <1>1, <1>4 DEF TargetSeq, CurrentOf
<1>6. versions'.last <= versions'.last
  OBVIOUS
<1>7. EditSeq'
  <2>. SUFFICES ASSUME NEW v, v = versions'.last PROVE EditUnder(v)'
    BY DEF EditSeq
  <2>1. op'.at \in Whole => Under(disk', News(disk'.data[Target']), v)
    BY <1>1 DEF CurrentOf
  <2>. QED BY <1>2, <1>6, <2>1 DEF EditUnder
<1>. QED BY <1>5, <1>7

LEMMA NewSstSeq ==
    ASSUME CrashInv, SeqOK, Known, disk' = NewWritableFile(disk, Sst(versions.next))
    PROVE  /\ Fewer(disk, disk', {}) /\ ContentsOK(disk') /\ CurSeq(disk') /\ Base(disk')
           /\ CurrentOf(disk') = CurrentOf(disk) /\ versions.next \notin News(CurrentOf(disk'))
           /\ Dir(disk).files \subseteq Dir(disk').files
<1>. PICK none : none = {}
  OBVIOUS
<1>1. Evolves(disk, disk', none, none)
  BY NewSst
<1>2. ContentsOK(disk) /\ CurSeq(disk) /\ Base(disk)
  BY DirFacts DEF SeqOK, TypesSeq
<1>3. Fewer(disk, disk', none) /\ ContentsOK(disk')
  BY <1>2, PlainSteps
<1>4. CM(Dir(disk)) \notin none
  OBVIOUS
<1>5. CurSeq(disk') /\ CurrentOf(disk') = CurrentOf(disk)
  BY <1>1, <1>2, <1>3, <1>4, CurGoes
<1>6. Dir(disk).cur # 0 /\ BelowIn(disk, Dir(disk).cur, versions.next) /\ versions.next \in Nat
  BY DEF CrashInv, KnownInv, RecInv, VersionInv
<1>7. versions.next \notin News(CurrentOf(disk))
  BY <1>6, BelowNews
<1>. QED BY <1>1, <1>3, <1>5, <1>7 DEF Evolves

LEMMA FlushSeqStep == CrashInv /\ SeqInv /\ Flush => SeqInv'
<1>. SUFFICES ASSUME CrashInv, SeqInv, Flush PROVE SeqInv'
  OBVIOUS
<1>. PICK vs : vs = NewFileNumber(versions)
  OBVIOUS
<1>. PICK begin : begin = [NoOp EXCEPT !.call = "flush"]
  OBVIOUS
<1>1. /\ pc = "opened" /\ op = NoOp /\ versions' = vs /\ imm # {}
      /\ UNCHANGED <<pc, mem, imm, compaction, lost>>
  BY DEF Flush, history, memory
<1>. SUFFICES ASSUME ~lost PROVE SeqOK'
  BY <1>1 DEF SeqInv
<1>2. /\ DOMAIN begin = OpFields /\ begin.call = "flush" /\ begin.edit = NoEdit /\ op.edit = NoEdit
      /\ NoEdit.new = {} /\ NoEdit.deleted = {} /\ DOMAIN NoEdit = Tags /\ op.at = "none" /\ op.call = "none"
      /\ begin.max_sequence = 0 /\ begin.pos = 0 /\ begin.wals = {} /\ begin.ents = {}
  BY <1>1, NoOpFields, NoOpSeq DEF OpFields
<1>3. /\ vs.last = versions.last /\ vs.files = versions.files /\ vs.manifest = versions.manifest
  BY DEF CrashInv, RecInv, VersionInv, VersionFields, NewFileNumber
<1>4. Known /\ versions.log_open
  BY <1>1, OpenedKnown
<1>7. /\ SeqOK /\ CurSeq(disk) /\ ContentsOK(disk) /\ Base(disk)
      /\ versions.last \in Nat /\ op.max_sequence = 0
  BY <1>1, DirFacts, NoOpSeq DEF SeqInv, SeqOK, TypesSeq
<1>5. CASE The(imm) = {}
  <2>. PICK edit : edit = [NoEdit EXCEPT !.wal = {wal_file_number}, !.next = {vs.next}, !.last = {vs.last}]
    OBVIOUS
  <2>1. op' = [begin EXCEPT !.at = "record", !.edit = edit] /\ disk' = disk
    BY <1>1, <1>5, Zenon DEF Flush
  <2>2. edit.new = {} /\ edit.deleted = {} /\ edit.last = {versions.last}
    BY <1>2, <1>3 DEF Tags
  <2>3. /\ op'.at = "record" /\ op'.call = "flush" /\ op'.edit.new = {} /\ op'.edit.deleted = {}
        /\ op'.edit.last = {versions.last} /\ op'.max_sequence = 0 /\ op'.pos = 0 /\ op'.wals = {}
        /\ op'.ents = {}
    BY <1>2, <2>1, <2>2 DEF OpFields
  <2>4. Fewer(disk, disk', {}) /\ CurrentOf(disk') = CurrentOf(disk) /\ versions'.last \in Nat
        /\ versions.last <= versions'.last
    BY <1>1, <1>3, <1>7, <2>1, FewerSame
  <2>5. Under(disk', versions'.files, versions'.last) /\ Under(disk', News(CurrentOf(disk')), versions'.last)
    BY <1>1, <1>3, <1>4, <1>7, <2>4, VersionKept
  <2>6. Dir(disk').cur # 0 /\ Target' = CM(Dir(disk'))
    BY <1>1, <1>3, <1>4, <2>1, <2>3 DEF CrashInv, KnownInv, Target, ManifestNumber, CM
  <2>7. TargetSeq' /\ EditSeq'
    <3>1. Under(disk', op'.edit.new, versions'.last)
      BY <2>3 DEF Under
    <3>. QED BY <1>1, <1>3, <1>7, <2>1, <2>3, <2>4, <2>5, <2>6, <3>1, RecordSeq
  <2>8. OutSeq' /\ FlushSeq'
    <3>1. OutSeq'
      BY <1>1, <1>2, <1>3, <1>7, <2>1, <2>3, <2>4, OutSeqKept
    <3>. QED BY <2>3, <3>1 DEF FlushSeq
  <2>9. SeenMore(versions, op, versions', op') /\ op'.max_sequence <= versions'.last /\ op'.pos \in Nat
    BY <1>1, <1>3, <1>7, <2>3 DEF SeenMore
  <2>. QED BY <1>1, <1>2, <1>3, <1>4, <1>7, <2>1, <2>3, <2>4, <2>7, <2>8, <2>9, GoesSeq
<1>6. CASE The(imm) # {}
  <2>1. BeginBuild(begin, The(imm))
    BY <1>1, <1>6, Zenon DEF Flush
  <2>. PICK ents : ents = The(imm)
    OBVIOUS
  <2>2. /\ disk' = NewWritableFile(disk, Sst(versions.next))
        /\ op' = [begin EXCEPT !.at = "build", !.number = versions.next, !.ents = ents]
    BY <2>1 DEF BeginBuild
  <2>3. /\ op'.at = "build" /\ op'.call = "flush" /\ op'.edit = NoEdit /\ op'.ents = ents
        /\ op'.max_sequence = 0 /\ op'.pos = 0 /\ op'.wals = {}
    BY <1>2, <2>2 DEF OpFields
  <2>4. ents \subseteq UNION imm
    BY <1>1 DEF The
  <2>5. /\ Fewer(disk, disk', {}) /\ ContentsOK(disk') /\ CurSeq(disk')
        /\ CurrentOf(disk') = CurrentOf(disk)
    BY <1>4, <1>7, <2>2, NewSstSeq
  <2>6. TargetSeq' /\ EditSeq'
    BY <2>3, NoTarget DEF Logging, Whole
  <2>8. OutSeq' /\ FlushSeq'
    <3>1. OutSeq'
      BY <1>1, <1>2, <1>3, <1>7, <2>3, <2>5, OutSeqKept
    <3>. QED BY <1>2, <2>3, <3>1 DEF FlushSeq
  <2>9. SeenMore(versions, op, versions', op') /\ op'.max_sequence <= versions'.last /\ op'.pos \in Nat
    BY <1>1, <1>3, <1>7, <2>3 DEF SeenMore
  <2>. QED BY <1>1, <1>2, <1>3, <1>4, <1>7, <2>3, <2>4, <2>5, <2>6, <2>8, <2>9, GoesSeq
<1>. QED BY <1>5, <1>6

LEMMA CompactSeq == CrashInv /\ SeqInv /\ Compact => SeqInv'
<1>. SUFFICES ASSUME CrashInv, SeqInv, Compact PROVE SeqInv'
  OBVIOUS
<1>1. /\ pc = "opened" /\ op = NoOp /\ disk' = NewWritableFile(disk, Sst(versions.next))
      /\ versions' = NewFileNumber(versions) /\ compaction'.out = versions.next
      /\ compaction'.in \subseteq versions.files
      /\ UNCHANGED <<pc, op, mem, imm, lost>>
  BY DEF Compact, history, memory
<1>. SUFFICES ASSUME ~lost PROVE SeqOK'
  BY <1>1 DEF SeqInv
<1>2. /\ op'.at = "none" /\ op'.call = "none" /\ op'.edit.new = {} /\ op'.edit.deleted = {}
      /\ op'.wals = {} /\ op'.max_sequence = 0 /\ op'.pos = 0
  BY <1>1, NoOpFields, NoOpSeq
<1>3. /\ versions'.last = versions.last /\ versions'.files = versions.files
  BY <1>1 DEF CrashInv, RecInv, VersionInv, VersionFields, NewFileNumber
<1>4. Known
  BY <1>1, OpenedKnown
<1>5. SeqOK /\ versions.last \in Nat /\ op.max_sequence = 0
  BY <1>1, <1>2 DEF SeqInv, SeqOK, TypesSeq
<1>6. /\ Fewer(disk, disk', {}) /\ ContentsOK(disk') /\ CurSeq(disk')
      /\ CurrentOf(disk') = CurrentOf(disk) /\ versions.next \notin News(CurrentOf(disk'))
  BY <1>1, <1>4, <1>5, NewSstSeq
<1>7. TargetSeq' /\ EditSeq'
  BY <1>2, NoTarget DEF Logging, Whole
<1>8. OutSeq' /\ FlushSeq'
  BY <1>1, <1>2, <1>3, <1>6 DEF OutSeq, FlushSeq
<1>9. SeenMore(versions, op, versions', op') /\ op'.max_sequence <= versions'.last /\ op'.pos \in Nat
  BY <1>1, <1>2, <1>3, <1>5 DEF SeenMore
<1>. QED BY <1>1, <1>2, <1>3, <1>4, <1>5, <1>6, <1>7, <1>8, <1>9, GoesSeq
-----------------------------------------------------------------------------
(***************************************************************************)
(* SST files                                                               *)
(***************************************************************************)

LEMMA BuiltEnts ==
    ASSUME NEW dk, Base(dk), ContentsOK(dk), NEW n \in Nat, NEW ents, NEW b \in Nat,
           \A e \in ents : e \in Nat /\ e <= b, NEW new, new = BuildSST(dk, n, ents)
    PROVE  ContentsOK(new) /\ Fewer(dk, new, {n}) /\ SstEnts(new, n) \subseteq ents
<1>1. /\ SameData(dk, new, {Sst(n)})
      /\ Sst(n) \in DOMAIN new.data => new.data[Sst(n)] \in {<<>>, SetToSeq(ents)}
  BY BuildSSTData
<1>2. IsFiniteSet(ents)
  <2>1. ents \subseteq 0..b
    OBVIOUS
  <2>2. IsFiniteSet(0..b)
    BY FS_Interval
  <2>. QED BY <2>1, <2>2, FS_Subset
<1>3. IsSeq(SetToSeq(ents)) /\ ToSet(SetToSeq(ents)) \subseteq ents
  BY <1>2, SetToSeqIs
<1>4. IsSeq(<<>>) /\ ToSet(<<>>) = {}
  BY DEF IsSeq, ToSet
<1>5. SstEnts(new, n) \subseteq ents
  BY <1>1, <1>3, <1>4 DEF SstEnts
<1>6. \A k : Sst(k) = Sst(n) <=> k = n
  BY DEF Sst
<1>7. \A k : Wal(k) # Sst(n)
  BY DEF Wal, Sst
<1>8. ASSUME NEW k, k # n PROVE SstEnts(new, k) \subseteq SstEnts(dk, k)
  <2>1. Sst(k) \in DOMAIN new.data =>
          new.data[Sst(k)] = <<>> \/ (Sst(k) \in DOMAIN dk.data /\ new.data[Sst(k)] = dk.data[Sst(k)])
    BY <1>1, <1>6, <1>8 DEF SameData
  <2>. QED BY <1>4, <2>1 DEF SstEnts
<1>9. Fewer(dk, new, {n})
  BY <1>8 DEF Fewer
<1>10. ASSUME NEW k, Sst(k) \in DOMAIN new.data PROVE IsSeq(new.data[Sst(k)])
  <2>1. CASE k = n
    BY <1>1, <1>3, <1>4, <1>10, <2>1
  <2>2. CASE k # n
    <3>1. new.data[Sst(k)] = <<>> \/ (Sst(k) \in DOMAIN dk.data /\ new.data[Sst(k)] = dk.data[Sst(k)])
      BY <1>1, <1>6, <1>10, <2>2 DEF SameData
    <3>. QED BY <1>4, <3>1 DEF ContentsOK
  <2>. QED BY <2>1, <2>2
<1>11. ASSUME NEW k, Wal(k) \in DOMAIN new.data
       PROVE  IsSeq(new.data[Wal(k)]) /\ ToSet(new.data[Wal(k)]) \subseteq Nat
  <2>1. new.data[Wal(k)] = <<>> \/ (Wal(k) \in DOMAIN dk.data /\ new.data[Wal(k)] = dk.data[Wal(k)])
    BY <1>1, <1>7, <1>11 DEF SameData
  <2>2. {} \subseteq Nat
    OBVIOUS
  <2>. QED BY <1>4, <2>1, <2>2 DEF ContentsOK
<1>. QED BY <1>5, <1>9, <1>10, <1>11 DEF ContentsOK

(* An SST file is written that no MANIFEST names yet. *)
LEMMA WroteDisk ==
    ASSUME CrashInv, SeqOK, Known, NEW n \in Nat, NEW ents, disk' = BuildSST(disk, n, ents),
           \A e \in ents : Seen2(e, versions, op), n \notin News(CurrentOf(disk)),
           n \notin versions.files \/ \A e \in ents : e <= versions.last
    PROVE  /\ ContentsOK(disk') /\ CurSeq(disk') /\ CurrentOf(disk') = CurrentOf(disk)
           /\ Base(disk') /\ Dir(disk') = Dir(disk) /\ Dir(disk').cur # 0
           /\ Under(disk', versions.files, versions.last)
           /\ Under(disk', News(CurrentOf(disk')), versions.last)
           /\ \A m \in op.edit.new \cup {n} : \A e \in SstEnts(disk', m) : Seen2(e, versions, op)
<1>1. versions.last \in Nat /\ op.max_sequence \in Nat /\ ContentsOK(disk) /\ Base(disk) /\ CurSeq(disk)
  BY DirFacts DEF SeqOK, TypesSeq
<1>. PICK b : b = IF versions.last <= op.max_sequence THEN op.max_sequence ELSE versions.last
  OBVIOUS
<1>2. b \in Nat /\ \A e \in ents : e \in Nat /\ e <= b
  BY <1>1 DEF Seen2
<1>3. ContentsOK(disk') /\ Fewer(disk, disk', {n}) /\ SstEnts(disk', n) \subseteq ents
  BY <1>1, <1>2, BuiltEnts
<1>. PICK none : none = {}
  OBVIOUS
<1>. PICK but : but = {n}
  OBVIOUS
<1>4. Evolves(disk, disk', none, none) /\ States(disk') = {Dir(disk)} /\ Dir(disk') = Dir(disk)
  BY <1>1, BuildSSTEvolves
<1>5. Dir(disk).cur # 0
  BY DEF CrashInv, KnownInv
<1>6. CurSeq(disk') /\ CurrentOf(disk') = CurrentOf(disk)
  <2>1. /\ \A k \in Nat : k \in none => Dir(disk).cur < k
        /\ CM(Dir(disk)) \notin none /\ Fewer(disk, disk', but)
    BY <1>3
  <2>2. \A d \in States(disk') : \A m \in but : d.cur # 0 => m \notin News(disk.data[CM(d)])
    BY <1>4 DEF CurrentOf
  <2>. QED BY <1>1, <1>4, <1>5, <2>1, <2>2, CurSeqKept
<1>7. \A m : m # n => SstEnts(disk', m) \subseteq SstEnts(disk, m)
  BY <1>3 DEF Fewer
<1>8. Under(disk', versions.files, versions.last)
  <2>. SUFFICES ASSUME NEW m \in versions.files, NEW e \in SstEnts(disk', m)
       PROVE  e \in Nat /\ e <= versions.last
    BY DEF Under
  <2>1. CASE m = n
    BY <1>2, <1>3, <2>1
  <2>2. CASE m # n
    BY <1>7, <2>2 DEF SeqOK, VersionSeq, Under
  <2>. QED BY <2>1, <2>2
<1>9. Under(disk', News(CurrentOf(disk')), versions.last)
  BY <1>6, <1>7 DEF SeqOK, VersionSeq, Under
<1>10. \A m \in op.edit.new \cup {n} : \A e \in SstEnts(disk', m) : Seen2(e, versions, op)
  <2>1. \A m \in op.edit.new : \A e \in SstEnts(disk, m) : Seen2(e, versions, op)
    BY DEF SeqOK, EntrySeq
  <2>. QED BY <1>3, <1>7, <2>1
<1>. QED BY <1>3, <1>4, <1>5, <1>6, <1>8, <1>9, <1>10 DEF Evolves

LEMMA LogFields ==
    ASSUME NEW vs, NEW edit, BeginLog(vs, edit), DOMAIN op = OpFields, DOMAIN edit = Tags
    PROVE  /\ op'.at = IF vs.log_open THEN "record" ELSE "create"
           /\ op'.call = op.call /\ op'.edit.new = edit.new /\ op'.edit.last = {vs.last}
           /\ op'.edit.deleted = edit.deleted /\ op'.ents = op.ents /\ op'.wals = op.wals
           /\ op'.max_sequence = op.max_sequence /\ op'.pos = op.pos
<1>. PICK new : new = [edit EXCEPT !.wal = IF @ = {} THEN {vs.wal} ELSE @,
                                   !.next = {vs.next}, !.last = {vs.last}]
  BY Zenon
<1>. PICK a : a = IF vs.log_open THEN "record" ELSE "create"
  OBVIOUS
<1>1. op' = [op EXCEPT !.at = a, !.edit = new]
  BY Zenon DEF BeginLog
<1>2. new.new = edit.new /\ new.last = {vs.last} /\ new.deleted = edit.deleted
  BY DEF Tags
<1>3. op'.at = a /\ op'.edit = new
  BY <1>1 DEF OpFields
<1>4. op'.call = op.call /\ op'.ents = op.ents /\ op'.wals = op.wals
  BY <1>1 DEF OpFields
<1>5. op'.max_sequence = op.max_sequence /\ op'.pos = op.pos
  BY <1>1 DEF OpFields
<1>. QED BY <1>2, <1>3, <1>4, <1>5

LEMMA FinishBuildSeq == CrashInv /\ SeqInv /\ FinishBuild => SeqInv'
<1>. SUFFICES ASSUME CrashInv, SeqInv, FinishBuild PROVE SeqInv'
  OBVIOUS
<1>. PICK none : none = {}
  OBVIOUS
<1>. PICK n : n = op.number
  OBVIOUS
<1>. PICK left : left = RemoveFile(disk, Sst(n))
  OBVIOUS
<1>1. op.at = "build" /\ op.at \in Replaying
  BY DEF FinishBuild, Replaying
<1>2. /\ pc \in {"opening", "opened"} /\ op.call # "newdb" /\ Known /\ n \in Nat
      /\ DOMAIN op = OpFields /\ DOMAIN op.edit = Tags
  BY <1>1, NoOpFields DEF CrashInv, RecInv, OpInv, Known, Logging, Whole
<1>3. /\ Has(Dir(disk), n) /\ BelowIn(disk, Dir(disk).cur, n)
      /\ n \notin versions.files \cup {compaction.out}
  BY <1>1 DEF CrashInv, BuildState
<1>4. Dir(disk).cur # 0 /\ n \notin News(CurrentOf(disk)) /\ Base(disk)
  <2>1. Dir(disk).cur # 0
    BY <1>2 DEF CrashInv, KnownInv
  <2>. QED BY <1>2, <1>3, <2>1, BelowNews, DirFacts
<1>5. CASE Fail(left)
  <2>. PICK gone : gone = {Sst(n)}
    OBVIOUS
  <2>1. disk' = left /\ lost' = lost
    BY <1>5 DEF Fail, history
  <2>2. Evolves(disk, left, gone, none) /\ CM(Dir(disk)) \notin gone
    BY <1>4, RemoveFileEvolves DEF CM, Manifest, Sst
  <2>3. ASSUME ~lost
        PROVE  /\ Fewer(disk, left, {}) /\ ContentsOK(left) /\ CurSeq(left)
               /\ CurrentOf(left) = CurrentOf(disk)
    <3>1. CurSeq(disk) /\ ContentsOK(disk)
      BY <2>3 DEF SeqInv, SeqOK, TypesSeq
    <3>2. Fewer(disk, left, none) /\ ContentsOK(left)
      BY <1>4, <3>1, PlainSteps
    <3>3. Evolves(disk, disk', gone, none) /\ Fewer(disk, disk', none)
      BY <2>1, <2>2, <3>2
    <3>4. CurSeq(disk') /\ CurrentOf(disk') = CurrentOf(disk)
      BY <1>2, <2>2, <3>1, <3>3, CurGoes
    <3>. QED BY <2>1, <3>2, <3>4
  <2>4. ~lost => News(CurrentOf(left)) \subseteq News(CurrentOf(disk))
    BY <2>3
  <2>. QED BY <1>2, <1>5, <2>1, <2>3, <2>4, FailSeq
<1>6. CASE ~Fail(left)
  <2>. PICK ents : ents = op.ents
    OBVIOUS
  <2>. PICK edit : edit = [op.edit EXCEPT !.new = @ \cup {n}]
    OBVIOUS
  <2>1. /\ disk' = BuildSST(disk, n, ents)
        /\ UNCHANGED <<pc, versions, mem, imm, wal_file_number, compaction, lost>>
        /\ IF op.call = "flush" THEN BeginLog(versions, [edit EXCEPT !.wal = {wal_file_number}])
           ELSE op' = [op EXCEPT !.at = "replay", !.edit = edit, !.number = 0, !.ents = {}]
    BY <1>6 DEF FinishBuild, memory, history
  <2>. SUFFICES ASSUME ~lost PROVE SeqOK'
    BY <2>1 DEF SeqInv
  <2>2. SeqOK /\ (\A e \in ents : Seen2(e, versions, op)) /\ versions.last \in Nat /\ op.max_sequence \in Nat
    BY DEF SeqInv, SeqOK, EntrySeq, TypesSeq
  <2>3. /\ ContentsOK(disk') /\ CurSeq(disk') /\ CurrentOf(disk') = CurrentOf(disk)
        /\ Base(disk') /\ Dir(disk') = Dir(disk) /\ Dir(disk').cur # 0
        /\ Under(disk', versions.files, versions.last)
        /\ Under(disk', News(CurrentOf(disk')), versions.last)
        /\ \A m \in op.edit.new \cup {n} : \A e \in SstEnts(disk', m) : Seen2(e, versions, op)
    BY <1>2, <1>3, <1>4, <2>1, <2>2, WroteDisk
  <2>4. /\ edit.new = op.edit.new \cup {n} /\ edit.deleted = op.edit.deleted /\ DOMAIN edit = Tags
    BY <1>2 DEF Tags
  <2>5. VersionSeq'
    BY <2>1, <2>3 DEF VersionSeq
  <2>6. /\ op'.max_sequence = op.max_sequence /\ op'.pos = op.pos /\ op'.wals = op.wals
        /\ op'.call = op.call /\ op'.edit.new = op.edit.new \cup {n}
        /\ op'.edit.deleted = op.edit.deleted /\ op'.ents \subseteq op.ents
        /\ IF op.call = "flush" THEN op'.edit.last = {versions.last} ELSE op'.at = "replay"
        /\ op.call = "flush" => op'.at = IF versions.log_open THEN "record" ELSE "create"
    <3>1. CASE op.call = "flush"
      <4>. PICK more : more = [edit EXCEPT !.wal = {wal_file_number}]
        OBVIOUS
      <4>1. BeginLog(versions, more) /\ more.new = edit.new /\ more.deleted = edit.deleted /\ DOMAIN more = Tags
        BY <2>1, <2>4, <3>1 DEF Tags
      <4>2. /\ op'.at = IF versions.log_open THEN "record" ELSE "create"
            /\ op'.call = op.call /\ op'.edit.new = more.new /\ op'.edit.last = {versions.last}
            /\ op'.edit.deleted = more.deleted /\ op'.ents = op.ents /\ op'.wals = op.wals
            /\ op'.max_sequence = op.max_sequence /\ op'.pos = op.pos
        BY <1>2, <4>1, LogFields
      <4>. QED BY <2>4, <3>1, <4>1, <4>2
    <3>2. CASE op.call # "flush"
      <4>1. op' = [op EXCEPT !.at = "replay", !.edit = edit, !.number = 0, !.ents = {}]
        BY <2>1, <3>2
      <4>. QED BY <1>2, <2>4, <3>2, <4>1 DEF OpFields
    <3>. QED BY <3>1, <3>2
  <2>7. TypesSeq'
    BY <2>1, <2>2, <2>3, <2>6 DEF TypesSeq, SeqOK
  <2>8. FlushSeq'
    BY <2>1, <2>2, <2>6 DEF FlushSeq, SeqOK
  <2>9. OutSeq'
    BY <1>1, <1>3, <2>1, <2>2, <2>3, <2>6 DEF OutSeq, SeqOK
  <2>10. EntrySeq'
    <3>1. \A e : Seen2(e, versions, op) => Seen2(e, versions', op')
      BY <2>1, <2>6 DEF Seen2
    <3>2. \A m \in op'.edit.new : \A e \in SstEnts(disk', m) : Seen2(e, versions', op')
      BY <2>3, <2>6, <3>1
    <3>3. \A e \in op'.ents \cup mem' \cup UNION imm' : Seen2(e, versions', op')
      BY <2>1, <2>2, <2>6, <3>1 DEF SeqOK, EntrySeq
    <3>4. ~(pc' = "opening" /\ op'.at \in Replaying) => op'.max_sequence <= versions'.last
      <4>1. op.call = "flush" => pc = "opened"
        BY DEF CrashInv, RecInv, OpInv
      <4>2. op.call # "flush" => pc = "opening"
        BY <1>1 DEF CrashInv, CallInv
      <4>3. pc = "opened" => op.max_sequence <= versions.last
        BY <2>2 DEF SeqOK, EntrySeq
      <4>. QED BY <2>1, <2>6, <4>1, <4>2, <4>3 DEF Replaying
    <3>. QED BY <3>2, <3>3, <3>4 DEF EntrySeq
  <2>11. TargetSeq' /\ EditSeq'
    <3>1. CASE op.call = "flush"
      <4>1. pc = "opened" /\ versions.log_open
        BY <3>1, OpenedKnown DEF CrashInv, RecInv, OpInv
      <4>2. op.max_sequence <= versions.last
        BY <2>2, <4>1 DEF SeqOK, EntrySeq
      <4>3. \A e : Seen2(e, versions, op) => e \in Nat /\ e <= versions.last
        BY <2>2, <4>2 DEF Seen2
      <4>4. Under(disk', op'.edit.new, versions.last)
        BY <2>3, <2>6, <4>3 DEF Under
      <4>5. op'.at = "record" /\ Target' = CM(Dir(disk'))
        BY <1>2, <2>1, <2>3, <2>6, <3>1, <4>1 DEF CrashInv, KnownInv, Target, ManifestNumber, CM
      <4>. QED BY <2>1, <2>2, <2>3, <2>6, <3>1, <4>4, <4>5, RecordSeq
    <3>2. CASE op.call # "flush"
      BY <2>6, <3>2, NoTarget DEF Logging, Whole
    <3>. QED BY <3>1, <3>2
  <2>. QED BY <2>3, <2>5, <2>7, <2>8, <2>9, <2>10, <2>11 DEF SeqOK
<1>. QED BY <1>5, <1>6

LEMMA FinishCompactionSeq == CrashInv /\ SeqInv /\ FinishCompaction => SeqInv'
<1>. SUFFICES ASSUME CrashInv, SeqInv, FinishCompaction PROVE SeqInv'
  OBVIOUS
<1>. PICK out : out = compaction.out
  OBVIOUS
<1>1. /\ pc = "opened" /\ op = NoOp /\ compaction # NoCompaction
      /\ UNCHANGED <<pc, versions, mem, imm, lost>>
  BY DEF FinishCompaction, history, memory
<1>. SUFFICES ASSUME ~lost PROVE SeqOK'
  BY <1>1 DEF SeqInv
<1>2. /\ Known /\ versions.log_open /\ op.at = "none" /\ op.edit.new = {} /\ op.call = "none"
      /\ op.max_sequence = 0
  BY <1>1, OpenedKnown, NoOpFields, NoOpSeq
<1>3. /\ SeqOK /\ CurSeq(disk) /\ ContentsOK(disk) /\ versions.last \in Nat
      /\ compaction.in \subseteq versions.files /\ out \notin News(CurrentOf(disk)) /\ out \in Nat
  BY <1>1, <1>2 DEF SeqInv, SeqOK, TypesSeq, OutSeq, CrashInv, RecInv, VersionInv
<1>4. CASE compaction' = NoCompaction /\ bg_error' = TRUE /\ UNCHANGED <<disk, op>>
  <2>1. /\ op'.at = "none" /\ op'.call = "none" /\ op'.edit.new = {} /\ op'.edit.deleted = {}
        /\ op'.wals = {} /\ op'.max_sequence = 0 /\ op'.pos = 0
    BY <1>1, <1>4, NoOpFields, NoOpSeq
  <2>2. Fewer(disk, disk', {}) /\ ContentsOK(disk') /\ CurSeq(disk') /\ CurrentOf(disk') = CurrentOf(disk)
    BY <1>3, <1>4, FewerSame
  <2>3. TargetSeq' /\ EditSeq'
    BY <2>1, NoTarget DEF Logging, Whole
  <2>4. OutSeq' /\ FlushSeq'
    BY <1>4, <2>1 DEF OutSeq, FlushSeq
  <2>5. SeenMore(versions, op, versions', op') /\ op'.max_sequence <= versions'.last /\ op'.pos \in Nat
    BY <1>1, <1>2, <1>3, <2>1 DEF SeenMore
  <2>. QED BY <1>1, <1>2, <1>3, <1>4, <2>1, <2>2, <2>3, <2>4, <2>5, GoesSeq
<1>5. CASE ~(compaction' = NoCompaction /\ bg_error' = TRUE /\ UNCHANGED <<disk, op>>)
  <2>. PICK ents : ents = UNION {ToSet(disk.data[Sst(n)]) : n \in compaction.in}
    OBVIOUS
  <2>. PICK edit : edit = [NoEdit EXCEPT !.new = {out}, !.deleted = compaction.in]
    OBVIOUS
  <2>. PICK new : new = [edit EXCEPT !.wal = {versions.wal}, !.next = {versions.next}, !.last = {versions.last}]
    OBVIOUS
  <2>1. /\ disk' = BuildSST(disk, out, ents)
        /\ op' = [NoOp EXCEPT !.call = "compact", !.at = "record", !.edit = new]
        /\ UNCHANGED compaction
    BY <1>5, Zenon DEF FinishCompaction
  <2>2. new.new = {out} /\ new.last = {versions.last}
    BY NoOpFields DEF Tags
  <2>3. /\ op'.call = "compact" /\ op'.at = "record" /\ op'.edit.new = {out} /\ op'.edit.last = {versions.last}
        /\ op'.ents = {} /\ op'.max_sequence = 0 /\ op'.pos = 0 /\ op'.wals = {}
    <3>1. op'.call = "compact" /\ op'.at = "record" /\ op'.edit = new
      BY <2>1, NoOpFields DEF OpFields
    <3>2. op'.ents = NoOp.ents /\ op'.max_sequence = NoOp.max_sequence /\ op'.pos = NoOp.pos
          /\ op'.wals = NoOp.wals
      BY <2>1, NoOpFields DEF OpFields
    <3>. QED BY <2>2, <3>1, <3>2, NoOpSeq
  <2>4. \A e \in ents : e \in Nat /\ e <= versions.last
    <3>1. \A n \in compaction.in : Sst(n) \in DOMAIN disk.data
      BY <1>2, <1>3, DirFacts DEF CrashInv, KnownInv, Has
    <3>2. \A n \in compaction.in : \A e \in ToSet(disk.data[Sst(n)]) : e \in Nat /\ e <= versions.last
      BY <1>3, <3>1 DEF SeqOK, VersionSeq, Under, SstEnts
    <3>. QED BY <3>2
  <2>5. \A e \in ents : Seen2(e, versions, op)
    BY <2>4 DEF Seen2
  <2>6. /\ ContentsOK(disk') /\ CurSeq(disk') /\ CurrentOf(disk') = CurrentOf(disk)
        /\ Base(disk') /\ Dir(disk') = Dir(disk) /\ Dir(disk').cur # 0
        /\ Under(disk', versions.files, versions.last)
        /\ Under(disk', News(CurrentOf(disk')), versions.last)
        /\ \A m \in op.edit.new \cup {out} : \A e \in SstEnts(disk', m) : Seen2(e, versions, op)
    BY <1>2, <1>3, <2>1, <2>4, <2>5, WroteDisk
  <2>7. \A e : Seen2(e, versions, op) => e \in Nat /\ e <= versions.last
    BY <1>2, <1>3 DEF Seen2
  <2>8. TargetSeq' /\ EditSeq'
    <3>1. Under(disk', op'.edit.new, versions.last)
      BY <2>3, <2>6, <2>7 DEF Under
    <3>2. Target' = CM(Dir(disk'))
      BY <1>1, <1>2, <2>3, <2>6 DEF CrashInv, KnownInv, Target, ManifestNumber, CM
    <3>. QED BY <1>1, <1>3, <2>3, <2>6, <3>1, <3>2, RecordSeq
  <2>9. EntrySeq'
    <3>1. \A e : Seen2(e, versions, op) => Seen2(e, versions', op')
      BY <1>1, <2>7 DEF Seen2
    <3>2. \A m \in op'.edit.new : \A e \in SstEnts(disk', m) : Seen2(e, versions', op')
      BY <2>3, <2>6, <3>1
    <3>3. \A e \in op'.ents \cup mem' \cup UNION imm' : Seen2(e, versions', op')
      BY <1>1, <1>3, <2>3, <3>1 DEF SeqOK, EntrySeq
    <3>4. op'.max_sequence <= versions'.last
      BY <1>1, <1>3, <2>3
    <3>. QED BY <3>2, <3>3, <3>4 DEF EntrySeq
  <2>10. TypesSeq' /\ VersionSeq' /\ FlushSeq'
    BY <1>1, <1>3, <2>3, <2>6 DEF TypesSeq, VersionSeq, FlushSeq
  <2>11. OutSeq'
    BY <1>1, <1>3, <2>1, <2>3 DEF OutSeq
  <2>. QED BY <2>6, <2>8, <2>9, <2>10, <2>11 DEF SeqOK
<1>. QED BY <1>4, <1>5
-----------------------------------------------------------------------------
(***************************************************************************)
(* RecoverWalFile                                                          *)
(***************************************************************************)

LEMMA RestFacts ==
    ASSUME CrashInv, SeqOK, op.at = "replay", op.wals # {}
    PROVE  IsSeq(Rest) /\ ToSet(Rest) \subseteq Nat
<1>1. FirstWal \in op.wals
  BY WhileReplaying DEF CrashInv
<1>. PICK w : w = disk.data[Wal(FirstWal)]
  OBVIOUS
<1>2. IsSeq(w) /\ ToSet(w) \subseteq Nat /\ op.pos \in Nat
  <2>1. Wal(FirstWal) \in DOMAIN disk.data
    BY <1>1, DirFacts DEF SeqOK, TypesSeq
  <2>. QED BY <2>1 DEF SeqOK, TypesSeq, ContentsOK
<1>3. Len(w) \in Nat /\ op.pos + 1 \in Nat /\ 1 <= op.pos + 1 /\ Len(w) <= Len(w)
  <2>1. Len(w) \in Nat
    BY <1>2, SeqFacts
  <2>. QED BY <1>2, <2>1
<1>4. IsSeq(SubSeq(w, op.pos + 1, Len(w))) /\ ToSet(SubSeq(w, op.pos + 1, Len(w))) \subseteq ToSet(w)
  BY ONLY <1>2, <1>3, PartOf
<1>5. Rest = SubSeq(w, op.pos + 1, Len(w))
  BY DEF Rest
<1>. QED BY <1>2, <1>4, <1>5

LEMMA SeenFacts ==
    ASSUME SeqOK, NEW s, IsSeq(s), ToSet(s) \subseteq Nat
    PROVE  Seen(s) \in Nat /\ op.max_sequence <= Seen(s) /\ \A e \in ToSet(s) : e <= Seen(s)
<1>1. op.max_sequence \in Nat
  BY DEF SeqOK, TypesSeq
<1>. QED BY <1>1, MaxOf DEF Seen

(* Records of a WAL file are read, into a memtable or an SST file. *)
LEMMA ReplayGoes ==
    ASSUME CrashInv, SeqOK, op.at = "replay", NEW s, IsSeq(s), ToSet(s) \subseteq Nat,
           op'.max_sequence = Seen(s), op'.edit = op.edit, op'.at \in Replaying, op'.pos \in Nat,
           op'.wals \subseteq op.wals, op'.ents \cup mem' \subseteq ToSet(s) \cup op.ents \cup mem,
           UNCHANGED <<pc, imm, compaction>>,
           versions'.last = versions.last, versions'.files = versions.files,
           disk' = disk \/ disk' = NewWritableFile(disk, Sst(versions.next))
    PROVE  SeqOK'
<1>1. Known /\ pc = "opening" /\ compaction = NoCompaction
  BY ReplayKnown DEF CrashInv, CallInv
<1>2. /\ Fewer(disk, disk', {}) /\ ContentsOK(disk') /\ CurSeq(disk')
      /\ CurrentOf(disk') = CurrentOf(disk) /\ Dir(disk).files \subseteq Dir(disk').files
  <2>1. CASE disk' = disk
    BY <2>1, FewerSame DEF SeqOK, TypesSeq
  <2>2. CASE disk' = NewWritableFile(disk, Sst(versions.next))
    BY <1>1, <2>2, NewSstSeq
  <2>. QED BY <2>1, <2>2
<1>3. /\ versions.last \in Nat /\ op.max_sequence \in Nat /\ Seen(s) \in Nat
      /\ op.max_sequence <= Seen(s) /\ \A e \in ToSet(s) : e <= Seen(s)
  BY SeenFacts DEF SeqOK, TypesSeq
<1>4. SeenMore(versions, op, versions', op')
  BY <1>3 DEF SeenMore
<1>5. \A e \in op'.ents \cup mem' \cup UNION imm' :
          Seen2(e, versions', op') \/ e \in op.ents \cup mem \cup UNION imm
  <2>1. \A e \in ToSet(s) : Seen2(e, versions', op')
    BY <1>3 DEF Seen2
  <2>. QED BY <2>1
<1>6. TargetSeq' /\ EditSeq'
  BY NoTarget DEF Logging, Whole, Replaying
<1>7. OutSeq' /\ FlushSeq'
  BY <1>1 DEF OutSeq, FlushSeq
<1>8. \A n \in op'.wals : Wal(n) \in Dir(disk').files
  BY <1>2 DEF SeqOK, TypesSeq
<1>. QED BY <1>1, <1>2, <1>4, <1>5, <1>6, <1>7, <1>8, GoesSeq

LEMMA ReplayFullSeq == CrashInv /\ SeqInv /\ ReplayFull => SeqInv'
<1>. SUFFICES ASSUME CrashInv, SeqInv, ReplayFull PROVE SeqInv'
  OBVIOUS
<1>. PICK part : part = SubSeq(Rest, 1, WriteBufferSize + 1)
  OBVIOUS
<1>. PICK o : o = [op EXCEPT !.pos = @ + Len(part), !.max_sequence = Seen(part), !.save = TRUE]
  OBVIOUS
<1>. PICK ents : ents = ToSet(part)
  OBVIOUS
<1>1. /\ op.at = "replay" /\ versions' = NewFileNumber(versions) /\ op.wals # {}
      /\ Len(Rest) > WriteBufferSize /\ UNCHANGED <<pc, mem, imm, compaction, lost>>
  BY DEF ReplayFull, history, memory
<1>. SUFFICES ASSUME ~lost PROVE SeqOK'
  BY <1>1 DEF SeqInv
<1>2. SeqOK /\ op.pos \in Nat
  BY DEF SeqInv, SeqOK, TypesSeq
<1>3. BeginBuild(o, ents)
  BY Zenon DEF ReplayFull
<1>4. /\ DOMAIN o = OpFields /\ o.edit = op.edit /\ o.wals = op.wals
      /\ o.pos = op.pos + Len(part) /\ o.max_sequence = Seen(part)
  BY <1>1, ReplayKnown DEF OpFields
<1>5. /\ disk' = NewWritableFile(disk, Sst(versions.next)) /\ op'.at = "build" /\ op'.ents = ents
      /\ op'.edit = op.edit /\ op'.wals = op.wals /\ op'.pos = o.pos /\ op'.max_sequence = Seen(part)
  BY <1>3, <1>4 DEF BeginBuild, OpFields
<1>6. IsSeq(part) /\ ToSet(part) \subseteq Nat
  <2>1. IsSeq(Rest) /\ ToSet(Rest) \subseteq Nat
    BY <1>1, <1>2, RestFacts
  <2>2. WriteBufferSize \in Nat /\ Len(Rest) \in Nat
    BY <2>1, SeqFacts, RecoveryAssumption
  <2>3. WriteBufferSize + 1 \in Nat /\ WriteBufferSize + 1 <= Len(Rest) /\ 1 <= 1
    BY <1>1, <2>2
  <2>4. IsSeq(part) /\ ToSet(part) \subseteq ToSet(Rest)
    BY <2>1, <2>3, PartOf
  <2>. QED BY <2>1, <2>4
<1>7. op'.pos \in Nat
  <2>. PICK l : l = Len(part)
    OBVIOUS
  <2>1. l \in Nat
    BY <1>6, SeqFacts
  <2>2. op'.pos = op.pos + l
    BY <1>4, <1>5
  <2>. QED BY ONLY <1>2, <2>1, <2>2
<1>8. versions'.last = versions.last /\ versions'.files = versions.files
  BY <1>1 DEF CrashInv, RecInv, VersionInv, VersionFields, NewFileNumber
<1>9. op'.at \in Replaying
  BY <1>5 DEF Replaying
<1>. QED BY <1>1, <1>2, <1>5, <1>6, <1>7, <1>8, <1>9, ReplayGoes

LEMMA NextWalSeq ==
    ASSUME NEW o, DOMAIN o = OpFields, NEW next, next = NextWal(o)
    PROVE  /\ DOMAIN next = OpFields /\ next.pos = 0 /\ next.max_sequence = Seen(Rest)
           /\ next.ents = o.ents /\ next.edit = o.edit /\ next.wals \subseteq o.wals /\ next.at = o.at
BY DEF NextWal, OpFields

LEMMA MarkKeeps ==
    ASSUME NEW vs, DOMAIN vs = VersionFields, NEW n
    PROVE  /\ MarkFileNumberAsUsed(vs, n).last = vs.last /\ MarkFileNumberAsUsed(vs, n).files = vs.files
           /\ NewFileNumber(vs).last = vs.last /\ NewFileNumber(vs).files = vs.files
           /\ DOMAIN NewFileNumber(vs) = VersionFields
BY DEF MarkFileNumberAsUsed, NewFileNumber, VersionFields

LEMMA ReplayReuseSeq == CrashInv /\ SeqInv /\ ReplayReuse => SeqInv'
<1>. SUFFICES ASSUME CrashInv, SeqInv, ReplayReuse PROVE SeqInv'
  OBVIOUS
<1>1. /\ op.at = "replay" /\ op.wals # {} /\ mem' = ToSet(Rest)
      /\ versions' = MarkFileNumberAsUsed(versions, FirstWal) /\ op' = NextWal(op)
      /\ UNCHANGED <<disk, pc, imm, compaction, lost>>
  BY DEF ReplayReuse, history
<1>. SUFFICES ASSUME ~lost PROVE SeqOK'
  BY <1>1 DEF SeqInv
<1>2. SeqOK /\ IsSeq(Rest) /\ ToSet(Rest) \subseteq Nat
  BY <1>1, RestFacts DEF SeqInv
<1>3. /\ op'.pos = 0 /\ op'.max_sequence = Seen(Rest) /\ op'.ents = op.ents /\ op'.edit = op.edit
      /\ op'.wals \subseteq op.wals /\ op'.at \in Replaying
  BY <1>1, ReplayKnown, NextWalSeq
<1>4. versions'.last = versions.last /\ versions'.files = versions.files
  BY <1>1, MarkKeeps DEF CrashInv, RecInv, VersionInv
<1>5. op'.pos \in Nat /\ op'.ents \cup mem' \subseteq ToSet(Rest) \cup op.ents \cup mem
  BY <1>1, <1>3
<1>. QED BY <1>1, <1>2, <1>3, <1>4, <1>5, ReplayGoes

LEMMA ReplayEndSeq == CrashInv /\ SeqInv /\ ReplayEnd => SeqInv'
<1>. SUFFICES ASSUME CrashInv, SeqInv, ReplayEnd PROVE SeqInv'
  OBVIOUS
<1>1. op.at = "replay" /\ op.wals # {} /\ UNCHANGED <<pc, mem, imm, compaction, lost>>
  BY DEF ReplayEnd, history, memory
<1>. SUFFICES ASSUME ~lost PROVE SeqOK'
  BY <1>1 DEF SeqInv
<1>2. SeqOK /\ IsSeq(Rest) /\ ToSet(Rest) \subseteq Nat
  BY <1>1, RestFacts DEF SeqInv
<1>. PICK next : next = NextWal(op)
  OBVIOUS
<1>3. /\ DOMAIN next = OpFields /\ next.pos = 0 /\ next.max_sequence = Seen(Rest)
      /\ next.ents = op.ents /\ next.edit = op.edit /\ next.wals \subseteq op.wals /\ next.at = "replay"
  BY <1>1, ReplayKnown, NextWalSeq
<1>4. CASE Rest = <<>>
  <2>1. versions' = MarkFileNumberAsUsed(versions, FirstWal) /\ op' = next /\ disk' = disk
    BY <1>4 DEF ReplayEnd
  <2>2. versions'.last = versions.last /\ versions'.files = versions.files
    BY <2>1, MarkKeeps DEF CrashInv, RecInv, VersionInv
  <2>3. op'.pos \in Nat /\ op'.at \in Replaying /\ op'.ents \cup mem' \subseteq ToSet(Rest) \cup op.ents \cup mem
    BY <1>1, <1>3, <2>1 DEF Replaying
  <2>. QED BY <1>1, <1>2, <1>3, <2>1, <2>2, <2>3, ReplayGoes
<1>5. CASE Rest # <<>>
  <2>. PICK o : o = [next EXCEPT !.save = TRUE]
    OBVIOUS
  <2>. PICK ents : ents = ToSet(Rest)
    OBVIOUS
  <2>. PICK v : v = NewFileNumber(versions)
    OBVIOUS
  <2>1. BeginBuild(o, ents) /\ versions' = MarkFileNumberAsUsed(v, FirstWal)
    BY <1>5, Zenon DEF ReplayEnd
  <2>2. /\ DOMAIN o = OpFields /\ o.edit = op.edit /\ o.pos = 0 /\ o.max_sequence = Seen(Rest)
        /\ o.wals \subseteq op.wals
    BY <1>3 DEF OpFields
  <2>3. /\ disk' = NewWritableFile(disk, Sst(versions.next)) /\ op'.at = "build" /\ op'.ents = ents
        /\ op'.edit = op.edit /\ op'.pos = 0 /\ op'.max_sequence = Seen(Rest) /\ op'.wals \subseteq op.wals
    BY <2>1, <2>2 DEF BeginBuild, OpFields
  <2>4. versions'.last = versions.last /\ versions'.files = versions.files
    BY <2>1, MarkKeeps DEF CrashInv, RecInv, VersionInv
  <2>5. op'.pos \in Nat /\ op'.at \in Replaying /\ op'.ents \cup mem' \subseteq ToSet(Rest) \cup op.ents \cup mem
    BY <1>1, <2>3 DEF Replaying
  <2>. QED BY <1>1, <1>2, <2>3, <2>4, <2>5, ReplayGoes
<1>. QED BY <1>4, <1>5
-----------------------------------------------------------------------------
(***************************************************************************)
(* Open and Recover, and the end of the process                            *)
(***************************************************************************)

(* FinishRecover brings LastSequence and max_sequence together. *)
LEMMA Greater ==
    ASSUME NEW a \in Nat, NEW b \in Nat
    PROVE  Max({a, b}) \in Nat /\ a <= Max({a, b}) /\ b <= Max({a, b})
<1>1. {a, b} \in SUBSET Nat /\ a \in {a, b} /\ b \in {a, b}
  OBVIOUS
<1>2. CASE a <= b
  <2>1. \A y \in {a, b} : y <= b
    BY <1>2
  <2>2. Max({a, b}) = b
    BY <1>1, <2>1, MaxIs
  <2>. QED BY <1>2, <2>2
<1>3. CASE b <= a
  <2>1. \A y \in {a, b} : y <= a
    BY <1>3
  <2>2. Max({a, b}) = a
    BY <1>1, <2>1, MaxIs
  <2>. QED BY <1>3, <2>2
<1>. QED BY <1>2, <1>3

LEMMA FinishRecoverSeq == CrashInv /\ SeqInv /\ FinishRecover => SeqInv'
<1>. SUFFICES ASSUME CrashInv, SeqInv, FinishRecover PROVE SeqInv'
  OBVIOUS
<1>. PICK none : none = {}
  OBVIOUS
<1>. DEFINE reused == wal_file_number # 0
            seen == [versions EXCEPT !.last = Max({@, op.max_sequence})]
            vs == IF reused THEN seen ELSE NewFileNumber(seen)
            num == IF reused THEN wal_file_number ELSE seen.next
<1>1. /\ op.at = "replay" /\ Known /\ pc = "opening" /\ op.call # "newdb" /\ op.at # "sync"
      /\ op.wals = {} /\ compaction = NoCompaction /\ DOMAIN op = OpFields /\ DOMAIN op.edit = Tags
  BY ReplayKnown DEF FinishRecover, CrashInv, CallInv
<1>2. CASE Fail(disk)
  <2>1. lost' = lost
    BY <1>2 DEF Fail, history
  <2>2. lost \/ (Fewer(disk, disk, {}) /\ ContentsOK(disk) /\ CurSeq(disk))
    BY FewerSame DEF SeqInv, SeqOK, TypesSeq
  <2>. QED BY <1>1, <1>2, <2>1, <2>2, FailSeq
<1>3. ASSUME disk' = IF reused THEN disk ELSE NewWritableFile(disk, Wal(num)),
             versions' = vs,
             IF op.save THEN BeginLog(vs, [op.edit EXCEPT !.wal = {num}]) /\ UNCHANGED compaction
             ELSE UNCHANGED compaction /\ BeginRemove(disk', vs),
             UNCHANGED <<pc, mem, imm, bg_error, lost>>
      PROVE  SeqInv'
  <2>. SUFFICES ASSUME ~lost PROVE SeqOK'
    BY <1>3 DEF SeqInv
  <2>1. SeqOK /\ versions.last \in Nat /\ op.max_sequence \in Nat /\ ContentsOK(disk) /\ CurSeq(disk)
        /\ op.pos \in Nat
    BY DEF SeqInv, SeqOK, TypesSeq
  <2>. PICK e : e = Max({versions.last, op.max_sequence})
    OBVIOUS
  <2>2. e \in Nat /\ versions.last <= e /\ op.max_sequence <= e
    BY <2>1, Greater
  <2>3. seen.last = e /\ Bumped(versions, seen) /\ seen.next = versions.next /\ seen.log_open = versions.log_open
    <3>1. seen = [versions EXCEPT !.last = e]
      OBVIOUS
    <3>2. DOMAIN versions = VersionFields
      BY DEF CrashInv, RecInv, VersionInv
    <3>3. Bumped(versions, seen) /\ seen.next = versions.next
      BY <3>1, BumpedLast DEF CrashInv
    <3>. HIDE DEF seen
    <3>. QED BY <3>1, <3>2, <3>3 DEF VersionFields, Bumped
  <2>. HIDE DEF seen
  <2>4. vs.last = e /\ Bumped(versions, vs) /\ num \in Nat
    <3>1. CASE reused
      BY <2>3, <3>1, Numbered DEF CrashInv
    <3>2. CASE ~reused
      BY <2>3, <3>2, BumpedNew, Numbered DEF CrashInv
    <3>. QED BY <3>1, <3>2
  <2>5. /\ Evolves(disk, disk', none, none) /\ Fewer(disk, disk', none) /\ ContentsOK(disk')
        /\ Base(disk')
    <3>1. CASE reused
      BY <1>3, <2>1, <3>1, DirFacts, EvolvesSame, FewerSame
    <3>2. CASE ~reused
      <4>. HIDE DEF num
      <4>1. disk' = NewWritableFile(disk, Wal(num))
        BY <1>3, <3>2
      <4>2. Wal(num) \in Files /\ \A k \in Nat : Wal(num) # Manifest(k)
        BY <2>4, FileNames
      <4>3. Evolves(disk, disk', none, none)
        BY <4>1, <4>2, DirFacts, NewFileEvolves
      <4>. QED BY <2>1, <4>1, <4>3, DirFacts, PlainSteps DEF Evolves
    <3>. QED BY <3>1, <3>2
  <2>. HIDE DEF num, vs
  <2>6. /\ CurSeq(disk') /\ CurrentOf(disk') = CurrentOf(disk) /\ Dir(disk).cur # 0
        /\ CM(Dir(disk')) = CM(Dir(disk))
    <3>1. CM(Dir(disk)) \notin none
      OBVIOUS
    <3>. QED BY <1>1, <2>1, <2>5, <3>1, CurGoes
  <2>7. versions'.last = e /\ versions'.files = versions.files /\ versions'.manifest = versions.manifest
    BY <1>3, <2>4 DEF Bumped
  <2>8. /\ Under(disk', versions'.files, versions'.last)
        /\ Under(disk', News(CurrentOf(disk')), versions'.last)
    BY <1>1, <2>1, <2>2, <2>5, <2>6, <2>7, VersionKept
  <2>9. CASE op.save
    <3>. PICK edit : edit = [op.edit EXCEPT !.wal = {num}]
      OBVIOUS
    <3>1. DOMAIN edit = Tags /\ edit.new = op.edit.new
      BY <1>1 DEF Tags
    <3>2. BeginLog(vs, edit)
      BY <1>3, <2>9
    <3>3. /\ op'.at = IF vs.log_open THEN "record" ELSE "create"
          /\ op'.call = op.call /\ op'.edit.new = edit.new /\ op'.edit.last = {vs.last}
          /\ op'.ents = op.ents /\ op'.wals = op.wals
          /\ op'.max_sequence = op.max_sequence /\ op'.pos = op.pos
      BY <1>1, <3>1, <3>2, LogFields
    <3>4. TargetSeq' /\ EditSeq'
      <4>1. Under(disk', op'.edit.new, versions'.last)
        <5>1. \A n \in op.edit.new : \A x \in SstEnts(disk, n) : Seen2(x, versions, op)
          BY <2>1 DEF SeqOK, EntrySeq
        <5>2. \A x : Seen2(x, versions, op) => x \in Nat /\ x <= e
          BY <2>1, <2>2 DEF Seen2
        <5>3. \A n : SstEnts(disk', n) \subseteq SstEnts(disk, n)
          BY <2>5 DEF Fewer
        <5>. QED BY <2>7, <3>1, <3>3, <5>1, <5>2, <5>3 DEF Under
      <4>2. Dir(disk').cur # 0
        BY <2>6 DEF CM, Manifest
      <4>3. op'.at = "record" => Target' = CM(Dir(disk'))
        <5>1. vs.log_open => versions.manifest = Dir(disk).cur
          BY <1>1, <2>4 DEF CrashInv, KnownInv, Bumped
        <5>2. op'.at = "record" => versions'.manifest = Dir(disk).cur
          BY <2>7, <3>3, <5>1
        <5>. QED BY <1>1, <2>6, <3>3, <5>2 DEF Target, ManifestNumber, CM
      <4>4. op'.edit.last = {versions'.last} /\ versions'.last \in Nat
        BY <1>3, <2>2, <2>7, <3>3
      <4>5. op'.at \in {"record", "create"}
        BY <3>3
      <4>. QED BY <2>5, <2>6, <2>8, <4>1, <4>2, <4>3, <4>4, <4>5, RecordSeq
    <3>5. compaction' = NoCompaction /\ pc' # "opened"
      BY <1>1, <1>3, <2>9
    <3>6. OutSeq' /\ FlushSeq'
      BY <3>5 DEF OutSeq, FlushSeq
    <3>7. SeenMore(versions, op, versions', op') /\ op'.max_sequence <= versions'.last
      BY <2>1, <2>2, <2>7, <3>3 DEF SeenMore
    <3>. QED BY <1>1, <1>3, <2>1, <2>5, <2>6, <2>7, <3>1, <3>3, <3>4, <3>6, <3>7, GoesSeq
  <2>10. CASE ~op.save
    <3>. PICK s : s = IF bg_error THEN {} ELSE Obsolete(Dir(disk'), vs, {compaction'.out})
      OBVIOUS
    <3>1. op' = [NoOp EXCEPT !.call = op.call, !.at = "remove", !.todo = s] /\ UNCHANGED compaction
      BY <1>3, <2>10, Zenon DEF BeginRemove
    <3>2. /\ op'.at = "remove" /\ op'.call = op.call /\ op'.edit = NoOp.edit /\ op'.ents = NoOp.ents
          /\ op'.wals = NoOp.wals /\ op'.pos = NoOp.pos /\ op'.max_sequence = NoOp.max_sequence
      BY <3>1, NoOpFields DEF OpFields
    <3>3. TargetSeq' /\ EditSeq'
      BY <3>2, NoTarget DEF Logging, Whole
    <3>4. compaction' = NoCompaction /\ pc' # "opened"
      BY <1>1, <1>3, <3>1
    <3>5. OutSeq' /\ FlushSeq'
      BY <3>4 DEF OutSeq, FlushSeq
    <3>6. op'.edit.new = {} /\ op'.ents = {} /\ op'.wals = {} /\ op'.pos = 0 /\ op'.max_sequence = 0
      BY <3>2, NoOpSeq
    <3>7. SeenMore(versions, op, versions', op') /\ op'.max_sequence <= versions'.last
      BY <2>1, <2>2, <2>7, <3>6 DEF SeenMore
    <3>. QED BY <1>1, <1>3, <2>1, <2>5, <2>6, <2>7, <3>3, <3>5, <3>6, <3>7, GoesSeq
  <2>. QED BY <2>9, <2>10
<1>4. \/ Fail(disk)
      \/ /\ disk' = IF reused THEN disk ELSE NewWritableFile(disk, Wal(num))
         /\ versions' = vs
         /\ IF op.save THEN BeginLog(vs, [op.edit EXCEPT !.wal = {num}]) /\ UNCHANGED compaction
            ELSE UNCHANGED compaction /\ BeginRemove(disk', vs)
         /\ UNCHANGED <<pc, mem, imm, bg_error, lost>>
  BY DEF FinishRecover, history
<1>. HIDE DEF reused, seen, vs, num
<1>. QED BY <1>2, <1>3, <1>4

LEMMA OpenSeq == CrashInv /\ SeqInv /\ Open => SeqInv'
<1>. SUFFICES ASSUME CrashInv, SeqInv, Open PROVE SeqInv'
  OBVIOUS
<1>. PICK edit : edit = [NoEdit EXCEPT !.wal = {0}, !.next = {2}, !.last = {0}]
  OBVIOUS
<1>1. /\ pc = "closed" /\ pc' = "opening" /\ UNCHANGED <<disk, versions, mem, imm, compaction, lost>>
      /\ op' = IF Dir(disk).cur = 0 THEN [NoOp EXCEPT !.call = "newdb", !.at = "create", !.edit = edit]
               ELSE [NoOp EXCEPT !.call = "open", !.at = "recover"]
  BY Zenon DEF Open, memory
<1>. SUFFICES ASSUME ~lost PROVE SeqOK'
  BY <1>1 DEF SeqInv
<1>2. SeqOK /\ op = NoOp /\ versions = NewVersionSet /\ compaction = NoCompaction
  BY <1>1 DEF SeqInv, CrashInv, CallInv, RecInv, OpInv
<1>3. edit.new = {} /\ edit.last = {0}
  BY NoOpFields DEF Tags
<1>4. \/ op'.call = "newdb" /\ op'.at = "create" /\ op'.edit = edit
      \/ op'.at = "recover" /\ op'.edit = NoOp.edit
  BY <1>1, NoOpFields DEF OpFields
<1>5. /\ op'.ents = NoOp.ents /\ op'.wals = NoOp.wals /\ op'.pos = NoOp.pos
      /\ op'.max_sequence = NoOp.max_sequence
  BY <1>1, NoOpFields DEF OpFields
<1>6. /\ op'.edit.new = {} /\ op'.ents = {} /\ op'.wals = {} /\ op'.pos = 0 /\ op'.max_sequence = 0
      /\ versions'.last = 0 /\ versions'.files = {} /\ ~Known' /\ op'.at \in {"create", "recover"}
      /\ op'.at = "create" => op'.edit.last = {0}
  <2>1. op'.edit.new = {} /\ op'.ents = {} /\ op'.wals = {} /\ op'.pos = 0 /\ op'.max_sequence = 0
    BY <1>3, <1>4, <1>5, NoOpSeq
  <2>2. versions'.last = 0 /\ versions'.files = {}
    BY <1>1, <1>2, NoOpSeq
  <2>. QED BY <1>3, <1>4, <2>1, <2>2 DEF Known
<1>7. TypesSeq' /\ CurSeq(disk') /\ VersionSeq'
  BY <1>1, <1>2, <1>6 DEF SeqOK, TypesSeq, VersionSeq, Under
<1>8. TargetSeq' /\ OutSeq' /\ FlushSeq'
  BY <1>1, <1>2, <1>6 DEF TargetSeq, OutSeq, FlushSeq, Whole
<1>9. EntrySeq'
  <2>1. \A e \in mem \cup UNION imm : Seen2(e, versions, op)
    BY <1>2 DEF SeqOK, EntrySeq
  <2>2. \A e : Seen2(e, versions, op) => Seen2(e, versions', op')
    BY <1>1, <1>2, <1>6, NoOpSeq DEF Seen2
  <2>. QED BY <1>1, <1>6, <2>1, <2>2 DEF EntrySeq
<1>10. EditSeq'
  BY <1>6 DEF EditSeq, EditUnder, Under, Logging, Whole
<1>. QED BY <1>7, <1>8, <1>9, <1>10 DEF SeqOK

LEMMA EndSeq == CrashInv /\ SeqInv /\ (Close \/ Die \/ RecoverCorrupt) => SeqInv'
<1>. SUFFICES ASSUME CrashInv, SeqInv, Close \/ Die \/ RecoverCorrupt PROVE SeqInv'
  OBVIOUS
<1>1. pc' \in {"closed", "corrupt"} /\ Forget /\ UNCHANGED <<disk, lost>>
  BY DEF Close, Die, RecoverCorrupt, history
<1>2. lost' \/ (ContentsOK(disk') /\ CurSeq(disk'))
  BY <1>1 DEF SeqInv, SeqOK, TypesSeq
<1>. QED BY <1>1, <1>2, ForgetSeq

LEMMA RecoverSeq == CrashInv /\ SeqInv /\ Recover => SeqInv'
<1>. SUFFICES ASSUME CrashInv, SeqInv, Recover PROVE SeqInv'
  OBVIOUS
<1>. PICK dir : dir = Dir(disk)
  OBVIOUS
<1>. PICK recs : recs = disk.data[Manifest(dir.cur)]
  OBVIOUS
<1>. PICK m : m = ReadManifest(Records(recs))
  OBVIOUS
<1>. PICK v : v = The(m.last)
  OBVIOUS
<1>. PICK w : w = The(m.wal)
  OBVIOUS
<1>. PICK x : x = The(m.next)
  OBVIOUS
<1>. DEFINE vs == [manifest |-> x, log_open |-> FALSE, next |-> x + 1,
                   last |-> v, wal |-> w, files |-> m.files]
            begin == [op EXCEPT !.at = "replay", !.wals = WalsFrom(dir, vs.wal)]
<1>1. /\ op.at = "recover" /\ Openable(disk, Dir(disk))
      /\ UNCHANGED <<disk, pc, mem, imm, compaction, lost>>
  BY DEF Recover, memory
<1>. SUFFICES ASSUME ~lost PROVE SeqOK'
  BY <1>1 DEF SeqInv
<1>2. \/ versions' = [vs EXCEPT !.manifest = dir.cur, !.log_open = TRUE] /\ op' = begin
      \/ versions' = vs /\ op' = [begin EXCEPT !.save = TRUE]
  BY Zenon DEF Recover
<1>3. SeqOK /\ dir.cur # 0 /\ dir \in States(disk) /\ recs = CurrentOf(disk)
  BY <1>1, DirFacts DEF SeqInv, CrashInv, CallInv, CurrentOf, CM
<1>4. GoodManifest(dir.cur, recs) /\ IsSeq(recs) /\ InOrder(disk, recs)
  <2>1. GoodManifest(dir.cur, recs) /\ IsSeq(recs)
    BY <1>3, CurrentFacts DEF CurrentSeq
  <2>2. InOrder(disk, recs)
    BY <1>3 DEF SeqOK, CurSeq, CM
  <2>. QED BY <2>1, <2>2
<1>5. m = ReadManifest(recs) /\ m.last # {}
  BY <1>1, <1>4, RecordsRead, Zenon DEF Openable
<1>6. m.last = LastField(recs, "last") /\ m.files = FilesOf(recs)
  <2>. PICK some : some = FilesOf(recs)
    OBVIOUS
  <2>1. m = [wal |-> LastField(recs, "wal"), next |-> LastField(recs, "next"),
             last |-> LastField(recs, "last"), files |-> some]
    BY <1>5, Zenon DEF ReadManifest, FilesOf
  <2>. QED BY <2>1
<1>7. v \in Nat /\ Under(disk, News(recs), v)
  BY <1>4, <1>5, <1>6, ReadLast
<1>8. Under(disk, m.files, v)
  BY <1>4, <1>6, <1>7, FilesNamed DEF Under
<1>. PICK files : files = m.files
  OBVIOUS
<1>. PICK wals : wals = WalsFrom(dir, w)
  OBVIOUS
<1>9. versions'.last = v /\ versions'.files = files
  <2>1. DOMAIN vs = VersionFields /\ vs.last = v /\ vs.files = files
    BY DEF VersionFields
  <2>. HIDE DEF vs
  <2>2. versions' = vs \/ versions' = [vs EXCEPT !.manifest = dir.cur, !.log_open = TRUE]
    BY <1>2
  <2>. QED BY <2>1, <2>2 DEF VersionFields
<1>10. /\ op'.at = "replay" /\ op'.call = op.call /\ op'.edit = op.edit /\ op'.ents = op.ents
       /\ op'.wals = wals /\ op'.pos = op.pos /\ op'.max_sequence = op.max_sequence
  <2>1. begin = [op EXCEPT !.at = "replay", !.wals = wals]
    OBVIOUS
  <2>. HIDE DEF begin
  <2>2. op' = begin \/ op' = [begin EXCEPT !.save = TRUE]
    BY <1>2
  <2>3. DOMAIN op = OpFields
    BY DEF CrashInv, RecInv, OpInv
  <2>4. /\ begin.at = "replay" /\ begin.call = op.call /\ begin.edit = op.edit /\ begin.ents = op.ents
        /\ begin.wals = wals /\ begin.pos = op.pos /\ begin.max_sequence = op.max_sequence
        /\ DOMAIN begin = OpFields
    BY <2>1, <2>3 DEF OpFields
  <2>. QED BY <2>2, <2>4 DEF OpFields
<1>. HIDE DEF begin, vs
<1>11. versions.last = 0 /\ pc = "opening" /\ compaction = NoCompaction
  <2>1. op # NoOp /\ op.call # "newdb" /\ versions = NewVersionSet
    BY <1>1, NoOpFields DEF CrashInv, RecInv, OpInv, Logging, Whole
  <2>2. pc = "opening"
    BY <2>1, NewVersionFields DEF CrashInv, RecInv, OpInv, LogInv
  <2>. QED BY <2>1, <2>2, NoOpSeq DEF CrashInv, CallInv
<1>12. op.max_sequence \in Nat /\ op.pos \in Nat
  BY <1>3 DEF SeqOK, TypesSeq
<1>13. TypesSeq'
  <2>1. \A n \in wals : Wal(n) \in dir.files
    <3>1. \A f \in dir.files : f = <<f[1], f[2]>>
      <4>1. dir \in Dirs
        BY <1>3, DirFacts, StatesOK
      <4>. QED BY <4>1 DEF Dirs, Files
    <3>. QED BY <3>1 DEF WalsFrom, Numbers, Wal
  <2>. QED BY <1>1, <1>3, <1>7, <1>9, <1>10, <1>12, <2>1 DEF SeqOK, TypesSeq
<1>14. VersionSeq'
  BY <1>1, <1>3, <1>7, <1>8, <1>9 DEF VersionSeq
<1>15. EntrySeq'
  <2>1. \A e : Seen2(e, versions, op) => Seen2(e, versions', op')
    BY <1>7, <1>9, <1>10, <1>11, <1>12 DEF Seen2
  <2>2. \A n \in op'.edit.new : \A e \in SstEnts(disk', n) : Seen2(e, versions', op')
    BY <1>1, <1>3, <1>10, <2>1 DEF SeqOK, EntrySeq
  <2>3. \A e \in op'.ents \cup mem' \cup UNION imm' : Seen2(e, versions', op')
    BY <1>1, <1>3, <1>10, <2>1 DEF SeqOK, EntrySeq
  <2>. QED BY <1>1, <1>10, <1>11, <2>2, <2>3 DEF EntrySeq, Replaying
<1>16. TargetSeq' /\ EditSeq' /\ OutSeq' /\ FlushSeq'
  BY <1>1, <1>10, <1>11, NoTarget DEF Logging, Whole, OutSeq, FlushSeq
<1>. QED BY <1>1, <1>3, <1>13, <1>14, <1>15, <1>16 DEF SeqOK

(* A state of the disk that files are left shorter in. *)
LEMMA CutContents ==
    ASSUME NEW dk, ContentsOK(dk), NEW new, DOMAIN new.data \subseteq DOMAIN dk.data,
           \A f \in DOMAIN new.data : f[1] # "manifest" =>
               \/ new.data[f] = dk.data[f]
               \/ \E l \in Nat : l <= Len(dk.data[f]) /\ new.data[f] = SubSeq(dk.data[f], 1, l)
    PROVE  Fewer(dk, new, {}) /\ ContentsOK(new)
<1>1. \A n : Sst(n)[1] # "manifest" /\ Wal(n)[1] # "manifest"
  BY DEF Sst, Wal
<1>2. ASSUME NEW f \in DOMAIN new.data, f[1] # "manifest", IsSeq(dk.data[f])
      PROVE  IsSeq(new.data[f]) /\ ToSet(new.data[f]) \subseteq ToSet(dk.data[f])
  <2>1. CASE new.data[f] = dk.data[f]
    BY <1>2, <2>1
  <2>2. CASE new.data[f] # dk.data[f]
    <3>1. PICK l \in Nat : l <= Len(dk.data[f]) /\ new.data[f] = SubSeq(dk.data[f], 1, l)
      BY <1>2, <2>2
    <3>2. 1 \in Nat /\ 1 <= 1
      OBVIOUS
    <3>. QED BY <1>2, <3>1, <3>2, PartOf
  <2>. QED BY <2>1, <2>2
<1>3. ContentsOK(new)
  <2>1. \A n : Sst(n) \in DOMAIN new.data => IsSeq(new.data[Sst(n)])
    BY <1>1, <1>2 DEF ContentsOK
  <2>2. \A n : Wal(n) \in DOMAIN new.data => IsSeq(new.data[Wal(n)]) /\ ToSet(new.data[Wal(n)]) \subseteq Nat
    BY <1>1, <1>2 DEF ContentsOK
  <2>. QED BY <2>1, <2>2 DEF ContentsOK
<1>4. \A n : SstEnts(new, n) \subseteq SstEnts(dk, n)
  <2>. SUFFICES ASSUME NEW n, Sst(n) \in DOMAIN new.data PROVE SstEnts(new, n) \subseteq SstEnts(dk, n)
    BY DEF SstEnts
  <2>1. Sst(n) \in DOMAIN dk.data /\ IsSeq(dk.data[Sst(n)])
    BY DEF ContentsOK
  <2>2. ToSet(new.data[Sst(n)]) \subseteq ToSet(dk.data[Sst(n)])
    BY <1>1, <1>2, <2>1
  <2>. QED BY <2>1, <2>2 DEF SstEnts
<1>. QED BY <1>3, <1>4 DEF Fewer

LEMMA PowerFailsSeq == CrashInv /\ SeqInv /\ PowerFails => SeqInv'
<1>. SUFFICES ASSUME CrashInv, SeqInv, PowerFails PROVE SeqInv'
  OBVIOUS
<1>1. /\ pc = "closed" /\ UNCHANGED <<pc, op, versions, mem, imm, compaction>>
      /\ lost' = (lost \/ lax)
  BY DEF PowerFails, processVars
<1>. SUFFICES ASSUME ~lost PROVE SeqOK'
  <2>1. lost => lost'
    BY <1>1, Zenon
  <2>. QED BY <2>1 DEF SeqInv
<1>2. PICK i \in DOMAIN disk.dir, torn \in BOOLEAN :
         LET dir == disk.dir[i]
             loose == {f \in dir.files : disk.synced[f] < Len(disk.data[f])}
         IN  \E len \in [loose -> UNION {0..Len(disk.data[f]) : f \in loose}] :
               /\ \A f \in loose : len[f] >= disk.synced[f] /\ len[f] <= Len(disk.data[f])
               /\ disk' = LET data == [f \in dir.files |-> IF f \in loose THEN CutTo(f, len[f], torn)
                                                           ELSE disk.data[f]]
                          IN  [dir |-> <<dir>>, data |-> data, synced |-> [f \in dir.files |-> Len(data[f])]]
  BY Zenon DEF PowerFails
<1>. PICK dir : dir = disk.dir[i]
  OBVIOUS
<1>. PICK loose : loose = {f \in dir.files : disk.synced[f] < Len(disk.data[f])}
  OBVIOUS
<1>3. PICK len \in [loose -> UNION {0..Len(disk.data[f]) : f \in loose}] :
         /\ \A f \in loose : len[f] >= disk.synced[f] /\ len[f] <= Len(disk.data[f])
         /\ disk' = LET data == [f \in dir.files |-> IF f \in loose THEN CutTo(f, len[f], torn)
                                                     ELSE disk.data[f]]
                    IN  [dir |-> <<dir>>, data |-> data, synced |-> [f \in dir.files |-> Len(data[f])]]
  BY <1>2, Zenon
<1>. PICK new : new = disk'
  OBVIOUS
<1>4. /\ new.dir = <<dir>> /\ DOMAIN new.data = dir.files
      /\ \A f \in dir.files : new.data[f] = IF f \in loose THEN CutTo(f, len[f], torn) ELSE disk.data[f]
  BY <1>3
<1>5. dir \in States(disk) /\ CurOK(disk) /\ DiskOK(disk) /\ dir.files \subseteq DOMAIN disk.data
  <2>1. dir \in States(disk)
    BY DEF States
  <2>. QED BY <2>1, DirFacts, StatesOK
<1>6. ASSUME NEW f \in loose
      PROVE  /\ len[f] \in Nat /\ len[f] <= Len(disk.data[f])
             /\ CutTo(f, len[f], torn) = SubSeq(disk.data[f], 1, len[f])
                \/ (f[1] = "manifest"
                    /\ CutTo(f, len[f], torn) = Append(SubSeq(disk.data[f], 1, len[f]), Torn))
  <2>. PICK l : l = len[f]
    OBVIOUS
  <2>1. PICK m : l \in 0..m
    <3>1. l \in UNION {0..Len(disk.data[g]) : g \in loose}
      BY <1>3
    <3>. QED BY <3>1
  <2>2. l \in Nat /\ l <= Len(disk.data[f])
    BY <1>3, <2>1
  <2>3. CutTo(f, l, torn) = SubSeq(disk.data[f], 1, l)
        \/ (f[1] = "manifest" /\ CutTo(f, l, torn) = Append(SubSeq(disk.data[f], 1, l), Torn))
    BY Zenon DEF CutTo
  <2>. QED BY <2>2, <2>3
<1>7. SeqOK
  BY DEF SeqInv
<1>8. Fewer(disk, new, {}) /\ ContentsOK(new)
  <2>1. \A f \in DOMAIN new.data : f[1] # "manifest" =>
            \/ new.data[f] = disk.data[f]
            \/ \E l \in Nat : l <= Len(disk.data[f]) /\ new.data[f] = SubSeq(disk.data[f], 1, l)
    <3>. SUFFICES ASSUME NEW f \in dir.files, f \in loose, f[1] # "manifest"
         PROVE  \E l \in Nat : l <= Len(disk.data[f]) /\ new.data[f] = SubSeq(disk.data[f], 1, l)
      BY <1>4
    <3>. PICK l : l = len[f]
      OBVIOUS
    <3>1. l \in Nat /\ l <= Len(disk.data[f]) /\ CutTo(f, l, torn) = SubSeq(disk.data[f], 1, l)
      BY <1>6
    <3>2. new.data[f] = CutTo(f, l, torn)
      BY <1>4
    <3>. QED BY <3>1, <3>2
  <2>. QED BY <1>4, <1>5, <1>7, <2>1, CutContents DEF SeqOK, TypesSeq
<1>9. CurSeq(new)
  <2>1. States(new) = {dir}
    BY <1>4 DEF States
  <2>. SUFFICES ASSUME dir.cur # 0 PROVE InOrder(new, new.data[CM(dir)])
    BY <2>1 DEF CurSeq
  <2>. PICK f : f = CM(dir)
    OBVIOUS
  <2>. PICK recs : recs = disk.data[f]
    OBVIOUS
  <2>. PICK none : none = {}
    OBVIOUS
  <2>2. f \in dir.files /\ IsSeq(recs) /\ InOrder(disk, recs) /\ Fewer(disk, new, none) /\ Len(recs) \in Nat
    <3>1. f \in dir.files
      BY <1>5 DEF CurOK, Leads
    <3>2. GoodManifest(dir.cur, recs)
      BY <1>5, <3>1, StatesOK
    <3>3. InOrder(disk, recs)
      BY <1>5, <1>7 DEF SeqOK, CurSeq
    <3>. QED BY <1>8, <3>1, <3>2, <3>3, SeqFacts DEF GoodManifest
  <2>3. ASSUME NEW left, IsSeq(left), InOrder(disk, left) PROVE InOrder(new, left)
    <3>1. \A n \in none : n \notin News(left)
      OBVIOUS
    <3>. QED BY <2>2, <2>3, <3>1, FewerInOrder
  <2>4. CASE f \notin loose
    BY <1>4, <2>2, <2>3, <2>4
  <2>5. CASE f \in loose
    <3>. PICK l : l = len[f]
      OBVIOUS
    <3>1. l \in Nat /\ l <= Len(recs) /\ new.data[f] \in {SubSeq(recs, 1, l), Append(SubSeq(recs, 1, l), Torn)}
      <4>1. /\ l \in Nat /\ l <= Len(disk.data[f])
            /\ CutTo(f, l, torn) = SubSeq(disk.data[f], 1, l)
               \/ CutTo(f, l, torn) = Append(SubSeq(disk.data[f], 1, l), Torn)
        BY <1>6, <2>5
      <4>2. new.data[f] = CutTo(f, l, torn)
        BY <1>4, <2>2, <2>5
      <4>. QED BY <4>1, <4>2, Zenon
    <3>2. l \in 0..Len(recs)
      <4>1. l \in Nat /\ l <= Len(recs) /\ Len(recs) \in Nat
        BY <2>2, <3>1, Zenon
      <4>. QED BY ONLY <4>1
    <3>. PICK rest : rest = SubSeq(recs, 1, l)
      OBVIOUS
    <3>3. IsSeq(rest) /\ InOrder(disk, rest)
      BY <2>2, <3>2, SeqPrefix, InOrderPrefix
    <3>4. IsSeq(Append(rest, Torn)) /\ InOrder(disk, Append(rest, Torn))
      BY <3>3, SeqAppend, InOrderTorn
    <3>5. new.data[f] = rest \/ new.data[f] = Append(rest, Torn)
      BY <3>1, Zenon
    <3>. QED BY <2>3, <3>3, <3>4, <3>5, Zenon
  <2>. QED BY <2>4, <2>5
<1>10. op = NoOp /\ versions = NewVersionSet /\ compaction = NoCompaction
  BY <1>1 DEF CrashInv, RecInv, OpInv, CallInv
<1>11. /\ op'.at = "none" /\ op'.edit.new = {} /\ op'.wals = {} /\ versions'.files = {} /\ ~Known'
  BY <1>1, <1>10, NoOpFields, NoOpSeq DEF Known
<1>12. TypesSeq' /\ VersionSeq'
  BY <1>1, <1>7, <1>8, <1>11 DEF SeqOK, TypesSeq, VersionSeq, Under
<1>13. EntrySeq'
  BY <1>1, <1>7, <1>11 DEF SeqOK, EntrySeq, Seen2
<1>14. TargetSeq' /\ EditSeq' /\ OutSeq' /\ FlushSeq'
  BY <1>1, <1>10, <1>11, NoTarget DEF OutSeq, FlushSeq, Logging, Whole
<1>. QED BY <1>9, <1>12, <1>13, <1>14 DEF SeqOK
-----------------------------------------------------------------------------
(***************************************************************************)
(* SequenceFresh                                                           *)
(***************************************************************************)

LEMMA InitSeq == Init => SeqInv
<1>. SUFFICES ASSUME Init PROVE SeqInv
  OBVIOUS
<1>1. /\ op = NoOp /\ versions = NewVersionSet /\ compaction = NoCompaction /\ mem = {} /\ imm = {}
      /\ pc = "closed" /\ disk = EmptyDisk
  BY DEF Init
<1>2. disk.data = <<>> /\ DOMAIN disk.data = {} /\ disk.dir = <<EmptyDir>>
  BY <1>1 DEF EmptyDisk
<1>3. States(disk) = {EmptyDir} /\ EmptyDir.cur = 0
  <2>1. DOMAIN disk.dir = {1} /\ disk.dir[1] = EmptyDir
    BY <1>2
  <2>. QED BY <2>1 DEF States, EmptyDir
<1>4. op.at = "none" /\ ~Known
  BY <1>1, NoOpFields DEF Known
<1>5. TypesSeq
  BY <1>1, <1>2, NoOpSeq DEF TypesSeq, ContentsOK
<1>6. CurSeq(disk)
  BY <1>3 DEF CurSeq
<1>7. VersionSeq /\ EntrySeq
  BY <1>1, <1>4, NoOpSeq DEF VersionSeq, EntrySeq, Under
<1>8. TargetSeq /\ EditSeq /\ OutSeq /\ FlushSeq
  BY <1>1, <1>4 DEF TargetSeq, EditSeq, OutSeq, FlushSeq, Logging, Whole
<1>. QED BY <1>5, <1>6, <1>7, <1>8 DEF SeqInv, SeqOK

LEMMA StutterSeq == SeqInv /\ UNCHANGED vars => SeqInv'
<1>. SUFFICES ASSUME SeqInv, UNCHANGED vars PROVE SeqInv'
  OBVIOUS
<1>1. UNCHANGED <<disk, pc, op, versions, mem, imm, compaction, lost>>
  BY Zenon DEF vars, processVars
<1>. SUFFICES ASSUME SeqOK PROVE SeqOK'
  BY <1>1 DEF SeqInv
<1>2. Target' = Target
  BY <1>1 DEF Target, ManifestNumber
<1>3. TypesSeq' /\ CurSeq(disk') /\ TargetSeq'
  BY <1>1, <1>2 DEF SeqOK, TypesSeq, TargetSeq
<1>4. VersionSeq' /\ EntrySeq'
  BY <1>1 DEF SeqOK, VersionSeq, EntrySeq, Known, Seen2
<1>5. EditSeq'
  BY <1>1, <1>2 DEF SeqOK, EditSeq, EditUnder
<1>6. OutSeq' /\ FlushSeq'
  BY <1>1 DEF SeqOK, OutSeq, FlushSeq
<1>. QED BY <1>3, <1>4, <1>5, <1>6 DEF SeqOK

LEMMA NextSeq == CrashInv /\ SeqInv /\ [Next]_vars => SeqInv'
<1>. SUFFICES ASSUME CrashInv, SeqInv, [Next]_vars PROVE SeqInv'
  OBVIOUS
<1>1. CASE UNCHANGED vars
  BY <1>1, StutterSeq
<1>2. CASE Open \/ Recover
  BY <1>2, OpenSeq, RecoverSeq
<1>3. CASE ReplayFull \/ ReplayReuse \/ ReplayEnd \/ FinishRecover
  BY <1>3, ReplayFullSeq, ReplayReuseSeq, ReplayEndSeq, FinishRecoverSeq
<1>4. CASE CreateManifest \/ WriteSnapshot \/ WriteEdit \/ SyncManifest \/ WriteTemp \/ RenameTemp
  BY <1>4, CreateManifestSeq, WriteSnapshotSeq, WriteEditSeq, SyncManifestSeq, WriteTempSeq, RenameTempSeq
<1>5. CASE FinishBuild \/ RemoveOne \/ RemoveDone
  BY <1>5, FinishBuildSeq, RemoveOneSeq, RemoveDoneSeq
<1>6. CASE \E sync \in BOOLEAN : WriteEntry(sync)
  BY <1>6, WriteEntrySeq
<1>7. CASE Switch \/ Flush \/ Compact \/ FinishCompaction
  BY <1>7, SwitchSeq, FlushSeqStep, CompactSeq, FinishCompactionSeq
<1>8. CASE Close \/ Die \/ RecoverCorrupt
  BY <1>8, EndSeq
<1>9. CASE PowerFails
  BY <1>9, PowerFailsSeq
<1>. QED BY <1>1, <1>2, <1>3, <1>4, <1>5, <1>6, <1>7, <1>8, <1>9, Zenon DEF Next

(* The sequence number that DBImpl::Write gives next is above that of every *)
(* entry the open database serves, whatever part of the WAL files and of    *)
(* the MANIFEST a crash left; with the exception that the property states.  *)
THEOREM SequenceStaysFresh == Spec => []SequenceFresh
<1>1. Spec => [](CrashInv /\ SeqInv)
  <2>1. Init => CrashInv /\ SeqInv
    BY InitCrash, InitSeq
  <2>2. CrashInv /\ SeqInv /\ [Next]_vars => (CrashInv /\ SeqInv)'
    BY NextCrash, NextSeq
  <2>. QED BY <2>1, <2>2, PTL DEF Spec
<1>2. CrashInv /\ SeqInv => SequenceFresh
  <2>. SUFFICES ASSUME CrashInv, SeqInv, pc = "opened", ~lost, NEW e \in Served
       PROVE  e <= versions.last
    BY DEF SequenceFresh
  <2>1. SeqOK /\ Known
    BY OpenedKnown DEF SeqInv
  <2>2. op.max_sequence \in Nat /\ op.max_sequence <= versions.last /\ versions.last \in Nat
    BY <2>1 DEF SeqOK, TypesSeq, EntrySeq
  <2>3. CASE e \in mem \cup UNION imm
    BY <2>1, <2>2, <2>3 DEF SeqOK, EntrySeq, Seen2
  <2>4. ASSUME NEW n \in versions.files, e \in ToSet(disk.data[Sst(n)])
        PROVE  e <= versions.last
    <3>1. Sst(n) \in DOMAIN disk.data
      BY <2>1, DirFacts DEF CrashInv, KnownInv, Has
    <3>. QED BY <2>1, <2>4, <3>1 DEF SeqOK, VersionSeq, Under, SstEnts
  <2>5. \/ e \in mem \cup UNION imm
        \/ \E n \in versions.files : e \in ToSet(disk.data[Sst(n)])
    BY Zenon DEF Served
  <2>. QED BY <2>3, <2>4, <2>5
<1>. QED BY <1>1, <1>2, PTL
=============================================================================
