--------------------------- MODULE RecoveryProofs ---------------------------
(***************************************************************************)
(* Proofs about Recovery, for any number of writes, lives of the database,  *)
(* crashes and failed calls, and any sizes.                                 *)
(***************************************************************************)
EXTENDS Recovery, FiniteSetTheorems, SequenceTheorems, WellFoundedInduction, TLAPS

-----------------------------------------------------------------------------
(***************************************************************************)
(* Sequences and numbers                                                   *)
(***************************************************************************)
IsSeq(s) == \E S : s \in Seq(S)

LEMMA SeqFacts ==
    ASSUME NEW s, IsSeq(s)
    PROVE  Len(s) \in Nat /\ DOMAIN s = 1..Len(s)
BY DEF IsSeq

LEMMA SeqAppend ==
    ASSUME NEW s, IsSeq(s), NEW e
    PROVE  /\ IsSeq(Append(s, e)) /\ Len(Append(s, e)) = Len(s) + 1
           /\ DOMAIN Append(s, e) = 1..(Len(s) + 1)
           /\ \A i \in 1..Len(s) : Append(s, e)[i] = s[i]
           /\ Append(s, e)[Len(s) + 1] = e
<1>1. PICK S : s \in Seq(S)
  BY DEF IsSeq
<1>. DEFINE T == S \cup {e}
<1>2. s \in Seq(T) /\ e \in T
  BY <1>1
<1>. HIDE DEF T
<1>3. Append(s, e) \in Seq(T)
  BY <1>2
<1>4. IsSeq(Append(s, e))
  BY <1>3 DEF IsSeq
<1>. QED BY <1>2, <1>4

LEMMA SeqPrefix ==
    ASSUME NEW s, IsSeq(s), NEW n \in 0..Len(s)
    PROVE  /\ IsSeq(SubSeq(s, 1, n)) /\ Len(SubSeq(s, 1, n)) = n
           /\ DOMAIN SubSeq(s, 1, n) = 1..n
           /\ \A i \in 1..n : SubSeq(s, 1, n)[i] = s[i]
<1>1. PICK S : s \in Seq(S)
  BY DEF IsSeq
<1>2. n \in Nat /\ n <= Len(s) /\ Len(s) \in Nat
  BY <1>1
<1>3. /\ SubSeq(s, 1, n) \in Seq(S) /\ Len(SubSeq(s, 1, n)) = n
      /\ \A i \in 1..n : SubSeq(s, 1, n)[i] = s[i]
  BY <1>1, <1>2
<1>4. IsSeq(SubSeq(s, 1, n))
  BY <1>3 DEF IsSeq
<1>. QED BY <1>3, <1>4

(* A set of natural numbers that is not empty has a least element. *)
LEMMA LeastNumber ==
    ASSUME NEW T \in SUBSET Nat, T # {}
    PROVE  \E m \in T : \A y \in T : m <= y
<1>. DEFINE R == OpToRel(<, Nat)
<1>1. \E m \in T : \A y \in T : ~(<<y, m>> \in R)
  <2>. HIDE DEF R
  <2>1. IsWellFoundedOn(R, Nat)
    BY NatLessThanWellFounded DEF R
  <2>. QED
    BY <2>1, WFMin, Zenon
<1>2. \A y, m \in Nat : y < m => <<y, m>> \in R
  BY Zenon DEF OpToRel
<1>. HIDE DEF R
<1>3. PICK m \in T : \A y \in T : ~(<<y, m>> \in R)
  BY <1>1, Zenon
<1>4. \A y \in T : ~(y < m)
  BY <1>2, <1>3, Zenon
<1>5. \A y \in T : m <= y
  BY <1>4
<1>. QED
  BY <1>5

(* A set of numbers up to n that is not empty has a greatest element. *)
LEMMA GreatestNumber ==
    ASSUME NEW n \in Nat, NEW T \in SUBSET (0..n), T # {}
    PROVE  Max(T) \in T /\ \A y \in T : y <= Max(T)
<1>. DEFINE U == {n - y : y \in T}
<1>0. \A y \in T : y \in Nat /\ y <= n
  OBVIOUS
<1>1. U \in SUBSET Nat /\ U # {}
  <2>1. \A y \in T : n - y \in Nat
    BY <1>0
  <2>2. U \subseteq Nat
    BY <2>1, Zenon
  <2>3. PICK y : y \in T
    OBVIOUS
  <2>4. n - y \in U
    BY <2>3, Zenon
  <2>. QED BY <2>2, <2>4
<1>. HIDE DEF U
<1>2. PICK m \in U : \A y \in U : m <= y
  BY <1>1, LeastNumber
<1>3. n - m \in T /\ \A y \in T : n - m >= y
  <2>1. PICK z \in T : m = n - z
    BY <1>2 DEF U
  <2>2. \A y \in T : m <= n - y
    BY <1>2 DEF U
  <2>. QED BY <1>0, <2>1, <2>2
<1>. QED BY <1>3 DEF Max

LEMMA LeastIn ==
    ASSUME NEW T \in SUBSET Nat, T # {}
    PROVE  Min(T) \in T
<1>1. PICK m \in T : \A y \in T : m <= y
  BY LeastNumber
<1>. QED BY <1>1 DEF Min

-----------------------------------------------------------------------------
(***************************************************************************)
(* Records of a MANIFEST                                                   *)
(***************************************************************************)
Tags == {"wal", "next", "last", "new", "deleted"}
Field(rec, tag) == DecodeFrom(rec)[tag]
News(recs) == UNION {Field(recs[i], "new") : i \in DOMAIN recs}

LEMMA TagsOf == DOMAIN NoEdit = Tags
BY DEF NoEdit, Tags

LEMMA FieldIs ==
    ASSUME NEW rec, NEW tag \in Tags
    PROVE  Field(rec, tag) = {field[2] : field \in {g \in rec : g[1] = tag}}
BY TagsOf DEF Field, DecodeFrom

(* What was encoded is decoded. *)
LEMMA FieldEncoded ==
    ASSUME NEW edit, DOMAIN edit = Tags, NEW tag \in Tags
    PROVE  Field(EncodeTo(edit), tag) = edit[tag]
<1>. DEFINE rec == EncodeTo(edit)
<1>1. \A t, v : <<t, v>> \in rec <=> t \in Tags /\ v \in edit[t]
  BY DEF EncodeTo
<1>2. \A g \in rec : \E t, v : g = <<t, v>>
  BY DEF EncodeTo
<1>. HIDE DEF rec
<1>3. Field(rec, tag) = {field[2] : field \in {g \in rec : g[1] = tag}}
  BY FieldIs
<1>4. ASSUME NEW v \in edit[tag] PROVE v \in Field(rec, tag)
  <2>1. <<tag, v>> \in rec
    BY <1>1
  <2>. QED BY <2>1, <1>3
<1>5. ASSUME NEW v \in Field(rec, tag) PROVE v \in edit[tag]
  <2>1. PICK g \in rec : g[1] = tag /\ v = g[2]
    BY <1>3
  <2>2. PICK t, w : g = <<t, w>>
    BY <1>2
  <2>. QED BY <2>1, <2>2, <1>1
<1>6. Field(rec, tag) = edit[tag]
  BY <1>4, <1>5
<1>. QED BY <1>6 DEF rec

LEMMA FieldTorn ==
    ASSUME NEW tag \in Tags
    PROVE  Field(Torn, tag) = {}
<1>1. Field(Torn, tag) = {field[2] : field \in {g \in Torn : g[1] = tag}}
  BY FieldIs
<1>2. \A g \in Torn : g[1] = "torn"
  BY DEF Torn
<1>3. tag # "torn"
  BY DEF Tags
<1>. QED BY <1>1, <1>2, <1>3

(* What MANIFEST k may hold: each record is an edit with the next file      *)
(* number, but for a first one with the state at its creation and what was  *)
(* torn, and that number is above all that the records so far name.         *)
GoodRecord(k, recs, i) ==
    /\ \A tag \in {"wal", "next", "new"} : Field(recs[i], tag) \subseteq Nat
    /\ i > 1 /\ recs[i] # Torn => Field(recs[i], "next") # {}
    /\ Field(recs[i], "wal") = {} <=> Field(recs[i], "next") = {}
    /\ Field(recs[i], "last") = {} <=> Field(recs[i], "next") = {}
    /\ \A v \in Field(recs[i], "next") :
          /\ k < v
          /\ \A w \in Field(recs[i], "wal") : w <= v
          /\ \A j \in 1..i : \A n \in Field(recs[j], "new") : n < v
GoodManifest(k, recs) == IsSeq(recs) /\ \A i \in 1..Len(recs) : GoodRecord(k, recs, i)

LEMMA GoodEmpty ==
    ASSUME NEW k
    PROVE  GoodManifest(k, <<>>)
<1>1. <<>> \in Seq({})
  OBVIOUS
<1>2. IsSeq(<<>>)
  BY <1>1, Zenon DEF IsSeq
<1>. QED BY <1>2 DEF GoodManifest

LEMMA GoodPrefix ==
    ASSUME NEW k, NEW recs, GoodManifest(k, recs), NEW n \in 0..Len(recs)
    PROVE  GoodManifest(k, SubSeq(recs, 1, n))
<1>0. IsSeq(recs) /\ Len(recs) \in Nat /\ n \in Nat /\ n <= Len(recs)
  BY SeqFacts DEF GoodManifest
<1>. PICK part : part = SubSeq(recs, 1, n)
  OBVIOUS
<1>1. IsSeq(part) /\ Len(part) = n /\ \A i \in 1..n : part[i] = recs[i]
  BY <1>0, SeqPrefix
<1>2. ASSUME NEW i \in 1..n PROVE GoodRecord(k, part, i)
  <2>1. GoodRecord(k, recs, i) /\ part[i] = recs[i] /\ \A j \in 1..i : part[j] = recs[j]
    BY <1>0, <1>1 DEF GoodManifest
  <2>. QED BY <2>1 DEF GoodRecord
<1>. QED BY <1>1, <1>2 DEF GoodManifest

(* A record more. *)
LEMMA GoodMore ==
    ASSUME NEW k, NEW recs, GoodManifest(k, recs), NEW rec,
           GoodRecord(k, Append(recs, rec), Len(recs) + 1)
    PROVE  GoodManifest(k, Append(recs, rec))
<1>0. IsSeq(recs) /\ Len(recs) \in Nat
  BY SeqFacts DEF GoodManifest
<1>. PICK more : more = Append(recs, rec)
  OBVIOUS
<1>1. /\ IsSeq(more) /\ Len(more) = Len(recs) + 1
      /\ \A i \in 1..Len(recs) : more[i] = recs[i]
  BY <1>0, SeqAppend
<1>2. ASSUME NEW i \in 1..Len(recs) PROVE GoodRecord(k, more, i)
  <2>1. GoodRecord(k, recs, i) /\ more[i] = recs[i] /\ \A j \in 1..i : more[j] = recs[j]
    BY <1>0, <1>1 DEF GoodManifest
  <2>. QED BY <2>1 DEF GoodRecord
<1>3. GoodRecord(k, more, Len(recs) + 1)
  OBVIOUS
<1>4. \A i \in 1..Len(more) : GoodRecord(k, more, i)
  BY <1>0, <1>1, <1>2, <1>3
<1>. QED BY <1>1, <1>4 DEF GoodManifest

(* All numbers of SST files that recs name are below x. *)
NewsBelow(recs, x) == \A i \in 1..Len(recs) : \A n \in Field(recs[i], "new") : n < x

LEMMA NewsMore ==
    ASSUME NEW recs, IsSeq(recs), NEW rec, NEW x, NewsBelow(recs, x),
           \A n \in Field(rec, "new") : n < x
    PROVE  NewsBelow(Append(recs, rec), x)
<1>1. /\ Len(Append(recs, rec)) = Len(recs) + 1 /\ Len(recs) \in Nat
      /\ \A i \in 1..Len(recs) : Append(recs, rec)[i] = recs[i]
      /\ Append(recs, rec)[Len(recs) + 1] = rec
  BY SeqAppend, SeqFacts
<1>2. ASSUME NEW i \in 1..(Len(recs) + 1), NEW n \in Field(Append(recs, rec)[i], "new")
      PROVE  n < x
  <2>1. CASE i = Len(recs) + 1
    BY <2>1, <1>1, <1>2
  <2>2. CASE i \in 1..Len(recs)
    <3>1. n \in Field(recs[i], "new")
      BY <2>2, <1>1, <1>2
    <3>. QED BY <3>1, <2>2 DEF NewsBelow
  <2>. QED BY <2>1, <2>2, <1>1
<1>. QED BY <1>1, <1>2 DEF NewsBelow

(* A write that fails half-way. *)
LEMMA GoodTorn ==
    ASSUME NEW k, NEW recs, GoodManifest(k, recs)
    PROVE  GoodManifest(k, Append(recs, Torn))
<1>1. Append(recs, Torn)[Len(recs) + 1] = Torn
  BY SeqAppend DEF GoodManifest
<1>2. {"wal", "next", "last", "new"} \subseteq Tags
  BY DEF Tags
<1>3. \A tag \in {"wal", "next", "last", "new"} : Field(Torn, tag) = {}
  BY <1>2, FieldTorn
<1>4. GoodRecord(k, Append(recs, Torn), Len(recs) + 1)
  BY <1>1, <1>3 DEF GoodRecord
<1>. QED BY <1>4, GoodMore

(* WriteSnapshot *)
LEMMA GoodSnapshot ==
    ASSUME NEW k, NEW files \in SUBSET Nat
    PROVE  /\ GoodManifest(k, Append(<<>>, EncodeTo([NoEdit EXCEPT !.new = files])))
           /\ \A x : (\A n \in files : n < x) =>
                NewsBelow(Append(<<>>, EncodeTo([NoEdit EXCEPT !.new = files])), x)
<1>. PICK edit : edit = [NoEdit EXCEPT !.new = files]
  OBVIOUS
<1>. PICK rec : rec = EncodeTo(edit)
  OBVIOUS
<1>1. DOMAIN edit = Tags /\ edit.new = files /\ edit.wal = {} /\ edit.next = {} /\ edit.last = {}
  BY DEF NoEdit, Tags
<1>2. /\ Field(rec, "new") = files /\ Field(rec, "wal") = {} /\ Field(rec, "next") = {}
      /\ Field(rec, "last") = {}
  <2>1. "new" \in Tags /\ "wal" \in Tags /\ "next" \in Tags /\ "last" \in Tags
    BY DEF Tags
  <2>. QED BY <1>1, <2>1, FieldEncoded
<1>3. GoodManifest(k, <<>>) /\ IsSeq(<<>>) /\ Len(<<>>) = 0
  BY GoodEmpty DEF GoodManifest
<1>. PICK more : more = Append(<<>>, rec)
  OBVIOUS
<1>4. more[1] = rec
  BY <1>3, SeqAppend
<1>5. GoodRecord(k, more, 1)
  BY <1>2, <1>4 DEF GoodRecord
<1>6. GoodManifest(k, more)
  <2>1. Len(<<>>) + 1 = 1
    BY <1>3
  <2>2. GoodRecord(k, Append(<<>>, rec), Len(<<>>) + 1)
    BY <1>5, <2>1
  <2>. QED BY <1>3, <2>2, GoodMore
<1>7. ASSUME NEW x, \A n \in files : n < x PROVE NewsBelow(more, x)
  <2>1. NewsBelow(<<>>, x)
    BY DEF NewsBelow
  <2>. QED BY <1>2, <1>3, <1>7, <2>1, NewsMore
<1>. QED BY <1>6, <1>7

(* An edit whose next file number is x. *)
SoundEdit(edit, x) ==
    /\ DOMAIN edit = Tags /\ x \in Nat /\ edit.next = {x} /\ edit.last # {}
    /\ \E w \in Nat : edit.wal = {w} /\ w <= x
    /\ \A n \in edit.new : n \in Nat /\ n < x

LEMMA GoodEdit ==
    ASSUME NEW k, NEW recs, GoodManifest(k, recs), NEW x, NewsBelow(recs, x), k < x,
           NEW edit, SoundEdit(edit, x)
    PROVE  /\ GoodManifest(k, Append(recs, EncodeTo(edit)))
           /\ NewsBelow(Append(recs, EncodeTo(edit)), x)
<1>. PICK rec : rec = EncodeTo(edit)
  OBVIOUS
<1>1. /\ Field(rec, "new") = edit.new /\ Field(rec, "wal") = edit.wal /\ Field(rec, "next") = {x}
      /\ Field(rec, "last") = edit.last
  <2>1. "new" \in Tags /\ "wal" \in Tags /\ "next" \in Tags /\ "last" \in Tags
    BY DEF Tags
  <2>. QED BY <2>1, FieldEncoded DEF SoundEdit
<1>2. IsSeq(recs) /\ Len(recs) \in Nat
  BY SeqFacts DEF GoodManifest
<1>. PICK more : more = Append(recs, rec)
  OBVIOUS
<1>3. NewsBelow(more, x)
  BY <1>1, <1>2, NewsMore DEF SoundEdit
<1>4. more[Len(recs) + 1] = rec /\ Len(more) = Len(recs) + 1
  BY <1>2, SeqAppend
<1>5. GoodRecord(k, more, Len(recs) + 1)
  <2>1. \A tag \in {"wal", "next", "new"} : Field(rec, tag) \subseteq Nat
    BY <1>1 DEF SoundEdit
  <2>2. \A w \in Field(rec, "wal") : w <= x
    BY <1>1 DEF SoundEdit
  <2>3. Field(rec, "wal") # {} /\ Field(rec, "next") # {} /\ Field(rec, "last") # {}
    BY <1>1 DEF SoundEdit
  <2>4. \A j \in 1..(Len(recs) + 1) : \A n \in Field(more[j], "new") : n < x
    BY <1>3, <1>4 DEF NewsBelow
  <2>. QED BY <1>1, <1>4, <2>1, <2>2, <2>3, <2>4 DEF GoodRecord
<1>. QED BY <1>3, <1>5, GoodMore

-----------------------------------------------------------------------------
(***************************************************************************)
(* VersionSet::Recover                                                     *)
(***************************************************************************)

(* A turn of its loop, as FoldLeft takes it: of the records s, the last is *)
(* applied to what the others give.                                        *)
Turn(recs, iter, s) ==
    IF s = {} THEN NoChange ELSE Apply(iter[s \ {Max(s)}], DecodeFrom(recs[Max(s)]))
Loop(recs, iter) == [s \in SUBSET (DOMAIN recs) |-> Turn(recs, iter, s)]

(* The loop up to sets of m records. *)
LoopUpTo(recs, iter, m) ==
    \A s \in SUBSET (DOMAIN recs) : Cardinality(s) <= m => iter[s] = Turn(recs, iter, s)

LEMMA SubsetFacts ==
    ASSUME NEW recs, IsSeq(recs), NEW s \in SUBSET (DOMAIN recs)
    PROVE  /\ IsFiniteSet(s) /\ Cardinality(s) \in Nat /\ Cardinality(s) <= Len(recs)
           /\ s # {} => /\ Max(s) \in s /\ s \ {Max(s)} \in SUBSET (DOMAIN recs)
                        /\ Cardinality(s \ {Max(s)}) = Cardinality(s) - 1
           /\ Cardinality(s) = 0 => s = {}
<1>0. Len(recs) \in Nat /\ DOMAIN recs = 1..Len(recs)
  BY SeqFacts
<1>1. IsFiniteSet(1..Len(recs)) /\ Cardinality(1..Len(recs)) = Len(recs)
  BY <1>0, FS_Interval
<1>2. IsFiniteSet(s) /\ Cardinality(s) \in Nat /\ Cardinality(s) <= Len(recs)
  BY <1>0, <1>1, FS_Subset, FS_CardinalityType
<1>3. s # {} => Max(s) \in s
  <2>1. s \in SUBSET (0..Len(recs))
    BY <1>0
  <2>. QED BY <1>0, <2>1, GreatestNumber
<1>4. s # {} => Cardinality(s \ {Max(s)}) = Cardinality(s) - 1
  BY <1>2, <1>3, FS_RemoveElement
<1>5. Cardinality(s) = 0 => s = {}
  BY <1>2, FS_EmptySet
<1>. QED BY <1>2, <1>3, <1>4, <1>5

LEMMA LoopMore ==
    ASSUME NEW recs, IsSeq(recs), NEW m \in Nat, NEW iter, LoopUpTo(recs, iter, m)
    PROVE  \E more : LoopUpTo(recs, more, m + 1)
<1>. DEFINE D == SUBSET (DOMAIN recs)
            more == [s \in D |-> IF Cardinality(s) <= m THEN iter[s] ELSE Turn(recs, iter, s)]
<1>1. ASSUME NEW s \in D, s # {} , Cardinality(s) <= m + 1
      PROVE  more[s \ {Max(s)}] = iter[s \ {Max(s)}]
  <2>. PICK r : r = s \ {Max(s)}
    OBVIOUS
  <2>1. r \in D /\ Cardinality(r) = Cardinality(s) - 1 /\ Cardinality(s) \in Nat
    BY <1>1, SubsetFacts
  <2>2. Cardinality(r) <= m
    BY <2>1, <1>1
  <2>. QED BY <2>1, <2>2
<1>2. ASSUME NEW s \in D, Cardinality(s) <= m + 1
      PROVE  more[s] = Turn(recs, more, s)
  <2>1. Turn(recs, more, s) = Turn(recs, iter, s)
    <3>1. CASE s = {}
      BY <3>1 DEF Turn
    <3>2. CASE s # {}
      <4>1. more[s \ {Max(s)}] = iter[s \ {Max(s)}]
        BY <1>1, <1>2, <3>2
      <4>. HIDE DEF more
      <4>. QED BY <4>1 DEF Turn
    <3>. QED BY <3>1, <3>2
  <2>2. CASE Cardinality(s) <= m
    BY <2>1, <2>2 DEF LoopUpTo
  <2>3. CASE ~(Cardinality(s) <= m)
    BY <2>1, <2>3
  <2>. QED BY <2>2, <2>3
<1>. HIDE DEF more
<1>3. LoopUpTo(recs, more, m + 1)
  BY <1>2, Zenon DEF LoopUpTo
<1>. QED BY <1>3

LEMMA LoopExists ==
    ASSUME NEW recs, IsSeq(recs)
    PROVE  \E iter : iter = Loop(recs, iter)
<1>. DEFINE Bad == {m \in Nat : ~ \E iter : LoopUpTo(recs, iter, m)}
<1>0. Len(recs) \in Nat
  BY SeqFacts
<1>1. ASSUME Bad # {} PROVE FALSE
  <2>. HIDE DEF Bad
  <2>1. Bad \in SUBSET Nat
    BY DEF Bad
  <2>2. PICK m \in Bad : \A y \in Bad : m <= y
    BY <1>1, <2>1, LeastNumber
  <2>3. m \in Nat /\ ~ \E iter : LoopUpTo(recs, iter, m)
    BY <2>2 DEF Bad
  <2>4. CASE m = 0
    <3>. DEFINE iter == [s \in SUBSET (DOMAIN recs) |-> NoChange]
    <3>1. ASSUME NEW s \in SUBSET (DOMAIN recs), Cardinality(s) <= 0
          PROVE  iter[s] = Turn(recs, iter, s)
      <4>1. Cardinality(s) \in Nat /\ (Cardinality(s) = 0 => s = {})
        BY SubsetFacts
      <4>2. s = {}
        BY <3>1, <4>1
      <4>. QED BY <4>2 DEF Turn
    <3>. HIDE DEF iter
    <3>2. LoopUpTo(recs, iter, 0)
      BY <3>1, Zenon DEF LoopUpTo
    <3>. QED BY <2>3, <2>4, <3>2
  <2>5. CASE m # 0
    <3>1. m - 1 \in Nat /\ ~(m - 1 \in Bad)
      BY <2>2, <2>3, <2>5
    <3>2. PICK iter : LoopUpTo(recs, iter, m - 1)
      BY <3>1 DEF Bad
    <3>3. (m - 1) + 1 = m
      BY <2>3
    <3>. QED BY <3>1, <3>2, <3>3, <2>3, LoopMore
  <2>. QED BY <2>4, <2>5
<1>2. PICK iter : LoopUpTo(recs, iter, Len(recs))
  BY <1>0, <1>1
<1>. DEFINE f == [s \in SUBSET (DOMAIN recs) |-> iter[s]]
<1>3. ASSUME NEW s \in SUBSET (DOMAIN recs)
      PROVE  f[s] = Turn(recs, f, s)
  <2>1. iter[s] = Turn(recs, iter, s)
    BY <1>2, SubsetFacts DEF LoopUpTo
  <2>2. s # {} => f[s \ {Max(s)}] = iter[s \ {Max(s)}]
    <3>. QED BY SubsetFacts
  <2>3. Turn(recs, f, s) = Turn(recs, iter, s)
    <3>. HIDE DEF f
    <3>. QED BY <2>2 DEF Turn
  <2>. QED BY <2>1, <2>3
<1>4. f = [s \in SUBSET (DOMAIN recs) |-> f[s]]
  OBVIOUS
<1>. HIDE DEF f
<1>5. f = Loop(recs, f)
  BY <1>3, <1>4 DEF Loop
<1>. QED BY <1>5

(* The files that are left have all been named by some record. *)
LEMMA LoopFiles ==
    ASSUME NEW recs, IsSeq(recs)
    PROVE  ReadManifest(recs).files \subseteq News(recs)
<1>. DEFINE iter == CHOOSE i : i = Loop(recs, i)
<1>1. FoldLeft(LAMBDA b, rec : Apply(b, DecodeFrom(rec)), NoChange, recs) = iter[DOMAIN recs]
  BY Zenon DEF FoldLeft, MapThenFoldSet, Loop, Turn
<1>2. iter = Loop(recs, iter)
  BY LoopExists, Zenon
<1>. HIDE DEF iter
<1>3. ASSUME NEW s \in SUBSET (DOMAIN recs)
      PROVE  iter[s] = Turn(recs, iter, s)
  <2>. DEFINE l == Loop(recs, iter)
  <2>1. l[s] = Turn(recs, iter, s)
    BY DEF Loop
  <2>. HIDE DEF l
  <2>2. l = iter
    BY <1>2 DEF l
  <2>. QED BY <2>1, <2>2
<1>. DEFINE Bad == {m \in Nat : \E s \in SUBSET (DOMAIN recs) :
                       Cardinality(s) = m /\ ~(iter[s].added \subseteq News(recs))}
<1>4. ASSUME Bad # {} PROVE FALSE
  <2>. HIDE DEF Bad
  <2>1. Bad \in SUBSET Nat
    BY DEF Bad
  <2>2. PICK m \in Bad : \A y \in Bad : m <= y
    BY <1>4, <2>1, LeastNumber
  <2>3. PICK s \in SUBSET (DOMAIN recs) :
          Cardinality(s) = m /\ ~(iter[s].added \subseteq News(recs))
    BY <2>2 DEF Bad
  <2>4. s # {}
    <3>1. NoChange.added = {}
      BY DEF NoChange
    <3>. QED BY <3>1, <2>3, <1>3 DEF Turn
  <2>. PICK x : x = Max(s)
    OBVIOUS
  <2>. PICK r : r = s \ {x}
    OBVIOUS
  <2>5. /\ x \in DOMAIN recs /\ r \in SUBSET (DOMAIN recs)
        /\ Cardinality(r) = m - 1 /\ Cardinality(r) \in Nat /\ m \in Nat
    BY <2>3, <2>4, SubsetFacts
  <2>6. iter[s] = Apply(iter[r], DecodeFrom(recs[x]))
    BY <1>3, <2>4 DEF Turn
  <2>7. iter[s].added = iter[r].added \cup Field(recs[x], "new")
    BY <2>6 DEF Apply, Field
  <2>8. Field(recs[x], "new") \subseteq News(recs)
    BY <2>5 DEF News
  <2>9. ~(m - 1 \in Bad)
    BY <2>2, <2>5
  <2>10. iter[r].added \subseteq News(recs)
    BY <2>5, <2>9 DEF Bad
  <2>. QED BY <2>3, <2>7, <2>8, <2>10
<1>5. iter[DOMAIN recs].added \subseteq News(recs)
  <2>1. Cardinality(DOMAIN recs) \in Nat
    BY SubsetFacts
  <2>. QED BY <1>4, <2>1
<1>. PICK b : b = iter[DOMAIN recs]
  OBVIOUS
<1>6. ReadManifest(recs).files = SaveTo({}, b)
  BY <1>1, Zenon DEF ReadManifest
<1>7. SaveTo({}, b) \subseteq b.added
  BY DEF SaveTo
<1>. QED BY <1>5, <1>6, <1>7

(* The Reader leaves a record out that ends with the file.                 *)
LEMMA RecordsPrefix ==
    ASSUME NEW recs, IsSeq(recs)
    PROVE  \E n \in 0..Len(recs) : Records(recs) = SubSeq(recs, 1, n)
<1>1. PICK S : recs \in Seq(S)
  BY DEF IsSeq
<1>2. Len(recs) \in Nat
  BY <1>1
<1>3. recs = SubSeq(recs, 1, Len(recs))
  BY <1>1
<1>4. CASE recs # <<>> /\ Last(recs) = Torn
  <2>1. Len(recs) - 1 \in 0..Len(recs)
    BY <1>1, <1>4
  <2>2. Records(recs) = SubSeq(recs, 1, Len(recs) - 1)
    BY <1>4 DEF Records, Front
  <2>. QED BY <2>1, <2>2
<1>5. CASE ~(recs # <<>> /\ Last(recs) = Torn)
  <2>1. Records(recs) = recs
    BY <1>5 DEF Records
  <2>2. Len(recs) \in 0..Len(recs)
    BY <1>2
  <2>. QED BY <1>3, <2>1, <2>2
<1>. QED BY <1>4, <1>5

(* The record that a field is taken from. *)
LEMMA LastFieldFrom ==
    ASSUME NEW recs, IsSeq(recs), NEW tag \in Tags, LastField(recs, tag) # {}
    PROVE  \E i \in 1..Len(recs) :
              /\ LastField(recs, tag) = Field(recs[i], tag)
              /\ \A j \in 1..Len(recs) : j > i => Field(recs[j], tag) = {}
<1>. DEFINE with == {i \in DOMAIN recs : \E field \in recs[i] : field[1] = tag}
<1>0. Len(recs) \in Nat /\ DOMAIN recs = 1..Len(recs)
  BY SeqFacts
<1>1. LastField(recs, tag) = IF with = {} THEN {} ELSE Field(recs[Max(with)], tag)
  BY Zenon DEF LastField, Field
<1>2. with # {}
  BY <1>1
<1>3. with \in SUBSET (0..Len(recs))
  BY <1>0
<1>4. Max(with) \in with /\ \A y \in with : y <= Max(with)
  <2>. HIDE DEF with
  <2>. QED BY <1>0, <1>2, <1>3, GreatestNumber
<1>5. ASSUME NEW j \in 1..Len(recs), j > Max(with) PROVE Field(recs[j], tag) = {}
  <2>1. ~(j \in with)
    <3>. HIDE DEF with
    <3>1. Max(with) \in 0..Len(recs)
      BY <1>3, <1>4, Zenon
    <3>2. j \in with => j <= Max(with)
      BY <1>4
    <3>. QED BY <1>0, <1>5, <3>1, <3>2
  <2>2. \A field \in recs[j] : field[1] # tag
    BY <1>0, <2>1
  <2>. QED BY <2>2, FieldIs
<1>6. Max(with) \in 1..Len(recs)
  BY <1>0, <1>4
<1>. QED BY <1>1, <1>2, <1>5, <1>6

(* What VersionSet::Recover takes from a whole MANIFEST. *)
LEMMA ReadGood ==
    ASSUME NEW k, NEW recs, GoodManifest(k, recs), \A i \in 1..Len(recs) : recs[i] # Torn,
           ReadManifest(recs).next # {}, ReadManifest(recs).wal # {}
    PROVE  /\ The(ReadManifest(recs).next) \in Nat /\ k < The(ReadManifest(recs).next)
           /\ The(ReadManifest(recs).wal) \in Nat
           /\ The(ReadManifest(recs).wal) <= The(ReadManifest(recs).next)
           /\ NewsBelow(recs, The(ReadManifest(recs).next))
           /\ \A n \in ReadManifest(recs).files :
                 n \in Nat /\ n < The(ReadManifest(recs).next)
<1>0. IsSeq(recs) /\ Len(recs) \in Nat /\ DOMAIN recs = 1..Len(recs)
  BY SeqFacts DEF GoodManifest
<1>. PICK nx : nx = LastField(recs, "next")
  OBVIOUS
<1>. PICK wl : wl = LastField(recs, "wal")
  OBVIOUS
<1>1. ReadManifest(recs).next = nx /\ ReadManifest(recs).wal = wl /\ nx # {} /\ wl # {}
  BY DEF ReadManifest
<1>2. "next" \in Tags /\ "wal" \in Tags
  BY DEF Tags
<1>3. PICK i \in 1..Len(recs) : /\ nx = Field(recs[i], "next")
                                /\ \A j \in 1..Len(recs) : j > i => Field(recs[j], "next") = {}
  BY <1>0, <1>1, <1>2, LastFieldFrom
<1>4. PICK h \in 1..Len(recs) : /\ wl = Field(recs[h], "wal")
                                /\ \A j \in 1..Len(recs) : j > h => Field(recs[j], "wal") = {}
  BY <1>0, <1>1, <1>2, LastFieldFrom
<1>5. \A j \in 1..Len(recs) : Field(recs[j], "wal") = {} <=> Field(recs[j], "next") = {}
  BY DEF GoodManifest, GoodRecord
<1>6. h = i
  BY <1>0, <1>1, <1>3, <1>4, <1>5
<1>7. /\ nx \subseteq Nat /\ wl \subseteq Nat
      /\ \A v \in nx : /\ k < v /\ \A w \in wl : w <= v
                       /\ \A j \in 1..i : \A n \in Field(recs[j], "new") : n < v
  <2>1. GoodRecord(k, recs, i)
    BY DEF GoodManifest
  <2>. QED BY <1>3, <1>4, <1>6, <2>1 DEF GoodRecord
<1>8. The(nx) \in nx /\ The(wl) \in wl
  BY <1>1 DEF The
<1>. PICK x : x = The(nx)
  OBVIOUS
<1>9. NewsBelow(recs, x)
  <2>1. ASSUME NEW j \in 1..Len(recs), j > i PROVE FALSE
    <3>1. j > 1 /\ recs[j] # Torn /\ GoodRecord(k, recs, j)
      BY <1>0, <2>1 DEF GoodManifest
    <3>2. Field(recs[j], "next") # {}
      BY <3>1 DEF GoodRecord
    <3>. QED BY <3>2, <2>1, <1>3
  <2>2. \A j \in 1..Len(recs) : j \in 1..i
    BY <1>0, <2>1
  <2>. QED BY <2>2, <1>7, <1>8 DEF NewsBelow
<1>10. \A n \in News(recs) : n \in Nat /\ n < x
  <2>1. ASSUME NEW j \in 1..Len(recs), NEW n \in Field(recs[j], "new")
        PROVE  n \in Nat /\ n < x
    <3>1. Field(recs[j], "new") \subseteq Nat
      BY DEF GoodManifest, GoodRecord
    <3>. QED BY <3>1, <1>9 DEF NewsBelow
  <2>. QED BY <2>1, <1>0 DEF News
<1>11. ReadManifest(recs).files \subseteq News(recs)
  BY <1>0, LoopFiles
<1>. QED BY <1>1, <1>7, <1>8, <1>9, <1>10, <1>11

-----------------------------------------------------------------------------
(***************************************************************************)
(* The file system                                                         *)
(***************************************************************************)
Types == {"manifest", "wal", "sst", "dbtmp"}
Files == Types \X Nat
Dirs == [cur : Nat, files : SUBSET Files]

(* Every file of every state of the directory has contents, and those of a *)
(* MANIFEST are good.                                                      *)
DiskOK(dk) ==
    /\ DOMAIN dk = {"dir", "data", "synced"}
    /\ dk.dir \in Seq(Dirs) /\ dk.dir # <<>>
    /\ \A i \in 1..Len(dk.dir) : dk.dir[i].files \subseteq DOMAIN dk.data
    /\ \A k \in Nat : Manifest(k) \in DOMAIN dk.data => GoodManifest(k, dk.data[Manifest(k)])

(* The MANIFESTs of new are those of dk, and it has no other WAL files.    *)
Keeps(dk, new) ==
    \A k \in Nat : Manifest(k) \in DOMAIN new.data =>
        Manifest(k) \in DOMAIN dk.data /\ new.data[Manifest(k)] = dk.data[Manifest(k)]
NoNewWal(dk, new) == Numbers(Dir(new), "wal") \subseteq Numbers(Dir(dk), "wal")
Calm(dk, new) == DiskOK(new) /\ Keeps(dk, new) /\ NoNewWal(dk, new)

LEMMA FileNames ==
    ASSUME NEW n \in Nat
    PROVE  /\ {Manifest(n), Wal(n), Sst(n), Temp(n)} \subseteq Files
           /\ Manifest(n)[1] = "manifest" /\ Wal(n)[1] = "wal"
           /\ Sst(n)[1] = "sst" /\ Temp(n)[1] = "dbtmp"
BY DEF Manifest, Wal, Sst, Temp, Files, Types

LEMMA DirOK ==
    ASSUME NEW dk, DiskOK(dk)
    PROVE  Dir(dk) \in Dirs /\ Dir(dk).files \subseteq DOMAIN dk.data
<1>1. Len(dk.dir) \in 1..Len(dk.dir)
  BY DEF DiskOK
<1>2. Dir(dk) = dk.dir[Len(dk.dir)]
  BY DEF Dir, Last
<1>. QED BY <1>1, <1>2 DEF DiskOK

LEMMA CalmSame ==
    ASSUME NEW dk, DiskOK(dk)
    PROVE  Calm(dk, dk)
BY DEF Calm, Keeps, NoNewWal

LEMMA CalmTwice ==
    ASSUME NEW dk, NEW new, NEW newer, Calm(dk, new), Calm(new, newer)
    PROVE  Calm(dk, newer)
<1>1. DiskOK(newer)
  BY DEF Calm
<1>2. Keeps(dk, newer)
  BY Zenon DEF Calm, Keeps
<1>3. NoNewWal(dk, newer)
  BY Zenon DEF Calm, NoNewWal
<1>. QED BY <1>1, <1>2, <1>3 DEF Calm

(* A disk whose MANIFESTs are those of dk.                                 *)
LEMMA KeepsGood ==
    ASSUME NEW dk, DiskOK(dk), NEW new, Keeps(dk, new), DOMAIN new = {"dir", "data", "synced"},
           new.dir \in Seq(Dirs), new.dir # <<>>,
           \A i \in 1..Len(new.dir) : new.dir[i].files \subseteq DOMAIN new.data
    PROVE  DiskOK(new)
<1>1. \A k \in Nat : Manifest(k) \in DOMAIN new.data => GoodManifest(k, new.data[Manifest(k)])
  BY DEF DiskOK, Keeps
<1>. QED BY <1>1 DEF DiskOK

LEMMA TidyCalm ==
    ASSUME NEW dk, DiskOK(dk)
    PROVE  Calm(dk, Tidy(dk))
<1>. DEFINE left == UNION {dk.dir[i].files : i \in DOMAIN dk.dir}
<1>. PICK new : new = Tidy(dk)
  OBVIOUS
<1>1. /\ DOMAIN new = {"dir", "data", "synced"} /\ new.dir = dk.dir
      /\ DOMAIN new.data = left /\ \A f \in left : new.data[f] = dk.data[f]
  BY DEF Tidy
<1>2. dk.dir \in Seq(Dirs) /\ DOMAIN dk.dir = 1..Len(dk.dir)
  BY DEF DiskOK
<1>3. left \subseteq DOMAIN dk.data
  BY <1>2 DEF DiskOK
<1>4. \A i \in 1..Len(new.dir) : new.dir[i].files \subseteq DOMAIN new.data
  BY <1>1, <1>2
<1>. HIDE DEF left
<1>5. Keeps(dk, new)
  BY <1>1, <1>3 DEF Keeps
<1>6. DiskOK(new)
  BY <1>1, <1>4, <1>5, KeepsGood DEF DiskOK
<1>7. NoNewWal(dk, new)
  BY <1>1 DEF NoNewWal, Dir
<1>. QED BY <1>5, <1>6, <1>7 DEF Calm

LEMMA ChangeDirGood ==
    ASSUME NEW dk, DiskOK(dk), NEW dir \in Dirs, dir.files \subseteq DOMAIN dk.data
    PROVE  /\ DiskOK(ChangeDir(dk, dir)) /\ Keeps(dk, ChangeDir(dk, dir))
           /\ Dir(ChangeDir(dk, dir)) = dir
<1>. PICK new : new = ChangeDir(dk, dir)
  OBVIOUS
<1>1. CASE dir = Dir(dk)
  BY <1>1 DEF ChangeDir, Keeps
<1>2. CASE dir # Dir(dk)
  <2>1. /\ DOMAIN new = {"dir", "data", "synced"} /\ new.data = dk.data
        /\ new.dir = Append(dk.dir, dir)
    BY <1>2 DEF ChangeDir, DiskOK
  <2>2. dk.dir \in Seq(Dirs) /\ Len(dk.dir) \in Nat
    BY DEF DiskOK
  <2>3. /\ new.dir \in Seq(Dirs) /\ Len(new.dir) = Len(dk.dir) + 1 /\ new.dir # <<>>
        /\ new.dir[Len(dk.dir) + 1] = dir
        /\ \A i \in 1..Len(dk.dir) : new.dir[i] = dk.dir[i]
    BY <2>1, <2>2
  <2>4. ASSUME NEW i \in 1..Len(new.dir) PROVE new.dir[i].files \subseteq DOMAIN new.data
    <3>1. CASE i = Len(dk.dir) + 1
      BY <3>1, <2>1, <2>3
    <3>2. CASE i \in 1..Len(dk.dir)
      BY <3>2, <2>1, <2>3 DEF DiskOK
    <3>. QED BY <3>1, <3>2, <2>2, <2>3
  <2>5. Keeps(dk, new)
    BY <2>1 DEF Keeps
  <2>6. DiskOK(new)
    BY <2>1, <2>3, <2>4, <2>5, KeepsGood
  <2>7. Dir(new) = dir
    BY <2>2, <2>3 DEF Dir, Last
  <2>. QED BY <2>5, <2>6, <2>7
<1>. QED BY <1>1, <1>2

LEMMA SetData ==
    ASSUME NEW dk, DiskOK(dk), NEW f, f[1] # "manifest", NEW e
    PROVE  Calm(dk, [dk EXCEPT !.data[f] = e])
<1>. PICK new : new = [dk EXCEPT !.data[f] = e]
  OBVIOUS
<1>1. /\ DOMAIN new = {"dir", "data", "synced"} /\ new.dir = dk.dir
      /\ DOMAIN new.data = DOMAIN dk.data
      /\ \A g \in DOMAIN dk.data : g # f => new.data[g] = dk.data[g]
  BY DEF DiskOK
<1>2. \A k \in Nat : Manifest(k) # f
  BY FileNames
<1>3. Keeps(dk, new)
  BY <1>1, <1>2 DEF Keeps
<1>4. DiskOK(new)
  BY <1>1, <1>3, KeepsGood DEF DiskOK
<1>5. NoNewWal(dk, new)
  BY <1>1 DEF NoNewWal, Dir
<1>. QED BY <1>3, <1>4, <1>5 DEF Calm

(* The directory in its last state only.                                   *)
LEMMA LastDir ==
    ASSUME NEW dk, DiskOK(dk), NEW new, DOMAIN new = {"dir", "data", "synced"},
           new.data = dk.data, new.dir = <<Last(dk.dir)>>
    PROVE  Calm(dk, new)
<1>1. Last(dk.dir) \in Dirs /\ Last(dk.dir).files \subseteq DOMAIN dk.data
  BY DirOK DEF Dir
<1>2. new.dir \in Seq(Dirs) /\ Len(new.dir) = 1 /\ new.dir[1] = Last(dk.dir) /\ new.dir # <<>>
  BY <1>1
<1>3. Keeps(dk, new)
  BY DEF Keeps
<1>4. DiskOK(new)
  <2>1. \A i \in 1..Len(new.dir) : new.dir[i].files \subseteq DOMAIN new.data
    BY <1>1, <1>2
  <2>. QED BY <1>2, <1>3, <2>1, KeepsGood
<1>5. Last(new.dir) = Last(dk.dir)
  BY <1>2 DEF Last
<1>6. NoNewWal(dk, new)
  BY <1>5 DEF NoNewWal, Dir
<1>. QED BY <1>3, <1>4, <1>6 DEF Calm

LEMMA SyncFdCalm ==
    ASSUME NEW dk, DiskOK(dk), NEW f
    PROVE  Calm(dk, SyncFd(dk, f))
<1>. PICK new : new = [dk EXCEPT !.synced[f] = Len(dk.data[f]), !.dir = <<Last(@)>>]
  OBVIOUS
<1>1. DOMAIN new = {"dir", "data", "synced"} /\ new.data = dk.data /\ new.dir = <<Last(dk.dir)>>
  BY DEF DiskOK
<1>2. Calm(dk, new)
  BY <1>1, LastDir
<1>3. Calm(new, Tidy(new))
  BY <1>2, TidyCalm DEF Calm
<1>. QED BY <1>2, <1>3, CalmTwice DEF SyncFd

LEMMA SyncDirCalm ==
    ASSUME NEW dk, DiskOK(dk), NEW dirname
    PROVE  Calm(dk, SyncDir(dk, dirname))
<1>. PICK new : new = [dk EXCEPT !.dir = <<Last(@)>>]
  OBVIOUS
<1>1. DOMAIN new = {"dir", "data", "synced"} /\ new.data = dk.data /\ new.dir = <<Last(dk.dir)>>
  BY DEF DiskOK
<1>2. Calm(dk, new)
  BY <1>1, LastDir
<1>3. Calm(new, Tidy(new))
  BY <1>2, TidyCalm DEF Calm
<1>. QED BY <1>2, <1>3, CalmTwice, CalmSame DEF SyncDir

LEMMA SyncCalm ==
    ASSUME NEW dk, DiskOK(dk), NEW f
    PROVE  Calm(dk, Sync(dk, f))
<1>. PICK new : new = IF f[1] = "manifest" THEN SyncDir(dk, StoredDirname(f)) ELSE dk
  OBVIOUS
<1>1. Calm(dk, new)
  BY SyncDirCalm, CalmSame
<1>2. Calm(new, SyncFd(new, f))
  BY <1>1, SyncFdCalm DEF Calm
<1>. QED BY <1>1, <1>2, CalmTwice DEF Sync

LEMMA RemoveFileCalm ==
    ASSUME NEW dk, DiskOK(dk), NEW f
    PROVE  Calm(dk, RemoveFile(dk, f))
<1>. PICK dir : dir = [Dir(dk) EXCEPT !.files = @ \ {f}]
  OBVIOUS
<1>1. dir \in Dirs /\ dir.files \subseteq Dir(dk).files /\ dir.files \subseteq DOMAIN dk.data
  BY DirOK DEF Dirs
<1>. PICK new : new = ChangeDir(dk, dir)
  OBVIOUS
<1>2. DiskOK(new) /\ Keeps(dk, new) /\ Dir(new) = dir
  BY <1>1, ChangeDirGood
<1>3. NoNewWal(dk, new)
  BY <1>1, <1>2 DEF NoNewWal, Numbers
<1>4. Calm(dk, new)
  BY <1>2, <1>3 DEF Calm
<1>5. Calm(new, Tidy(new))
  BY <1>2, TidyCalm
<1>. QED BY <1>4, <1>5, CalmTwice DEF RemoveFile

LEMMA RenameCalm ==
    ASSUME NEW dk, DiskOK(dk), NEW n \in Nat
    PROVE  Calm(dk, RenameToCurrent(dk, n))
<1>. PICK dir : dir = [cur |-> n, files |-> Dir(dk).files \ {Temp(n)}]
  OBVIOUS
<1>1. dir \in Dirs /\ dir.files \subseteq Dir(dk).files /\ dir.files \subseteq DOMAIN dk.data
  BY DirOK DEF Dirs
<1>. PICK new : new = ChangeDir(dk, dir)
  OBVIOUS
<1>2. DiskOK(new) /\ Keeps(dk, new) /\ Dir(new) = dir
  BY <1>1, ChangeDirGood
<1>3. NoNewWal(dk, new)
  BY <1>1, <1>2 DEF NoNewWal, Numbers
<1>4. Calm(dk, new)
  BY <1>2, <1>3 DEF Calm
<1>5. Calm(new, Tidy(new))
  BY <1>2, TidyCalm
<1>. QED BY <1>4, <1>5, CalmTwice DEF RenameToCurrent

(* A new file is empty, and the only one that is new. *)
LEMMA NewFile ==
    ASSUME NEW dk, DiskOK(dk), NEW f \in Files
    PROVE  /\ DiskOK(NewWritableFile(dk, f))
           /\ f[1] # "manifest" => Keeps(dk, NewWritableFile(dk, f))
           /\ f[1] # "wal" => NoNewWal(dk, NewWritableFile(dk, f))
           /\ Numbers(Dir(NewWritableFile(dk, f)), "wal") \subseteq Numbers(Dir(dk), "wal") \cup {f[2]}
           /\ NewWritableFile(dk, f).data[f] = <<>>
<1>. PICK cut : cut = [dk EXCEPT !.data = [g \in DOMAIN @ \cup {f} |-> IF g = f THEN <<>> ELSE @[g]],
                          !.synced = [g \in DOMAIN @ \cup {f} |-> IF g = f THEN 0 ELSE @[g]]]
  OBVIOUS
<1>1. /\ DOMAIN cut = {"dir", "data", "synced"} /\ cut.dir = dk.dir
      /\ cut.data = [g \in DOMAIN dk.data \cup {f} |-> IF g = f THEN <<>> ELSE dk.data[g]]
  BY Zenon DEF DiskOK
<1>2. DOMAIN cut.data = DOMAIN dk.data \cup {f} /\ cut.data[f] = <<>>
  BY <1>1
<1>3. \A k \in Nat : Manifest(k) \in DOMAIN cut.data => GoodManifest(k, cut.data[Manifest(k)])
  <2>1. ASSUME NEW k \in Nat, Manifest(k) \in DOMAIN cut.data
        PROVE  GoodManifest(k, cut.data[Manifest(k)])
    <3>1. CASE Manifest(k) = f
      BY <3>1, <1>2, GoodEmpty
    <3>2. CASE Manifest(k) # f
      <4>1. cut.data[Manifest(k)] = dk.data[Manifest(k)] /\ Manifest(k) \in DOMAIN dk.data
        BY <1>1, <2>1, <3>2
      <4>. QED BY <4>1 DEF DiskOK
    <3>. QED BY <3>1, <3>2
  <2>. QED BY <2>1
<1>4. DiskOK(cut)
  BY <1>1, <1>2, <1>3 DEF DiskOK
<1>5. f[1] # "manifest" => Keeps(dk, cut)
  <2>1. f[1] # "manifest" => \A k \in Nat : Manifest(k) # f
    BY FileNames
  <2>. QED BY <1>1, <2>1 DEF Keeps
<1>. PICK dir : dir = [Dir(dk) EXCEPT !.files = @ \cup {f}]
  OBVIOUS
<1>6. dir \in Dirs /\ dir.files = Dir(dk).files \cup {f} /\ dir.files \subseteq DOMAIN cut.data
  BY <1>2, DirOK DEF Dirs
<1>. PICK new : new = ChangeDir(cut, dir)
  OBVIOUS
<1>7. DiskOK(new) /\ Keeps(cut, new) /\ Dir(new) = dir
  BY <1>4, <1>6, ChangeDirGood
<1>8. new = NewWritableFile(dk, f)
  BY Zenon DEF NewWritableFile
<1>9. new.data[f] = <<>>
  <2>1. new.data = cut.data
    BY <1>4 DEF ChangeDir, DiskOK
  <2>. QED BY <2>1, <1>2
<1>10. f[1] # "manifest" => Keeps(dk, new)
  BY <1>5, <1>7 DEF Keeps
<1>11. \A n \in Numbers(dir, "wal") : n \in Numbers(Dir(dk), "wal") \/ (n = f[2] /\ f[1] = "wal")
  BY <1>6 DEF Numbers
<1>. QED BY <1>7, <1>8, <1>9, <1>10, <1>11 DEF NoNewWal

LEMMA BuildSSTCalm ==
    ASSUME NEW dk, DiskOK(dk), NEW n \in Nat, NEW ents
    PROVE  Calm(dk, BuildSST(dk, n, ents))
<1>. PICK e : e = SetToSeq(ents)
  OBVIOUS
<1>. PICK new : new = [dk EXCEPT !.data[Sst(n)] = e]
  OBVIOUS
<1>1. Sst(n)[1] # "manifest"
  BY FileNames
<1>2. Calm(dk, new)
  BY <1>1, SetData
<1>3. Calm(new, Sync(new, Sst(n)))
  BY <1>2, SyncCalm DEF Calm
<1>4. BuildSST(dk, n, ents) = Sync(new, Sst(n))
  BY Zenon DEF BuildSST
<1>. QED BY <1>2, <1>3, <1>4, CalmTwice

LEMMA AddDataCalm ==
    ASSUME NEW dk, DiskOK(dk), NEW f, f[1] # "manifest", NEW rec
    PROVE  Calm(dk, AddRecord(dk, f, rec))
<1>. PICK e : e = Append(dk.data[f], rec)
  OBVIOUS
<1>1. AddRecord(dk, f, rec) = [dk EXCEPT !.data[f] = e]
  BY DEF AddRecord
<1>2. Calm(dk, [dk EXCEPT !.data[f] = e])
  BY SetData
<1>. QED BY <1>1, <1>2

LEMMA WriteStringCalm ==
    ASSUME NEW dk, DiskOK(dk), NEW n \in Nat
    PROVE  Calm(dk, WriteStringToFileSync(dk, n))
<1>1. Temp(n) \in Files /\ Temp(n)[1] = "dbtmp"
  BY FileNames
<1>. PICK new : new = NewWritableFile(dk, Temp(n))
  OBVIOUS
<1>2. Calm(dk, new)
  BY <1>1, NewFile DEF Calm
<1>. PICK newer : newer = AddRecord(new, Temp(n), n)
  OBVIOUS
<1>3. Calm(new, newer)
  BY <1>1, <1>2, AddDataCalm DEF Calm
<1>4. Calm(newer, SyncFd(newer, Temp(n)))
  BY <1>3, SyncFdCalm DEF Calm
<1>5. WriteStringToFileSync(dk, n) = SyncFd(newer, Temp(n))
  BY Zenon DEF WriteStringToFileSync
<1>. QED BY <1>2, <1>3, <1>4, <1>5, CalmTwice

(* The numbers of SST files that MANIFEST k of dk names are below x.       *)
BelowIn(dk, k, x) == Manifest(k) \in DOMAIN dk.data => NewsBelow(dk.data[Manifest(k)], x)

(* What a failed call leaves: no MANIFEST names a file it did not.         *)
KeepsBelow(dk, new) == \A k \in Nat : \A x : BelowIn(dk, k, x) => BelowIn(new, k, x)
Tame(dk, new) == DiskOK(new) /\ NoNewWal(dk, new) /\ KeepsBelow(dk, new)

LEMMA KeepsKeepsBelow ==
    ASSUME NEW dk, NEW new, Keeps(dk, new)
    PROVE  KeepsBelow(dk, new)
BY DEF Keeps, KeepsBelow, BelowIn

LEMMA CalmTame ==
    ASSUME NEW dk, NEW new, Calm(dk, new)
    PROVE  Tame(dk, new)
BY KeepsKeepsBelow DEF Calm, Tame

LEMMA TameTwice ==
    ASSUME NEW dk, NEW new, NEW newer, Tame(dk, new), Tame(new, newer)
    PROVE  Tame(dk, newer)
<1>1. KeepsBelow(dk, newer)
  BY Zenon DEF Tame, KeepsBelow
<1>2. NoNewWal(dk, newer)
  BY Zenon DEF Tame, NoNewWal
<1>. QED BY <1>1, <1>2 DEF Tame

(* A record more in MANIFEST k. *)
LEMMA AddToManifest ==
    ASSUME NEW dk, DiskOK(dk), NEW k \in Nat, NEW rec,
           Manifest(k) \in DOMAIN dk.data => GoodManifest(k, Append(dk.data[Manifest(k)], rec))
    PROVE  LET new == AddRecord(dk, Manifest(k), rec)
           IN  /\ DiskOK(new) /\ NoNewWal(dk, new) /\ DOMAIN new.data = DOMAIN dk.data
               /\ Manifest(k) \in DOMAIN dk.data =>
                      new.data[Manifest(k)] = Append(dk.data[Manifest(k)], rec)
               /\ \A j \in Nat \ {k} : Manifest(j) \in DOMAIN dk.data =>
                      new.data[Manifest(j)] = dk.data[Manifest(j)]
<1>. PICK new : new = AddRecord(dk, Manifest(k), rec)
  OBVIOUS
<1>1. /\ DOMAIN new = {"dir", "data", "synced"} /\ new.dir = dk.dir
      /\ new.data = [dk.data EXCEPT ![Manifest(k)] = Append(dk.data[Manifest(k)], rec)]
  BY DEF DiskOK, AddRecord
<1>2. \A j \in Nat \ {k} : Manifest(j) # Manifest(k)
  BY DEF Manifest
<1>3. /\ DOMAIN new.data = DOMAIN dk.data
      /\ Manifest(k) \in DOMAIN dk.data =>
             new.data[Manifest(k)] = Append(dk.data[Manifest(k)], rec)
      /\ \A j \in Nat \ {k} : Manifest(j) \in DOMAIN dk.data =>
             new.data[Manifest(j)] = dk.data[Manifest(j)]
  BY <1>1, <1>2
<1>4. ASSUME NEW j \in Nat, Manifest(j) \in DOMAIN new.data
      PROVE  GoodManifest(j, new.data[Manifest(j)])
  <2>1. CASE j = k
    BY <2>1, <1>3, <1>4
  <2>2. CASE j # k
    <3>1. new.data[Manifest(j)] = dk.data[Manifest(j)] /\ Manifest(j) \in DOMAIN dk.data
      BY <2>2, <1>3, <1>4
    <3>. QED BY <3>1 DEF DiskOK
  <2>. QED BY <2>1, <2>2
<1>5. DiskOK(new)
  BY <1>1, <1>3, <1>4 DEF DiskOK
<1>6. NoNewWal(dk, new)
  BY <1>1 DEF NoNewWal, Dir
<1>. QED BY <1>3, <1>5, <1>6

LEMMA AddTornTame ==
    ASSUME NEW dk, DiskOK(dk), NEW k \in Nat
    PROVE  Tame(dk, AddRecord(dk, Manifest(k), Torn))
<1>. PICK new : new = AddRecord(dk, Manifest(k), Torn)
  OBVIOUS
<1>1. Manifest(k) \in DOMAIN dk.data =>
        /\ GoodManifest(k, dk.data[Manifest(k)])
        /\ GoodManifest(k, Append(dk.data[Manifest(k)], Torn))
  BY GoodTorn DEF DiskOK
<1>2. /\ DiskOK(new) /\ NoNewWal(dk, new) /\ DOMAIN new.data = DOMAIN dk.data
      /\ Manifest(k) \in DOMAIN dk.data =>
             new.data[Manifest(k)] = Append(dk.data[Manifest(k)], Torn)
      /\ \A j \in Nat \ {k} : Manifest(j) \in DOMAIN dk.data =>
             new.data[Manifest(j)] = dk.data[Manifest(j)]
  BY <1>1, AddToManifest
<1>3. ASSUME NEW j \in Nat, NEW x, BelowIn(dk, j, x), Manifest(j) \in DOMAIN new.data
      PROVE  NewsBelow(new.data[Manifest(j)], x)
  <2>1. NewsBelow(dk.data[Manifest(j)], x)
    BY <1>2, <1>3 DEF BelowIn
  <2>2. CASE j = k
    <3>1. \A n \in Field(Torn, "new") : n < x
      BY FieldTorn DEF Tags
    <3>2. IsSeq(dk.data[Manifest(k)])
      BY <1>1, <1>2, <1>3, <2>2 DEF GoodManifest
    <3>3. NewsBelow(Append(dk.data[Manifest(k)], Torn), x)
      BY <2>1, <2>2, <3>1, <3>2, NewsMore
    <3>. QED BY <3>3, <1>2, <1>3, <2>2
  <2>3. CASE j # k
    BY <2>1, <2>3, <1>2, <1>3
  <2>. QED BY <2>2, <2>3
<1>4. KeepsBelow(dk, new)
  BY <1>3 DEF KeepsBelow, BelowIn
<1>. QED BY <1>2, <1>4 DEF Tame

LEMMA BelowMore ==
    ASSUME NEW dk, DiskOK(dk), NEW k \in Nat, NEW x \in Nat, NEW y \in Nat, x <= y, BelowIn(dk, k, x)
    PROVE  BelowIn(dk, k, y)
<1>1. ASSUME Manifest(k) \in DOMAIN dk.data PROVE NewsBelow(dk.data[Manifest(k)], y)
  <2>. PICK recs : recs = dk.data[Manifest(k)]
    OBVIOUS
  <2>1. GoodManifest(k, recs) /\ NewsBelow(recs, x)
    BY <1>1 DEF DiskOK, BelowIn
  <2>2. ASSUME NEW i \in 1..Len(recs), NEW n \in Field(recs[i], "new") PROVE n < y
    <3>1. n \in Nat /\ n < x
      BY <2>1 DEF GoodManifest, GoodRecord, NewsBelow
    <3>. QED BY <3>1
  <2>. QED BY <2>2 DEF NewsBelow
<1>. QED BY <1>1 DEF BelowIn

-----------------------------------------------------------------------------
(***************************************************************************)
(* The inductive invariant                                                 *)
(***************************************************************************)
VersionFields == {"manifest", "log_open", "next", "last", "wal", "files"}
OpFields == {"call", "at", "edit", "number", "ents", "wals", "pos", "max_sequence", "save", "todo"}
Whole == {"record", "sync", "temp", "rename"}
Logging == {"create", "snapshot"} \cup Whole
Replaying == {"replay", "build"}

DiskInv == DiskOK(disk)

(* All numbers the VersionSet knows of are below next. *)
VersionInv ==
    /\ DOMAIN versions = VersionFields
    /\ versions.next \in Nat /\ versions.log_open \in BOOLEAN
    /\ versions.manifest \in Nat /\ versions.manifest < versions.next
    /\ versions.wal \in Nat /\ versions.wal <= versions.next
    /\ \A n \in versions.files : n \in Nat /\ n < versions.next
    /\ wal_file_number \in Nat /\ wal_file_number < versions.next
    /\ compaction.out \in Nat /\ compaction.out < versions.next

OpInv ==
    /\ DOMAIN op = OpFields /\ DOMAIN op.edit = Tags
    /\ op.number \in Nat /\ op.number < versions.next
    /\ \A n \in op.edit.new : n \in Nat /\ n < versions.next
    /\ op.wals \subseteq Nat
    /\ op.wals # {} => op.at \in Replaying /\ pc = "opening"
    /\ op.call = "newdb" \/ op.at = "recover" => versions = NewVersionSet
    /\ op.call = "newdb" => op.at \in Logging \ {"snapshot"} /\ op.edit.new = {}
    /\ op.call = "flush" => pc = "opened"
    /\ pc \in {"closed", "corrupt"} => versions = NewVersionSet /\ op = NoOp
    /\ pc \in {"closed", "opening", "opened", "corrupt"}

(* The MANIFEST that is open for more names nothing from next on, and one  *)
(* is open when the database is.                                           *)
LogInv ==
    /\ versions.log_open => BelowIn(disk, versions.manifest, versions.next)
    /\ pc = "opened" \/ op.at = "remove" => versions.log_open
    /\ pc = "opening" /\ op.at \in Replaying /\ ~op.save => versions.log_open

(* The edit that is on its way to a MANIFEST. *)
Emptied == Manifest(versions.manifest) \in DOMAIN disk.data =>
             disk.data[Manifest(versions.manifest)] = <<>>
EditFor(x) ==
    /\ SoundEdit(op.edit, x) /\ x <= versions.next /\ ManifestNumber < x
    /\ op.call # "newdb" => \A n \in versions.files : n < x
    /\ op.at \in Whole => BelowIn(disk, ManifestNumber, x)
    /\ op.at = "snapshot" => Emptied
EditInv == op.at \in Logging => \E x \in Nat : EditFor(x)

(* A WAL file is numbered below next or still to be replayed. *)
WalInv ==
    pc \in {"opening", "opened"} /\ op.call # "newdb" /\ op.at # "recover" =>
        \A n \in Numbers(Dir(disk), "wal") : n < versions.next \/ n \in op.wals

RecInv == DiskInv /\ VersionInv /\ OpInv /\ LogInv /\ EditInv /\ WalInv

LEMMA NoOpFields ==
    /\ DOMAIN NoOp = OpFields /\ NoOp.call = "none" /\ NoOp.at = "none" /\ NoOp.edit = NoEdit
    /\ NoOp.number = 0 /\ NoOp.wals = {} /\ NoOp.save = FALSE
    /\ DOMAIN NoEdit = Tags /\ NoEdit.new = {} /\ NoEdit.wal = {} /\ NoEdit.next = {}
BY DEF NoOp, NoEdit, OpFields, Tags

LEMMA NewVersionFields ==
    /\ DOMAIN NewVersionSet = VersionFields /\ NewVersionSet.next = 2
    /\ NewVersionSet.log_open = FALSE /\ NewVersionSet.manifest = 0
    /\ NewVersionSet.wal = 0 /\ NewVersionSet.files = {}
BY DEF NewVersionSet, VersionFields

(* The process has ended. *)
LEMMA ForgetInv ==
    ASSUME DiskOK(disk'), Forget, pc' \in {"closed", "corrupt"}
    PROVE  RecInv'
<1>1. /\ op' = NoOp /\ versions' = NewVersionSet /\ wal_file_number' = 0 /\ compaction' = NoCompaction
  BY DEF Forget
<1>2. VersionInv'
  <2>1. compaction'.out = 0
    BY <1>1 DEF NoCompaction
  <2>2. \A n \in versions'.files : FALSE
    BY <1>1, NewVersionFields
  <2>3. FALSE \in BOOLEAN /\ 0 \in Nat /\ 2 \in Nat /\ 0 < 2 /\ 0 <= 2
    OBVIOUS
  <2>. QED BY <1>1, <2>1, <2>2, <2>3, NewVersionFields, Zenon DEF VersionInv
<1>3. OpInv'
  BY <1>1, NoOpFields, NewVersionFields DEF OpInv
<1>4. LogInv'
  BY <1>1, NoOpFields, NewVersionFields DEF LogInv
<1>5. EditInv'
  BY <1>1, NoOpFields DEF EditInv, Logging, Whole
<1>6. WalInv'
  BY DEF WalInv
<1>. QED BY <1>2, <1>3, <1>4, <1>5, <1>6 DEF RecInv, DiskInv

LEMMA InitInv == Init => RecInv
<1>. SUFFICES ASSUME Init PROVE RecInv
  OBVIOUS
<1>1. /\ op = NoOp /\ versions = NewVersionSet /\ wal_file_number = 0 /\ compaction = NoCompaction
      /\ pc = "closed" /\ disk = EmptyDisk
  BY DEF Init
<1>2. VersionInv
  <2>1. compaction.out = 0
    BY <1>1 DEF NoCompaction
  <2>2. \A n \in versions.files : FALSE
    BY <1>1, NewVersionFields
  <2>3. FALSE \in BOOLEAN /\ 0 \in Nat /\ 2 \in Nat /\ 0 < 2 /\ 0 <= 2
    OBVIOUS
  <2>. QED BY <1>1, <2>1, <2>2, <2>3, NewVersionFields, Zenon DEF VersionInv
<1>3. OpInv
  BY <1>1, NoOpFields, NewVersionFields DEF OpInv
<1>4. LogInv
  BY <1>1, NoOpFields, NewVersionFields DEF LogInv
<1>5. EditInv
  BY <1>1, NoOpFields DEF EditInv, Logging, Whole
<1>6. WalInv
  BY <1>1 DEF WalInv
<1>7. DiskOK(disk)
  <2>1. EmptyDir \in Dirs /\ EmptyDir.files = {}
    BY DEF EmptyDir, Dirs
  <2>2. /\ DOMAIN disk = {"dir", "data", "synced"} /\ disk.dir = <<EmptyDir>>
        /\ DOMAIN disk.data = {}
    BY <1>1 DEF EmptyDisk
  <2>3. disk.dir \in Seq(Dirs) /\ disk.dir # <<>> /\ Len(disk.dir) = 1 /\ disk.dir[1] = EmptyDir
    BY <2>1, <2>2
  <2>. QED BY <2>1, <2>2, <2>3 DEF DiskOK
<1>. QED BY <1>2, <1>3, <1>4, <1>5, <1>6, <1>7 DEF RecInv, DiskInv

(* The WAL files of a step that creates none. *)
LEMMA NoWalInv ==
    ASSUME RecInv, NoNewWal(disk, disk'), versions'.next \in Nat, versions.next <= versions'.next,
           op.wals = {} \/ op'.wals = op.wals, pc \in {"opening", "opened"},
           op.call # "newdb", op.at # "recover"
    PROVE  WalInv'
<1>1. ASSUME NEW n \in Numbers(Dir(disk'), "wal") PROVE n < versions'.next \/ n \in op'.wals
  <2>1. n \in Numbers(Dir(disk), "wal")
    BY <1>1 DEF NoNewWal
  <2>2. n < versions.next \/ n \in op.wals
    BY <2>1 DEF RecInv, WalInv
  <2>3. n \in Nat
    <3>1. Dir(disk) \in Dirs
      BY DirOK DEF RecInv, DiskInv
    <3>. QED BY <2>1, <3>1 DEF Numbers, Dirs, Files
  <2>. QED BY <2>2, <2>3 DEF RecInv, VersionInv
<1>. QED BY <1>1 DEF WalInv

(* A call fails. *)
LEMMA FailInv ==
    ASSUME RecInv, NEW dk, Tame(disk, dk), Fail(dk), pc \in {"opening", "opened"}
    PROVE  RecInv'
<1>1. disk' = dk /\ DiskOK(disk') /\ NoNewWal(disk, disk') /\ KeepsBelow(disk, disk')
  BY DEF Fail, Tame
<1>2. CASE pc = "opening"
  <2>1. pc' = "closed" /\ Forget
    BY <1>2 DEF Fail
  <2>. QED BY <1>1, <2>1, ForgetInv
<1>3. CASE pc = "opened"
  <2>1. /\ op' = NoOp /\ versions' = versions /\ wal_file_number' = wal_file_number /\ pc' = "opened"
        /\ compaction' = NoCompaction \/ compaction' = compaction
    BY <1>3 DEF Fail, memory
  <2>2. VersionInv'
    BY <2>1 DEF RecInv, VersionInv, NoCompaction
  <2>3. versions.log_open /\ op.call # "newdb" /\ op.at # "recover" /\ op.wals = {}
    BY <1>3, NewVersionFields DEF RecInv, LogInv, OpInv
  <2>4. OpInv'
    BY <2>1, NoOpFields DEF OpInv, RecInv, VersionInv
  <2>5. LogInv'
    <3>1. BelowIn(disk', versions.manifest, versions.next)
      BY <1>1, <2>3 DEF KeepsBelow, RecInv, LogInv, VersionInv
    <3>. QED BY <2>1, <2>3, <3>1, NoOpFields DEF LogInv
  <2>6. EditInv'
    BY <2>1, NoOpFields DEF EditInv, Logging, Whole
  <2>7. WalInv'
    BY <1>1, <1>3, <2>1, <2>3, NoWalInv DEF RecInv, VersionInv
  <2>. QED BY <1>1, <2>2, <2>4, <2>5, <2>6, <2>7 DEF RecInv, DiskInv
<1>. QED BY <1>2, <1>3

-----------------------------------------------------------------------------
(***************************************************************************)
(* LogAndApply and NewDB                                                   *)
(***************************************************************************)
LEMMA WhileLogging ==
    ASSUME RecInv, op.at \in Logging
    PROVE  /\ pc \in {"opening", "opened"} /\ op.wals = {} /\ op.at # "recover"
           /\ ManifestNumber \in Nat /\ DiskOK(disk)
           /\ op.call = "newdb" => versions.log_open = FALSE /\ op.at # "snapshot"
           /\ op.call # "newdb" => ManifestNumber = versions.manifest
<1>1. op # NoOp /\ op.at # "recover" /\ ~(op.at \in Replaying)
  BY NoOpFields DEF Logging, Whole, Replaying
<1>2. pc \in {"opening", "opened"} /\ op.wals = {}
  BY <1>1 DEF RecInv, OpInv
<1>3. ManifestNumber \in Nat
  BY DEF ManifestNumber, RecInv, VersionInv
<1>4. op.call = "newdb" => versions.log_open = FALSE /\ op.at # "snapshot"
  BY NewVersionFields DEF RecInv, OpInv
<1>. QED BY <1>1, <1>2, <1>3, <1>4 DEF ManifestNumber, RecInv, DiskInv

LEMMA AbandonTame ==
    ASSUME NEW dk, DiskOK(dk)
    PROVE  Tame(dk, Abandon(dk)) /\ Tame(dk, NotCurrent(dk))
BY RemoveFileCalm, CalmSame, CalmTame DEF Abandon, NotCurrent

(* From one call to the next. *)
LEMMA NextCall ==
    ASSUME RecInv, op.at \in Logging, NEW a \in Logging, op.call = "newdb" => a # "snapshot",
           op' = [op EXCEPT !.at = a], UNCHANGED <<pc, versions, wal_file_number, compaction>>,
           DiskOK(disk'), NoNewWal(disk, disk'),
           versions.log_open => BelowIn(disk', versions.manifest, versions.next),
           NEW x \in Nat, EditFor(x), a \in Whole => BelowIn(disk', ManifestNumber, x),
           a = "snapshot" => Emptied'
    PROVE  RecInv'
<1>1. /\ DOMAIN op' = OpFields /\ op'.at = a /\ op'.call = op.call /\ op'.edit = op.edit
      /\ op'.number = op.number /\ op'.wals = op.wals
  BY DEF RecInv, OpInv, OpFields
<1>2. a # "recover" /\ ~(a \in Replaying) /\ a # "remove"
  BY DEF Logging, Whole, Replaying
<1>3. /\ pc \in {"opening", "opened"} /\ op.wals = {} /\ op.at # "recover"
  BY WhileLogging
<1>4. VersionInv'
  BY Zenon DEF RecInv, VersionInv
<1>5. OpInv'
  BY <1>1, <1>2, <1>3 DEF RecInv, OpInv
<1>6. LogInv'
  BY <1>1, <1>2 DEF RecInv, LogInv
<1>7. EditFor(x)'
  BY <1>1 DEF EditFor, ManifestNumber
<1>8. EditInv'
  BY <1>7 DEF EditInv
<1>9. WalInv'
  <2>1. CASE op.call = "newdb"
    BY <2>1, <1>1 DEF WalInv
  <2>2. CASE op.call # "newdb"
    BY <2>2, <1>1, <1>3, NoWalInv DEF RecInv, VersionInv
  <2>. QED BY <2>1, <2>2
<1>. QED BY <1>4, <1>5, <1>6, <1>8, <1>9 DEF RecInv, DiskInv

LEMMA CreateManifestInv == RecInv /\ CreateManifest => RecInv'
<1>. SUFFICES ASSUME RecInv, CreateManifest PROVE RecInv'
  OBVIOUS
<1>. PICK k : k = ManifestNumber
  OBVIOUS
<1>0. op.at = "create" /\ op.at \in Logging
  BY DEF CreateManifest, Logging
<1>1. /\ pc \in {"opening", "opened"} /\ k \in Nat /\ DiskOK(disk)
      /\ op.call = "newdb" => versions.log_open = FALSE
      /\ op.call # "newdb" => k = versions.manifest
  BY <1>0, WhileLogging
<1>2. CASE Fail(disk)
  BY <1>1, <1>2, CalmSame, CalmTame, FailInv
<1>3. ASSUME disk' = NewWritableFile(disk, Manifest(k)),
             op' = [op EXCEPT !.at = IF op.call = "newdb" THEN "record" ELSE "snapshot"],
             UNCHANGED <<pc, versions, memory, compaction>>
      PROVE  RecInv'
  <2>1. Manifest(k) \in Files /\ Manifest(k)[1] # "wal"
    BY <1>1, FileNames
  <2>2. DiskOK(disk') /\ NoNewWal(disk, disk') /\ disk'.data[Manifest(k)] = <<>>
    BY <1>1, <1>3, <2>1, NewFile
  <2>3. \A x : BelowIn(disk', k, x)
    <3>1. \A x : NewsBelow(<<>>, x)
      BY DEF NewsBelow
    <3>. QED BY <2>2, <3>1 DEF BelowIn
  <2>4. PICK x \in Nat : EditFor(x)
    BY <1>0 DEF RecInv, EditInv
  <2>5. op.call # "newdb" => Emptied'
    BY <1>1, <1>3, <2>2 DEF Emptied
  <2>6. versions.log_open => BelowIn(disk', versions.manifest, versions.next)
    BY <1>1, <2>3 DEF RecInv, VersionInv
  <2>. PICK a : a = IF op.call = "newdb" THEN "record" ELSE "snapshot"
    OBVIOUS
  <2>7. a \in Logging /\ (op.call = "newdb" => a # "snapshot") /\ (a = "snapshot" => Emptied')
    BY <2>5 DEF Logging, Whole
  <2>8. wal_file_number' = wal_file_number
    BY <1>3 DEF memory
  <2>. QED BY <1>0, <1>3, <2>2, <2>3, <2>4, <2>6, <2>7, <2>8, NextCall
<1>. QED BY <1>2, <1>3 DEF CreateManifest

LEMMA WriteInv ==
    ASSUME RecInv, op.at \in {"snapshot", "record"}, NEW rec, Write(rec), NEW x \in Nat, EditFor(x),
           Manifest(ManifestNumber) \in DOMAIN disk.data =>
               /\ GoodManifest(ManifestNumber, Append(disk.data[Manifest(ManifestNumber)], rec))
               /\ NewsBelow(Append(disk.data[Manifest(ManifestNumber)], rec), x)
    PROVE  RecInv'
<1>. PICK k : k = ManifestNumber
  OBVIOUS
<1>0. op.at \in Logging
  BY DEF Logging, Whole
<1>1. /\ pc \in {"opening", "opened"} /\ k \in Nat /\ DiskOK(disk)
      /\ op.call = "newdb" => versions.log_open = FALSE
      /\ op.call # "newdb" => k = versions.manifest
  BY <1>0, WhileLogging
<1>2. CASE Fail(Abandon(AddRecord(disk, Manifest(k), Torn)))
  <2>. PICK dk : dk = AddRecord(disk, Manifest(k), Torn)
    OBVIOUS
  <2>1. Tame(disk, dk)
    BY <1>1, AddTornTame
  <2>2. Tame(disk, Abandon(dk))
    BY <2>1, AbandonTame, TameTwice DEF Tame
  <2>. PICK left : left = Abandon(dk)
    OBVIOUS
  <2>3. Fail(left)
    BY <1>2
  <2>. QED BY <1>1, <2>2, <2>3, FailInv
<1>3. ASSUME disk' = AddRecord(disk, Manifest(k), rec),
             op' = [op EXCEPT !.at = IF op.at = "snapshot" THEN "record" ELSE "sync"],
             UNCHANGED <<pc, versions, memory, compaction>>
      PROVE  RecInv'
  <2>1. /\ DiskOK(disk') /\ NoNewWal(disk, disk') /\ DOMAIN disk'.data = DOMAIN disk.data
        /\ Manifest(k) \in DOMAIN disk.data =>
               disk'.data[Manifest(k)] = Append(disk.data[Manifest(k)], rec)
    BY <1>1, <1>3, AddToManifest
  <2>2. BelowIn(disk', k, x)
    BY <2>1 DEF BelowIn
  <2>3. x <= versions.next /\ versions.next \in Nat
    BY DEF EditFor, RecInv, VersionInv
  <2>4. versions.log_open => BelowIn(disk', versions.manifest, versions.next)
    BY <1>1, <2>1, <2>2, <2>3, BelowMore
  <2>. PICK a : a = IF op.at = "snapshot" THEN "record" ELSE "sync"
    OBVIOUS
  <2>5. a \in Logging /\ a # "snapshot"
    BY DEF Logging, Whole
  <2>6. wal_file_number' = wal_file_number
    BY <1>3 DEF memory
  <2>. QED BY <1>0, <1>3, <2>1, <2>2, <2>4, <2>5, <2>6, NextCall
<1>. QED BY <1>2, <1>3, Zenon DEF Write

LEMMA WriteSnapshotInv == RecInv /\ WriteSnapshot => RecInv'
<1>. SUFFICES ASSUME RecInv, WriteSnapshot PROVE RecInv'
  OBVIOUS
<1>. PICK k : k = ManifestNumber
  OBVIOUS
<1>. PICK rec : rec = EncodeTo([NoEdit EXCEPT !.new = versions.files])
  OBVIOUS
<1>0. op.at = "snapshot" /\ op.at \in Logging /\ Write(rec)
  BY DEF WriteSnapshot, Logging
<1>1. k \in Nat /\ op.call # "newdb" /\ k = versions.manifest
  BY <1>0, WhileLogging
<1>2. PICK x \in Nat : EditFor(x)
  BY <1>0 DEF RecInv, EditInv
<1>3. Manifest(k) \in DOMAIN disk.data => disk.data[Manifest(k)] = <<>>
  BY <1>0, <1>1, <1>2 DEF EditFor, Emptied
<1>4. versions.files \in SUBSET Nat /\ \A n \in versions.files : n < x
  BY <1>1, <1>2 DEF RecInv, VersionInv, EditFor
<1>5. GoodManifest(k, Append(<<>>, rec)) /\ NewsBelow(Append(<<>>, rec), x)
  BY <1>4, GoodSnapshot
<1>. QED BY <1>0, <1>2, <1>3, <1>5, WriteInv

LEMMA WriteEditInv == RecInv /\ WriteEdit => RecInv'
<1>. SUFFICES ASSUME RecInv, WriteEdit PROVE RecInv'
  OBVIOUS
<1>. PICK k : k = ManifestNumber
  OBVIOUS
<1>0. op.at = "record" /\ op.at \in Logging /\ op.at \in Whole /\ Write(EncodeTo(op.edit))
  BY DEF WriteEdit, Logging, Whole
<1>1. k \in Nat
  BY <1>0, WhileLogging
<1>2. PICK x \in Nat : EditFor(x)
  BY <1>0 DEF RecInv, EditInv
<1>3. ASSUME Manifest(k) \in DOMAIN disk.data
      PROVE  /\ GoodManifest(k, Append(disk.data[Manifest(k)], EncodeTo(op.edit)))
             /\ NewsBelow(Append(disk.data[Manifest(k)], EncodeTo(op.edit)), x)
  <2>. PICK recs : recs = disk.data[Manifest(k)]
    OBVIOUS
  <2>. PICK edit : edit = op.edit
    OBVIOUS
  <2>1. GoodManifest(k, recs)
    BY <1>1, <1>3 DEF RecInv, DiskInv, DiskOK
  <2>2. NewsBelow(recs, x) /\ k < x /\ SoundEdit(edit, x)
    BY <1>0, <1>2, <1>3 DEF EditFor, BelowIn
  <2>. QED BY <2>1, <2>2, GoodEdit
<1>. PICK rec : rec = EncodeTo(op.edit)
  OBVIOUS
<1>. QED BY <1>0, <1>2, <1>3, WriteInv

(* The new version is installed. *)
LEMMA InstallInv ==
    ASSUME RecInv, op.at \in Whole, Calm(disk, disk'), Install(disk'),
           UNCHANGED <<pc, wal_file_number>>
    PROVE  RecInv'
<1>. PICK k : k = ManifestNumber
  OBVIOUS
<1>0. op.at \in Logging
  BY DEF Logging
<1>1. /\ pc \in {"opening", "opened"} /\ op.wals = {} /\ op.at # "recover" /\ k \in Nat
      /\ op.call = "newdb" => versions.log_open = FALSE
      /\ op.call # "newdb" => k = versions.manifest
  BY <1>0, WhileLogging
<1>2. PICK x \in Nat : EditFor(x)
  BY <1>0 DEF RecInv, EditInv
<1>3. DiskOK(disk') /\ NoNewWal(disk, disk') /\ KeepsBelow(disk, disk')
  BY CalmTame DEF Tame
<1>4. CASE op.call = "newdb"
  <2>1. /\ op' = [NoOp EXCEPT !.call = "open", !.at = "recover"]
        /\ UNCHANGED <<versions, compaction>>
    BY <1>4 DEF Install
  <2>2. /\ DOMAIN op' = OpFields /\ op'.call = "open" /\ op'.at = "recover" /\ op'.edit = NoEdit
        /\ op'.number = 0 /\ op'.wals = {}
    BY <2>1, NoOpFields DEF OpFields
  <2>3. versions = NewVersionSet
    BY <1>4 DEF RecInv, OpInv
  <2>4. VersionInv'
    BY <2>1, Zenon DEF RecInv, VersionInv
  <2>5. OpInv'
    <3>1. 0 \in Nat /\ 0 < versions.next
      BY <2>3, NewVersionFields
    <3>. QED BY <1>1, <2>1, <2>2, <2>3, <3>1, NoOpFields DEF OpInv
  <2>6. LogInv'
    <3>1. pc # "opened"
      BY <2>3, NewVersionFields DEF RecInv, LogInv
    <3>2. versions'.log_open = FALSE /\ ~("recover" \in Replaying)
      BY <2>1, <2>3, NewVersionFields DEF Replaying
    <3>. QED BY <2>2, <3>1, <3>2 DEF LogInv
  <2>7. EditInv'
    BY <2>2 DEF EditInv, Logging, Whole
  <2>8. WalInv'
    BY <2>2 DEF WalInv
  <2>. QED BY <1>3, <2>4, <2>5, <2>6, <2>7, <2>8 DEF RecInv, DiskInv
<1>5. CASE op.call # "newdb"
  <2>1. versions' = [versions EXCEPT !.files = SaveTo(@, Apply(NoChange, op.edit)),
                                     !.wal = The(op.edit.wal), !.log_open = TRUE]
    BY <1>5 DEF Install
  <2>2. compaction' = compaction \/ compaction' = NoCompaction
    BY <1>5 DEF Install
  <2>3. \E dk, vs : BeginRemove(dk, vs)
    BY <1>5, Zenon DEF Install
  <2>4. \E s : op' = [NoOp EXCEPT !.call = op.call, !.at = "remove", !.todo = s]
    BY <2>3, Zenon DEF BeginRemove
  <2>5. /\ DOMAIN op' = OpFields /\ op'.call = op.call /\ op'.at = "remove" /\ op'.edit = NoEdit
        /\ op'.number = 0 /\ op'.wals = {}
    BY <2>4, NoOpFields DEF OpFields
  <2>6. /\ DOMAIN versions' = VersionFields /\ versions'.log_open = TRUE
        /\ versions'.next = versions.next /\ versions'.manifest = versions.manifest
        /\ versions'.wal = The(op.edit.wal)
        /\ versions'.files = SaveTo(versions.files, Apply(NoChange, op.edit))
    BY <2>1 DEF RecInv, VersionInv, VersionFields
  <2>7. \A n \in versions'.files : n \in versions.files \/ n \in op.edit.new
    BY <2>6 DEF SaveTo, Apply, NoChange
  <2>8. \A n \in versions'.files : n \in Nat /\ n < versions.next
    BY <2>7 DEF RecInv, VersionInv, OpInv
  <2>9. x <= versions.next /\ SoundEdit(op.edit, x) /\ (op.at \in Whole => BelowIn(disk, k, x))
    BY <1>2 DEF EditFor
  <2>10. versions'.wal \in Nat /\ versions'.wal <= versions.next
    <3>1. PICK w \in Nat : op.edit.wal = {w} /\ w <= x
      BY <2>9 DEF SoundEdit
    <3>2. The(op.edit.wal) = w
      BY <3>1 DEF The
    <3>. QED BY <3>1, <3>2, <2>6, <2>9 DEF RecInv, VersionInv
  <2>11. VersionInv'
    <3>1. compaction'.out = compaction.out \/ compaction'.out = 0
      BY <2>2 DEF NoCompaction
    <3>2. compaction'.out \in Nat /\ compaction'.out < versions.next
      BY <3>1 DEF RecInv, VersionInv
    <3>. QED BY <2>6, <2>8, <2>10, <3>2, Zenon DEF RecInv, VersionInv
  <2>12. OpInv'
    <3>1. 0 \in Nat /\ 0 < versions.next
      BY DEF RecInv, VersionInv
    <3>2. op.call = "flush" => pc = "opened"
      BY DEF RecInv, OpInv
    <3>. QED BY <1>1, <1>5, <2>5, <2>6, <3>1, <3>2, NoOpFields DEF OpInv
  <2>13. LogInv'
    <3>1. BelowIn(disk', k, x)
      BY <1>1, <1>3, <2>9 DEF KeepsBelow
    <3>2. BelowIn(disk', k, versions.next)
      BY <1>1, <1>3, <2>9, <3>1, BelowMore DEF RecInv, VersionInv
    <3>. QED BY <1>1, <1>5, <2>5, <2>6, <3>2 DEF LogInv
  <2>14. EditInv'
    BY <2>5 DEF EditInv, Logging, Whole
  <2>15. WalInv'
    BY <1>1, <1>3, <1>5, <2>6, NoWalInv DEF RecInv, VersionInv
  <2>. QED BY <1>3, <2>11, <2>12, <2>13, <2>14, <2>15 DEF RecInv, DiskInv
<1>. QED BY <1>4, <1>5

(* A call that leaves the MANIFESTs as they are. *)
LEMMA CalmCall ==
    ASSUME RecInv, op.at \in Whole, Calm(disk, disk'), NEW a \in Whole, op' = [op EXCEPT !.at = a],
           UNCHANGED <<pc, versions, wal_file_number, compaction>>
    PROVE  RecInv'
<1>0. op.at \in Logging /\ a \in Logging /\ a # "snapshot"
  BY DEF Logging, Whole
<1>1. DiskOK(disk') /\ NoNewWal(disk, disk') /\ KeepsBelow(disk, disk')
  BY CalmTame DEF Tame
<1>2. PICK x \in Nat : EditFor(x)
  BY <1>0 DEF RecInv, EditInv
<1>3. BelowIn(disk', ManifestNumber, x)
  <2>1. BelowIn(disk, ManifestNumber, x)
    BY <1>2 DEF EditFor
  <2>. QED BY <1>0, <1>1, <2>1, WhileLogging DEF KeepsBelow
<1>4. versions.log_open => BelowIn(disk', versions.manifest, versions.next)
  BY <1>1 DEF KeepsBelow, RecInv, LogInv, VersionInv
<1>. QED BY <1>0, <1>1, <1>2, <1>3, <1>4, NextCall

LEMMA SyncManifestInv == RecInv /\ SyncManifest => RecInv'
<1>. SUFFICES ASSUME RecInv, SyncManifest PROVE RecInv'
  OBVIOUS
<1>0. op.at = "sync" /\ op.at \in Whole /\ op.at \in Logging
  BY DEF SyncManifest, Whole, Logging
<1>1. pc \in {"opening", "opened"} /\ DiskOK(disk)
  BY <1>0, WhileLogging
<1>2. CASE Fail(Abandon(disk))
  BY <1>1, <1>2, AbandonTame, FailInv
<1>3. ASSUME disk' = Sync(disk, Manifest(ManifestNumber)),
             IF NewManifest THEN op' = [op EXCEPT !.at = "temp"] /\ UNCHANGED <<versions, imm, compaction>>
             ELSE Install(disk'),
             UNCHANGED <<pc, wal_file_number>>
      PROVE  RecInv'
  <2>1. Calm(disk, disk')
    BY <1>1, <1>3, SyncCalm
  <2>2. CASE NewManifest
    <3>1. "temp" \in Whole
      BY DEF Whole
    <3>. QED BY <1>0, <1>3, <2>1, <2>2, <3>1, CalmCall
  <2>3. CASE ~NewManifest
    BY <1>0, <1>3, <2>1, <2>3, InstallInv
  <2>. QED BY <2>2, <2>3
<1>. QED BY <1>2, <1>3, Zenon DEF SyncManifest

LEMMA WriteTempInv == RecInv /\ WriteTemp => RecInv'
<1>. SUFFICES ASSUME RecInv, WriteTemp PROVE RecInv'
  OBVIOUS
<1>. PICK k : k = ManifestNumber
  OBVIOUS
<1>0. op.at = "temp" /\ op.at \in Whole /\ op.at \in Logging
  BY DEF WriteTemp, Whole, Logging
<1>1. pc \in {"opening", "opened"} /\ DiskOK(disk) /\ k \in Nat
  BY <1>0, WhileLogging
<1>2. CASE Fail(NotCurrent(RemoveFile(NewWritableFile(disk, Temp(k)), Temp(k))))
  <2>. PICK new : new = NewWritableFile(disk, Temp(k))
    OBVIOUS
  <2>1. Calm(disk, new)
    BY <1>1, FileNames, NewFile DEF Calm
  <2>. PICK left : left = RemoveFile(new, Temp(k))
    OBVIOUS
  <2>2. Calm(new, left)
    BY <2>1, RemoveFileCalm DEF Calm
  <2>3. Tame(disk, left)
    BY <2>1, <2>2, CalmTwice, CalmTame
  <2>4. Tame(disk, NotCurrent(left))
    BY <2>3, AbandonTame, TameTwice DEF Tame
  <2>. PICK last : last = NotCurrent(left)
    OBVIOUS
  <2>5. Fail(last)
    BY <1>2
  <2>. QED BY <1>1, <2>4, <2>5, FailInv
<1>3. ASSUME disk' = WriteStringToFileSync(disk, k), op' = [op EXCEPT !.at = "rename"],
             UNCHANGED <<pc, versions, memory, compaction>>
      PROVE  RecInv'
  <2>1. Calm(disk, disk')
    BY <1>1, <1>3, WriteStringCalm
  <2>2. "rename" \in Whole
    BY DEF Whole
  <2>3. wal_file_number' = wal_file_number
    BY <1>3 DEF memory
  <2>. QED BY <1>0, <1>3, <2>1, <2>2, <2>3, CalmCall
<1>. QED BY <1>2, <1>3, Zenon DEF WriteTemp

LEMMA RenameTempInv == RecInv /\ RenameTemp => RecInv'
<1>. SUFFICES ASSUME RecInv, RenameTemp PROVE RecInv'
  OBVIOUS
<1>. PICK k : k = ManifestNumber
  OBVIOUS
<1>0. op.at = "rename" /\ op.at \in Whole /\ op.at \in Logging
  BY DEF RenameTemp, Whole, Logging
<1>1. pc \in {"opening", "opened"} /\ DiskOK(disk) /\ k \in Nat
  BY <1>0, WhileLogging
<1>2. CASE Fail(NotCurrent(RemoveFile(disk, Temp(k))))
  <2>. PICK left : left = RemoveFile(disk, Temp(k))
    OBVIOUS
  <2>1. Tame(disk, left)
    BY <1>1, RemoveFileCalm, CalmTame
  <2>2. Tame(disk, NotCurrent(left))
    BY <2>1, AbandonTame, TameTwice DEF Tame
  <2>. PICK last : last = NotCurrent(left)
    OBVIOUS
  <2>3. Fail(last)
    BY <1>2
  <2>. QED BY <1>1, <2>2, <2>3, FailInv
<1>3. ASSUME disk' = RenameToCurrent(disk, k), Install(disk'), UNCHANGED <<pc, wal_file_number>>
      PROVE  RecInv'
  <2>1. Calm(disk, disk')
    BY <1>1, <1>3, RenameCalm
  <2>. QED BY <1>0, <1>3, <2>1, InstallInv
<1>. QED BY <1>2, <1>3, Zenon DEF RenameTemp

-----------------------------------------------------------------------------
(***************************************************************************)
(* Steps by what they do to the numbers                                    *)
(***************************************************************************)

(* Next may grow and the last sequence number change. *)
Bumped(vs, new) ==
    /\ DOMAIN new = VersionFields /\ new.log_open = vs.log_open /\ new.manifest = vs.manifest
    /\ new.wal = vs.wal /\ new.files = vs.files
    /\ new.next \in Nat /\ vs.next <= new.next

(* The process goes on, and what it changes is numbered below next. *)
GoesOn ==
    /\ pc \in {"opening", "opened"} /\ op.call # "newdb" /\ op.at # "recover"
    /\ DiskOK(disk') /\ KeepsBelow(disk, disk')
    /\ \A n \in Numbers(Dir(disk'), "wal") : n \in Numbers(Dir(disk), "wal") \/ n < versions'.next
    /\ Bumped(versions, versions')
    /\ wal_file_number' \in Nat /\ wal_file_number' < versions'.next
    /\ compaction'.out \in Nat /\ compaction'.out < versions'.next
    /\ \A n \in op.wals : n \in op'.wals \/ n < versions'.next
    /\ op'.call # "newdb" /\ op'.at # "recover"

LEMMA GoesOnInv ==
    ASSUME RecInv, GoesOn
    PROVE  /\ VersionInv' /\ WalInv' /\ DiskInv'
           /\ versions.log_open => BelowIn(disk', versions.manifest, versions'.next)
<1>1. VersionInv'
  BY DEF GoesOn, Bumped, RecInv, VersionInv
<1>2. WalInv'
  <2>1. ASSUME NEW n \in Numbers(Dir(disk'), "wal") PROVE n < versions'.next \/ n \in op'.wals
    <3>1. n < versions'.next \/ n \in Numbers(Dir(disk), "wal")
      BY <2>1 DEF GoesOn
    <3>2. n \in Nat
      <4>1. Dir(disk') \in Dirs
        BY DirOK DEF GoesOn
      <4>. QED BY <2>1, <4>1 DEF Numbers, Dirs, Files
    <3>3. n \in Numbers(Dir(disk), "wal") => n < versions.next \/ n \in op.wals
      BY DEF GoesOn, RecInv, WalInv
    <3>4. versions.next \in Nat /\ versions'.next \in Nat /\ versions.next <= versions'.next
      BY DEF GoesOn, Bumped, RecInv, VersionInv
    <3>5. n < versions.next => n < versions'.next
      BY <3>2, <3>4
    <3>. QED BY <3>1, <3>3, <3>5, Zenon DEF GoesOn
  <2>. QED BY <2>1, Zenon DEF WalInv
<1>3. versions.log_open => BelowIn(disk', versions.manifest, versions'.next)
  <2>1. versions.log_open => BelowIn(disk', versions.manifest, versions.next)
    BY DEF GoesOn, KeepsBelow, RecInv, LogInv, VersionInv
  <2>. QED BY <2>1, BelowMore DEF GoesOn, Bumped, RecInv, VersionInv
<1>. QED BY <1>1, <1>2, <1>3 DEF GoesOn, DiskInv

LEMMA NoNewWalGoesOn ==
    ASSUME NEW dk, NEW new, NoNewWal(dk, new), NEW x
    PROVE  \A n \in Numbers(Dir(new), "wal") : n \in Numbers(Dir(dk), "wal") \/ n < x
BY DEF NoNewWal

(* The call goes on as it was. *)
LEMMA SameCall ==
    ASSUME RecInv, GoesOn, pc' = pc, Keeps(disk, disk'), DOMAIN op' = OpFields,
           op'.call = op.call, op'.at = op.at, op'.edit = op.edit, op'.number = op.number,
           op'.wals = op.wals, op'.save = op.save
    PROVE  RecInv'
<1>1. VersionInv' /\ WalInv' /\ DiskInv'
  BY GoesOnInv
<1>2. Bumped(versions, versions') /\ pc \in {"opening", "opened"} /\ op.call # "newdb" /\ op.at # "recover"
  BY DEF GoesOn
<1>3. OpInv'
  <2>1. op.number < versions'.next
    BY <1>2 DEF RecInv, OpInv, VersionInv, Bumped
  <2>2. \A n \in op.edit.new : n \in Nat /\ n < versions'.next
    BY <1>2 DEF RecInv, OpInv, VersionInv, Bumped
  <2>. QED BY <1>2, <2>1, <2>2 DEF RecInv, OpInv
<1>4. LogInv'
  BY <1>2, GoesOnInv DEF RecInv, LogInv, Bumped
<1>5. EditInv'
  <2>1. ASSUME op.at \in Logging PROVE \E x \in Nat : EditFor(x)'
    <3>1. PICK x \in Nat : EditFor(x)
      BY <2>1 DEF RecInv, EditInv
    <3>2. ManifestNumber' = ManifestNumber /\ ManifestNumber = versions.manifest
      BY <1>2 DEF ManifestNumber, Bumped
    <3>3. versions.manifest \in Nat /\ versions.next \in Nat
      BY DEF RecInv, VersionInv
    <3>4. op.at \in Whole => BelowIn(disk', ManifestNumber, x)
      BY <3>1, <3>2, <3>3 DEF EditFor, GoesOn, KeepsBelow
    <3>5. op.at = "snapshot" => Emptied'
      BY <1>2, <3>1, <3>3 DEF EditFor, Emptied, Keeps, Bumped
    <3>6. x <= versions'.next
      BY <1>2, <3>1, <3>3 DEF EditFor, Bumped
    <3>7. EditFor(x)'
      BY <1>2, <3>1, <3>2, <3>4, <3>5, <3>6 DEF EditFor, Bumped
    <3>. QED BY <3>7
  <2>. QED BY <2>1 DEF EditInv
<1>. QED BY <1>1, <1>3, <1>4, <1>5 DEF RecInv

(* The replay goes on, or an SST file is being built. *)
LEMMA StaysReplaying ==
    ASSUME RecInv, GoesOn, pc' = pc, DOMAIN op' = OpFields, op'.at \in Replaying,
           DOMAIN op'.edit = Tags, \A n \in op'.edit.new : n \in Nat /\ n < versions'.next,
           op'.number \in Nat, op'.number < versions'.next, op'.wals \subseteq op.wals,
           op'.call = "flush" => pc = "opened",
           pc = "opening" /\ ~op'.save => versions.log_open
    PROVE  RecInv'
<1>1. VersionInv' /\ WalInv' /\ DiskInv'
  BY GoesOnInv
<1>2. /\ Bumped(versions, versions') /\ pc \in {"opening", "opened"}
      /\ op'.call # "newdb" /\ op'.at # "recover"
  BY DEF GoesOn
<1>3. op'.at # "remove" /\ ~(op'.at \in Logging)
  BY DEF Replaying, Logging, Whole
<1>4. OpInv'
  <2>1. op.wals \subseteq Nat /\ (op.wals # {} => pc = "opening")
    BY DEF RecInv, OpInv
  <2>2. op'.wals \subseteq Nat /\ (op'.wals # {} => pc = "opening")
    BY <2>1
  <2>. QED BY <1>2, <2>2 DEF OpInv
<1>5. LogInv'
  BY <1>2, <1>3, GoesOnInv DEF RecInv, LogInv, Bumped
<1>6. EditInv'
  BY <1>3 DEF EditInv
<1>. QED BY <1>1, <1>4, <1>5, <1>6 DEF RecInv

(* LogAndApply begins. *)
LEMMA BeginsLogging ==
    ASSUME RecInv, GoesOn, pc' = pc, DOMAIN op' = OpFields, SoundEdit(op'.edit, versions'.next),
           op'.number \in Nat, op'.number < versions'.next, op'.wals = {},
           op'.call = "flush" => pc = "opened",
           op'.at = "create" \/ (op'.at = "record" /\ versions.log_open)
    PROVE  RecInv'
<1>1. VersionInv' /\ WalInv' /\ DiskInv'
  BY GoesOnInv
<1>2. /\ Bumped(versions, versions') /\ pc \in {"opening", "opened"}
      /\ op'.call # "newdb" /\ op'.at # "recover"
  BY DEF GoesOn
<1>3. op'.at # "remove" /\ ~(op'.at \in Replaying) /\ op'.at # "snapshot"
  BY DEF Replaying
<1>4. OpInv'
  BY <1>2 DEF OpInv, SoundEdit
<1>5. LogInv'
  BY <1>2, <1>3, GoesOnInv DEF RecInv, LogInv, Bumped
<1>6. EditInv'
  <2>. PICK x : x = versions'.next
    OBVIOUS
  <2>1. x \in Nat /\ ManifestNumber' = versions'.manifest
    BY <1>2 DEF Bumped, ManifestNumber
  <2>2. ManifestNumber' < x /\ \A n \in versions'.files : n < x
    BY <1>1, <2>1 DEF VersionInv
  <2>3. op'.at \in Whole => BelowIn(disk', ManifestNumber', x)
    BY <1>2, <2>1, GoesOnInv DEF Bumped, Whole
  <2>4. EditFor(x)'
    BY <1>3, <2>1, <2>2, <2>3 DEF EditFor
  <2>. QED BY <2>1, <2>4 DEF EditInv
<1>. QED BY <1>1, <1>4, <1>5, <1>6 DEF RecInv

(* The call ends, or only files are left to remove. *)
LEMMA EndsCall ==
    ASSUME RecInv, GoesOn, versions.log_open, pc' \in {"opening", "opened"}, DOMAIN op' = OpFields,
           op'.at \in {"remove", "none"}, op'.edit = NoEdit, op'.number = 0, op'.wals = {},
           op'.call = "flush" => pc' = "opened"
    PROVE  RecInv'
<1>1. VersionInv' /\ WalInv' /\ DiskInv'
  BY GoesOnInv
<1>2. Bumped(versions, versions') /\ op'.call # "newdb"
  BY DEF GoesOn
<1>3. ~(op'.at \in Logging) /\ ~(op'.at \in Replaying)
  BY DEF Replaying, Logging, Whole
<1>4. OpInv'
  <2>1. 0 \in Nat /\ 0 < versions'.next
    BY <1>1 DEF VersionInv
  <2>. QED BY <1>2, <2>1, NoOpFields DEF OpInv
<1>5. LogInv'
  BY <1>2, <1>3, GoesOnInv DEF LogInv, Bumped
<1>6. EditInv'
  BY <1>3 DEF EditInv
<1>. QED BY <1>1, <1>4, <1>5, <1>6 DEF RecInv

LEMMA BumpedSame ==
    ASSUME RecInv
    PROVE  Bumped(versions, versions)
BY DEF RecInv, VersionInv, Bumped

LEMMA BumpedNew ==
    ASSUME RecInv, NEW vs, Bumped(versions, vs)
    PROVE  /\ Bumped(versions, NewFileNumber(vs)) /\ NewFileNumber(vs).next = vs.next + 1
           /\ NewFileNumber(vs).last = vs.last
BY DEF RecInv, VersionInv, Bumped, NewFileNumber, VersionFields

LEMMA BumpedMark ==
    ASSUME RecInv, NEW vs, Bumped(versions, vs), NEW n \in Nat
    PROVE  /\ Bumped(versions, MarkFileNumberAsUsed(vs, n))
           /\ n < MarkFileNumberAsUsed(vs, n).next /\ vs.next <= MarkFileNumberAsUsed(vs, n).next
BY DEF RecInv, VersionInv, Bumped, MarkFileNumberAsUsed, VersionFields

LEMMA BumpedLast ==
    ASSUME RecInv, NEW e
    PROVE  LET vs == [versions EXCEPT !.last = e]
           IN  Bumped(versions, vs) /\ vs.next = versions.next
BY DEF RecInv, VersionInv, Bumped, VersionFields

-----------------------------------------------------------------------------
(***************************************************************************)
(* Removing files, building an SST file                                    *)
(***************************************************************************)

(* What the disk of a step that goes on has to be. *)
LEMMA CalmGoesOn ==
    ASSUME RecInv, Calm(disk, disk')
    PROVE  /\ DiskOK(disk') /\ KeepsBelow(disk, disk') /\ Keeps(disk, disk')
           /\ \A x : \A n \in Numbers(Dir(disk'), "wal") : n \in Numbers(Dir(disk), "wal") \/ n < x
<1>1. Keeps(disk, disk') /\ NoNewWal(disk, disk') /\ DiskOK(disk')
  BY DEF Calm
<1>. QED BY <1>1, KeepsKeepsBelow, NoNewWalGoesOn

LEMMA Numbered ==
    ASSUME RecInv
    PROVE  /\ versions.next \in Nat /\ wal_file_number \in Nat /\ wal_file_number < versions.next
           /\ compaction.out \in Nat /\ compaction.out < versions.next
           /\ 0 \in Nat /\ 0 < versions.next
BY DEF RecInv, VersionInv

LEMMA RemoveOneInv == RecInv /\ RemoveOne => RecInv'
<1>. SUFFICES ASSUME RecInv, RemoveOne PROVE RecInv'
  OBVIOUS
<1>1. PICK f \in op.todo : disk' = RemoveFile(disk, f) /\ op' = [op EXCEPT !.todo = @ \ {f}]
  BY DEF RemoveOne
<1>2. op.at = "remove" /\ UNCHANGED <<pc, versions, wal_file_number, compaction>>
  BY DEF RemoveOne, memory
<1>3. Calm(disk, disk')
  BY <1>1, RemoveFileCalm DEF RecInv, DiskInv
<1>4. /\ DOMAIN op' = OpFields /\ op'.call = op.call /\ op'.at = op.at /\ op'.edit = op.edit
      /\ op'.number = op.number /\ op'.wals = op.wals /\ op'.save = op.save
  BY <1>1 DEF RecInv, OpInv, OpFields
<1>5. op.call # "newdb" /\ pc \in {"opening", "opened"}
  BY <1>2, NoOpFields DEF RecInv, OpInv, Logging, Whole
<1>6. GoesOn
  BY <1>2, <1>3, <1>4, <1>5, CalmGoesOn, Numbered, BumpedSame DEF GoesOn
<1>. QED BY <1>2, <1>3, <1>4, <1>6, SameCall, CalmGoesOn

LEMMA RemoveDoneInv == RecInv /\ RemoveDone => RecInv'
<1>. SUFFICES ASSUME RecInv, RemoveDone PROVE RecInv'
  OBVIOUS
<1>1. /\ op.at = "remove" /\ op' = NoOp /\ pc' = "opened"
      /\ UNCHANGED <<disk, versions, wal_file_number, compaction>>
  BY DEF RemoveDone, memory
<1>2. Calm(disk, disk')
  BY <1>1, CalmSame DEF RecInv, DiskInv
<1>3. op.call # "newdb" /\ pc \in {"opening", "opened"} /\ op.wals = {} /\ versions.log_open
  BY <1>1, NoOpFields DEF RecInv, OpInv, LogInv, Logging, Whole, Replaying
<1>4. GoesOn
  BY <1>1, <1>2, <1>3, CalmGoesOn, Numbered, BumpedSame, NoOpFields DEF GoesOn
<1>. QED BY <1>1, <1>3, <1>4, EndsCall, NoOpFields

(* BeginLog, with the number of a WAL file. *)
LEMMA LogBegun ==
    ASSUME RecInv, NEW vs, NEW edit, BeginLog(vs, edit), DOMAIN edit = Tags, vs.next \in Nat,
           NEW w \in Nat, edit.wal = {w}, w <= vs.next, \A n \in edit.new : n \in Nat /\ n < vs.next
    PROVE  /\ DOMAIN op' = OpFields /\ SoundEdit(op'.edit, vs.next)
           /\ op'.at = IF vs.log_open THEN "record" ELSE "create"
           /\ op'.call = op.call /\ op'.number = op.number /\ op'.wals = op.wals
<1>. PICK new : new = [edit EXCEPT !.wal = IF @ = {} THEN {vs.wal} ELSE @,
                                   !.next = {vs.next}, !.last = {vs.last}]
  OBVIOUS
<1>1. op' = [op EXCEPT !.at = IF vs.log_open THEN "record" ELSE "create", !.edit = new]
  BY Zenon DEF BeginLog
<1>2. /\ DOMAIN op' = OpFields /\ op'.edit = new
      /\ op'.at = IF vs.log_open THEN "record" ELSE "create"
      /\ op'.call = op.call /\ op'.number = op.number /\ op'.wals = op.wals
  BY <1>1 DEF RecInv, OpInv, OpFields
<1>3. /\ DOMAIN new = Tags /\ new.wal = {w} /\ new.next = {vs.next} /\ new.new = edit.new
      /\ new.last # {}
  BY DEF Tags
<1>4. SoundEdit(new, vs.next)
  BY <1>3 DEF SoundEdit
<1>. QED BY <1>2, <1>4

LEMMA FinishBuildInv == RecInv /\ FinishBuild => RecInv'
<1>. SUFFICES ASSUME RecInv, FinishBuild PROVE RecInv'
  OBVIOUS
<1>1. op.at = "build" /\ op.at \in Replaying
  BY DEF FinishBuild, Replaying
<1>2. pc \in {"opening", "opened"} /\ op.call # "newdb" /\ DiskOK(disk) /\ op.number \in Nat
  BY <1>1, NoOpFields DEF RecInv, OpInv, DiskInv, Logging, Whole
<1>3. CASE Fail(RemoveFile(disk, Sst(op.number)))
  <2>. PICK left : left = RemoveFile(disk, Sst(op.number))
    OBVIOUS
  <2>1. Tame(disk, left)
    BY <1>2, RemoveFileCalm, CalmTame
  <2>2. Fail(left)
    BY <1>3
  <2>. QED BY <1>2, <2>1, <2>2, FailInv
<1>. DEFINE edit == [op.edit EXCEPT !.new = @ \cup {op.number}]
<1>4. /\ DOMAIN edit = Tags /\ edit.new = op.edit.new \cup {op.number}
      /\ \A n \in edit.new : n \in Nat /\ n < versions.next
  BY DEF RecInv, OpInv, Tags
<1>. HIDE DEF edit
<1>5. ASSUME disk' = BuildSST(disk, op.number, op.ents),
             IF op.call = "flush" THEN BeginLog(versions, [edit EXCEPT !.wal = {wal_file_number}])
             ELSE op' = [op EXCEPT !.at = "replay", !.edit = edit, !.number = 0, !.ents = {}],
             UNCHANGED <<pc, versions, memory, compaction>>
      PROVE  RecInv'
  <2>1. Calm(disk, disk')
    BY <1>2, <1>5, BuildSSTCalm
  <2>2. wal_file_number' = wal_file_number
    BY <1>5 DEF memory
  <2>3. CASE op.call = "flush"
    <3>. PICK logged : logged = [edit EXCEPT !.wal = {wal_file_number}]
      OBVIOUS
    <3>1. DOMAIN logged = Tags /\ logged.wal = {wal_file_number} /\ logged.new = edit.new
      BY <1>4 DEF Tags
    <3>2. BeginLog(versions, logged)
      BY <1>5, <2>3
    <3>3. wal_file_number <= versions.next
      BY Numbered
    <3>4. /\ DOMAIN op' = OpFields /\ SoundEdit(op'.edit, versions.next)
          /\ op'.at = IF versions.log_open THEN "record" ELSE "create"
          /\ op'.call = op.call /\ op'.number = op.number /\ op'.wals = op.wals
      BY <1>4, <3>1, <3>2, <3>3, LogBegun, Numbered
    <3>5. pc = "opened" /\ op.wals = {} /\ op.number < versions.next
      BY <2>3 DEF RecInv, OpInv
    <3>6. GoesOn
      BY <1>1, <1>2, <1>5, <2>1, <2>2, <2>3, <3>4, <3>5, CalmGoesOn, Numbered, BumpedSame DEF GoesOn
    <3>. QED BY <1>2, <1>5, <3>4, <3>5, <3>6, BeginsLogging
  <2>4. CASE op.call # "flush"
    <3>1. op' = [op EXCEPT !.at = "replay", !.edit = edit, !.number = 0, !.ents = {}]
      BY <1>5, <2>4
    <3>2. /\ DOMAIN op' = OpFields /\ op'.at = "replay" /\ op'.edit = edit /\ op'.number = 0
          /\ op'.call = op.call /\ op'.wals = op.wals /\ op'.save = op.save
      BY <3>1 DEF RecInv, OpInv, OpFields
    <3>3. GoesOn
      BY <1>1, <1>2, <1>5, <2>1, <2>2, <3>2, CalmGoesOn, Numbered, BumpedSame DEF GoesOn
    <3>4. pc = "opening" /\ ~op'.save => versions.log_open
      BY <1>1, <3>2 DEF RecInv, LogInv
    <3>5. "replay" \in Replaying
      BY DEF Replaying
    <3>. QED BY <1>4, <1>5, <2>4, <3>2, <3>3, <3>4, <3>5, Numbered, StaysReplaying
  <2>. QED BY <2>3, <2>4
<1>. QED BY <1>3, <1>5, Zenon DEF FinishBuild, edit

-----------------------------------------------------------------------------
(***************************************************************************)
(* DB::Open                                                                *)
(***************************************************************************)
LEMMA OpenInv == RecInv /\ Open => RecInv'
<1>. SUFFICES ASSUME RecInv, Open PROVE RecInv'
  OBVIOUS
<1>. DEFINE edit == [NoEdit EXCEPT !.wal = {0}, !.next = {2}, !.last = {0}]
<1>1. /\ pc = "closed" /\ pc' = "opening"
      /\ UNCHANGED <<disk, versions, wal_file_number, compaction>>
      /\ op' = IF Dir(disk).cur = 0 THEN [NoOp EXCEPT !.call = "newdb", !.at = "create", !.edit = edit]
               ELSE [NoOp EXCEPT !.call = "open", !.at = "recover"]
  BY Zenon DEF Open, memory
<1>2. versions' = NewVersionSet
  BY <1>1 DEF RecInv, OpInv
<1>3. DOMAIN edit = Tags /\ edit.wal = {0} /\ edit.next = {2} /\ edit.last = {0} /\ edit.new = {}
  BY NoOpFields DEF Tags
<1>. HIDE DEF edit
<1>4. /\ DOMAIN op' = OpFields /\ op'.number = 0 /\ op'.wals = {}
      /\ \/ op'.call = "newdb" /\ op'.at = "create" /\ op'.edit = edit
         \/ op'.call = "open" /\ op'.at = "recover" /\ op'.edit = NoEdit
  BY <1>1, NoOpFields DEF OpFields
<1>5. VersionInv'
  BY <1>1, Zenon DEF RecInv, VersionInv
<1>6. OpInv'
  <2>1. "create" \in Logging \ {"snapshot"}
    BY DEF Logging, Whole
  <2>2. 0 \in Nat /\ 0 < versions'.next
    BY <1>5 DEF VersionInv
  <2>3. DOMAIN op'.edit = Tags /\ op'.edit.new = {}
    BY <1>3, <1>4, NoOpFields
  <2>. QED BY <1>1, <1>2, <1>3, <1>4, <2>1, <2>2, <2>3 DEF OpInv
<1>7. LogInv'
  <2>1. versions'.log_open = FALSE
    BY <1>2, NewVersionFields
  <2>. QED BY <1>1, <1>4, <2>1 DEF LogInv, Replaying
<1>8. EditInv'
  <2>1. CASE op'.at = "recover"
    BY <2>1 DEF EditInv, Logging, Whole
  <2>2. CASE op'.call = "newdb" /\ op'.at = "create" /\ op'.edit = edit
    <3>1. SoundEdit(edit, 2)
      <4>1. edit.wal = {0} /\ 0 \in Nat /\ 0 <= 2 /\ 2 \in Nat
        BY <1>3
      <4>. QED BY <1>3, <4>1, Zenon DEF SoundEdit
    <3>2. ManifestNumber' = 1 /\ 1 < 2 /\ 2 <= versions'.next
      BY <1>2, <2>2, NewVersionFields DEF ManifestNumber
    <3>3. EditFor(2)'
      BY <2>2, <3>1, <3>2 DEF EditFor, Whole
    <3>. QED BY <3>3 DEF EditInv
  <2>. QED BY <1>4, <2>1, <2>2
<1>9. WalInv'
  BY <1>4 DEF WalInv
<1>. QED BY <1>1, <1>5, <1>6, <1>7, <1>8, <1>9 DEF RecInv, DiskInv

(* What Recover takes from the MANIFEST that CURRENT names. *)
LEMMA OpenableReads ==
    ASSUME NEW dk, DiskOK(dk), Openable(dk, Dir(dk))
    PROVE  LET k == Dir(dk).cur
               recs == dk.data[Manifest(k)]
               m == ReadManifest(Records(recs))
           IN  /\ k \in Nat /\ The(m.next) \in Nat /\ k < The(m.next)
               /\ The(m.wal) \in Nat /\ The(m.wal) <= The(m.next)
               /\ NewsBelow(recs, The(m.next))
               /\ \A n \in m.files : n \in Nat /\ n < The(m.next)
<1>. PICK k : k = Dir(dk).cur
  OBVIOUS
<1>. PICK recs : recs = dk.data[Manifest(k)]
  OBVIOUS
<1>. PICK read : read = Records(recs)
  OBVIOUS
<1>. PICK m : m = ReadManifest(read)
  OBVIOUS
<1>1. Manifest(k) \in Dir(dk).files /\ ~Spoilt(recs) /\ m.next # {} /\ m.wal # {}
  BY Zenon DEF Openable
<1>2. k \in Nat /\ GoodManifest(k, recs)
  <2>1. k \in Nat /\ Manifest(k) \in DOMAIN dk.data
    BY <1>1, DirOK DEF Dirs
  <2>. QED BY <2>1 DEF DiskOK
<1>3. IsSeq(recs) /\ Len(recs) \in Nat
  BY <1>2, SeqFacts DEF GoodManifest
<1>4. PICK n \in 0..Len(recs) : read = SubSeq(recs, 1, n)
  BY <1>3, RecordsPrefix
<1>5. GoodManifest(k, read)
  BY <1>2, <1>4, GoodPrefix
<1>6. IsSeq(read) /\ DOMAIN read = 1..Len(read)
  BY <1>5, SeqFacts DEF GoodManifest
<1>7. \A i \in 1..Len(read) : read[i] # Torn
  BY <1>1, <1>6 DEF Spoilt
<1>8. /\ The(m.next) \in Nat /\ k < The(m.next)
      /\ The(m.wal) \in Nat /\ The(m.wal) <= The(m.next)
      /\ NewsBelow(read, The(m.next))
      /\ \A f \in m.files : f \in Nat /\ f < The(m.next)
  BY <1>1, <1>5, <1>7, ReadGood
<1>. PICK x : x = The(m.next)
  OBVIOUS
<1>9. NewsBelow(recs, x)
  <2>1. CASE read = recs
    BY <2>1, <1>8
  <2>2. CASE read # recs
    <3>1. recs # <<>> /\ Last(recs) = Torn /\ read = Front(recs)
      BY <2>2 DEF Records
    <3>2. /\ Len(read) = Len(recs) - 1 /\ recs[Len(recs)] = Torn
          /\ \A i \in 1..Len(read) : read[i] = recs[i]
      <4>1. PICK S : recs \in Seq(S)
        BY <1>3 DEF IsSeq
      <4>. QED BY <3>1, <4>1 DEF Front, Last
    <3>3. Field(Torn, "new") = {}
      BY FieldTorn DEF Tags
    <3>4. ASSUME NEW i \in 1..Len(recs), NEW f \in Field(recs[i], "new") PROVE f < x
      <4>1. i # Len(recs)
        BY <3>2, <3>3, <3>4
      <4>2. i \in 1..Len(read) /\ recs[i] = read[i]
        BY <1>3, <3>2, <4>1
      <4>. QED BY <1>8, <3>4, <4>2 DEF NewsBelow
    <3>. QED BY <3>4 DEF NewsBelow
  <2>. QED BY <2>1, <2>2
<1>. QED BY <1>2, <1>8, <1>9

LEMMA RecoverInv == RecInv /\ Recover => RecInv'
<1>. SUFFICES ASSUME RecInv, Recover PROVE RecInv'
  OBVIOUS
<1>. PICK dir : dir = Dir(disk)
  OBVIOUS
<1>. PICK recs : recs = disk.data[Manifest(dir.cur)]
  OBVIOUS
<1>. PICK m : m = ReadManifest(Records(recs))
  OBVIOUS
<1>. PICK x : x = The(m.next)
  OBVIOUS
<1>. DEFINE vs == [manifest |-> x, log_open |-> FALSE, next |-> x + 1,
                   last |-> The(m.last), wal |-> The(m.wal), files |-> m.files]
            begin == [op EXCEPT !.at = "replay", !.wals = WalsFrom(dir, vs.wal)]
<1>1. /\ op.at = "recover" /\ Openable(disk, Dir(disk))
      /\ UNCHANGED <<disk, pc, wal_file_number, compaction>>
  BY DEF Recover, memory
<1>2. \/ versions' = [vs EXCEPT !.manifest = dir.cur, !.log_open = TRUE] /\ op' = begin
      \/ versions' = vs /\ op' = [begin EXCEPT !.save = TRUE]
  BY Zenon DEF Recover
<1>3. DiskOK(disk)
  BY DEF RecInv, DiskInv
<1>4. /\ dir.cur \in Nat /\ x \in Nat /\ dir.cur < x
      /\ The(m.wal) \in Nat /\ The(m.wal) <= x
      /\ NewsBelow(recs, x)
      /\ \A n \in m.files : n \in Nat /\ n < x
  BY <1>1, <1>3, OpenableReads
<1>. PICK w : w = The(m.wal)
  OBVIOUS
<1>. PICK files : files = m.files
  OBVIOUS
<1>5. /\ DOMAIN versions' = VersionFields /\ versions'.next = x + 1 /\ versions'.wal = w
      /\ versions'.files = files
      /\ \/ versions'.manifest = dir.cur /\ versions'.log_open = TRUE
         \/ versions'.manifest = x /\ versions'.log_open = FALSE
  <2>1. /\ DOMAIN vs = VersionFields /\ vs.next = x + 1 /\ vs.wal = w /\ vs.files = files
        /\ vs.manifest = x /\ vs.log_open = FALSE
    BY DEF VersionFields
  <2>. HIDE DEF vs
  <2>2. versions' = vs \/ versions' = [vs EXCEPT !.manifest = dir.cur, !.log_open = TRUE]
    BY <1>2
  <2>. QED BY <2>1, <2>2 DEF VersionFields
<1>6. /\ DOMAIN op' = OpFields /\ op'.at = "replay" /\ op'.wals = WalsFrom(dir, w)
      /\ op'.call = op.call /\ op'.edit = op.edit /\ op'.number = op.number
      /\ versions'.log_open = TRUE \/ op'.save = TRUE
  BY <1>2 DEF RecInv, OpInv, OpFields
<1>. HIDE DEF vs, begin
<1>7. /\ versions.next = 2 /\ ~versions.log_open
      /\ op # NoOp /\ op.call # "newdb"
  BY <1>1, NewVersionFields, NoOpFields DEF RecInv, OpInv, Logging, Whole
<1>8. pc = "opening" /\ op.call # "flush"
  BY <1>7 DEF RecInv, OpInv, LogInv
<1>9. versions'.next \in Nat /\ 2 <= versions'.next /\ x < versions'.next
  BY <1>4, <1>5
<1>10. VersionInv'
  <2>1. versions'.manifest \in Nat /\ versions'.manifest < versions'.next
    BY <1>4, <1>5
  <2>2. versions'.log_open \in BOOLEAN
    BY <1>5
  <2>3. w \in Nat /\ w <= versions'.next
    BY <1>4, <1>9
  <2>4. \A n \in files : n \in Nat /\ n < versions'.next
    BY <1>4, <1>9
  <2>5. /\ wal_file_number' \in Nat /\ wal_file_number' < versions'.next
        /\ compaction'.out \in Nat /\ compaction'.out < versions'.next
    BY <1>1, <1>7, <1>9, Numbered
  <2>. QED BY <1>5, <1>9, <2>1, <2>2, <2>3, <2>4, <2>5 DEF VersionInv
<1>11. OpInv'
  <2>1. op.number \in Nat /\ op.number < versions'.next
    BY <1>7, <1>9 DEF RecInv, OpInv
  <2>2. \A n \in op.edit.new : n \in Nat /\ n < versions'.next
    BY <1>7, <1>9 DEF RecInv, OpInv
  <2>3. WalsFrom(dir, w) \subseteq Nat
    <3>1. dir \in Dirs
      BY <1>3, DirOK
    <3>. QED BY <3>1 DEF WalsFrom, Numbers, Dirs, Files
  <2>4. DOMAIN op.edit = Tags
    BY DEF RecInv, OpInv
  <2>5. "replay" \in Replaying
    BY DEF Replaying
  <2>. QED BY <1>1, <1>6, <1>7, <1>8, <2>1, <2>2, <2>3, <2>4, <2>5 DEF OpInv
<1>12. LogInv'
  <2>1. ASSUME versions'.log_open PROVE BelowIn(disk', versions'.manifest, versions'.next)
    <3>1. BelowIn(disk, dir.cur, x)
      BY <1>4 DEF BelowIn
    <3>2. BelowIn(disk, dir.cur, versions'.next)
      BY <1>3, <1>4, <1>9, <3>1, BelowMore
    <3>. QED BY <1>1, <1>5, <2>1, <3>2
  <2>. QED BY <1>1, <1>6, <1>8, <2>1 DEF LogInv
<1>13. EditInv'
  BY <1>6 DEF EditInv, Logging, Whole
<1>14. WalInv'
  <2>1. ASSUME NEW n \in Numbers(dir, "wal") PROVE n < versions'.next \/ n \in op'.wals
    <3>1. n \in Nat
      <4>1. dir \in Dirs
        BY <1>3, DirOK
      <4>. QED BY <2>1, <4>1 DEF Numbers, Dirs, Files
    <3>2. n >= w => n \in op'.wals
      BY <1>6, <2>1 DEF WalsFrom
    <3>3. ~(n >= w) => n < versions'.next
      BY <1>4, <1>9, <3>1
    <3>. QED BY <3>2, <3>3
  <2>. QED BY <1>1, <2>1 DEF WalInv
<1>. QED BY <1>1, <1>3, <1>10, <1>11, <1>12, <1>13, <1>14 DEF RecInv, DiskInv

LEMMA RecoverCorruptInv == RecInv /\ RecoverCorrupt => RecInv'
BY ForgetInv DEF RecoverCorrupt, RecInv, DiskInv

-----------------------------------------------------------------------------
(***************************************************************************)
(* RecoverWalFile                                                          *)
(***************************************************************************)

(* BeginBuild: NewFileNumber, and the file of that number. *)
LEMMA BuildBegun ==
    ASSUME RecInv, NEW o, DOMAIN o = OpFields, NEW ents, BeginBuild(o, ents),
           NEW vs, versions' = vs, Bumped(versions, vs), versions.next < vs.next,
           UNCHANGED <<pc, wal_file_number, compaction>>, pc \in {"opening", "opened"},
           op.call # "newdb", op.at # "recover", o.call # "newdb",
           o.call = "flush" => pc = "opened",
           DOMAIN o.edit = Tags, \A n \in o.edit.new : n \in Nat /\ n < versions.next,
           o.wals \subseteq op.wals, \A n \in op.wals : n \in o.wals \/ n < vs.next,
           pc = "opening" /\ ~o.save => versions.log_open
    PROVE  RecInv'
<1>1. disk' = NewWritableFile(disk, Sst(versions.next))
  BY DEF BeginBuild
<1>2. op' = [o EXCEPT !.at = "build", !.number = versions.next, !.ents = ents]
  BY DEF BeginBuild
<1>3. Calm(disk, disk')
  BY <1>1, Numbered, FileNames, NewFile DEF Calm, RecInv, DiskInv
<1>4. /\ DOMAIN op' = OpFields /\ op'.at = "build" /\ op'.number = versions.next
      /\ op'.call = o.call /\ op'.edit = o.edit /\ op'.wals = o.wals /\ op'.save = o.save
  BY <1>2 DEF OpFields
<1>5. versions.next \in Nat /\ versions.next < versions'.next /\ versions'.next \in Nat
  BY Numbered DEF Bumped
<1>6. /\ wal_file_number' \in Nat /\ wal_file_number' < versions'.next
      /\ compaction'.out \in Nat /\ compaction'.out < versions'.next
      /\ \A n \in o.edit.new : n \in Nat /\ n < versions'.next
  BY <1>5, Numbered
<1>7. GoesOn
  BY <1>3, <1>4, <1>6, CalmGoesOn DEF GoesOn
<1>8. "build" \in Replaying
  BY DEF Replaying
<1>. QED BY <1>4, <1>5, <1>6, <1>7, <1>8, StaysReplaying

(* Where a replay is. *)
LEMMA WhileReplaying ==
    ASSUME RecInv, op.at = "replay"
    PROVE  /\ pc \in {"opening", "opened"} /\ op.call # "newdb" /\ op.at # "recover"
           /\ op.call = "flush" => pc = "opened"
           /\ DOMAIN op = OpFields /\ DOMAIN op.edit = Tags
           /\ \A n \in op.edit.new : n \in Nat /\ n < versions.next
           /\ op.number \in Nat /\ op.number < versions.next
           /\ pc = "opening" /\ ~op.save => versions.log_open
           /\ op.wals # {} => FirstWal \in op.wals /\ FirstWal \in Nat
<1>1. /\ pc \in {"opening", "opened"} /\ op.call # "newdb"
      /\ op.call = "flush" => pc = "opened"
  BY NoOpFields DEF RecInv, OpInv, Logging, Whole
<1>2. /\ DOMAIN op = OpFields /\ DOMAIN op.edit = Tags
      /\ \A n \in op.edit.new : n \in Nat /\ n < versions.next
      /\ op.number \in Nat /\ op.number < versions.next
  BY DEF RecInv, OpInv
<1>3. pc = "opening" /\ ~op.save => versions.log_open
  BY DEF RecInv, LogInv, Replaying
<1>4. op.wals # {} => FirstWal \in op.wals /\ FirstWal \in Nat
  <2>1. op.wals \in SUBSET Nat
    BY DEF RecInv, OpInv
  <2>. QED BY <2>1, LeastIn DEF FirstWal
<1>. QED BY <1>1, <1>2, <1>3, <1>4

LEMMA ReplayFullInv == RecInv /\ ReplayFull => RecInv'
<1>. SUFFICES ASSUME RecInv, ReplayFull PROVE RecInv'
  OBVIOUS
<1>. PICK part : part = SubSeq(Rest, 1, WriteBufferSize + 1)
  OBVIOUS
<1>. PICK o : o = [op EXCEPT !.pos = @ + Len(part), !.max_sequence = Seen(part), !.save = TRUE]
  OBVIOUS
<1>1. /\ op.at = "replay" /\ versions' = NewFileNumber(versions)
      /\ UNCHANGED <<pc, wal_file_number, compaction>>
  BY DEF ReplayFull, memory
<1>2. BeginBuild(o, ToSet(part))
  BY Zenon DEF ReplayFull
<1>3. /\ DOMAIN o = OpFields /\ o.call = op.call /\ o.edit = op.edit /\ o.wals = op.wals
      /\ o.save = TRUE
  BY <1>1, WhileReplaying DEF OpFields
<1>. PICK vs : vs = NewFileNumber(versions)
  OBVIOUS
<1>4. Bumped(versions, vs) /\ versions.next < vs.next
  BY BumpedSame, BumpedNew, Numbered
<1>. PICK ents : ents = ToSet(part)
  OBVIOUS
<1>. QED BY <1>1, <1>2, <1>3, <1>4, WhileReplaying, BuildBegun

LEMMA NextWalFields ==
    ASSUME NEW o, DOMAIN o = OpFields
    PROVE  LET next == NextWal(o)
           IN  /\ DOMAIN next = OpFields /\ next.wals = o.wals \ {FirstWal} /\ next.at = o.at
               /\ next.call = o.call /\ next.edit = o.edit /\ next.number = o.number
               /\ next.save = o.save
BY DEF NextWal, OpFields

(* A WAL file is done, and no SST file begun. *)
LEMMA WalDone ==
    ASSUME RecInv, op.at = "replay", op.wals # {}, op' = NextWal(op),
           versions' = MarkFileNumberAsUsed(versions, FirstWal),
           UNCHANGED <<disk, pc, compaction>>, wal_file_number' \in {wal_file_number, FirstWal}
    PROVE  RecInv'
<1>. PICK n : n = FirstWal
  OBVIOUS
<1>1. n \in Nat /\ n \in op.wals
  BY WhileReplaying
<1>2. Bumped(versions, versions') /\ n < versions'.next /\ versions.next <= versions'.next
  BY <1>1, BumpedSame, BumpedMark
<1>3. /\ DOMAIN op' = OpFields /\ op'.wals = op.wals \ {n} /\ op'.at = "replay"
      /\ op'.call = op.call /\ op'.edit = op.edit /\ op'.number = op.number /\ op'.save = op.save
  BY WhileReplaying, NextWalFields
<1>4. versions'.next \in Nat /\ versions.next \in Nat
  BY <1>2, Numbered DEF Bumped
<1>5. /\ wal_file_number' \in Nat /\ wal_file_number' < versions'.next
      /\ compaction'.out \in Nat /\ compaction'.out < versions'.next
      /\ op.number \in Nat /\ op.number < versions'.next
      /\ \A f \in op.edit.new : f \in Nat /\ f < versions'.next
  BY <1>1, <1>2, <1>4, Numbered, WhileReplaying
<1>6. Calm(disk, disk')
  BY CalmSame DEF RecInv, DiskInv
<1>7. GoesOn
  BY <1>2, <1>3, <1>5, <1>6, CalmGoesOn, WhileReplaying DEF GoesOn
<1>8. "replay" \in Replaying
  BY DEF Replaying
<1>. QED BY <1>3, <1>5, <1>7, <1>8, WhileReplaying, StaysReplaying

LEMMA ReplayReuseInv == RecInv /\ ReplayReuse => RecInv'
BY WalDone DEF ReplayReuse

LEMMA ReplayEndInv == RecInv /\ ReplayEnd => RecInv'
<1>. SUFFICES ASSUME RecInv, ReplayEnd PROVE RecInv'
  OBVIOUS
<1>1. op.at = "replay" /\ op.wals # {} /\ UNCHANGED <<pc, wal_file_number, compaction>>
  BY DEF ReplayEnd, memory
<1>2. CASE Rest = <<>>
  BY <1>1, <1>2, WalDone DEF ReplayEnd
<1>3. CASE Rest # <<>>
  <2>. PICK n : n = FirstWal
    OBVIOUS
  <2>. PICK next : next = NextWal(op)
    OBVIOUS
  <2>. PICK o : o = [next EXCEPT !.save = TRUE]
    OBVIOUS
  <2>. PICK ents : ents = ToSet(Rest)
    OBVIOUS
  <2>. PICK vs : vs = MarkFileNumberAsUsed(NewFileNumber(versions), n)
    OBVIOUS
  <2>1. BeginBuild(o, ents) /\ versions' = vs
    BY <1>3, Zenon DEF ReplayEnd
  <2>2. /\ DOMAIN next = OpFields /\ next.wals = op.wals \ {n} /\ next.call = op.call
        /\ next.edit = op.edit
    BY <1>1, WhileReplaying, NextWalFields
  <2>3. /\ DOMAIN o = OpFields /\ o.wals = op.wals \ {n} /\ o.call = op.call
        /\ o.edit = op.edit /\ o.save = TRUE
    BY <2>2 DEF OpFields
  <2>4. n \in Nat
    BY <1>1, WhileReplaying
  <2>5. Bumped(versions, vs) /\ n < vs.next /\ versions.next < vs.next
    <3>. PICK v : v = NewFileNumber(versions)
      OBVIOUS
    <3>1. Bumped(versions, v) /\ v.next = versions.next + 1
      BY BumpedSame, BumpedNew
    <3>2. Bumped(versions, vs) /\ n < vs.next /\ v.next <= vs.next
      BY <2>4, <3>1, BumpedMark
    <3>3. vs.next \in Nat /\ versions.next \in Nat
      BY <3>2, Numbered DEF Bumped
    <3>. QED BY <3>1, <3>2, <3>3
  <2>. QED BY <1>1, <2>1, <2>3, <2>5, WhileReplaying, BuildBegun
<1>. QED BY <1>2, <1>3

LEMMA FinishRecoverInv == RecInv /\ FinishRecover => RecInv'
<1>. SUFFICES ASSUME RecInv, FinishRecover PROVE RecInv'
  OBVIOUS
<1>. DEFINE reused == wal_file_number # 0
            seen == [versions EXCEPT !.last = Max({@, op.max_sequence})]
            vs == IF reused THEN seen ELSE NewFileNumber(seen)
            num == IF reused THEN wal_file_number ELSE seen.next
<1>1. op.at = "replay" /\ op.wals = {}
  BY DEF FinishRecover
<1>2. CASE Fail(disk)
  BY <1>1, <1>2, WhileReplaying, CalmSame, CalmTame, FailInv DEF RecInv, DiskInv
<1>3. ASSUME disk' = IF reused THEN disk ELSE NewWritableFile(disk, Wal(num)),
             versions' = vs, wal_file_number' = num,
             IF op.save THEN BeginLog(vs, [op.edit EXCEPT !.wal = {num}]) /\ UNCHANGED compaction
             ELSE UNCHANGED compaction /\ BeginRemove(disk', vs),
             UNCHANGED pc
      PROVE  RecInv'
  <2>1. Bumped(versions, seen) /\ seen.next = versions.next
    <3>. PICK e : e = Max({versions.last, op.max_sequence})
      OBVIOUS
    <3>1. seen = [versions EXCEPT !.last = e]
      OBVIOUS
    <3>. QED BY <3>1, BumpedLast
  <2>2. /\ Bumped(versions, vs) /\ num \in Nat /\ num < vs.next
        /\ num = wal_file_number \/ num = versions.next
        /\ vs.next \in Nat /\ versions.next <= vs.next
    <3>1. CASE reused
      BY <2>1, <3>1, Numbered
    <3>2. CASE ~reused
      <4>. HIDE DEF seen
      <4>1. Bumped(versions, NewFileNumber(seen)) /\ NewFileNumber(seen).next = seen.next + 1
        BY <2>1, BumpedNew
      <4>. QED BY <2>1, <3>2, <4>1, Numbered
    <3>. QED BY <3>1, <3>2
  <2>3. /\ DiskOK(disk') /\ KeepsBelow(disk, disk')
        /\ \A n \in Numbers(Dir(disk'), "wal") : n \in Numbers(Dir(disk), "wal") \/ n < vs.next
    <3>1. DiskOK(disk)
      BY DEF RecInv, DiskInv
    <3>2. CASE reused
      BY <1>3, <3>1, <3>2 DEF KeepsBelow
    <3>3. CASE ~reused
      <4>. HIDE DEF num, vs
      <4>1. disk' = NewWritableFile(disk, Wal(num))
        BY <1>3, <3>3
      <4>2. Wal(num) \in Files /\ Wal(num)[1] = "wal" /\ Wal(num)[2] = num
        BY <2>2, FileNames DEF Wal
      <4>3. /\ DiskOK(disk') /\ Keeps(disk, disk')
            /\ Numbers(Dir(disk'), "wal") \subseteq Numbers(Dir(disk), "wal") \cup {num}
        BY <3>1, <4>1, <4>2, NewFile
      <4>. QED BY <2>2, <4>3, KeepsKeepsBelow
    <3>. QED BY <3>2, <3>3
  <2>. HIDE DEF num, vs
  <2>4. /\ wal_file_number' \in Nat /\ wal_file_number' < vs.next
        /\ compaction' = compaction /\ compaction.out \in Nat /\ compaction.out < vs.next
    BY <1>3, <2>2, Numbered
  <2>5. CASE op.save
    <3>. PICK edit : edit = [op.edit EXCEPT !.wal = {num}]
      OBVIOUS
    <3>1. DOMAIN edit = Tags /\ edit.wal = {num} /\ edit.new = op.edit.new
      BY <1>1, WhileReplaying DEF Tags
    <3>2. BeginLog(vs, edit)
      BY <1>3, <2>5
    <3>3. /\ num <= vs.next /\ \A n \in edit.new : n \in Nat /\ n < vs.next
          /\ op.number \in Nat /\ op.number < vs.next
      BY <1>1, <2>2, <3>1, Numbered, WhileReplaying
    <3>4. /\ DOMAIN op' = OpFields /\ SoundEdit(op'.edit, vs.next)
          /\ op'.at = IF vs.log_open THEN "record" ELSE "create"
          /\ op'.call = op.call /\ op'.number = op.number /\ op'.wals = op.wals
      BY <2>2, <3>1, <3>2, <3>3, LogBegun
    <3>5. GoesOn
      BY <1>1, <1>3, <2>2, <2>3, <2>4, <3>4, WhileReplaying DEF GoesOn
    <3>6. op'.at = "create" \/ (op'.at = "record" /\ versions.log_open)
      BY <2>2, <3>4 DEF Bumped
    <3>. QED BY <1>1, <1>3, <3>3, <3>4, <3>5, <3>6, WhileReplaying, BeginsLogging
  <2>6. CASE ~op.save
    <3>1. \E s : op' = [NoOp EXCEPT !.call = op.call, !.at = "remove", !.todo = s]
      BY <1>3, <2>6, Zenon DEF BeginRemove
    <3>2. /\ DOMAIN op' = OpFields /\ op'.call = op.call /\ op'.at = "remove" /\ op'.edit = NoEdit
          /\ op'.number = 0 /\ op'.wals = {}
      BY <3>1, NoOpFields DEF OpFields
    <3>3. GoesOn
      BY <1>1, <1>3, <2>2, <2>3, <2>4, <3>2, WhileReplaying DEF GoesOn
    <3>4. versions.log_open
      BY <1>1, <2>6, WhileReplaying DEF RecInv, LogInv
    <3>. QED BY <1>1, <1>3, <3>2, <3>3, <3>4, WhileReplaying, EndsCall
  <2>. QED BY <2>5, <2>6
<1>4. \/ Fail(disk)
      \/ /\ disk' = IF reused THEN disk ELSE NewWritableFile(disk, Wal(num))
         /\ versions' = vs /\ wal_file_number' = num
         /\ IF op.save THEN BeginLog(vs, [op.edit EXCEPT !.wal = {num}]) /\ UNCHANGED compaction
            ELSE UNCHANGED compaction /\ BeginRemove(disk', vs)
         /\ UNCHANGED pc
  BY Zenon DEF FinishRecover
<1>. QED BY <1>2, <1>3, <1>4, Zenon

-----------------------------------------------------------------------------
(***************************************************************************)
(* The open database                                                       *)
(***************************************************************************)
LEMMA WhileOpened ==
    ASSUME RecInv, pc = "opened"
    PROVE  /\ op.call # "newdb" /\ op.at # "recover" /\ op.wals = {} /\ versions.log_open
           /\ DOMAIN op = OpFields /\ DiskOK(disk)
<1>1. versions.log_open /\ DOMAIN op = OpFields /\ DiskOK(disk) /\ op.wals = {}
  BY DEF RecInv, OpInv, LogInv, DiskInv
<1>2. op.call # "newdb" /\ op.at # "recover"
  BY <1>1, NewVersionFields DEF RecInv, OpInv
<1>. QED BY <1>1, <1>2

LEMMA WriteEntryInv == ASSUME NEW sync \in BOOLEAN PROVE RecInv /\ WriteEntry(sync) => RecInv'
<1>. SUFFICES ASSUME RecInv, WriteEntry(sync) PROVE RecInv'
  OBVIOUS
<1>. PICK e : e = versions.last + 1
  OBVIOUS
<1>. PICK f : f = Wal(wal_file_number)
  OBVIOUS
<1>. PICK written : written = AddRecord(disk, f, e)
  OBVIOUS
<1>1. /\ pc = "opened" /\ UNCHANGED <<pc, op, wal_file_number, compaction>>
      /\ disk' = IF sync THEN Sync(written, f) ELSE written
      /\ versions' = [versions EXCEPT !.last = e]
  BY DEF WriteEntry
<1>2. Calm(disk, disk')
  <2>1. f[1] # "manifest"
    BY Numbered, FileNames
  <2>2. Calm(disk, written)
    BY <1>1, <2>1, AddDataCalm, WhileOpened
  <2>3. Calm(written, Sync(written, f))
    BY <2>2, SyncCalm DEF Calm
  <2>. QED BY <1>1, <2>2, <2>3, CalmTwice
<1>3. Bumped(versions, versions') /\ versions'.next = versions.next
  BY <1>1, BumpedLast
<1>4. GoesOn
  BY <1>1, <1>2, <1>3, CalmGoesOn, Numbered, WhileOpened DEF GoesOn
<1>. QED BY <1>1, <1>2, <1>4, CalmGoesOn, WhileOpened, SameCall

LEMMA SwitchInv == RecInv /\ Switch => RecInv'
<1>. SUFFICES ASSUME RecInv, Switch PROVE RecInv'
  OBVIOUS
<1>. PICK n : n = versions.next
  OBVIOUS
<1>1. /\ pc = "opened" /\ UNCHANGED <<pc, op, compaction>>
      /\ disk' = NewWritableFile(disk, Wal(n)) /\ wal_file_number' = n
      /\ versions' = NewFileNumber(versions)
  BY DEF Switch
<1>2. n \in Nat /\ Wal(n) \in Files /\ Wal(n)[1] = "wal" /\ Wal(n)[2] = n
  BY Numbered, FileNames DEF Wal
<1>3. /\ DiskOK(disk') /\ Keeps(disk, disk')
      /\ Numbers(Dir(disk'), "wal") \subseteq Numbers(Dir(disk), "wal") \cup {n}
  BY <1>1, <1>2, NewFile, WhileOpened
<1>4. Bumped(versions, versions') /\ versions'.next = n + 1
  BY <1>1, BumpedSame, BumpedNew
<1>5. n < versions'.next /\ compaction.out \in Nat /\ compaction.out < versions'.next
  BY <1>2, <1>4, Numbered
<1>6. GoesOn
  BY <1>1, <1>2, <1>3, <1>4, <1>5, KeepsKeepsBelow, WhileOpened DEF GoesOn
<1>. QED BY <1>1, <1>3, <1>6, WhileOpened, SameCall

LEMMA FlushInv == RecInv /\ Flush => RecInv'
<1>. SUFFICES ASSUME RecInv, Flush PROVE RecInv'
  OBVIOUS
<1>. DEFINE begin == [NoOp EXCEPT !.call = "flush"]
<1>1. /\ pc = "opened" /\ op = NoOp /\ UNCHANGED <<pc, wal_file_number, compaction>>
      /\ versions' = NewFileNumber(versions)
  BY DEF Flush, memory
<1>2. \/ /\ op' = [begin EXCEPT !.at = "record",
                                !.edit = [NoEdit EXCEPT !.wal = {wal_file_number},
                                                        !.next = {versions'.next},
                                                        !.last = {versions'.last}]]
         /\ UNCHANGED disk
      \/ BeginBuild(begin, The(imm))
  BY Zenon DEF Flush
<1>. PICK vs : vs = versions'
  OBVIOUS
<1>3. Bumped(versions, vs) /\ vs.next = versions.next + 1
  BY <1>1, BumpedSame, BumpedNew
<1>4. /\ vs.next \in Nat /\ versions.next < vs.next
      /\ wal_file_number \in Nat /\ wal_file_number < vs.next
      /\ compaction.out \in Nat /\ compaction.out < vs.next
  BY <1>3, Numbered
<1>5. /\ DOMAIN begin = OpFields /\ begin.call = "flush" /\ begin.edit = NoEdit
      /\ begin.number = 0 /\ begin.wals = {}
  BY NoOpFields DEF OpFields
<1>. HIDE DEF begin
<1>6. CASE BeginBuild(begin, The(imm))
  <2>. PICK ents : ents = The(imm)
    OBVIOUS
  <2>1. BeginBuild(begin, ents)
    BY <1>6
  <2>. QED BY <1>1, <1>3, <1>4, <1>5, <2>1, NoOpFields, WhileOpened, BuildBegun
<1>7. ASSUME op' = [begin EXCEPT !.at = "record",
                                 !.edit = [NoEdit EXCEPT !.wal = {wal_file_number},
                                                         !.next = {vs.next}, !.last = {vs.last}]],
             UNCHANGED disk
      PROVE  RecInv'
  <2>. PICK edit : edit = [NoEdit EXCEPT !.wal = {wal_file_number},
                                         !.next = {vs.next}, !.last = {vs.last}]
    OBVIOUS
  <2>1. /\ DOMAIN edit = Tags /\ edit.wal = {wal_file_number} /\ edit.next = {vs.next}
        /\ edit.last # {} /\ edit.new = {}
    BY NoOpFields DEF Tags
  <2>2. SoundEdit(edit, vs.next)
    <3>1. wal_file_number <= vs.next
      BY <1>4
    <3>. QED BY <1>4, <2>1, <3>1 DEF SoundEdit
  <2>3. /\ DOMAIN op' = OpFields /\ op'.at = "record" /\ op'.edit = edit /\ op'.call = "flush"
        /\ op'.number = 0 /\ op'.wals = {}
    BY <1>5, <1>7 DEF OpFields
  <2>4. Calm(disk, disk')
    BY <1>1, <1>7, CalmSame, WhileOpened
  <2>5. GoesOn
    BY <1>1, <1>3, <1>4, <2>3, <2>4, CalmGoesOn, WhileOpened DEF GoesOn
  <2>6. 0 \in Nat /\ 0 < vs.next
    BY <1>4, Numbered
  <2>. QED BY <1>1, <2>2, <2>3, <2>5, <2>6, WhileOpened, BeginsLogging
<1>. QED BY <1>2, <1>6, <1>7

LEMMA CompactInv == RecInv /\ Compact => RecInv'
<1>. SUFFICES ASSUME RecInv, Compact PROVE RecInv'
  OBVIOUS
<1>. PICK n : n = versions.next
  OBVIOUS
<1>1. /\ pc = "opened" /\ op = NoOp /\ UNCHANGED <<pc, op, wal_file_number>>
      /\ disk' = NewWritableFile(disk, Sst(n))
      /\ versions' = NewFileNumber(versions)
  BY DEF Compact, memory
<1>2. \E in : compaction' = [in |-> in, out |-> n]
  BY Zenon DEF Compact
<1>3. compaction'.out = n
  BY <1>2
<1>4. n \in Nat /\ Sst(n) \in Files /\ Sst(n)[1] = "sst"
  BY Numbered, FileNames
<1>5. Calm(disk, disk')
  BY <1>1, <1>4, NewFile, WhileOpened DEF Calm
<1>6. Bumped(versions, versions') /\ versions'.next = n + 1
  BY <1>1, BumpedSame, BumpedNew
<1>7. n < versions'.next /\ wal_file_number < versions'.next
  BY <1>4, <1>6, Numbered
<1>8. GoesOn
  BY <1>1, <1>3, <1>4, <1>5, <1>6, <1>7, CalmGoesOn, Numbered, WhileOpened DEF GoesOn
<1>. QED BY <1>1, <1>5, <1>8, CalmGoesOn, WhileOpened, SameCall

LEMMA FinishCompactionInv == RecInv /\ FinishCompaction => RecInv'
<1>. SUFFICES ASSUME RecInv, FinishCompaction PROVE RecInv'
  OBVIOUS
<1>1. /\ pc = "opened" /\ op = NoOp /\ UNCHANGED <<pc, versions, wal_file_number>>
  BY DEF FinishCompaction, memory
<1>. PICK edit : edit = [NoEdit EXCEPT !.new = {compaction.out}, !.deleted = compaction.in]
  OBVIOUS
<1>. PICK logged : logged = [edit EXCEPT !.wal = {versions.wal}, !.next = {versions.next},
                                         !.last = {versions.last}]
  OBVIOUS
<1>. PICK ents : ents = UNION {ToSet(disk.data[Sst(n)]) : n \in compaction.in}
  OBVIOUS
<1>2. \/ /\ disk' = BuildSST(disk, compaction.out, ents)
         /\ op' = [NoOp EXCEPT !.call = "compact", !.at = "record", !.edit = logged]
         /\ UNCHANGED compaction
      \/ compaction' = NoCompaction /\ UNCHANGED <<disk, op>>
  BY Zenon DEF FinishCompaction
<1>3. CASE compaction' = NoCompaction /\ UNCHANGED <<disk, op>>
  <2>1. Calm(disk, disk')
    BY <1>1, <1>3, CalmSame, WhileOpened
  <2>2. compaction'.out = 0
    BY <1>3 DEF NoCompaction
  <2>3. GoesOn
    BY <1>1, <1>3, <2>1, <2>2, CalmGoesOn, Numbered, BumpedSame, WhileOpened DEF GoesOn
  <2>. QED BY <1>1, <1>3, <2>1, <2>3, CalmGoesOn, WhileOpened, SameCall
<1>4. ASSUME disk' = BuildSST(disk, compaction.out, ents),
             op' = [NoOp EXCEPT !.call = "compact", !.at = "record", !.edit = logged],
             UNCHANGED compaction
      PROVE  RecInv'
  <2>1. Calm(disk, disk')
    BY <1>1, <1>4, Numbered, BuildSSTCalm, WhileOpened
  <2>2. /\ DOMAIN op' = OpFields /\ op'.at = "record" /\ op'.edit = logged /\ op'.call = "compact"
        /\ op'.number = 0 /\ op'.wals = {}
    BY <1>4, NoOpFields DEF OpFields
  <2>3. /\ DOMAIN logged = Tags /\ logged.wal = {versions.wal} /\ logged.next = {versions.next}
        /\ logged.last # {} /\ logged.new = {compaction.out}
    BY NoOpFields DEF Tags
  <2>4. SoundEdit(logged, versions.next)
    <3>1. versions.wal \in Nat /\ versions.wal <= versions.next
      BY DEF RecInv, VersionInv
    <3>. QED BY <2>3, <3>1, Numbered DEF SoundEdit
  <2>5. GoesOn
    BY <1>1, <1>4, <2>1, <2>2, CalmGoesOn, Numbered, BumpedSame, WhileOpened DEF GoesOn
  <2>. QED BY <1>1, <2>2, <2>4, <2>5, Numbered, WhileOpened, BeginsLogging
<1>. QED BY <1>2, <1>3, <1>4

LEMMA CloseInv == RecInv /\ (Close \/ Die) => RecInv'
BY ForgetInv DEF Close, Die, RecInv, DiskInv

-----------------------------------------------------------------------------
(***************************************************************************)
(* The power fails                                                         *)
(***************************************************************************)

(* What is left of a MANIFEST is good. *)
LEMMA CutGood ==
    ASSUME RecInv, NEW k \in Nat, Manifest(k) \in DOMAIN disk.data,
           NEW n \in Nat, n <= Len(disk.data[Manifest(k)]), NEW torn
    PROVE  GoodManifest(k, CutTo(Manifest(k), n, torn))
<1>. PICK recs : recs = disk.data[Manifest(k)]
  OBVIOUS
<1>. PICK rest : rest = SubSeq(recs, 1, n)
  OBVIOUS
<1>1. GoodManifest(k, recs)
  BY DEF RecInv, DiskInv, DiskOK
<1>2. Len(recs) \in Nat
  BY <1>1, SeqFacts DEF GoodManifest
<1>3. n \in 0..Len(recs)
  BY <1>2
<1>4. GoodManifest(k, rest)
  BY <1>1, <1>3, GoodPrefix
<1>5. GoodManifest(k, Append(rest, Torn))
  BY <1>4, GoodTorn
<1>6. CutTo(Manifest(k), n, torn) \in {rest, Append(rest, Torn)}
  BY Zenon DEF CutTo
<1>. QED BY <1>4, <1>5, <1>6

LEMMA PowerFailsInv == RecInv /\ PowerFails => RecInv'
<1>. SUFFICES ASSUME RecInv, PowerFails PROVE RecInv'
  OBVIOUS
<1>1. pc = "closed" /\ UNCHANGED <<pc, op, versions, wal_file_number, compaction>>
  BY DEF PowerFails, processVars
<1>2. PICK i \in DOMAIN disk.dir, torn \in BOOLEAN :
         LET dir == disk.dir[i]
             loose == {f \in dir.files : disk.synced[f] < Len(disk.data[f])}
         IN  \E len \in [loose -> UNION {0..Len(disk.data[f]) : f \in loose}] :
               /\ \A f \in loose : len[f] >= disk.synced[f] /\ len[f] <= Len(disk.data[f])
               /\ disk' = LET data == [f \in dir.files |-> IF f \in loose THEN CutTo(f, len[f], torn)
                                                           ELSE disk.data[f]]
                          IN  [dir |-> <<dir>>, data |-> data, synced |-> [f \in dir.files |-> Len(data[f])]]
  BY Zenon DEF PowerFails
<1>. PICK dir : dir = disk.dir[i]
  OBVIOUS
<1>. PICK loose : loose = {f \in dir.files : disk.synced[f] < Len(disk.data[f])}
  OBVIOUS
<1>3. PICK len \in [loose -> UNION {0..Len(disk.data[f]) : f \in loose}] :
         /\ \A f \in loose : len[f] >= disk.synced[f] /\ len[f] <= Len(disk.data[f])
         /\ disk' = LET data == [f \in dir.files |-> IF f \in loose THEN CutTo(f, len[f], torn)
                                                     ELSE disk.data[f]]
                    IN  [dir |-> <<dir>>, data |-> data, synced |-> [f \in dir.files |-> Len(data[f])]]
  BY <1>2, Zenon
<1>4. /\ DOMAIN disk' = {"dir", "data", "synced"} /\ disk'.dir = <<dir>>
      /\ disk'.data = [f \in dir.files |-> IF f \in loose THEN CutTo(f, len[f], torn)
                                           ELSE disk.data[f]]
  BY <1>3
<1>5. dir \in Dirs /\ dir.files \subseteq DOMAIN disk.data
  <2>1. DiskOK(disk)
    BY DEF RecInv, DiskInv
  <2>2. disk.dir \in Seq(Dirs) /\ \A j \in 1..Len(disk.dir) : disk.dir[j].files \subseteq DOMAIN disk.data
    BY ONLY <2>1, Zenon DEF DiskOK
  <2>3. i \in 1..Len(disk.dir) /\ disk.dir[i] \in Dirs
    BY ONLY <2>2, i \in DOMAIN disk.dir
  <2>. QED BY <2>2, <2>3, Zenon
<1>6. ASSUME NEW k \in Nat, Manifest(k) \in dir.files
      PROVE  GoodManifest(k, disk'.data[Manifest(k)])
  <2>. PICK f : f = Manifest(k)
    OBVIOUS
  <2>1. CASE f \in loose
    <3>. PICK n : n = len[f]
      OBVIOUS
    <3>1. n \in Nat /\ n <= Len(disk.data[f])
      <4>1. n \in UNION {0..Len(disk.data[g]) : g \in loose}
        BY <1>3, <2>1
      <4>2. PICK m : n \in 0..m
        BY <4>1
      <4>. QED BY <1>3, <2>1, <4>2
    <3>2. disk'.data[f] = CutTo(f, n, torn)
      BY <1>4, <1>6, <2>1
    <3>3. f \in DOMAIN disk.data
      BY <1>5, <1>6
    <3>. QED BY <3>1, <3>2, <3>3, CutGood
  <2>2. CASE f \notin loose
    <3>1. disk'.data[f] = disk.data[f] /\ f \in DOMAIN disk.data
      BY <1>4, <1>5, <1>6, <2>2
    <3>. QED BY <3>1 DEF RecInv, DiskInv, DiskOK
  <2>. QED BY <2>1, <2>2
<1>7. DiskOK(disk')
  <2>1. /\ disk'.dir \in Seq(Dirs) /\ disk'.dir # <<>> /\ Len(disk'.dir) = 1 /\ disk'.dir[1] = dir
    BY <1>4, <1>5
  <2>2. DOMAIN disk'.data = dir.files
    BY <1>4
  <2>3. \A j \in 1..Len(disk'.dir) : disk'.dir[j].files \subseteq DOMAIN disk'.data
    BY <2>1, <2>2
  <2>. QED BY <1>4, <1>6, <2>1, <2>2, <2>3 DEF DiskOK
<1>8. versions = NewVersionSet /\ op = NoOp
  BY <1>1 DEF RecInv, OpInv
<1>9. VersionInv' /\ OpInv'
  BY <1>1, Zenon DEF RecInv, VersionInv, OpInv
<1>10. LogInv'
  BY <1>1, <1>8, NoOpFields, NewVersionFields DEF LogInv
<1>11. EditInv'
  BY <1>1, <1>8, NoOpFields DEF EditInv, Logging, Whole
<1>12. WalInv'
  BY <1>1 DEF WalInv
<1>. QED BY <1>7, <1>9, <1>10, <1>11, <1>12 DEF RecInv, DiskInv

-----------------------------------------------------------------------------
(***************************************************************************)
(* NumbersFresh                                                            *)
(***************************************************************************)
LEMMA NextInv == RecInv /\ [Next]_vars => RecInv'
<1>. SUFFICES ASSUME RecInv, [Next]_vars PROVE RecInv'
  OBVIOUS
<1>1. CASE UNCHANGED vars
  <2>1. UNCHANGED <<disk, pc, op, versions, wal_file_number, compaction>>
    BY <1>1, Zenon DEF vars, processVars
  <2>2. DiskInv' /\ VersionInv' /\ OpInv' /\ LogInv'
    BY <2>1, Zenon DEF RecInv, DiskInv, VersionInv, OpInv, LogInv
  <2>3. EditInv'
    <3>1. \A x : EditFor(x) => EditFor(x)'
      BY <2>1 DEF EditFor, ManifestNumber, Emptied
    <3>. QED BY <2>1, <3>1 DEF RecInv, EditInv
  <2>4. WalInv'
    BY <2>1 DEF RecInv, WalInv
  <2>. QED BY <2>2, <2>3, <2>4 DEF RecInv
<1>2. CASE Open \/ Recover \/ RecoverCorrupt
  BY <1>2, OpenInv, RecoverInv, RecoverCorruptInv
<1>3. CASE ReplayFull \/ ReplayReuse \/ ReplayEnd \/ FinishRecover
  BY <1>3, ReplayFullInv, ReplayReuseInv, ReplayEndInv, FinishRecoverInv
<1>4. CASE CreateManifest \/ WriteSnapshot \/ WriteEdit \/ SyncManifest \/ WriteTemp \/ RenameTemp
  BY <1>4, CreateManifestInv, WriteSnapshotInv, WriteEditInv, SyncManifestInv, WriteTempInv,
     RenameTempInv
<1>5. CASE FinishBuild \/ RemoveOne \/ RemoveDone
  BY <1>5, FinishBuildInv, RemoveOneInv, RemoveDoneInv
<1>6. CASE \E sync \in BOOLEAN : WriteEntry(sync)
  BY <1>6, WriteEntryInv
<1>7. CASE Switch \/ Flush \/ Compact \/ FinishCompaction \/ Close \/ Die
  BY <1>7, SwitchInv, FlushInv, CompactInv, FinishCompactionInv, CloseInv
<1>8. CASE PowerFails
  BY <1>8, PowerFailsInv
<1>. QED BY <1>1, <1>2, <1>3, <1>4, <1>5, <1>6, <1>7, <1>8, Zenon DEF Next

LEMMA InvFresh == RecInv => NumbersFresh
<1>. SUFFICES ASSUME RecInv, pc = "opened",
                     NEW n \in versions.files \cup {versions.manifest}
                                 \cup WalsFrom(Dir(disk), versions.wal)
              PROVE  n < versions.next
  BY Zenon DEF NumbersFresh
<1>1. n \in versions.files \cup {versions.manifest} => n < versions.next
  BY DEF RecInv, VersionInv
<1>2. n \in WalsFrom(Dir(disk), versions.wal) => n < versions.next
  BY WhileOpened DEF RecInv, WalInv, WalsFrom
<1>. QED BY <1>1, <1>2

(* Whatever crashes, power failures, failed calls and restarts came before, *)
(* the next file number of an open database is above that of every file it *)
(* uses, also of WAL files whose number never reached the MANIFEST.        *)
THEOREM NumbersStayFresh == Spec => []NumbersFresh
<1>1. Spec => []RecInv
  BY InitInv, NextInv, PTL DEF Spec
<1>. QED BY <1>1, InvFresh, PTL
=============================================================================
