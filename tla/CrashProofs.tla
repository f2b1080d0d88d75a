---------------------------- MODULE CrashProofs ----------------------------
(***************************************************************************)
(* More proofs about Recovery: what is on the disk leads to every entry.    *)
(***************************************************************************)
EXTENDS RecoveryProofs

LEMMA MaxIs ==
    ASSUME NEW T \in SUBSET Nat, NEW x \in T, \A y \in T : y <= x
    PROVE  Max(T) = x
<1>1. \E m \in T : \A y \in T : m >= y
  OBVIOUS
<1>2. Max(T) \in T /\ \A y \in T : Max(T) >= y
  BY <1>1, Zenon DEF Max
<1>3. Max(T) >= x /\ x >= Max(T)
  BY <1>2
<1>4. Max(T) \in Nat /\ x \in Nat
  BY <1>2
<1>. QED BY <1>3, <1>4

-----------------------------------------------------------------------------
(***************************************************************************)
(* What VersionSet::Recover makes of a MANIFEST                            *)
(***************************************************************************)
FilesOf(recs) == ReadManifest(recs).files

(* Of the records s, n was named by one and deleted by none after it.      *)
Left(recs, s, n) ==
    \E i \in s : /\ n \in Field(recs[i], "new")
                 /\ \A j \in s : j > i => n \notin Field(recs[j], "deleted")

LEMMA LeftMore ==
    ASSUME NEW recs, IsSeq(recs), NEW s \in SUBSET (DOMAIN recs), s # {}, NEW n
    PROVE  Left(recs, s, n) <=>
              \/ n \in Field(recs[Max(s)], "new")
              \/ Left(recs, s \ {Max(s)}, n) /\ n \notin Field(recs[Max(s)], "deleted")
<1>. PICK x : x = Max(s)
  OBVIOUS
<1>0. Len(recs) \in Nat /\ DOMAIN recs = 1..Len(recs)
  BY SeqFacts
<1>1. x \in s /\ \A y \in s : y <= x
  <2>1. s \in SUBSET (0..Len(recs))
    BY <1>0
  <2>. QED BY <1>0, <2>1, GreatestNumber
<1>2. s \subseteq Nat
  BY <1>0
<1>3. ASSUME Left(recs, s, n), n \notin Field(recs[x], "new")
      PROVE  Left(recs, s \ {x}, n) /\ n \notin Field(recs[x], "deleted")
  <2>1. PICK i \in s : /\ n \in Field(recs[i], "new")
                       /\ \A j \in s : j > i => n \notin Field(recs[j], "deleted")
    BY <1>3 DEF Left
  <2>2. i # x /\ x > i
    BY <1>1, <1>2, <1>3, <2>1
  <2>. QED BY <1>1, <2>1, <2>2 DEF Left
<1>4. ASSUME n \in Field(recs[x], "new") PROVE Left(recs, s, n)
  <2>1. \A j \in s : ~(j > x)
    BY <1>1, <1>2
  <2>. QED BY <1>1, <1>4, <2>1 DEF Left
<1>5. ASSUME Left(recs, s \ {x}, n), n \notin Field(recs[x], "deleted") PROVE Left(recs, s, n)
  <2>1. PICK i \in s \ {x} : /\ n \in Field(recs[i], "new")
                             /\ \A j \in s \ {x} : j > i => n \notin Field(recs[j], "deleted")
    BY <1>5 DEF Left
  <2>2. \A j \in s : j > i => n \notin Field(recs[j], "deleted")
    BY <1>5, <2>1
  <2>. QED BY <2>1, <2>2 DEF Left
<1>. QED BY <1>3, <1>4, <1>5

(* The files that are left are those that were named and not deleted since. *)
LEMMA FilesLeft ==
    ASSUME NEW recs, IsSeq(recs), NEW n
    PROVE  n \in FilesOf(recs) <=> Left(recs, 1..Len(recs), n)
<1>. DEFINE iter == CHOOSE i : i = Loop(recs, i)
<1>0. Len(recs) \in Nat /\ DOMAIN recs = 1..Len(recs)
  BY SeqFacts
<1>1. FoldLeft(LAMBDA b, rec : Apply(b, DecodeFrom(rec)), NoChange, recs) = iter[DOMAIN recs]
  BY Zenon DEF FoldLeft, MapThenFoldSet, Loop, Turn
<1>2. iter = Loop(recs, iter)
  BY LoopExists, Zenon
<1>. HIDE DEF iter
<1>3. ASSUME NEW s \in SUBSET (DOMAIN recs)
      PROVE  iter[s] = Turn(recs, iter, s)
  <2>. DEFINE l == Loop(recs, iter)
  <2>1. l[s] = Turn(recs, iter, s)
    BY DEF Loop
  <2>. HIDE DEF l
  <2>2. l = iter
    BY <1>2 DEF l
  <2>. QED BY <2>1, <2>2
<1>. DEFINE Good(s) == n \in iter[s].added /\ n \notin iter[s].deleted <=> Left(recs, s, n)
            Bad == {m \in Nat : \E s \in SUBSET (DOMAIN recs) : Cardinality(s) = m /\ ~Good(s)}
<1>4. ASSUME Bad # {} PROVE FALSE
  <2>. HIDE DEF Bad, Good
  <2>1. Bad \in SUBSET Nat
    BY DEF Bad
  <2>2. PICK m \in Bad : \A y \in Bad : m <= y
    BY <1>4, <2>1, LeastNumber
  <2>3. PICK s \in SUBSET (DOMAIN recs) : Cardinality(s) = m /\ ~Good(s)
    BY <2>2 DEF Bad
  <2>4. CASE s = {}
    <3>1. iter[s] = NoChange
      BY <2>4, <1>3 DEF Turn
    <3>2. ~Left(recs, s, n)
      BY <2>4 DEF Left
    <3>. QED BY <2>3, <3>1, <3>2 DEF Good, NoChange
  <2>5. CASE s # {}
    <3>. PICK x : x = Max(s)
      OBVIOUS
    <3>. PICK r : r = s \ {x}
      OBVIOUS
    <3>1. /\ x \in DOMAIN recs /\ r \in SUBSET (DOMAIN recs)
          /\ Cardinality(r) = m - 1 /\ Cardinality(r) \in Nat /\ m \in Nat
      BY <2>3, <2>5, SubsetFacts
    <3>2. iter[s] = Apply(iter[r], DecodeFrom(recs[x]))
      BY <1>3, <2>5 DEF Turn
    <3>3. /\ iter[s].added = iter[r].added \cup Field(recs[x], "new")
          /\ iter[s].deleted = (iter[r].deleted \cup Field(recs[x], "deleted")) \ Field(recs[x], "new")
      BY <3>2 DEF Apply, Field
    <3>4. ~(m - 1 \in Bad)
      BY <2>2, <3>1
    <3>5. Good(r)
      BY <3>1, <3>4 DEF Bad
    <3>6. Left(recs, s, n) <=> \/ n \in Field(recs[x], "new")
                               \/ Left(recs, r, n) /\ n \notin Field(recs[x], "deleted")
      BY <2>5, LeftMore
    <3>. QED BY <2>3, <3>3, <3>5, <3>6 DEF Good
  <2>. QED BY <2>4, <2>5
<1>5. Good(DOMAIN recs)
  <2>1. Cardinality(DOMAIN recs) \in Nat
    BY SubsetFacts
  <2>. HIDE DEF Good
  <2>. QED BY <1>4, <2>1
<1>. PICK b : b = iter[DOMAIN recs]
  OBVIOUS
<1>6. FilesOf(recs) = SaveTo({}, b)
  BY <1>1, Zenon DEF ReadManifest, FilesOf
<1>7. n \in SaveTo({}, b) <=> n \in b.added /\ n \notin b.deleted
  BY DEF SaveTo
<1>. QED BY <1>0, <1>5, <1>6, <1>7

LEMMA FilesNamed ==
    ASSUME NEW recs, IsSeq(recs)
    PROVE  FilesOf(recs) \subseteq News(recs)
BY LoopFiles DEF FilesOf

LEMMA FilesEmpty == FilesOf(<<>>) = {}
<1>1. <<>> \in Seq({}) /\ Len(<<>>) = 0
  OBVIOUS
<1>2. IsSeq(<<>>)
  BY <1>1, Zenon DEF IsSeq
<1>3. \A n : ~Left(<<>>, 1..0, n)
  BY DEF Left
<1>. QED BY <1>1, <1>2, <1>3, FilesLeft

(* A record more. *)
LEMMA FilesMore ==
    ASSUME NEW recs, IsSeq(recs), NEW rec
    PROVE  FilesOf(Append(recs, rec)) =
              (FilesOf(recs) \ Field(rec, "deleted")) \cup Field(rec, "new")
<1>. PICK more : more = Append(recs, rec)
  OBVIOUS
<1>. PICK len : len = Len(recs)
  OBVIOUS
<1>1. len \in Nat /\ DOMAIN recs = 1..len
  BY SeqFacts
<1>2. /\ IsSeq(more) /\ Len(more) = len + 1 /\ DOMAIN more = 1..(len + 1)
      /\ \A i \in 1..len : more[i] = recs[i]
      /\ more[len + 1] = rec
  BY SeqAppend
<1>3. Max(1..(len + 1)) = len + 1
  <2>1. /\ 1..(len + 1) \in SUBSET Nat /\ len + 1 \in 1..(len + 1)
        /\ \A y \in 1..(len + 1) : y <= len + 1
    BY <1>1
  <2>. QED BY <2>1, MaxIs
<1>4. (1..(len + 1)) \ {len + 1} = 1..len
  BY <1>1
<1>5. ASSUME NEW n
      PROVE  n \in FilesOf(more) <=>
                n \in Field(rec, "new") \/ (n \in FilesOf(recs) /\ n \notin Field(rec, "deleted"))
  <2>1. Left(more, 1..len, n) <=> Left(recs, 1..len, n)
    BY <1>2 DEF Left
  <2>2. 1..(len + 1) # {} /\ 1..(len + 1) \in SUBSET (DOMAIN more)
    BY <1>1, <1>2
  <2>3. Left(more, 1..(len + 1), n) <=>
              \/ n \in Field(rec, "new")
              \/ Left(more, 1..len, n) /\ n \notin Field(rec, "deleted")
    <3>. PICK s : s = 1..(len + 1)
      OBVIOUS
    <3>. PICK x : x = len + 1
      OBVIOUS
    <3>1. s # {} /\ s \in SUBSET (DOMAIN more) /\ Max(s) = x /\ s \ {x} = 1..len /\ more[x] = rec
      BY <1>2, <1>3, <1>4, <2>2
    <3>2. Left(more, s, n) <=>
              \/ n \in Field(more[Max(s)], "new")
              \/ Left(more, s \ {Max(s)}, n) /\ n \notin Field(more[Max(s)], "deleted")
      BY ONLY <1>2, <3>1, LeftMore
    <3>. QED BY <3>1, <3>2
  <2>4. n \in FilesOf(more) <=> Left(more, 1..(len + 1), n)
    BY <1>2, FilesLeft
  <2>5. n \in FilesOf(recs) <=> Left(recs, 1..len, n)
    BY FilesLeft
  <2>. QED BY <2>1, <2>3, <2>4, <2>5
<1>. PICK old : old = FilesOf(recs)
  OBVIOUS
<1>. PICK new : new = FilesOf(more)
  OBVIOUS
<1>6. \A n : n \in new <=> n \in Field(rec, "new") \/ (n \in old /\ n \notin Field(rec, "deleted"))
  BY <1>5
<1>7. new = (old \ Field(rec, "deleted")) \cup Field(rec, "new")
  BY ONLY <1>6
<1>. QED BY <1>7

LEMMA FilesTorn ==
    ASSUME NEW recs, IsSeq(recs)
    PROVE  FilesOf(Append(recs, Torn)) = FilesOf(recs)
<1>1. Field(Torn, "new") = {} /\ Field(Torn, "deleted") = {}
  BY FieldTorn DEF Tags
<1>. QED BY <1>1, FilesMore

(* The fields. *)
LEMMA LastFieldMore ==
    ASSUME NEW recs, IsSeq(recs), NEW rec, NEW tag \in Tags
    PROVE  LastField(Append(recs, rec), tag) =
              IF Field(rec, tag) = {} THEN LastField(recs, tag) ELSE Field(rec, tag)
<1>. PICK more : more = Append(recs, rec)
  OBVIOUS
<1>. PICK len : len = Len(recs)
  OBVIOUS
<1>1. len \in Nat /\ DOMAIN recs = 1..len
  BY SeqFacts
<1>2. /\ DOMAIN more = 1..(len + 1) /\ more[len + 1] = rec
      /\ \A i \in 1..len : more[i] = recs[i]
  BY SeqAppend
<1>. DEFINE has(r) == \E field \in r : field[1] = tag
            with == {i \in DOMAIN recs : has(recs[i])}
            withmore == {i \in DOMAIN more : has(more[i])}
<1>3. LastField(recs, tag) = IF with = {} THEN {} ELSE Field(recs[Max(with)], tag)
  BY Zenon DEF LastField, Field
<1>4. LastField(more, tag) = IF withmore = {} THEN {} ELSE Field(more[Max(withmore)], tag)
  BY Zenon DEF LastField, Field
<1>5. Field(rec, tag) = {} <=> ~has(rec)
  <2>1. Field(rec, tag) = {field[2] : field \in {g \in rec : g[1] = tag}}
    BY FieldIs
  <2>. QED BY <2>1
<1>6. CASE Field(rec, tag) = {}
  <2>1. withmore = with
    <3>1. \A i \in 1..len : has(more[i]) <=> has(recs[i])
      BY <1>2
    <3>2. ~has(more[len + 1])
      BY <1>2, <1>5, <1>6
    <3>. HIDE DEF has
    <3>. QED BY <1>1, <1>2, <3>1, <3>2
  <2>2. with # {} => Max(with) \in 1..len
    <3>1. with \in SUBSET (0..len)
      BY <1>1
    <3>2. with \subseteq 1..len
      BY <1>1
    <3>. HIDE DEF with
    <3>. QED BY <1>1, <3>1, <3>2, GreatestNumber
  <2>. HIDE DEF with, withmore
  <2>3. with # {} => more[Max(with)] = recs[Max(with)]
    BY <2>2, <1>2
  <2>. QED BY <1>3, <1>4, <1>6, <2>1, <2>3
<1>7. CASE Field(rec, tag) # {}
  <2>1. len + 1 \in withmore
    BY <1>1, <1>2, <1>5, <1>7
  <2>2. Max(withmore) = len + 1
    <3>1. withmore \subseteq 1..(len + 1)
      BY <1>2
    <3>. HIDE DEF withmore
    <3>2. withmore \in SUBSET Nat /\ \A y \in withmore : y <= len + 1
      BY <1>1, <3>1
    <3>. QED BY <2>1, <3>2, MaxIs
  <2>. HIDE DEF withmore
  <2>. QED BY <1>2, <1>4, <1>7, <2>1, <2>2
<1>. QED BY <1>6, <1>7

LEMMA LastFieldTorn ==
    ASSUME NEW recs, IsSeq(recs), NEW tag \in Tags
    PROVE  LastField(Append(recs, Torn), tag) = LastField(recs, tag)
BY LastFieldMore, FieldTorn

(* A field that some record has.                                           *)
LEMMA LastFieldThere ==
    ASSUME NEW recs, IsSeq(recs), NEW tag \in Tags, NEW i \in 1..Len(recs), Field(recs[i], tag) # {}
    PROVE  LastField(recs, tag) # {}
<1>. DEFINE with == {j \in DOMAIN recs : \E field \in recs[j] : field[1] = tag}
<1>0. Len(recs) \in Nat /\ DOMAIN recs = 1..Len(recs)
  BY SeqFacts
<1>1. LastField(recs, tag) = IF with = {} THEN {} ELSE Field(recs[Max(with)], tag)
  BY Zenon DEF LastField, Field
<1>2. i \in with
  BY <1>0, FieldIs
<1>3. Max(with) \in with
  <2>1. with \in SUBSET (0..Len(recs))
    BY <1>0
  <2>. HIDE DEF with
  <2>. QED BY <1>0, <1>2, <2>1, GreatestNumber
<1>4. Field(recs[Max(with)], tag) # {}
  <2>1. \E field \in recs[Max(with)] : field[1] = tag
    BY <1>3
  <2>. HIDE DEF with
  <2>. PICK rec : rec = recs[Max(with)]
    OBVIOUS
  <2>2. Field(rec, tag) = {field[2] : field \in {g \in rec : g[1] = tag}}
    BY FieldIs
  <2>. QED BY <2>1, <2>2
<1>. QED BY <1>1, <1>2, <1>4

(* A part of a record at the end changes nothing.                          *)
LEMMA RecordsRead ==
    ASSUME NEW recs, IsSeq(recs)
    PROVE  ReadManifest(Records(recs)) = ReadManifest(recs)
<1>1. CASE recs # <<>> /\ Last(recs) = Torn
  <2>. PICK front : front = SubSeq(recs, 1, Len(recs) - 1)
    OBVIOUS
  <2>1. PICK S : recs \in Seq(S)
    BY DEF IsSeq
  <2>2. Len(recs) \in Nat /\ Len(recs) - 1 \in 0..Len(recs)
    BY <1>1, <2>1
  <2>3. front \in Seq(S) /\ IsSeq(front)
    BY <2>1, <2>2, SeqPrefix
  <2>4. recs = Append(front, Torn)
    BY <1>1, <2>1, <2>2, <2>3 DEF Last
  <2>5. Records(recs) = front
    BY <1>1 DEF Records, Front
  <2>6. \A tag \in Tags : LastField(recs, tag) = LastField(front, tag)
    BY <2>3, <2>4, LastFieldTorn
  <2>7. FilesOf(recs) = FilesOf(front)
    BY <2>3, <2>4, FilesTorn
  <2>8. "wal" \in Tags /\ "next" \in Tags /\ "last" \in Tags
    BY DEF Tags
  <2>. QED BY <2>5, <2>6, <2>7, <2>8 DEF ReadManifest, FilesOf
<1>2. CASE ~(recs # <<>> /\ Last(recs) = Torn)
  BY <1>2 DEF Records
<1>. QED BY <1>1, <1>2

-----------------------------------------------------------------------------
(***************************************************************************)
(* Steps of the disk, by the states of the directory and the MANIFESTs      *)
(***************************************************************************)
States(dk) == {dk.dir[i] : i \in DOMAIN dk.dir}
CM(d) == Manifest(d.cur)
Has(d, n) == Sst(n) \in d.files
Base(dk) == DiskOK(dk) /\ DOMAIN dk.synced = DOMAIN dk.data

SameManifest(dk, new, k) ==
    /\ Manifest(k) \in DOMAIN dk.data /\ new.data[Manifest(k)] = dk.data[Manifest(k)]
    /\ new.synced[Manifest(k)] \in {dk.synced[Manifest(k)], Len(new.data[Manifest(k)])}

(* Only the files in gone leave the directory, CURRENT stays, and of the    *)
(* MANIFESTs only those in touched change otherwise than by a sync.         *)
Evolves(dk, new, gone, touched) ==
    /\ Base(new)
    /\ Dir(new).cur = Dir(dk).cur
    /\ Dir(dk).files \ gone \subseteq Dir(new).files
    /\ \A d \in States(new) :
          d \in States(dk) \/ (d.cur = Dir(dk).cur /\ Dir(dk).files \ gone \subseteq d.files)
    /\ \A k \in Nat \ touched : Manifest(k) \in DOMAIN new.data => SameManifest(dk, new, k)

LEMMA StatesOK ==
    ASSUME NEW dk, DiskOK(dk)
    PROVE  /\ Dir(dk) \in States(dk)
           /\ \A d \in States(dk) : d \in Dirs /\ d.cur \in Nat /\ d.files \subseteq DOMAIN dk.data
           /\ \A d \in States(dk) : CM(d) \in d.files => GoodManifest(d.cur, dk.data[CM(d)])
<1>1. dk.dir \in Seq(Dirs) /\ DOMAIN dk.dir = 1..Len(dk.dir) /\ dk.dir # <<>> /\ Len(dk.dir) \in Nat
  BY DEF DiskOK
<1>2. Len(dk.dir) \in DOMAIN dk.dir
  BY <1>1
<1>3. Dir(dk) \in States(dk)
  BY <1>2 DEF Dir, Last, States
<1>4. ASSUME NEW d \in States(dk)
      PROVE  d \in Dirs /\ d.cur \in Nat /\ d.files \subseteq DOMAIN dk.data
  <2>1. PICK i \in DOMAIN dk.dir : d = dk.dir[i]
    BY DEF States
  <2>2. d \in Dirs
    BY <1>1, <2>1
  <2>. QED BY <1>1, <2>1, <2>2 DEF DiskOK, Dirs
<1>5. ASSUME NEW d \in States(dk), CM(d) \in d.files
      PROVE  GoodManifest(d.cur, dk.data[CM(d)])
  BY <1>4, <1>5 DEF CM, DiskOK
<1>. QED BY <1>3, <1>4, <1>5

LEMMA EvolvesSame ==
    ASSUME NEW dk, Base(dk)
    PROVE  Evolves(dk, dk, {}, {})
BY DEF Evolves, SameManifest

LEMMA EvolvesMore ==
    ASSUME NEW dk, NEW new, NEW g, NEW h, NEW t, NEW u, Evolves(dk, new, g, t),
           g \subseteq h, t \subseteq u
    PROVE  Evolves(dk, new, h, u)
<1>1. Dir(dk).files \ h \subseteq Dir(dk).files \ g
  OBVIOUS
<1>. QED BY <1>1 DEF Evolves

LEMMA EvolvesTwice ==
    ASSUME NEW dk, NEW new, NEW newer, NEW g, NEW h, NEW t, NEW u,
           Evolves(dk, new, g, t), Evolves(new, newer, h, u)
    PROVE  Evolves(dk, newer, g \cup h, t \cup u)
<1>1. Base(newer) /\ Dir(newer).cur = Dir(dk).cur
  BY DEF Evolves
<1>2. Dir(dk).files \ (g \cup h) \subseteq Dir(new).files \ h
  BY DEF Evolves
<1>3. Dir(dk).files \ (g \cup h) \subseteq Dir(newer).files
  BY <1>2 DEF Evolves
<1>4. ASSUME NEW d \in States(newer)
      PROVE  d \in States(dk) \/ (d.cur = Dir(dk).cur /\ Dir(dk).files \ (g \cup h) \subseteq d.files)
  <2>1. CASE d \in States(new)
    BY <2>1 DEF Evolves
  <2>2. CASE d.cur = Dir(new).cur /\ Dir(new).files \ h \subseteq d.files
    BY <1>2, <2>2 DEF Evolves
  <2>. QED BY <2>1, <2>2 DEF Evolves
<1>5. ASSUME NEW k \in Nat \ (t \cup u), Manifest(k) \in DOMAIN newer.data
      PROVE  SameManifest(dk, newer, k)
  <2>1. SameManifest(new, newer, k)
    BY <1>5 DEF Evolves
  <2>2. Manifest(k) \in DOMAIN new.data
    BY <2>1 DEF SameManifest
  <2>3. SameManifest(dk, new, k)
    BY <1>5, <2>2 DEF Evolves
  <2>. QED BY <2>1, <2>3 DEF SameManifest
<1>. QED BY <1>1, <1>3, <1>4, <1>5 DEF Evolves

(* Two steps of which the second touches nothing. *)
LEMMA EvolvesOn ==
    ASSUME NEW dk, NEW new, NEW newer, NEW g, NEW t,
           Evolves(dk, new, g, t), Evolves(new, newer, {}, {})
    PROVE  Evolves(dk, newer, g, t)
<1>1. Evolves(dk, newer, g \cup {}, t \cup {})
  BY EvolvesTwice
<1>2. g \cup {} = g /\ t \cup {} = t
  OBVIOUS
<1>. QED BY <1>1, <1>2

LEMMA TidyEvolves ==
    ASSUME NEW dk, Base(dk)
    PROVE  /\ Evolves(dk, Tidy(dk), {}, {}) /\ Tidy(dk).dir = dk.dir
           /\ \A d \in States(dk) : \A g \in d.files :
                 Tidy(dk).data[g] = dk.data[g] /\ Tidy(dk).synced[g] = dk.synced[g]
<1>. DEFINE left == UNION {dk.dir[i].files : i \in DOMAIN dk.dir}
<1>. PICK new : new = Tidy(dk)
  OBVIOUS
<1>1. /\ new.dir = dk.dir /\ DOMAIN new.data = left /\ DOMAIN new.synced = left
      /\ \A f \in left : new.data[f] = dk.data[f] /\ new.synced[f] = dk.synced[f]
  BY DEF Tidy
<1>2. \A d \in States(dk) : d.files \subseteq left
  BY DEF States
<1>3. left \subseteq DOMAIN dk.data
  <2>1. \A d \in States(dk) : d.files \subseteq DOMAIN dk.data
    BY StatesOK DEF Base
  <2>2. left = UNION {d.files : d \in States(dk)}
    BY DEF States
  <2>. QED BY <2>1, <2>2
<1>. HIDE DEF left
<1>4. DiskOK(new)
  BY TidyCalm DEF Calm, Base
<1>5. Dir(new) = Dir(dk) /\ States(new) = States(dk)
  BY <1>1 DEF Dir, States
<1>6. \A k \in Nat : Manifest(k) \in DOMAIN new.data => SameManifest(dk, new, k)
  BY <1>1, <1>3 DEF SameManifest
<1>7. Evolves(dk, new, {}, {})
  BY <1>1, <1>4, <1>5, <1>6 DEF Evolves, Base
<1>. QED BY <1>1, <1>2, <1>7

LEMMA ChangeDirEvolves ==
    ASSUME NEW dk, Base(dk), NEW dir \in Dirs, dir.files \subseteq DOMAIN dk.data,
           dir.cur = Dir(dk).cur, NEW gone, Dir(dk).files \ gone \subseteq dir.files
    PROVE  Evolves(dk, ChangeDir(dk, dir), gone, {})
<1>. PICK new : new = ChangeDir(dk, dir)
  OBVIOUS
<1>1. DiskOK(new) /\ Dir(new) = dir
  BY ChangeDirGood DEF Base
<1>2. new.data = dk.data /\ new.synced = dk.synced
  BY DEF ChangeDir, Base, DiskOK
<1>3. \A d \in States(new) : d \in States(dk) \/ d = dir
  <2>1. CASE dir = Dir(dk)
    BY <2>1 DEF ChangeDir
  <2>2. CASE dir # Dir(dk)
    <3>1. new.dir = Append(dk.dir, dir) /\ dk.dir \in Seq(Dirs)
      BY <2>2 DEF ChangeDir, Base, DiskOK
    <3>2. /\ DOMAIN new.dir = 1..(Len(dk.dir) + 1) /\ Len(dk.dir) \in Nat
          /\ DOMAIN dk.dir = 1..Len(dk.dir)
          /\ new.dir[Len(dk.dir) + 1] = dir
          /\ \A i \in 1..Len(dk.dir) : new.dir[i] = dk.dir[i]
      BY <3>1
    <3>3. ASSUME NEW i \in DOMAIN new.dir PROVE new.dir[i] \in States(dk) \/ new.dir[i] = dir
      <4>1. CASE i = Len(dk.dir) + 1
        BY <4>1, <3>2
      <4>2. CASE i \in 1..Len(dk.dir)
        BY <4>2, <3>2 DEF States
      <4>. QED BY <4>1, <4>2, <3>2
    <3>. QED BY <3>3 DEF States
  <2>. QED BY <2>1, <2>2
<1>4. \A k \in Nat : Manifest(k) \in DOMAIN new.data => SameManifest(dk, new, k)
  BY <1>2 DEF SameManifest
<1>. QED BY <1>1, <1>2, <1>3, <1>4 DEF Evolves, Base

(* fsync of a file. *)
LEMMA SyncFdEvolves ==
    ASSUME NEW dk, Base(dk), NEW f
    PROVE  LET new == SyncFd(dk, f)
           IN  /\ Evolves(dk, new, {}, {})
               /\ States(new) = {Dir(dk)} /\ Dir(new) = Dir(dk)
               /\ f \in Dir(dk).files => new.data[f] = dk.data[f] /\ new.synced[f] = Len(dk.data[f])
<1>. PICK one : one = [dk EXCEPT !.synced[f] = Len(dk.data[f]), !.dir = <<Last(@)>>]
  OBVIOUS
<1>1. /\ DOMAIN one = {"dir", "data", "synced"} /\ one.data = dk.data /\ one.dir = <<Last(dk.dir)>>
      /\ DOMAIN one.synced = DOMAIN dk.synced
      /\ \A g \in DOMAIN dk.synced : one.synced[g] = IF g = f THEN Len(dk.data[f]) ELSE dk.synced[g]
  BY DEF DiskOK, Base
<1>2. DiskOK(one)
  BY <1>1, LastDir DEF Base, Calm
<1>3. Dir(one) = Dir(dk) /\ States(one) = {Dir(dk)}
  BY <1>1 DEF Dir, Last, States
<1>4. Base(one)
  BY <1>1, <1>2 DEF Base
<1>5. \A k \in Nat : Manifest(k) \in DOMAIN one.data => SameManifest(dk, one, k)
  BY <1>1 DEF SameManifest, Base
<1>6. Dir(dk) \in States(dk) /\ Dir(dk).files \subseteq DOMAIN dk.data
  BY StatesOK DEF Base
<1>7. Evolves(dk, one, {}, {})
  BY <1>3, <1>4, <1>5, <1>6 DEF Evolves
<1>7a. /\ Evolves(one, Tidy(one), {}, {}) /\ Tidy(one).dir = one.dir
      /\ \A d \in States(one) : \A g \in d.files :
            Tidy(one).data[g] = one.data[g] /\ Tidy(one).synced[g] = one.synced[g]
  BY ONLY <1>4, TidyEvolves
<1>. PICK new : new = Tidy(one)
  OBVIOUS
<1>8. /\ Evolves(one, new, {}, {}) /\ new.dir = one.dir
      /\ \A d \in States(one) : \A g \in d.files :
            new.data[g] = one.data[g] /\ new.synced[g] = one.synced[g]
  BY <1>7a
<1>9. new = SyncFd(dk, f)
  BY DEF SyncFd
<1>10. Dir(new) = Dir(dk) /\ States(new) = {Dir(dk)}
  BY <1>3, <1>8 DEF Dir, States
<1>11. f \in Dir(dk).files => new.data[f] = dk.data[f] /\ new.synced[f] = Len(dk.data[f])
  BY <1>1, <1>3, <1>6, <1>8 DEF Base
<1>12. Evolves(dk, new, {}, {})
  BY <1>7, <1>8, EvolvesOn
<1>. QED BY <1>9, <1>10, <1>11, <1>12

(* The directory that SyncDirIfManifest syncs is not that of the database. *)
LEMMA SyncIs ==
    ASSUME NEW dk, NEW f
    PROVE  Sync(dk, f) = SyncFd(dk, f)
BY DEF Sync, SyncDir, StoredDirname, Dirname

LEMMA RemoveFileEvolves ==
    ASSUME NEW dk, Base(dk), NEW f
    PROVE  Evolves(dk, RemoveFile(dk, f), {f}, {})
<1>. PICK dir : dir = [Dir(dk) EXCEPT !.files = @ \ {f}]
  OBVIOUS
<1>1. /\ dir \in Dirs /\ dir.files \subseteq DOMAIN dk.data /\ dir.cur = Dir(dk).cur
      /\ Dir(dk).files \ {f} \subseteq dir.files
  BY DirOK DEF Dirs, Base
<1>. PICK new : new = ChangeDir(dk, dir)
  OBVIOUS
<1>2. Evolves(dk, new, {f}, {})
  BY <1>1, ChangeDirEvolves
<1>3. Evolves(new, Tidy(new), {}, {})
  BY <1>2, TidyEvolves DEF Evolves
<1>. QED BY <1>2, <1>3, EvolvesOn DEF RemoveFile

(* A new file, in the last state of the directory. *)
LEMMA NewFileEvolves ==
    ASSUME NEW dk, Base(dk), NEW f \in Files, NEW touched, \A k \in Nat : f = Manifest(k) => k \in touched
    PROVE  LET new == NewWritableFile(dk, f)
           IN  /\ Evolves(dk, new, {}, touched)
               /\ f \in Dir(new).files /\ new.data[f] = <<>> /\ new.synced[f] = 0
<1>. PICK cut : cut = [dk EXCEPT !.data = [g \in DOMAIN @ \cup {f} |-> IF g = f THEN <<>> ELSE @[g]],
                          !.synced = [g \in DOMAIN @ \cup {f} |-> IF g = f THEN 0 ELSE @[g]]]
  OBVIOUS
<1>1. /\ DOMAIN cut = {"dir", "data", "synced"} /\ cut.dir = dk.dir
      /\ cut.data = [g \in DOMAIN dk.data \cup {f} |-> IF g = f THEN <<>> ELSE dk.data[g]]
      /\ cut.synced = [g \in DOMAIN dk.synced \cup {f} |-> IF g = f THEN 0 ELSE dk.synced[g]]
  BY Zenon DEF DiskOK, Base
<1>2. /\ DOMAIN cut.data = DOMAIN dk.data \cup {f} /\ DOMAIN cut.synced = DOMAIN dk.data \cup {f}
      /\ cut.data[f] = <<>> /\ cut.synced[f] = 0
      /\ \A g \in DOMAIN dk.data : g # f => cut.data[g] = dk.data[g] /\ cut.synced[g] = dk.synced[g]
  BY <1>1 DEF Base
<1>3. \A k \in Nat : Manifest(k) \in DOMAIN cut.data => GoodManifest(k, cut.data[Manifest(k)])
  <2>1. ASSUME NEW k \in Nat, Manifest(k) \in DOMAIN cut.data
        PROVE  GoodManifest(k, cut.data[Manifest(k)])
    <3>1. CASE Manifest(k) = f
      BY <3>1, <1>2, GoodEmpty
    <3>2. CASE Manifest(k) # f
      <4>1. cut.data[Manifest(k)] = dk.data[Manifest(k)] /\ Manifest(k) \in DOMAIN dk.data
        BY <1>2, <2>1, <3>2
      <4>. QED BY <4>1 DEF DiskOK, Base
    <3>. QED BY <3>1, <3>2
  <2>. QED BY <2>1
<1>4. Base(cut)
  BY <1>1, <1>2, <1>3 DEF DiskOK, Base
<1>5. Dir(cut) = Dir(dk) /\ States(cut) = States(dk)
  BY <1>1 DEF Dir, States
<1>6. \A k \in Nat \ touched : Manifest(k) \in DOMAIN cut.data => SameManifest(dk, cut, k)
  BY <1>2 DEF SameManifest
<1>7. Evolves(dk, cut, {}, touched)
  BY <1>4, <1>5, <1>6 DEF Evolves
<1>. PICK dir : dir = [Dir(dk) EXCEPT !.files = @ \cup {f}]
  OBVIOUS
<1>8. /\ dir \in Dirs /\ dir.files = Dir(dk).files \cup {f} /\ dir.files \subseteq DOMAIN cut.data
      /\ dir.cur = Dir(dk).cur
  BY <1>2, DirOK DEF Dirs, Base
<1>9. Dir(cut).files \ {} \subseteq dir.files
  BY <1>5, <1>8
<1>. PICK new : new = ChangeDir(cut, dir)
  OBVIOUS
<1>10. Evolves(cut, new, {}, {})
  BY <1>4, <1>5, <1>8, <1>9, ChangeDirEvolves
<1>11. Dir(new) = dir
  BY <1>4, <1>8, ChangeDirGood DEF Base
<1>12. new.data = cut.data /\ new.synced = cut.synced
  BY <1>4 DEF ChangeDir, DiskOK, Base
<1>13. new = NewWritableFile(dk, f)
  BY <1>5, Zenon DEF NewWritableFile
<1>14. Evolves(dk, new, {}, touched)
  BY <1>7, <1>10, EvolvesOn
<1>. QED BY <1>2, <1>8, <1>11, <1>12, <1>13, <1>14

(* A file that is no MANIFEST is written. *)
LEMMA SetDataEvolves ==
    ASSUME NEW dk, Base(dk), NEW f, f[1] # "manifest", NEW e
    PROVE  LET new == [dk EXCEPT !.data[f] = e]
           IN  Evolves(dk, new, {}, {}) /\ States(new) = States(dk) /\ Dir(new) = Dir(dk)
<1>. PICK new : new = [dk EXCEPT !.data[f] = e]
  OBVIOUS
<1>1. /\ new.dir = dk.dir /\ DOMAIN new.data = DOMAIN dk.data /\ new.synced = dk.synced
      /\ \A g \in DOMAIN dk.data : g # f => new.data[g] = dk.data[g]
  BY DEF DiskOK, Base
<1>2. \A k \in Nat : Manifest(k) # f
  BY FileNames
<1>3. Base(new)
  BY <1>1, SetData DEF Calm, Base
<1>4. Dir(new) = Dir(dk) /\ States(new) = States(dk)
  BY <1>1 DEF Dir, States
<1>5. \A k \in Nat : Manifest(k) \in DOMAIN new.data => SameManifest(dk, new, k)
  BY <1>1, <1>2 DEF SameManifest
<1>. QED BY <1>3, <1>4, <1>5 DEF Evolves

LEMMA AddDataEvolves ==
    ASSUME NEW dk, Base(dk), NEW f, f[1] # "manifest", NEW rec
    PROVE  Evolves(dk, AddRecord(dk, f, rec), {}, {})
<1>. PICK e : e = Append(dk.data[f], rec)
  OBVIOUS
<1>1. AddRecord(dk, f, rec) = [dk EXCEPT !.data[f] = e]
  BY DEF AddRecord
<1>2. Evolves(dk, [dk EXCEPT !.data[f] = e], {}, {})
  BY SetDataEvolves
<1>. QED BY <1>1, <1>2

LEMMA BuildSSTEvolves ==
    ASSUME NEW dk, Base(dk), NEW n \in Nat, NEW ents
    PROVE  LET new == BuildSST(dk, n, ents)
           IN  Evolves(dk, new, {}, {}) /\ States(new) = {Dir(dk)} /\ Dir(new) = Dir(dk)
<1>. PICK e : e = SetToSeq(ents)
  OBVIOUS
<1>. PICK one : one = [dk EXCEPT !.data[Sst(n)] = e]
  OBVIOUS
<1>1. Evolves(dk, one, {}, {}) /\ Dir(one) = Dir(dk)
  BY FileNames, SetDataEvolves
<1>. PICK new : new = SyncFd(one, Sst(n))
  OBVIOUS
<1>2. Base(one)
  BY <1>1 DEF Evolves
<1>3. Evolves(one, new, {}, {}) /\ States(new) = {Dir(one)} /\ Dir(new) = Dir(one)
  BY <1>2, SyncFdEvolves
<1>4. BuildSST(dk, n, ents) = new
  BY SyncIs DEF BuildSST
<1>. QED BY <1>1, <1>3, <1>4, EvolvesOn

LEMMA WriteStringEvolves ==
    ASSUME NEW dk, Base(dk), NEW n \in Nat
    PROVE  Evolves(dk, WriteStringToFileSync(dk, n), {}, {})
<1>1. Temp(n) \in Files /\ Temp(n)[1] = "dbtmp" /\ \A k \in Nat : Temp(n) # Manifest(k)
  BY FileNames
<1>. PICK one : one = NewWritableFile(dk, Temp(n))
  OBVIOUS
<1>2. Evolves(dk, one, {}, {})
  BY <1>1, NewFileEvolves
<1>. PICK two : two = AddRecord(one, Temp(n), n)
  OBVIOUS
<1>3. Evolves(one, two, {}, {})
  BY <1>1, <1>2, AddDataEvolves DEF Evolves
<1>4. Evolves(two, SyncFd(two, Temp(n)), {}, {})
  BY <1>3, SyncFdEvolves DEF Evolves
<1>5. WriteStringToFileSync(dk, n) = SyncFd(two, Temp(n))
  BY Zenon DEF WriteStringToFileSync
<1>6. Evolves(dk, two, {}, {})
  BY <1>2, <1>3, EvolvesOn
<1>. QED BY <1>4, <1>5, <1>6, EvolvesOn

(* A record more in MANIFEST k. *)
LEMMA AddManifestEvolves ==
    ASSUME NEW dk, Base(dk), NEW k \in Nat, NEW rec,
           Manifest(k) \in DOMAIN dk.data => GoodManifest(k, Append(dk.data[Manifest(k)], rec))
    PROVE  LET new == AddRecord(dk, Manifest(k), rec)
           IN  /\ Evolves(dk, new, {}, {k}) /\ States(new) = States(dk) /\ Dir(new) = Dir(dk)
               /\ new.synced = dk.synced
               /\ Manifest(k) \in DOMAIN dk.data =>
                     new.data[Manifest(k)] = Append(dk.data[Manifest(k)], rec)
<1>. PICK new : new = AddRecord(dk, Manifest(k), rec)
  OBVIOUS
<1>1. /\ new.dir = dk.dir /\ new.synced = dk.synced
      /\ new.data = [dk.data EXCEPT ![Manifest(k)] = Append(dk.data[Manifest(k)], rec)]
  BY DEF DiskOK, Base, AddRecord
<1>2. /\ DiskOK(new) /\ DOMAIN new.data = DOMAIN dk.data
      /\ Manifest(k) \in DOMAIN dk.data =>
             new.data[Manifest(k)] = Append(dk.data[Manifest(k)], rec)
      /\ \A j \in Nat \ {k} : Manifest(j) \in DOMAIN dk.data =>
             new.data[Manifest(j)] = dk.data[Manifest(j)]
  BY AddToManifest DEF Base
<1>3. Dir(new) = Dir(dk) /\ States(new) = States(dk)
  BY <1>1 DEF Dir, States
<1>4. Base(new)
  BY <1>1, <1>2 DEF Base
<1>5. \A j \in Nat \ {k} : Manifest(j) \in DOMAIN new.data => SameManifest(dk, new, j)
  BY <1>1, <1>2 DEF SameManifest
<1>6. Evolves(dk, new, {}, {k})
  BY <1>3, <1>4, <1>5 DEF Evolves
<1>. QED BY <1>1, <1>2, <1>3, <1>6

-----------------------------------------------------------------------------
(***************************************************************************)
(* What CURRENT leads to                                                   *)
(***************************************************************************)

(* The MANIFEST of d is there, synced beyond a record that is complete.    *)
Leads(dk, d) ==
    /\ CM(d) \in d.files
    /\ dk.synced[CM(d)] \in 0..Len(dk.data[CM(d)])
    /\ \E j \in 1..dk.synced[CM(d)] : Field(dk.data[CM(d)][j], "next") # {}
CurOK(dk) ==
    /\ Base(dk)
    /\ \A d \in States(dk) : d.cur <= Dir(dk).cur /\ (d.cur # 0 => Leads(dk, d))

(* The files it names are there, in the whole of it, and wherever a power  *)
(* failure may cut it.                                                     *)
FoundNow(dk) == Dir(dk).cur # 0 => \A n \in FilesOf(dk.data[CM(Dir(dk))]) : Has(Dir(dk), n)
FilesAt(dk, d, len) == FilesOf(SubSeq(dk.data[CM(d)], 1, len))
FoundLater(dk) ==
    \A d \in States(dk) : d.cur # 0 =>
        \A len \in dk.synced[CM(d)]..Len(dk.data[CM(d)]) : \A n \in FilesAt(dk, d, len) : Has(d, n)

(* None of gone is of use. *)
SparesNow(dk, gone) ==
    Dir(dk).cur # 0 => /\ CM(Dir(dk)) \notin gone
                       /\ \A n \in FilesOf(dk.data[CM(Dir(dk))]) : Sst(n) \notin gone
SparesLater(dk, gone) ==
    Dir(dk).cur # 0 =>
        \A len \in dk.synced[CM(Dir(dk))]..Len(dk.data[CM(Dir(dk))]) :
            \A n \in FilesAt(dk, Dir(dk), len) : Sst(n) \notin gone

(* The states of the directory and their MANIFESTs after a step. *)
LEMMA StatesKept ==
    ASSUME NEW dk, NEW new, NEW gone, NEW touched, CurOK(dk), Evolves(dk, new, gone, touched),
           \A d \in States(dk) : d.cur # 0 => d.cur \notin touched,
           Dir(dk).cur # 0 => CM(Dir(dk)) \notin gone
    PROVE  \A d \in States(new) :
              /\ d.cur <= Dir(dk).cur
              /\ d.cur # 0 =>
                    /\ CM(d) \in d.files /\ new.data[CM(d)] = dk.data[CM(d)]
                    /\ new.synced[CM(d)] \in {dk.synced[CM(d)], Len(dk.data[CM(d)])}
                    /\ dk.synced[CM(d)] \in 0..Len(dk.data[CM(d)])
                    /\ \E j \in 1..dk.synced[CM(d)] : Field(dk.data[CM(d)][j], "next") # {}
<1>. TAKE d \in States(new)
<1>0. /\ Dir(dk) \in States(dk) /\ Dir(dk).cur \in Nat
      /\ \A e \in States(dk) : e.cur <= Dir(dk).cur /\ (e.cur # 0 => Leads(dk, e))
  BY StatesOK DEF CurOK, Base
<1>1. PICK e \in States(dk) :
         /\ e.cur = d.cur /\ (d.cur # 0 => CM(e) \in d.files)
  <2>1. CASE d \in States(dk)
    BY <1>0, <2>1 DEF Leads
  <2>2. CASE d.cur = Dir(dk).cur /\ Dir(dk).files \ gone \subseteq d.files
    BY <1>0, <2>2 DEF Leads, CM
  <2>. QED BY <2>1, <2>2 DEF Evolves
<1>2. d.cur <= Dir(dk).cur
  BY <1>0, <1>1
<1>3. ASSUME d.cur # 0
      PROVE  /\ CM(d) \in d.files /\ new.data[CM(d)] = dk.data[CM(d)]
             /\ new.synced[CM(d)] \in {dk.synced[CM(d)], Len(dk.data[CM(d)])}
             /\ dk.synced[CM(d)] \in 0..Len(dk.data[CM(d)])
             /\ \E j \in 1..dk.synced[CM(d)] : Field(dk.data[CM(d)][j], "next") # {}
  <2>1. CM(d) = CM(e) /\ CM(d) \in d.files /\ Leads(dk, e)
    BY <1>0, <1>1, <1>3 DEF CM
  <2>2. d.cur \in Nat /\ d.files \subseteq DOMAIN new.data
    BY StatesOK DEF Evolves, Base
  <2>3. SameManifest(dk, new, d.cur)
    BY <1>1, <1>3, <2>1, <2>2 DEF Evolves, CM
  <2>. QED BY <2>1, <2>3 DEF SameManifest, CM, Leads
<1>. QED BY <1>2, <1>3

LEMMA CurKept ==
    ASSUME NEW dk, NEW new, NEW gone, NEW touched, CurOK(dk), Evolves(dk, new, gone, touched),
           \A d \in States(dk) : d.cur # 0 => d.cur \notin touched,
           Dir(dk).cur # 0 => CM(Dir(dk)) \notin gone
    PROVE  CurOK(new)
<1>1. ASSUME NEW d \in States(new) PROVE d.cur <= Dir(new).cur /\ (d.cur # 0 => Leads(new, d))
  <2>1. d.cur <= Dir(dk).cur /\ Dir(new).cur = Dir(dk).cur
    BY StatesKept DEF Evolves
  <2>2. ASSUME d.cur # 0 PROVE Leads(new, d)
    <3>. PICK recs : recs = dk.data[CM(d)]
      OBVIOUS
    <3>. PICK s : s = dk.synced[CM(d)]
      OBVIOUS
    <3>. PICK t : t = new.synced[CM(d)]
      OBVIOUS
    <3>1. /\ CM(d) \in d.files /\ new.data[CM(d)] = recs
          /\ t \in {s, Len(recs)} /\ s \in 0..Len(recs)
          /\ \E j \in 1..s : Field(recs[j], "next") # {}
      BY <2>2, StatesKept
    <3>2. Len(recs) \in Nat
      <4>1. GoodManifest(d.cur, new.data[CM(d)])
        BY <3>1, StatesOK DEF Evolves, Base
      <4>. QED BY <3>1, <4>1, SeqFacts DEF GoodManifest
    <3>3. t \in 0..Len(recs) /\ 1..s \subseteq 1..t
      BY <3>1, <3>2
    <3>4. \E j \in 1..t : Field(recs[j], "next") # {}
      BY <3>1, <3>3
    <3>. QED BY <3>1, <3>3, <3>4 DEF Leads
  <2>. QED BY <2>1, <2>2
<1>. QED BY <1>1 DEF CurOK, Evolves

LEMMA FoundNowKept ==
    ASSUME NEW dk, NEW new, NEW gone, NEW touched, CurOK(dk), Evolves(dk, new, gone, touched),
           \A d \in States(dk) : d.cur # 0 => d.cur \notin touched,
           FoundNow(dk), SparesNow(dk, gone)
    PROVE  FoundNow(new)
<1>. SUFFICES ASSUME Dir(new).cur # 0, NEW n \in FilesOf(new.data[CM(Dir(new))])
              PROVE  Has(Dir(new), n)
  BY DEF FoundNow
<1>1. Dir(new).cur = Dir(dk).cur /\ Dir(new) \in States(new) /\ CM(Dir(new)) = CM(Dir(dk))
  BY StatesOK DEF Evolves, Base, CM
<1>2. new.data[CM(Dir(new))] = dk.data[CM(Dir(dk))]
  BY <1>1, StatesKept DEF SparesNow
<1>3. Sst(n) \in Dir(dk).files /\ Sst(n) \notin gone
  BY <1>1, <1>2 DEF FoundNow, SparesNow, Has
<1>. QED BY <1>3 DEF Evolves, Has

LEMMA FoundLaterKept ==
    ASSUME NEW dk, NEW new, NEW gone, NEW touched, CurOK(dk), Evolves(dk, new, gone, touched),
           \A d \in States(dk) : d.cur # 0 => d.cur \notin touched,
           FoundLater(dk), SparesNow(dk, gone), SparesLater(dk, gone)
    PROVE  FoundLater(new)
<1>. SUFFICES ASSUME NEW d \in States(new), d.cur # 0,
                     NEW len \in new.synced[CM(d)]..Len(new.data[CM(d)]), NEW n \in FilesAt(new, d, len)
              PROVE  Has(d, n)
  BY DEF FoundLater
<1>. PICK recs : recs = dk.data[CM(d)]
  OBVIOUS
<1>. PICK s : s = dk.synced[CM(d)]
  OBVIOUS
<1>. PICK t : t = new.synced[CM(d)]
  OBVIOUS
<1>1. /\ d.cur <= Dir(dk).cur
      /\ CM(d) \in d.files /\ new.data[CM(d)] = recs
      /\ t \in {s, Len(recs)} /\ s \in 0..Len(recs)
  BY StatesKept DEF SparesNow
<1>2. Len(recs) \in Nat
  <2>1. GoodManifest(d.cur, new.data[CM(d)])
    BY <1>1, StatesOK DEF Evolves, Base
  <2>. QED BY <1>1, <2>1, SeqFacts DEF GoodManifest
<1>3. len \in s..Len(recs)
  <2>1. len \in t..Len(recs)
    BY <1>1
  <2>. QED BY <1>1, <1>2, <2>1
<1>4. n \in FilesAt(dk, d, len)
  BY <1>1 DEF FilesAt
<1>5. CASE d \in States(dk)
  BY <1>3, <1>4, <1>5 DEF FoundLater
<1>6. CASE d.cur = Dir(dk).cur /\ Dir(dk).files \ gone \subseteq d.files
  <2>1. CM(d) = CM(Dir(dk)) /\ Dir(dk) \in States(dk) /\ Dir(dk).cur # 0
    BY <1>6, StatesOK DEF CM, CurOK, Base
  <2>2. n \in FilesAt(dk, Dir(dk), len)
    BY <1>4, <2>1 DEF FilesAt
  <2>3. Sst(n) \in Dir(dk).files
    BY <1>3, <2>1, <2>2 DEF FoundLater, Has
  <2>4. Sst(n) \notin gone
    BY <1>3, <2>1, <2>2 DEF SparesLater
  <2>. QED BY <1>6, <2>3, <2>4 DEF Has
<1>. QED BY <1>5, <1>6 DEF Evolves

(* No SST file is gone that the MANIFEST may name.                         *)
LEMMA SparesBelow ==
    ASSUME NEW dk, CurOK(dk), NEW gone, Dir(dk).cur # 0 => CM(Dir(dk)) \notin gone,
           \A n \in Nat : Sst(n) \in gone => BelowIn(dk, Dir(dk).cur, n)
    PROVE  SparesNow(dk, gone) /\ SparesLater(dk, gone)
<1>. SUFFICES ASSUME Dir(dk).cur # 0
              PROVE  SparesNow(dk, gone) /\ SparesLater(dk, gone)
  BY DEF SparesNow, SparesLater
<1>. PICK recs : recs = dk.data[CM(Dir(dk))]
  OBVIOUS
<1>. PICK s : s = dk.synced[CM(Dir(dk))]
  OBVIOUS
<1>1. /\ Dir(dk) \in States(dk) /\ Dir(dk).cur \in Nat /\ Dir(dk).files \subseteq DOMAIN dk.data
      /\ CM(Dir(dk)) \in Dir(dk).files => GoodManifest(Dir(dk).cur, recs)
  BY StatesOK DEF CurOK, Base
<1>2. Leads(dk, Dir(dk))
  BY <1>1 DEF CurOK
<1>3. GoodManifest(Dir(dk).cur, recs) /\ CM(Dir(dk)) \in DOMAIN dk.data /\ s \in 0..Len(recs)
  BY <1>1, <1>2 DEF Leads
<1>4. IsSeq(recs) /\ Len(recs) \in Nat /\ DOMAIN recs = 1..Len(recs)
  BY <1>3, SeqFacts DEF GoodManifest
<1>5. ASSUME NEW n \in News(recs) PROVE n \in Nat /\ Sst(n) \notin gone
  <2>1. PICK i \in 1..Len(recs) : n \in Field(recs[i], "new")
    BY <1>4 DEF News
  <2>2. n \in Nat
    BY <1>3, <2>1 DEF GoodManifest, GoodRecord
  <2>3. ASSUME Sst(n) \in gone PROVE FALSE
    <3>1. NewsBelow(recs, n)
      BY <1>3, <2>2, <2>3 DEF BelowIn, CM
    <3>2. n < n
      BY <2>1, <3>1 DEF NewsBelow
    <3>. QED BY <2>2, <3>2
  <2>. QED BY <2>2, <2>3
<1>6. SparesNow(dk, gone)
  BY <1>4, <1>5, FilesNamed DEF SparesNow
<1>7. ASSUME NEW len \in s..Len(recs), NEW n \in FilesAt(dk, Dir(dk), len) PROVE Sst(n) \notin gone
  <2>. PICK part : part = SubSeq(recs, 1, len)
    OBVIOUS
  <2>1. len \in 0..Len(recs)
    BY <1>3, <1>4
  <2>2. IsSeq(part) /\ Len(part) = len /\ \A i \in 1..len : part[i] = recs[i]
    BY <1>4, <2>1, SeqPrefix
  <2>3. n \in News(part)
    BY <2>2, FilesNamed DEF FilesAt
  <2>4. PICK i \in 1..len : n \in Field(part[i], "new")
    BY <2>2, <2>3, SeqFacts DEF News
  <2>5. n \in News(recs)
    <3>1. i \in DOMAIN recs /\ n \in Field(recs[i], "new")
      BY <1>4, <2>1, <2>2, <2>4
    <3>. QED BY <3>1 DEF News
  <2>. QED BY <2>5, <1>5
<1>8. SparesLater(dk, gone)
  BY <1>7 DEF SparesLater
<1>. QED BY <1>6, <1>8
LEMMA WholePrefix ==
    ASSUME NEW s, IsSeq(s)
    PROVE  SubSeq(s, 1, Len(s)) = s
BY DEF IsSeq

LEMMA SamePrefix ==
    ASSUME NEW s, NEW t, IsSeq(s), IsSeq(t), NEW n \in 0..Len(s), Len(s) <= Len(t),
           \A i \in 1..Len(s) : t[i] = s[i]
    PROVE  SubSeq(t, 1, n) = SubSeq(s, 1, n)
<1>1. Len(s) \in Nat /\ Len(t) \in Nat /\ n \in 0..Len(t)
  BY SeqFacts
<1>. PICK a : a = SubSeq(s, 1, n)
  OBVIOUS
<1>. PICK b : b = SubSeq(t, 1, n)
  OBVIOUS
<1>2. /\ IsSeq(a) /\ DOMAIN a = 1..n /\ \A i \in 1..n : a[i] = s[i]
      /\ IsSeq(b) /\ DOMAIN b = 1..n /\ \A i \in 1..n : b[i] = t[i]
  BY <1>1, SeqPrefix
<1>3. a = [i \in 1..n |-> a[i]] /\ b = [i \in 1..n |-> b[i]]
  BY <1>2 DEF IsSeq
<1>4. \A i \in 1..n : a[i] = b[i]
  BY <1>1, <1>2
<1>. QED BY <1>3, <1>4
(* A record more in the MANIFEST that CURRENT names.                       *)
LEMMA AddCurKept ==
    ASSUME NEW dk, CurOK(dk), NEW k, k = Dir(dk).cur, k # 0, NEW rec,
           GoodManifest(k, Append(dk.data[Manifest(k)], rec)),
           NEW new, new = AddRecord(dk, Manifest(k), rec)
    PROVE  /\ CurOK(new)
           /\ FoundNow(dk) /\ (\A n \in Field(rec, "new") : Has(Dir(dk), n)) => FoundNow(new)
           /\ FoundLater(dk) /\ (\A n \in Field(rec, "new") : \A d \in States(dk) : Has(d, n))
                 => FoundLater(new)
<1>1. /\ Dir(dk) \in States(dk) /\ k \in Nat
      /\ \A d \in States(dk) : d.cur \in Nat /\ d.files \subseteq DOMAIN dk.data
      /\ \A d \in States(dk) : CM(d) \in d.files => GoodManifest(d.cur, dk.data[CM(d)])
  BY StatesOK DEF CurOK, Base
<1>2. Leads(dk, Dir(dk)) /\ CM(Dir(dk)) = Manifest(k)
  BY <1>1 DEF CurOK, CM
<1>3. Manifest(k) \in DOMAIN dk.data
  BY <1>1, <1>2 DEF Leads
<1>. PICK old : old = dk.data[Manifest(k)]
  OBVIOUS
<1>. PICK more : more = Append(old, rec)
  OBVIOUS
<1>4. IsSeq(old) /\ Len(old) \in Nat
  BY <1>1, <1>2, SeqFacts DEF Leads, GoodManifest
<1>5. /\ IsSeq(more) /\ Len(more) = Len(old) + 1
      /\ \A i \in 1..Len(old) : more[i] = old[i]
  BY <1>4, SeqAppend
<1>6. /\ Evolves(dk, new, {}, {k}) /\ States(new) = States(dk) /\ Dir(new) = Dir(dk)
      /\ new.synced = dk.synced /\ new.data[Manifest(k)] = more
  <2>1. Base(dk) /\ GoodManifest(k, Append(dk.data[Manifest(k)], rec))
    BY DEF CurOK
  <2>2. LET nw == AddRecord(dk, Manifest(k), rec)
        IN  /\ Evolves(dk, nw, {}, {k}) /\ States(nw) = States(dk) /\ Dir(nw) = Dir(dk)
            /\ nw.synced = dk.synced
            /\ Manifest(k) \in DOMAIN dk.data =>
                  nw.data[Manifest(k)] = Append(dk.data[Manifest(k)], rec)
    BY ONLY <1>1, <2>1, AddManifestEvolves
  <2>. QED BY <1>3, <2>2
<1>7. ASSUME NEW d \in States(dk), d.cur # 0, d.cur # k
      PROVE  new.data[CM(d)] = dk.data[CM(d)]
  <2>1. Leads(dk, d) /\ d.cur \in Nat \ {k}
    BY <1>1, <1>7 DEF CurOK
  <2>2. CM(d) \in DOMAIN new.data
    <3>1. d \in States(new) /\ Base(new)
      BY <1>6 DEF Evolves
    <3>2. d.files \subseteq DOMAIN new.data
      BY <3>1, StatesOK DEF Base
    <3>. QED BY <2>1, <3>2 DEF Leads
  <2>3. SameManifest(dk, new, d.cur)
    BY <1>6, <2>1, <2>2 DEF Evolves, CM
  <2>. QED BY <2>3 DEF SameManifest, CM
<1>8. ASSUME NEW d \in States(dk), d.cur # 0 PROVE Leads(new, d)
  <2>1. Leads(dk, d)
    BY <1>8 DEF CurOK
  <2>2. CASE d.cur = k
    <3>. PICK s : s = dk.synced[Manifest(k)]
      OBVIOUS
    <3>1. s \in 0..Len(old) /\ \E j \in 1..s : Field(old[j], "next") # {}
      BY <2>1, <2>2 DEF Leads, CM
    <3>2. PICK j \in 1..s : Field(old[j], "next") # {}
      BY <3>1
    <3>3. s \in 0..Len(more) /\ j \in 1..Len(old)
      BY <1>4, <1>5, <3>1
    <3>4. more[j] = old[j]
      BY <1>5, <3>3
    <3>5. s \in 0..Len(more) /\ \E i \in 1..s : Field(more[i], "next") # {}
      BY <3>2, <3>3, <3>4
    <3>. QED BY <1>6, <2>1, <2>2, <3>5 DEF Leads, CM
  <2>3. CASE d.cur # k
    BY <1>6, <1>7, <1>8, <2>1, <2>3 DEF Leads
  <2>. QED BY <2>2, <2>3
<1>9. CurOK(new)
  BY <1>6, <1>8 DEF CurOK, Evolves
<1>10. FilesOf(more) \subseteq FilesOf(old) \cup Field(rec, "new")
  BY <1>4, FilesMore
<1>11. ASSUME FoundNow(dk), \A n \in Field(rec, "new") : Has(Dir(dk), n)
       PROVE  FoundNow(new)
  BY <1>2, <1>6, <1>10, <1>11 DEF FoundNow
<1>12. ASSUME FoundLater(dk), \A n \in Field(rec, "new") : \A d \in States(dk) : Has(d, n)
       PROVE  FoundLater(new)
  <2>. SUFFICES ASSUME NEW d \in States(dk), d.cur # 0,
                       NEW len \in dk.synced[CM(d)]..Len(new.data[CM(d)]), NEW n \in FilesAt(new, d, len)
                PROVE  Has(d, n)
    BY <1>6 DEF FoundLater
  <2>1. CASE d.cur # k
    <3>1. new.data[CM(d)] = dk.data[CM(d)]
      BY <1>7, <2>1
    <3>. QED BY <1>12, <3>1 DEF FoundLater, FilesAt
  <2>2. CASE d.cur = k
    <3>. PICK s : s = dk.synced[Manifest(k)]
      OBVIOUS
    <3>0. s \in 0..Len(old)
      BY <1>2 DEF Leads, CM
    <3>1. CM(d) = Manifest(k) /\ len \in s..Len(more) /\ n \in FilesOf(SubSeq(more, 1, len))
      BY <1>6, <2>2 DEF CM, FilesAt
    <3>2. ASSUME NEW l \in s..Len(old), NEW m \in FilesOf(SubSeq(old, 1, l)) PROVE Has(d, m)
      BY <1>12, <2>2, <3>1 DEF FoundLater, FilesAt
    <3>3. CASE len \in s..Len(old)
      <4>1. SubSeq(more, 1, len) = SubSeq(old, 1, len)
        BY <1>4, <1>5, <3>0, <3>3, SamePrefix
      <4>. QED BY <3>1, <3>2, <3>3, <4>1
    <3>4. CASE len = Len(old) + 1
      <4>1. SubSeq(more, 1, len) = more
        BY <1>5, <3>4, WholePrefix
      <4>2. SubSeq(old, 1, Len(old)) = old
        BY <1>4, WholePrefix
      <4>3. n \in FilesOf(old) \/ n \in Field(rec, "new")
        BY <1>10, <3>1, <4>1
      <4>4. Len(old) \in s..Len(old)
        BY <1>4, <3>0
      <4>. QED BY <1>12, <3>2, <4>2, <4>3, <4>4
    <3>. QED BY <1>4, <1>5, <3>0, <3>1, <3>3, <3>4
  <2>. QED BY <2>1, <2>2
<1>. QED BY <1>9, <1>11, <1>12
Complete(recs) == \E j \in 1..Len(recs) : Field(recs[j], "next") # {}
Holds(d, recs) == \A n \in FilesOf(recs) : Has(d, n)

(* CURRENT is renamed to the MANIFEST k. *)
LEMMA RenameKept ==
    ASSUME NEW dk, CurOK(dk), NEW k \in Nat, Dir(dk).cur < k, Manifest(k) \in Dir(dk).files,
           dk.synced[Manifest(k)] = Len(dk.data[Manifest(k)]),
           Complete(dk.data[Manifest(k)]), NEW new, new = RenameToCurrent(dk, k)
    PROVE  /\ CurOK(new) /\ Dir(new).cur = k /\ Dir(new).files = Dir(dk).files \ {Temp(k)}
           /\ new.data[Manifest(k)] = dk.data[Manifest(k)]
           /\ new.synced[Manifest(k)] = Len(dk.data[Manifest(k)])
           /\ Holds(Dir(dk), dk.data[Manifest(k)]) => FoundNow(new)
           /\ Holds(Dir(dk), dk.data[Manifest(k)]) /\ FoundLater(dk) => FoundLater(new)
           /\ \A d \in States(new) : d.cur # 0 =>
                 (d \in States(dk) \/ d.cur = k) /\ new.data[CM(d)] = dk.data[CM(d)]
<1>. PICK dir : dir = [cur |-> k, files |-> Dir(dk).files \ {Temp(k)}]
  OBVIOUS
<1>. PICK mid : mid = ChangeDir(dk, dir)
  OBVIOUS
<1>. PICK recs : recs = dk.data[Manifest(k)]
  OBVIOUS
<1>1. /\ Dir(dk) \in States(dk) /\ Dir(dk) \in Dirs /\ Dir(dk).cur \in Nat
      /\ Dir(dk).files \subseteq DOMAIN dk.data
      /\ \A d \in States(dk) : d.cur \in Nat /\ d.cur <= Dir(dk).cur
  BY StatesOK DEF CurOK, Base
<1>2. /\ dir.cur = k /\ dir.files = Dir(dk).files \ {Temp(k)} /\ dir \in Dirs /\ dir # Dir(dk)
      /\ dir.files \subseteq DOMAIN dk.data
  BY <1>1 DEF Dirs
<1>3. CM(dir) = Manifest(k) /\ Manifest(k) \in dir.files
  BY <1>2, FileNames DEF CM, Manifest, Temp
<1>4. DiskOK(mid) /\ Dir(mid) = dir
  BY <1>2, ChangeDirGood DEF CurOK, Base
<1>5. /\ mid.data = dk.data /\ mid.synced = dk.synced /\ mid.dir = Append(dk.dir, dir)
  BY <1>2 DEF ChangeDir, CurOK, Base, DiskOK
<1>6. \A d \in States(mid) : d \in States(dk) \/ d = dir
  <2>0. dk.dir \in Seq(Dirs)
    BY DEF CurOK, Base, DiskOK
  <2>1. /\ DOMAIN mid.dir = 1..(Len(dk.dir) + 1) /\ Len(dk.dir) \in Nat
        /\ DOMAIN dk.dir = 1..Len(dk.dir)
        /\ mid.dir[Len(dk.dir) + 1] = dir
        /\ \A i \in 1..Len(dk.dir) : mid.dir[i] = dk.dir[i]
    <3>1. IsSeq(dk.dir)
      BY <2>0 DEF IsSeq
    <3>2. mid.dir = Append(dk.dir, dir)
      BY <1>5
    <3>. QED BY ONLY <3>1, <3>2, SeqFacts, SeqAppend
  <2>2. ASSUME NEW i \in DOMAIN mid.dir PROVE mid.dir[i] \in States(dk) \/ mid.dir[i] = dir
    <3>1. CASE i = Len(dk.dir) + 1
      BY <3>1, <2>1
    <3>2. CASE i \in 1..Len(dk.dir)
      BY <3>2, <2>1 DEF States
    <3>. QED BY <3>1, <3>2, <2>1
  <2>. QED BY <2>2 DEF States
<1>7. Leads(mid, dir)
  <2>1. GoodManifest(k, recs)
    <3>1. Manifest(k) \in DOMAIN dk.data
      BY <1>1
    <3>. QED BY <3>1 DEF CurOK, Base, DiskOK
  <2>2. Len(recs) \in 0..Len(recs)
    BY <2>1, SeqFacts DEF GoodManifest
  <2>. QED BY <1>3, <1>5, <2>2 DEF Leads, Complete
<1>8. CurOK(mid)
  <2>1. ASSUME NEW d \in States(mid) PROVE d.cur <= Dir(mid).cur /\ (d.cur # 0 => Leads(mid, d))
    <3>1. CASE d = dir
      BY <3>1, <1>2, <1>4, <1>7
    <3>2. CASE d \in States(dk)
      <4>1. d.cur <= k
        BY <1>1, <3>2
      <4>2. d.cur # 0 => Leads(mid, d)
        BY <1>5, <3>2 DEF Leads, CurOK
      <4>. QED BY <4>1, <4>2, <1>2, <1>4
    <3>. QED BY <3>1, <3>2, <1>6
  <2>. QED BY <2>1, <1>4, <1>5 DEF CurOK, Base
<1>9. /\ Evolves(mid, Tidy(mid), {}, {}) /\ Tidy(mid).dir = mid.dir
      /\ \A d \in States(mid) : \A g \in d.files :
            Tidy(mid).data[g] = mid.data[g] /\ Tidy(mid).synced[g] = mid.synced[g]
  <2>1. Base(mid)
    BY <1>8 DEF CurOK
  <2>. QED BY ONLY <2>1, TidyEvolves
<1>10. new = Tidy(mid)
  BY DEF RenameToCurrent
<1>11. Dir(new) = dir
  BY <1>4, <1>9, <1>10 DEF Dir
<1>12. CurOK(new)
  BY <1>8, <1>9, <1>10, CurKept
<1>13. new.data[Manifest(k)] = recs /\ new.synced[Manifest(k)] = Len(recs)
  <2>1. dir \in States(mid)
    BY <1>4, StatesOK
  <2>2. Tidy(mid).data[Manifest(k)] = mid.data[Manifest(k)]
    BY <1>3, <1>9, <2>1
  <2>3. Tidy(mid).synced[Manifest(k)] = mid.synced[Manifest(k)]
    BY <1>3, <1>9, <2>1
  <2>. QED BY <1>5, <1>10, <2>2, <2>3
<1>15. ASSUME NEW d \in States(new), d.cur # 0
       PROVE  (d \in States(dk) \/ d.cur = k) /\ new.data[CM(d)] = dk.data[CM(d)]
  <2>1. d \in States(mid)
    <3>1. new.dir = mid.dir
      BY ONLY <1>9, <1>10
    <3>2. States(new) = States(mid)
      BY ONLY <3>1 DEF States
    <3>. QED BY <3>2, <1>15
  <2>2. CM(d) \in d.files
    BY <1>8, <1>15, <2>1 DEF CurOK, Leads
  <2>3. new.data[CM(d)] = mid.data[CM(d)]
    BY <1>9, <1>10, <2>1, <2>2
  <2>. QED BY <1>2, <1>5, <1>6, <2>1, <2>3
<1>14. ASSUME Holds(Dir(dk), recs)
       PROVE  FoundNow(new) /\ (FoundLater(dk) => FoundLater(new))
  <2>1. \A n \in FilesOf(recs) : Has(dir, n)
    <3>1. \A n : Sst(n) # Temp(k)
      BY DEF Sst, Temp
    <3>. QED BY <3>1, <1>2, <1>14 DEF Has, Holds
  <2>2. FoundNow(mid)
    BY <1>3, <1>4, <1>5, <2>1 DEF FoundNow
  <2>3. ASSUME FoundLater(dk) PROVE FoundLater(mid)
    <3>. SUFFICES ASSUME NEW d \in States(mid), d.cur # 0,
                         NEW len \in mid.synced[CM(d)]..Len(mid.data[CM(d)]), NEW n \in FilesAt(mid, d, len)
                  PROVE  Has(d, n)
      BY DEF FoundLater
    <3>1. CASE d \in States(dk)
      BY <1>5, <2>3, <3>1 DEF FoundLater, FilesAt
    <3>2. CASE d = dir
      <4>0. IsSeq(recs) /\ Len(recs) \in Nat
        <5>1. Manifest(k) \in DOMAIN dk.data
          BY <1>1
        <5>2. GoodManifest(k, recs)
          BY <5>1 DEF CurOK, Base, DiskOK
        <5>. QED BY <5>2, SeqFacts DEF GoodManifest
      <4>1. len \in Len(recs)..Len(recs)
        BY <1>3, <1>5, <3>2
      <4>2. len = Len(recs)
        BY <4>0, <4>1
      <4>3. SubSeq(recs, 1, len) = recs
        BY <4>0, <4>2, WholePrefix
      <4>. QED BY <1>3, <1>5, <2>1, <3>2, <4>3 DEF FilesAt
    <3>. QED BY <3>1, <3>2, <1>6
  <2>4. SparesNow(mid, {}) /\ SparesLater(mid, {})
    BY DEF SparesNow, SparesLater
  <2>5. \A d \in States(mid) : d.cur # 0 => d.cur \notin {}
    OBVIOUS
  <2>6. FoundNow(new)
    BY <1>8, <1>9, <1>10, <2>2, <2>4, <2>5, FoundNowKept
  <2>7. FoundLater(mid) => FoundLater(new)
    BY <1>8, <1>9, <1>10, <2>4, <2>5, FoundLaterKept
  <2>. QED BY <2>3, <2>6, <2>7
<1>. QED BY <1>2, <1>11, <1>12, <1>13, <1>14, <1>15

(* Of the records recs, of which synced are safe, left are left.           *)
Shortened(recs, synced, left) ==
    \E len \in synced..Len(recs) : left \in {SubSeq(recs, 1, len), Append(SubSeq(recs, 1, len), Torn)}

(* The power fails: what is left is the state d of the directory, and its   *)
(* MANIFEST up to len, with a part of the next record or not.               *)
LEMMA CutKept ==
    ASSUME NEW dk, CurOK(dk), NEW d \in States(dk), NEW new, Base(new), new.dir = <<d>>,
           d.cur # 0 => /\ new.synced[CM(d)] = Len(new.data[CM(d)])
                        /\ Shortened(dk.data[CM(d)], dk.synced[CM(d)], new.data[CM(d)])
    PROVE  CurOK(new) /\ (FoundLater(dk) => FoundNow(new) /\ FoundLater(new))
<1>1. Dir(new) = d /\ States(new) = {d}
  BY DEF Dir, Last, States
<1>2. d.cur <= Dir(new).cur /\ d.cur \in Nat
  BY <1>1, StatesOK DEF CurOK, Base
<1>3. CASE d.cur = 0
  BY <1>1, <1>2, <1>3 DEF CurOK, FoundNow, FoundLater
<1>4. CASE d.cur # 0
  <2>. PICK recs : recs = dk.data[CM(d)]
    OBVIOUS
  <2>. PICK left : left = new.data[CM(d)]
    OBVIOUS
  <2>. PICK s : s = dk.synced[CM(d)]
    OBVIOUS
  <2>1. CM(d) \in d.files /\ s \in 0..Len(recs) /\ \E j \in 1..s : Field(recs[j], "next") # {}
    BY <1>4 DEF CurOK, Leads
  <2>2. IsSeq(recs) /\ Len(recs) \in Nat
    <3>1. GoodManifest(d.cur, recs)
      BY <2>1, StatesOK DEF CurOK, Base
    <3>. QED BY <3>1, SeqFacts DEF GoodManifest
  <2>3. PICK len \in s..Len(recs) : left \in {SubSeq(recs, 1, len), Append(SubSeq(recs, 1, len), Torn)}
    BY <1>4 DEF Shortened
  <2>. PICK rest : rest = SubSeq(recs, 1, len)
    OBVIOUS
  <2>4. /\ len \in Nat /\ IsSeq(rest) /\ Len(rest) = len /\ \A i \in 1..len : rest[i] = recs[i]
    BY <2>1, <2>2, <2>3, SeqPrefix
  <2>5. /\ IsSeq(left) /\ Len(left) \in Nat /\ len <= Len(left) /\ \A i \in 1..len : left[i] = recs[i]
        /\ FilesOf(left) = FilesOf(rest)
    <3>1. CASE left = rest
      BY <2>4, <3>1
    <3>2. CASE left = Append(rest, Torn)
      <4>1. /\ IsSeq(left) /\ Len(left) = len + 1 /\ \A i \in 1..len : left[i] = rest[i]
        BY <2>4, <3>2, SeqAppend
      <4>. QED BY <2>4, <3>2, <4>1, FilesTorn
    <3>. QED BY <2>3, <3>1, <3>2
  <2>6. Leads(new, d)
    <3>1. PICK j \in 1..s : Field(recs[j], "next") # {}
      BY <2>1
    <3>2. j \in 1..len /\ j \in 1..Len(left)
      BY <2>1, <2>2, <2>3, <2>5
    <3>3. Field(left[j], "next") # {} /\ Len(left) \in 0..Len(left)
      BY <2>5, <3>1, <3>2
    <3>. QED BY <1>4, <2>1, <3>2, <3>3 DEF Leads
  <2>7. CurOK(new)
    BY <1>1, <1>2, <2>6 DEF CurOK
  <2>8. ASSUME FoundLater(dk) PROVE FoundNow(new) /\ FoundLater(new)
    <3>1. \A n \in FilesOf(rest) : Has(d, n)
      BY <1>4, <2>3, <2>8 DEF FoundLater, FilesAt
    <3>2. FoundNow(new)
      BY <1>1, <2>5, <3>1 DEF FoundNow
    <3>3. FoundLater(new)
      <4>1. new.synced[CM(d)] = Len(left) /\ \A l \in Len(left)..Len(left) : l = Len(left)
        BY <1>4, <2>5
      <4>2. SubSeq(left, 1, Len(left)) = left
        BY <2>5, WholePrefix
      <4>. QED BY <1>1, <2>5, <3>1, <4>1, <4>2 DEF FoundLater, FilesAt
    <3>. QED BY <3>2, <3>3
  <2>. QED BY <2>7, <2>8
<1>. QED BY <1>3, <1>4
-----------------------------------------------------------------------------
(***************************************************************************)
(* The inductive invariant                                                 *)
(***************************************************************************)
DirInv ==
    /\ CurOK(disk)
    /\ ~lost => FoundNow(disk)
    /\ ~lax => FoundLater(disk)
    /\ lost => lax

(* What the process knows of the disk.  While a record that is in the       *)
(* current MANIFEST waits to be synced, the version is behind.              *)
Known == pc \in {"opening", "opened"} /\ op.call # "newdb" /\ op.at # "recover"
KnownInv ==
    Known =>
        /\ Dir(disk).cur # 0
        /\ IF versions.log_open THEN versions.manifest = Dir(disk).cur
           ELSE versions.manifest > Dir(disk).cur
        /\ BelowIn(disk, Dir(disk).cur, versions.next)
        /\ ~lost => \A n \in versions.files : Has(Dir(disk), n)
        /\ ~bg_error /\ ~(versions.log_open /\ op.at = "sync") =>
              FilesOf(disk.data[CM(Dir(disk))]) = versions.files

CallInv ==
    /\ op.call = "newdb" => Dir(disk).cur = 0
    /\ op.at = "recover" => Dir(disk).cur # 0
    /\ pc # "opened" => ~bg_error /\ compaction = NoCompaction
    /\ op.at = "replay" => pc = "opening"
    /\ op.at = "build" => op.call = "flush" \/ pc = "opening"

(* The MANIFEST that is being written. *)
Target == Manifest(ManifestNumber)
Edited == SaveTo(versions.files, Apply(NoChange, op.edit))
LogState ==
    /\ op.at \in {"create", "snapshot", "temp", "rename"} => NewManifest
    /\ op.at \in {"snapshot"} \cup Whole => Target \in Dir(disk).files
    /\ op.at = "record" /\ ~bg_error => FilesOf(disk.data[Target]) = versions.files
    /\ op.at \in {"sync", "temp", "rename"} /\ ~bg_error => FilesOf(disk.data[Target]) = Edited
    /\ op.at \in {"sync", "temp", "rename"} => Complete(disk.data[Target])
    /\ op.at \in {"temp", "rename"} => disk.synced[Target] = Len(disk.data[Target])

(* The SST files of an edit stay, whatever happens to the power. *)
EditState == \A n \in op.edit.new : \A d \in States(disk) : Has(d, n)

(* The file that is being built belongs to nobody else. *)
BuildState ==
    op.at = "build" =>
        /\ Has(Dir(disk), op.number) /\ BelowIn(disk, Dir(disk).cur, op.number)
        /\ op.number \notin versions.files \cup {compaction.out}
OutState == compaction # NoCompaction => Has(Dir(disk), compaction.out)

(* Files that are needed are not removed, and the MANIFEST can be relied on *)
(* when files are.                                                          *)
Relied == \/ op.at = "remove" /\ op.todo # {}
          \/ pc = "opening" /\ op.at \in Replaying /\ versions.log_open
RemoveState ==
    /\ op.at = "remove" =>
          \A f \in op.todo :
              /\ f[1] = "manifest" => f[2] < versions.manifest
              /\ f[1] = "sst" => f[2] \notin versions.files \cup {compaction.out}
    /\ op.at = "remove" /\ op.todo # {} => ~bg_error
    /\ op.at = "remove" => op.edit.new = {}
    /\ Relied => lax \/ disk.synced[CM(Dir(disk))] = Len(disk.data[CM(Dir(disk))])

CrashInv ==
    /\ RecInv /\ DirInv /\ KnownInv /\ CallInv
    /\ LogState /\ EditState /\ BuildState /\ OutState /\ RemoveState
    /\ OpenSucceeds

-----------------------------------------------------------------------------
(***************************************************************************)
(* What a step keeps                                                       *)
(***************************************************************************)
LEMMA DirFacts ==
    ASSUME CrashInv
    PROVE  /\ Base(disk) /\ DiskOK(disk) /\ CurOK(disk)
           /\ Dir(disk) \in States(disk) /\ Dir(disk).cur \in Nat
           /\ Dir(disk).files \subseteq DOMAIN disk.data
           /\ Dir(disk).cur # 0 => Leads(disk, Dir(disk))
<1>1. CurOK(disk) /\ Base(disk) /\ DiskOK(disk)
  BY DEF CrashInv, DirInv, CurOK, Base
<1>2. /\ Dir(disk) \in States(disk) /\ Dir(disk).cur \in Nat
      /\ Dir(disk).files \subseteq DOMAIN disk.data
  BY <1>1, StatesOK
<1>. QED BY <1>1, <1>2 DEF CurOK

LEMMA Untouched ==
    ASSUME CrashInv, NEW touched, \A k \in Nat : k \in touched => Dir(disk).cur < k
    PROVE  \A d \in States(disk) : d.cur # 0 => d.cur \notin touched
<1>. TAKE d \in States(disk)
<1>1. d.cur <= Dir(disk).cur /\ d.cur \in Nat /\ Dir(disk).cur \in Nat
  BY DirFacts, StatesOK DEF CurOK, Base
<1>. QED BY <1>1

LEMMA DirKept ==
    ASSUME CrashInv, NEW gone, NEW touched, Evolves(disk, disk', gone, touched),
           \A k \in Nat : k \in touched => Dir(disk).cur < k, UNCHANGED <<lax, lost>>,
           Dir(disk).cur # 0 => CM(Dir(disk)) \notin gone,
           ~lost => SparesNow(disk, gone), ~lax => SparesLater(disk, gone)
    PROVE  DirInv'
<1>1. CurOK(disk) /\ \A d \in States(disk) : d.cur # 0 => d.cur \notin touched
  BY Untouched, DirFacts
<1>2. CurOK(disk')
  BY <1>1, CurKept
<1>3. ~lost' => FoundNow(disk')
  <2>1. ASSUME ~lost PROVE FoundNow(disk')
    <3>1. FoundNow(disk)
      BY <2>1 DEF CrashInv, DirInv
    <3>. QED BY <1>1, <2>1, <3>1, FoundNowKept
  <2>. QED BY <2>1
<1>4. ~lax' => FoundLater(disk')
  <2>1. ASSUME ~lax PROVE FoundLater(disk')
    <3>1. FoundLater(disk) /\ ~lost
      BY <2>1 DEF CrashInv, DirInv
    <3>. QED BY <1>1, <2>1, <3>1, FoundLaterKept
  <2>. QED BY <2>1
<1>5. lost' => lax'
  BY DEF CrashInv, DirInv
<1>. QED BY <1>2, <1>3, <1>4, <1>5 DEF DirInv

(* No SST file is gone. *)
LEMMA DirKeptPlain ==
    ASSUME CrashInv, NEW gone, NEW touched, Evolves(disk, disk', gone, touched),
           \A k \in Nat : k \in touched => Dir(disk).cur < k, UNCHANGED <<lax, lost>>,
           Dir(disk).cur # 0 => CM(Dir(disk)) \notin gone, \A n : Sst(n) \notin gone
    PROVE  DirInv'
<1>1. SparesNow(disk, gone) /\ SparesLater(disk, gone)
  BY DEF SparesNow, SparesLater
<1>. QED BY <1>1, DirKept

LEMMA DirSame ==
    ASSUME CrashInv, UNCHANGED <<disk, lax, lost>>
    PROVE  DirInv'
BY DEF CrashInv, DirInv

(* The MANIFEST of CURRENT, and what the process knows of it.              *)
LEMMA CurrentKept ==
    ASSUME CrashInv, NEW gone, NEW touched, Evolves(disk, disk', gone, touched),
           \A k \in Nat : k \in touched => Dir(disk).cur < k,
           Dir(disk).cur # 0, CM(Dir(disk)) \notin gone
    PROVE  /\ Dir(disk').cur = Dir(disk).cur /\ CM(Dir(disk')) = CM(Dir(disk))
           /\ CM(Dir(disk)) \in DOMAIN disk.data
           /\ disk'.data[CM(Dir(disk'))] = disk.data[CM(Dir(disk))]
           /\ disk'.synced[CM(Dir(disk'))] \in {disk.synced[CM(Dir(disk))], Len(disk.data[CM(Dir(disk))])}
<1>1. Dir(disk').cur = Dir(disk).cur /\ Base(disk')
  BY DEF Evolves
<1>2. Dir(disk') \in States(disk')
  BY <1>1, StatesOK DEF Base
<1>3. CurOK(disk) /\ \A d \in States(disk) : d.cur # 0 => d.cur \notin touched
  BY Untouched, DirFacts
<1>4. CM(Dir(disk')) = CM(Dir(disk))
  BY <1>1 DEF CM
<1>5. CM(Dir(disk)) \in DOMAIN disk.data
  BY DirFacts DEF Leads
<1>6. /\ disk'.data[CM(Dir(disk'))] = disk.data[CM(Dir(disk'))]
      /\ disk'.synced[CM(Dir(disk'))] \in {disk.synced[CM(Dir(disk'))], Len(disk.data[CM(Dir(disk'))])}
  BY <1>1, <1>2, <1>3, StatesKept
<1>. QED BY <1>1, <1>4, <1>5, <1>6

LEMMA KnownKept ==
    ASSUME CrashInv, Known, NEW gone, NEW touched, Evolves(disk, disk', gone, touched),
           \A k \in Nat : k \in touched => Dir(disk).cur < k,
           CM(Dir(disk)) \notin gone, ~lost => \A n \in versions.files : Sst(n) \notin gone,
           Bumped(versions, versions'), lost' = lost, bg_error => bg_error',
           versions.log_open /\ op.at = "sync" => op'.at = "sync" \/ bg_error'
    PROVE  KnownInv'
<1>1. Dir(disk).cur # 0
  BY DEF CrashInv, KnownInv
<1>2. /\ Dir(disk').cur = Dir(disk).cur /\ CM(Dir(disk')) = CM(Dir(disk))
      /\ CM(Dir(disk)) \in DOMAIN disk.data
      /\ disk'.data[CM(Dir(disk'))] = disk.data[CM(Dir(disk))]
  BY <1>1, CurrentKept
<1>3. /\ versions'.log_open = versions.log_open /\ versions'.manifest = versions.manifest
      /\ versions'.files = versions.files /\ versions.next <= versions'.next /\ versions'.next \in Nat
  BY DEF Bumped
<1>4. BelowIn(disk', Dir(disk).cur, versions'.next)
  <2>1. BelowIn(disk, Dir(disk).cur, versions.next)
    BY DEF CrashInv, KnownInv
  <2>2. BelowIn(disk, Dir(disk).cur, versions'.next)
    BY <1>3, <2>1, BelowMore, DirFacts DEF CrashInv, RecInv, VersionInv
  <2>. QED BY <1>2, <2>2 DEF BelowIn, CM
<1>5. ~lost' => \A n \in versions'.files : Has(Dir(disk'), n)
  <2>1. ~lost => \A n \in versions.files : Has(Dir(disk), n)
    BY DEF CrashInv, KnownInv
  <2>. QED BY <1>3, <2>1 DEF Evolves, Has
<1>6. ~bg_error' /\ ~(versions'.log_open /\ op'.at = "sync") =>
         FilesOf(disk'.data[CM(Dir(disk'))]) = versions'.files
  BY <1>2, <1>3 DEF CrashInv, KnownInv
<1>7. IF versions'.log_open THEN versions'.manifest = Dir(disk').cur ELSE versions'.manifest > Dir(disk').cur
  BY <1>2, <1>3 DEF CrashInv, KnownInv
<1>. QED BY <1>1, <1>2, <1>3, <1>4, <1>5, <1>6, <1>7 DEF KnownInv

LEMMA OutKept ==
    ASSUME CrashInv, NEW gone, NEW touched, Evolves(disk, disk', gone, touched),
           compaction' \in {compaction, NoCompaction}, Sst(compaction.out) \notin gone
    PROVE  OutState'
BY DEF CrashInv, OutState, Evolves, Has

LEMMA EditKept ==
    ASSUME CrashInv, NEW gone, NEW touched, Evolves(disk, disk', gone, touched),
           op'.edit.new \subseteq op.edit.new, \A n \in op.edit.new : Sst(n) \notin gone
    PROVE  EditState'
<1>. SUFFICES ASSUME NEW n \in op'.edit.new, NEW d \in States(disk') PROVE Has(d, n)
  BY DEF EditState
<1>1. n \in op.edit.new /\ Sst(n) \notin gone
  OBVIOUS
<1>2. Dir(disk) \in States(disk)
  BY DirFacts
<1>3. \A e \in States(disk) : Has(e, n)
  BY <1>1 DEF CrashInv, EditState
<1>. QED BY <1>1, <1>2, <1>3 DEF Evolves, Has

LEMMA NoLog == op'.at \notin Logging => LogState'
BY DEF Logging, Whole, LogState

LEMMA NoBuild == op'.at # "build" => BuildState'
BY DEF BuildState

LEMMA NoRemove ==
    op'.at # "remove" /\ ~(pc' = "opening" /\ op'.at \in Replaying /\ versions'.log_open) => RemoveState'
BY DEF RemoveState, Relied

LEMMA NotCorrupt == pc' # "corrupt" => OpenSucceeds'
BY DEF OpenSucceeds

(* The process has ended. *)
LEMMA ForgetCrash ==
    ASSUME RecInv', DirInv', Forget, pc' = "closed"
    PROVE  CrashInv'
<1>1. op' = NoOp /\ versions' = NewVersionSet /\ compaction' = NoCompaction /\ bg_error' = FALSE
  BY DEF Forget
<1>2. /\ op'.at = "none" /\ op'.call = "none" /\ op'.edit.new = {} /\ versions'.log_open = FALSE
  BY <1>1, NoOpFields, NewVersionFields
<1>3. KnownInv' /\ CallInv' /\ EditState' /\ OutState'
  BY <1>1, <1>2 DEF KnownInv, Known, CallInv, EditState, OutState
<1>4. LogState' /\ BuildState' /\ RemoveState' /\ OpenSucceeds'
  BY <1>2, NoLog, NoBuild, NoRemove, NotCorrupt DEF Logging, Whole
<1>. QED BY <1>3, <1>4 DEF CrashInv
(* A call fails that left dk, without the files gone. *)
LEMMA FailCrash ==
    ASSUME CrashInv, RecInv', NEW dk, Fail(dk), pc \in {"opening", "opened"}, DirInv', NEW gone,
           Dir(dk).cur = Dir(disk).cur, Dir(disk).files \ gone \subseteq Dir(dk).files,
           pc = "opened" => Sst(compaction.out) \notin gone /\ \A n \in versions.files : Sst(n) \notin gone
    PROVE  CrashInv'
<1>1. disk' = dk /\ lax' = lax /\ lost' = lost
  BY DEF Fail, history
<1>2. CASE pc = "opening"
  <2>1. pc' = "closed" /\ Forget
    BY <1>2 DEF Fail
  <2>. QED BY <2>1, ForgetCrash
<1>3. CASE pc = "opened"
  <2>1. /\ op' = NoOp /\ versions' = versions /\ pc' = "opened" /\ bg_error' = TRUE
        /\ compaction' = NoCompaction \/ compaction' = compaction
    BY <1>3 DEF Fail, memory
  <2>2. op'.at = "none" /\ op'.call = "none" /\ op'.edit.new = {}
    BY <2>1, NoOpFields
  <2>3. versions.log_open /\ op.call # "newdb" /\ op.at # "recover" /\ Known
    BY <1>3, NewVersionFields DEF CrashInv, RecInv, LogInv, OpInv, Known
  <2>4. KnownInv'
    <3>1. Dir(disk').cur = Dir(disk).cur /\ Dir(disk).cur # 0 /\ versions.manifest = Dir(disk).cur
      BY <1>1, <2>3 DEF CrashInv, KnownInv
    <3>2. BelowIn(disk', versions'.manifest, versions'.next)
      BY <2>1, <2>3 DEF RecInv, LogInv
    <3>3. ~lost' => \A n \in versions'.files : Has(Dir(disk'), n)
      <4>1. ASSUME ~lost, NEW n \in versions.files PROVE Has(Dir(dk), n)
        <5>1. Sst(n) \in Dir(disk).files /\ Sst(n) \notin gone
          BY <1>3, <2>3, <4>1 DEF CrashInv, KnownInv, Has
        <5>. QED BY <5>1 DEF Has
      <4>. QED BY <1>1, <2>1, <4>1
    <3>. QED BY <2>1, <2>3, <3>1, <3>2, <3>3 DEF KnownInv
  <2>5. OutState'
    <3>1. compaction # NoCompaction => Sst(compaction.out) \in Dir(disk).files
      BY DEF CrashInv, OutState, Has
    <3>. QED BY <1>1, <1>3, <2>1, <3>1 DEF OutState, Has
  <2>6. CallInv' /\ EditState'
    BY <2>1, <2>2 DEF CallInv, EditState
  <2>7. LogState' /\ BuildState' /\ RemoveState' /\ OpenSucceeds'
    BY <2>1, <2>2, NoLog, NoBuild, NoRemove, NotCorrupt DEF Logging, Whole
  <2>. QED BY <2>4, <2>5, <2>6, <2>7 DEF CrashInv
<1>. QED BY <1>2, <1>3

-----------------------------------------------------------------------------
(***************************************************************************)
(* LogAndApply and NewDB                                                   *)
(***************************************************************************)

(* The MANIFEST that is written is a new one, above that of CURRENT, or it  *)
(* is that one.                                                            *)
LEMMA LogTarget ==
    ASSUME CrashInv, op.at \in Logging
    PROVE  /\ pc \in {"opening", "opened"} /\ op.at # "recover" /\ ManifestNumber \in Nat
           /\ NewManifest => Dir(disk).cur < ManifestNumber /\ pc = "opening" /\ ~bg_error
           /\ ~NewManifest => /\ versions.log_open /\ Known /\ Dir(disk).cur # 0
                              /\ ManifestNumber = Dir(disk).cur
           /\ op.call # "newdb" => Known
           /\ op.at \notin {"none", "recover", "remove", "build", "replay"}
<1>1. /\ pc \in {"opening", "opened"} /\ op.at # "recover" /\ ManifestNumber \in Nat
      /\ op.call = "newdb" => versions.log_open = FALSE
      /\ op.call # "newdb" => ManifestNumber = versions.manifest
  BY WhileLogging DEF CrashInv
<1>2. pc = "opened" => versions.log_open
  BY DEF CrashInv, RecInv, LogInv
<1>3. op.call # "newdb" => Known
  BY <1>1 DEF Known
<1>4. ASSUME NewManifest PROVE Dir(disk).cur < ManifestNumber /\ pc = "opening" /\ ~bg_error
  <2>1. pc = "opening"
    BY <1>1, <1>2, <1>4 DEF NewManifest
  <2>2. CASE op.call = "newdb"
    BY <2>1, <2>2 DEF CrashInv, CallInv, ManifestNumber
  <2>3. CASE op.call # "newdb"
    <3>1. Dir(disk).cur \in Nat /\ ~versions.log_open
      BY <1>4, <2>3, DirFacts DEF NewManifest
    <3>2. versions.manifest > Dir(disk).cur
      BY <1>3, <2>3, <3>1 DEF CrashInv, KnownInv
    <3>. QED BY <1>1, <2>1, <2>3, <3>1, <3>2 DEF CrashInv, CallInv
  <2>. QED BY <2>2, <2>3
<1>5. ASSUME ~NewManifest
      PROVE  versions.log_open /\ Known /\ Dir(disk).cur # 0 /\ ManifestNumber = Dir(disk).cur
  <2>1. op.call # "newdb" /\ versions.log_open
    BY <1>1, <1>2, <1>5 DEF NewManifest
  <2>. QED BY <1>1, <1>3, <2>1 DEF CrashInv, KnownInv
<1>6. op.at \notin {"none", "recover", "remove", "build", "replay"}
  BY DEF Logging, Whole
<1>. QED BY <1>1, <1>3, <1>4, <1>5, <1>6

AbandonGone == IF NewManifest THEN {Target} ELSE {}

LEMMA AbandonEvolves ==
    ASSUME NEW dk, Base(dk)
    PROVE  Evolves(dk, Abandon(dk), AbandonGone, {}) /\ Evolves(dk, NotCurrent(dk), AbandonGone, {})
<1>1. Evolves(dk, Abandon(dk), AbandonGone, {})
  BY RemoveFileEvolves, EvolvesSame DEF Abandon, AbandonGone, Target
<1>2. Evolves(dk, dk, AbandonGone, {})
  BY EvolvesSame, EvolvesMore
<1>. QED BY <1>1, <1>2 DEF NotCurrent

(* Of what a failed call of LogAndApply leaves. *)
LEMMA LogFails ==
    ASSUME CrashInv, RecInv', op.at \in Logging, NEW dk, Fail(dk), NEW gone, NEW touched,
           Evolves(disk, dk, gone, touched), gone \subseteq AbandonGone \cup {Temp(ManifestNumber)},
           \A k \in Nat : k \in touched => Dir(disk).cur < k
    PROVE  CrashInv'
<1>1. disk' = dk /\ UNCHANGED <<lax, lost>>
  BY DEF Fail, history
<1>2. /\ pc \in {"opening", "opened"}
      /\ NewManifest => Dir(disk).cur < ManifestNumber
      /\ ManifestNumber \in Nat
  BY LogTarget
<1>3. \A n : Sst(n) \notin gone
  BY DEF AbandonGone, Target, Sst, Manifest, Temp
<1>4. CM(Dir(disk)) \notin gone
  <2>1. Dir(disk).cur \in Nat
    BY DirFacts
  <2>. QED BY <1>2, <2>1 DEF AbandonGone, Target, CM, Manifest, Temp
<1>5. DirInv'
  BY <1>1, <1>3, <1>4, DirKeptPlain
<1>6. Dir(dk).cur = Dir(disk).cur /\ Dir(disk).files \ gone \subseteq Dir(dk).files
  BY DEF Evolves
<1>. QED BY <1>2, <1>3, <1>5, <1>6, FailCrash
(* A MANIFEST that a step neither removes nor writes to. *)
LEMMA ManifestKept ==
    ASSUME NEW dk, NEW new, NEW gone, NEW touched, Evolves(dk, new, gone, touched),
           NEW k \in Nat, k \notin touched, Manifest(k) \in Dir(dk).files, Manifest(k) \notin gone
    PROVE  /\ Manifest(k) \in Dir(new).files /\ new.data[Manifest(k)] = dk.data[Manifest(k)]
           /\ new.synced[Manifest(k)] \in {dk.synced[Manifest(k)], Len(dk.data[Manifest(k)])}
<1>1. Manifest(k) \in Dir(new).files
  BY DEF Evolves
<1>2. Manifest(k) \in DOMAIN new.data
  <2>1. Dir(new).files \subseteq DOMAIN new.data
    BY StatesOK DEF Evolves, Base
  <2>. QED BY <1>1, <2>1
<1>3. SameManifest(dk, new, k)
  BY <1>2 DEF Evolves
<1>. QED BY <1>1, <1>3 DEF SameManifest

(* From one call to the next, for a new MANIFEST. *)
LEMMA LogGoes ==
    ASSUME CrashInv, RecInv', op.at \in Logging, NewManifest, NEW a \in Logging,
           op' = [op EXCEPT !.at = a], UNCHANGED <<pc, versions, compaction, bg_error, lax, lost>>,
           NEW touched, Evolves(disk, disk', {}, touched), touched \subseteq {ManifestNumber},
           ManifestNumber' = ManifestNumber /\ Target' = Target /\ NewManifest' = NewManifest => LogState'
    PROVE  CrashInv'
<1>1. /\ op'.at = a /\ op'.call = op.call /\ op'.edit = op.edit
  BY DEF CrashInv, RecInv, OpInv, OpFields
<1>2. /\ pc = "opening" /\ ~bg_error /\ Dir(disk).cur < ManifestNumber
      /\ op.call # "newdb" => Known /\ ~versions.log_open
  BY LogTarget DEF NewManifest
<1>3. LogState'
  BY <1>1 DEF ManifestNumber, Target, NewManifest
<1>4. DirInv'
  BY <1>2, DirKeptPlain
<1>5. KnownInv'
  <2>1. CASE op.call = "newdb"
    BY <1>1, <2>1 DEF KnownInv, Known
  <2>2. CASE op.call # "newdb"
    <3>1. Bumped(versions, versions')
      BY BumpedSame DEF CrashInv
    <3>. QED BY <1>2, <2>2, <3>1, KnownKept
  <2>. QED BY <2>1, <2>2
<1>6. a \notin {"none", "recover", "remove", "build", "replay"}
  BY DEF Logging, Whole
<1>7. CallInv'
  BY <1>1, <1>2, <1>6 DEF CallInv, CrashInv, Evolves
<1>8. EditState' /\ OutState'
  BY <1>1, EditKept, OutKept
<1>9. BuildState' /\ RemoveState' /\ OpenSucceeds'
  BY <1>1, <1>2, <1>6, NoBuild, NoRemove, NotCorrupt DEF Replaying
<1>. QED BY <1>3, <1>4, <1>5, <1>7, <1>8, <1>9 DEF CrashInv

LEMMA CreateManifestCrash == CrashInv /\ RecInv' /\ CreateManifest => CrashInv'
<1>. SUFFICES ASSUME CrashInv, RecInv', CreateManifest PROVE CrashInv'
  OBVIOUS
<1>1. op.at = "create" /\ op.at \in Logging /\ NewManifest
  BY DEF CreateManifest, Logging, CrashInv, LogState
<1>2. CASE Fail(disk)
  <2>1. Evolves(disk, disk, {}, {})
    BY DirFacts, EvolvesSame
  <2>. QED BY <1>1, <1>2, <2>1, LogFails
<1>3. CASE ~Fail(disk)
  <2>. PICK a : a = IF op.call = "newdb" THEN "record" ELSE "snapshot"
    OBVIOUS
  <2>1. /\ disk' = NewWritableFile(disk, Target) /\ op' = [op EXCEPT !.at = a]
        /\ UNCHANGED <<pc, versions, compaction, bg_error, lax, lost>>
    BY <1>3 DEF CreateManifest, Target, history
  <2>2. ManifestNumber \in Nat /\ Target \in Files /\ \A k \in Nat : Target = Manifest(k) => k \in {ManifestNumber}
    BY <1>1, LogTarget, FileNames DEF Target, Manifest
  <2>3. /\ Evolves(disk, disk', {}, {ManifestNumber})
        /\ Target \in Dir(disk').files /\ disk'.data[Target] = <<>>
    BY <2>1, <2>2, DirFacts, NewFileEvolves
  <2>4. a \in Logging /\ op'.at = a
    BY <2>1 DEF Logging, Whole, CrashInv, RecInv, OpInv, OpFields
  <2>5. ASSUME Target' = Target, NewManifest' = NewManifest PROVE LogState'
    <3>1. a = "record" => FilesOf(disk'.data[Target]) = versions'.files
      BY <2>1, <2>3, FilesEmpty, NewVersionFields DEF CrashInv, RecInv, OpInv
    <3>. QED BY <1>1, <2>3, <2>4, <2>5, <3>1 DEF LogState
  <2>. QED BY <1>1, <2>1, <2>3, <2>4, <2>5, LogGoes
<1>. QED BY <1>2, <1>3

(* What a record does to the files. *)
LEMMA EditedFiles ==
    ASSUME NEW recs, IsSeq(recs), FilesOf(recs) = versions.files, DOMAIN op.edit = Tags
    PROVE  FilesOf(Append(recs, EncodeTo(op.edit))) = Edited
<1>1. /\ Field(EncodeTo(op.edit), "new") = op.edit.new
      /\ Field(EncodeTo(op.edit), "deleted") = op.edit.deleted
  <2>1. "new" \in Tags /\ "deleted" \in Tags
    BY DEF Tags
  <2>. QED BY <2>1, FieldEncoded
<1>2. FilesOf(Append(recs, EncodeTo(op.edit))) = (versions.files \ op.edit.deleted) \cup op.edit.new
  BY <1>1, FilesMore
<1>3. Edited = (versions.files \ op.edit.deleted) \cup op.edit.new
  BY DEF Edited, SaveTo, Apply, NoChange
<1>. QED BY <1>2, <1>3

(* A record that is written in part. *)
LEMMA TornWritten ==
    ASSUME CrashInv, RecInv', op.at \in {"snapshot"} \cup Whole,
           Fail(Abandon(AddRecord(disk, Target, Torn)))
    PROVE  CrashInv'
<1>. PICK k : k = ManifestNumber
  OBVIOUS
<1>. PICK dk : dk = AddRecord(disk, Target, Torn)
  OBVIOUS
<1>0. op.at \in Logging
  BY DEF Logging
<1>1. /\ k \in Nat /\ Target = Manifest(k) /\ Target \in Dir(disk).files
      /\ pc \in {"opening", "opened"}
  BY <1>0, LogTarget DEF CrashInv, LogState, Target
<1>2. GoodManifest(k, Append(disk.data[Manifest(k)], Torn)) /\ Base(disk)
  <2>1. GoodManifest(k, disk.data[Manifest(k)])
    BY <1>1, DirFacts DEF DiskOK
  <2>. QED BY <2>1, GoodTorn, DirFacts
<1>3. Evolves(disk, dk, {}, {k}) /\ States(dk) = States(disk) /\ Dir(dk) = Dir(disk)
  BY ONLY <1>1, <1>2, dk = AddRecord(disk, Target, Torn), AddManifestEvolves
<1>4. CASE NewManifest
  <2>1. Evolves(dk, Abandon(dk), AbandonGone, {})
    BY <1>3, AbandonEvolves DEF Evolves
  <2>2. Evolves(disk, Abandon(dk), {} \cup AbandonGone, {k} \cup {})
    BY <1>3, <2>1, EvolvesTwice
  <2>3. \A j \in Nat : j \in {k} \cup {} => Dir(disk).cur < j
    BY <1>0, <1>4, LogTarget
  <2>. QED BY <1>0, <2>2, <2>3, LogFails
<1>5. CASE ~NewManifest
  <2>1. Abandon(dk) = dk /\ disk' = dk /\ UNCHANGED <<lax, lost>>
    BY <1>5 DEF Abandon, Fail, history
  <2>2. k = Dir(disk).cur /\ k # 0
    BY <1>0, <1>5, LogTarget
  <2>3. Field(Torn, "new") = {}
    BY FieldTorn DEF Tags
  <2>4. /\ CurOK(dk) /\ (FoundNow(disk) => FoundNow(dk)) /\ (FoundLater(disk) => FoundLater(dk))
    <3>1. CurOK(disk) /\ dk = AddRecord(disk, Manifest(k), Torn)
      BY <1>1, DirFacts
    <3>. QED BY ONLY <1>2, <2>2, <2>3, <3>1, AddCurKept
  <2>5. DirInv'
    BY <2>1, <2>4 DEF DirInv, CrashInv
  <2>. PICK gone : gone = {}
    OBVIOUS
  <2>6. Fail(dk) /\ Dir(dk).cur = Dir(disk).cur /\ Dir(disk).files \ gone \subseteq Dir(dk).files
    BY <1>3, <2>1
  <2>7. Sst(compaction.out) \notin gone /\ \A n \in versions.files : Sst(n) \notin gone
    OBVIOUS
  <2>. QED BY <1>1, <2>5, <2>6, <2>7, FailCrash
<1>. QED BY <1>4, <1>5
LEMMA WriteSnapshotCrash == CrashInv /\ RecInv' /\ WriteSnapshot => CrashInv'
<1>. SUFFICES ASSUME CrashInv, RecInv', WriteSnapshot PROVE CrashInv'
  OBVIOUS
<1>. PICK k : k = ManifestNumber
  OBVIOUS
<1>. PICK edit : edit = [NoEdit EXCEPT !.new = versions.files]
  OBVIOUS
<1>. PICK rec : rec = EncodeTo(edit)
  OBVIOUS
<1>1. op.at = "snapshot" /\ op.at \in Logging /\ NewManifest /\ op.at \notin Whole
  BY DEF WriteSnapshot, Logging, Whole, CrashInv, LogState
<1>2. /\ k \in Nat /\ Target = Manifest(k) /\ Target \in Dir(disk).files
      /\ op.call # "newdb" /\ k = versions.manifest
  BY <1>1, LogTarget, WhileLogging DEF CrashInv, LogState, Target
<1>3. CASE Fail(Abandon(AddRecord(disk, Target, Torn)))
  BY <1>1, <1>3, TornWritten
<1>4. CASE ~Fail(Abandon(AddRecord(disk, Target, Torn)))
  <2>1. Write(rec)
    BY DEF WriteSnapshot
  <2>2. /\ disk' = AddRecord(disk, Manifest(k), rec) /\ op' = [op EXCEPT !.at = "record"]
        /\ UNCHANGED <<pc, versions, compaction, bg_error, lax, lost>>
    BY <1>1, <1>4, <2>1 DEF Write, Target, history
  <2>3. disk.data[Manifest(k)] = <<>>
    <3>1. Emptied
      BY <1>1 DEF CrashInv, RecInv, EditInv, EditFor
    <3>. QED BY <1>2, <3>1, DirFacts DEF Emptied
  <2>4. DOMAIN edit = Tags /\ edit.new = versions.files /\ edit.deleted = {} /\ versions.files \in SUBSET Nat
    BY DEF NoEdit, Tags, CrashInv, RecInv, VersionInv
  <2>5. Field(rec, "new") = versions.files /\ Field(rec, "deleted") = {}
    <3>1. "new" \in Tags /\ "deleted" \in Tags
      BY DEF Tags
    <3>. QED BY <2>4, <3>1, FieldEncoded
  <2>6. IsSeq(<<>>)
    BY GoodEmpty DEF GoodManifest
  <2>7. FilesOf(Append(<<>>, rec)) = versions.files
    <3>. PICK none : none = <<>>
      OBVIOUS
    <3>1. IsSeq(none) /\ FilesOf(none) = {}
      BY <2>6, FilesEmpty
    <3>2. FilesOf(Append(none, rec)) = (FilesOf(none) \ Field(rec, "deleted")) \cup Field(rec, "new")
      BY <3>1, FilesMore
    <3>. QED BY <2>5, <3>1, <3>2
  <2>8. GoodManifest(k, Append(disk.data[Manifest(k)], rec)) /\ Base(disk) /\ Manifest(k) \in DOMAIN disk.data
    BY <1>2, <2>3, <2>4, GoodSnapshot, DirFacts
  <2>9. /\ Evolves(disk, disk', {}, {k}) /\ Dir(disk') = Dir(disk)
        /\ disk'.data[Manifest(k)] = Append(disk.data[Manifest(k)], rec)
    BY ONLY <1>2, <2>2, <2>8, AddManifestEvolves
  <2>10. "record" \in Logging /\ op'.at = "record"
    BY <2>2 DEF Logging, Whole, CrashInv, RecInv, OpInv, OpFields
  <2>11. ASSUME Target' = Target PROVE LogState'
    BY <1>2, <2>2, <2>3, <2>7, <2>9, <2>10, <2>11 DEF LogState
  <2>12. {k} \subseteq {ManifestNumber}
    OBVIOUS
  <2>. QED BY <1>1, <2>2, <2>9, <2>10, <2>11, <2>12, LogGoes
<1>. QED BY <1>3, <1>4

LEMMA WriteEditCrash == CrashInv /\ RecInv' /\ WriteEdit => CrashInv'
<1>. SUFFICES ASSUME CrashInv, RecInv', WriteEdit PROVE CrashInv'
  OBVIOUS
<1>. PICK k : k = ManifestNumber
  OBVIOUS
<1>. PICK rec : rec = EncodeTo(op.edit)
  OBVIOUS
<1>. PICK recs : recs = disk.data[Manifest(k)]
  OBVIOUS
<1>1. op.at = "record" /\ op.at \in Logging /\ op.at \in Whole
  BY DEF WriteEdit, Logging, Whole
<1>2. /\ k \in Nat /\ Target = Manifest(k) /\ Target \in Dir(disk).files
  BY <1>1, LogTarget DEF CrashInv, LogState, Target
<1>3. CASE Fail(Abandon(AddRecord(disk, Target, Torn)))
  BY <1>1, <1>3, TornWritten
<1>4. CASE ~Fail(Abandon(AddRecord(disk, Target, Torn)))
  <2>1. Write(rec)
    BY DEF WriteEdit
  <2>2. /\ disk' = AddRecord(disk, Manifest(k), rec) /\ op' = [op EXCEPT !.at = "sync"]
        /\ UNCHANGED <<pc, versions, compaction, bg_error, lax, lost>>
    BY <1>1, <1>4, <2>1 DEF Write, Target, history
  <2>3. /\ op'.at = "sync" /\ op'.call = op.call /\ op'.edit = op.edit /\ "sync" \in Logging
    BY <2>2 DEF CrashInv, RecInv, OpInv, OpFields, Logging, Whole
  <2>4. PICK x \in Nat : EditFor(x)
    BY <1>1 DEF CrashInv, RecInv, EditInv
  <2>5. DOMAIN op.edit = Tags /\ op.edit.next = {x} /\ SoundEdit(op.edit, x)
    BY <2>4 DEF EditFor, SoundEdit
  <2>6. Field(rec, "new") = op.edit.new /\ Field(rec, "next") = {x}
    <3>1. "new" \in Tags /\ "next" \in Tags
      BY DEF Tags
    <3>. QED BY <2>5, <3>1, FieldEncoded
  <2>7. Manifest(k) \in DOMAIN disk.data /\ GoodManifest(k, recs)
    BY <1>2, DirFacts DEF DiskOK
  <2>8. IsSeq(recs) /\ Len(recs) \in Nat
    BY <2>7, SeqFacts DEF GoodManifest
  <2>9. GoodManifest(k, Append(recs, rec))
    <3>1. NewsBelow(recs, x) /\ k < x
      BY <1>1, <1>2, <2>4, <2>7 DEF EditFor, BelowIn
    <3>. QED BY <2>5, <2>7, <3>1, GoodEdit
  <2>10. /\ Evolves(disk, disk', {}, {k}) /\ Dir(disk') = Dir(disk) /\ States(disk') = States(disk)
         /\ disk'.data[Manifest(k)] = Append(recs, rec)
    <3>1. Base(disk)
      BY DirFacts
    <3>2. Manifest(k) \in DOMAIN disk.data => GoodManifest(k, Append(disk.data[Manifest(k)], rec))
      BY <2>9
    <3>. QED BY <1>2, <2>2, <2>7, <3>1, <3>2, AddManifestEvolves
  <2>11. Complete(Append(recs, rec))
    <3>1. Append(recs, rec)[Len(recs) + 1] = rec /\ Len(Append(recs, rec)) = Len(recs) + 1
      BY <2>8, SeqAppend
    <3>2. Len(recs) + 1 \in 1..Len(Append(recs, rec))
      BY <2>8, <3>1
    <3>. QED BY <2>6, <3>1, <3>2 DEF Complete
  <2>12. ~bg_error => FilesOf(Append(recs, rec)) = Edited
    BY <1>1, <1>2, <2>5, <2>8, EditedFiles DEF CrashInv, LogState
  <2>13. ASSUME Target' = Target PROVE LogState'
    <3>1. Edited' = Edited
      BY <2>2, <2>3 DEF Edited
    <3>. QED BY <1>2, <2>2, <2>3, <2>10, <2>11, <2>12, <2>13, <3>1 DEF LogState
  <2>14. CASE NewManifest
    <3>1. {k} \subseteq {ManifestNumber}
      OBVIOUS
    <3>. QED BY <1>1, <2>2, <2>3, <2>10, <2>13, <2>14, <3>1, LogGoes
  <2>15. CASE ~NewManifest
    <3>1. k = Dir(disk).cur /\ k # 0 /\ versions.log_open /\ Known /\ op.call # "newdb"
      BY <1>1, <2>15, LogTarget DEF NewManifest
    <3>2. \A n \in Field(rec, "new") : \A d \in States(disk) : Has(d, n)
      BY <2>6 DEF CrashInv, EditState
    <3>3. \A n \in Field(rec, "new") : Has(Dir(disk), n)
      BY <3>2, DirFacts
    <3>4. /\ CurOK(disk') /\ (FoundNow(disk) => FoundNow(disk')) /\ (FoundLater(disk) => FoundLater(disk'))
      <4>1. CurOK(disk) /\ GoodManifest(k, Append(disk.data[Manifest(k)], rec))
        BY <2>9, DirFacts
      <4>. QED BY ONLY <2>2, <3>1, <3>2, <3>3, <4>1, AddCurKept
    <3>5. DirInv'
      BY <2>2, <3>4 DEF CrashInv, DirInv
    <3>6. versions.manifest = Dir(disk).cur
      BY <3>1 DEF CrashInv, KnownInv
    <3>7. KnownInv'
      <4>1. BelowIn(disk', versions'.manifest, versions'.next)
        BY <2>2, <3>1 DEF RecInv, LogInv
      <4>2. ~lost' => \A n \in versions'.files : Has(Dir(disk'), n)
        BY <2>2, <2>10, <3>1 DEF CrashInv, KnownInv
      <4>. QED BY <2>2, <2>3, <2>10, <3>1, <3>6, <4>1, <4>2 DEF KnownInv
    <3>8. CallInv' /\ EditState' /\ OutState'
      BY <2>2, <2>3, <2>10, <3>1 DEF CallInv, EditState, OutState, CrashInv
    <3>9. LogState'
      <4>1. Target' = Target
        BY <2>2, <2>3 DEF Target, ManifestNumber
      <4>. QED BY <2>13, <4>1
    <3>10. BuildState' /\ RemoveState' /\ OpenSucceeds'
      <4>1. pc' # "corrupt"
        BY <1>1, <2>2, LogTarget
      <4>. QED BY <2>3, <4>1, NoBuild, NoRemove, NotCorrupt DEF Replaying
    <3>. QED BY <3>5, <3>7, <3>8, <3>9, <3>10 DEF CrashInv
  <2>. QED BY <2>14, <2>15
<1>. QED BY <1>3, <1>4
LEMMA ObsoleteIs ==
    ASSUME NEW dir, NEW vs, NEW pending, NEW f \in Obsolete(dir, vs, pending)
    PROVE  /\ f[1] = "manifest" => f[2] < vs.manifest
           /\ f[1] = "sst" => f[2] \notin vs.files \cup pending
BY DEF Obsolete

(* Files begin to be removed. *)
LEMMA RemoveBegun ==
    ASSUME NEW s, op'.at = "remove", op'.edit = NoEdit, op'.todo = s,
           bg_error' = bg_error, NEW vs, vs = versions', NEW out, out = compaction'.out, NEW dir,
           s = IF bg_error THEN {} ELSE Obsolete(dir, vs, {out}),
           NEW dk, dk = disk', lax' \/ dk.synced[CM(Dir(dk))] = Len(dk.data[CM(Dir(dk))])
    PROVE  RemoveState' /\ LogState' /\ BuildState' /\ EditState'
<1>1. op'.edit.new = {}
  BY NoOpFields
<1>2. RemoveState'
  <2>1. ASSUME NEW f \in s
        PROVE  /\ f[1] = "manifest" => f[2] < versions'.manifest
               /\ f[1] = "sst" => f[2] \notin versions'.files \cup {compaction'.out}
    <3>1. f \in Obsolete(dir, vs, {out})
      OBVIOUS
    <3>2. /\ f[1] = "manifest" => f[2] < vs.manifest
          /\ f[1] = "sst" => f[2] \notin vs.files \cup {out}
      BY <3>1, ObsoleteIs
    <3>. QED BY <3>2
  <2>2. s # {} => ~bg_error
    OBVIOUS
  <2>. QED BY <1>1, <2>1, <2>2 DEF RemoveState
<1>3. LogState' /\ BuildState' /\ EditState'
  BY <1>1, NoLog, NoBuild DEF Logging, Whole, EditState
<1>. QED BY <1>1, <1>2, <1>3

(* The new version is installed.                                           *)
LEMMA InstallCrash ==
    ASSUME CrashInv, RecInv', op.at \in {"sync", "rename"}, op.call # "newdb", Install(disk'), DirInv',
           UNCHANGED <<pc, bg_error, lax, lost>>, Dir(disk').cur = ManifestNumber, Dir(disk').cur # 0,
           \A n : Has(Dir(disk), n) => Has(Dir(disk'), n), disk'.data[Target] = disk.data[Target],
           disk'.synced[Target] = Len(disk.data[Target])
    PROVE  CrashInv'
<1>. PICK vs : vs = [versions EXCEPT !.files = SaveTo(@, Apply(NoChange, op.edit)),
                                     !.wal = The(op.edit.wal), !.log_open = TRUE]
  OBVIOUS
<1>0. op.at \in Logging /\ Known /\ pc \in {"opening", "opened"} /\ ManifestNumber = versions.manifest
  BY LogTarget DEF Logging, Whole, ManifestNumber
<1>1. /\ versions' = vs /\ compaction' \in {compaction, NoCompaction}
      /\ op' = [NoOp EXCEPT !.call = op.call, !.at = "remove",
                            !.todo = IF bg_error THEN {} ELSE Obsolete(Dir(disk'), vs, {compaction'.out})]
  BY DEF Install, BeginRemove
<1>2. vs.files = Edited /\ vs.manifest = versions.manifest /\ vs.log_open = TRUE
  BY DEF CrashInv, RecInv, VersionInv, VersionFields, Edited
<1>3. /\ CM(Dir(disk')) = Target
      /\ disk'.synced[CM(Dir(disk'))] = Len(disk'.data[CM(Dir(disk'))])
  BY DEF CM, Target
<1>4. /\ op'.at = "remove" /\ op'.call = op.call /\ op'.edit.new = {}
      /\ RemoveState' /\ LogState' /\ BuildState' /\ EditState'
  <2>. PICK dk : dk = disk'
    OBVIOUS
  <2>. PICK out : out = compaction'.out
    OBVIOUS
  <2>. PICK s : s = IF bg_error THEN {} ELSE Obsolete(Dir(dk), vs, {out})
    OBVIOUS
  <2>1. /\ op'.at = "remove" /\ op'.call = op.call /\ op'.edit = NoEdit /\ op'.todo = s
        /\ op'.edit.new = {}
    BY <1>1, NoOpFields DEF OpFields
  <2>2. lax' \/ dk.synced[CM(Dir(dk))] = Len(dk.data[CM(Dir(dk))])
    BY <1>3
  <2>. PICK dir : dir = Dir(dk)
    OBVIOUS
  <2>3. /\ bg_error' = bg_error /\ vs = versions' /\ out = compaction'.out /\ dk = disk'
        /\ s = IF bg_error THEN {} ELSE Obsolete(dir, vs, {out})
    BY <1>1
  <2>4. RemoveState' /\ LogState' /\ BuildState' /\ EditState'
    BY ONLY <2>1, <2>2, <2>3, RemoveBegun
  <2>. QED BY <2>1, <2>4
<1>5. KnownInv'
  <2>1. BelowIn(disk', versions'.manifest, versions'.next)
    BY <1>1, <1>2 DEF RecInv, LogInv
  <2>2. ~lost' => \A n \in versions'.files : Has(Dir(disk'), n)
    <3>1. ASSUME ~lost, NEW n \in Edited PROVE Has(Dir(disk), n)
      <4>1. n \in versions.files \/ n \in op.edit.new
        BY DEF Edited, SaveTo, Apply, NoChange
      <4>2. n \in versions.files => Has(Dir(disk), n)
        BY <1>0, <3>1 DEF CrashInv, KnownInv
      <4>3. n \in op.edit.new => Has(Dir(disk), n)
        BY DirFacts DEF CrashInv, EditState
      <4>. QED BY <4>1, <4>2, <4>3
    <3>. QED BY <1>1, <1>2, <3>1
  <2>3. ~bg_error' => FilesOf(disk'.data[CM(Dir(disk'))]) = versions'.files
    BY <1>1, <1>2, <1>3 DEF CrashInv, LogState
  <2>. QED BY <1>0, <1>1, <1>2, <2>1, <2>2, <2>3 DEF KnownInv
<1>6. CallInv' /\ OutState'
  BY <1>1, <1>4 DEF CrashInv, CallInv, OutState
<1>7. OpenSucceeds'
  BY <1>0, NotCorrupt
<1>. QED BY <1>4, <1>5, <1>6, <1>7 DEF CrashInv

LEMMA SyncManifestCrash == CrashInv /\ RecInv' /\ SyncManifest => CrashInv'
<1>. SUFFICES ASSUME CrashInv, RecInv', SyncManifest PROVE CrashInv'
  OBVIOUS
<1>. PICK k : k = ManifestNumber
  OBVIOUS
<1>1. op.at = "sync" /\ op.at \in Logging /\ op.at \in Whole /\ op.at \in {"sync", "rename"}
  BY DEF SyncManifest, Logging, Whole
<1>2. /\ k \in Nat /\ Target = Manifest(k) /\ Target \in Dir(disk).files
  BY <1>1, LogTarget DEF CrashInv, LogState, Target
<1>3. CASE Fail(Abandon(disk))
  <2>1. Evolves(disk, Abandon(disk), AbandonGone, {})
    BY DirFacts, AbandonEvolves
  <2>. QED BY <1>1, <1>3, <2>1, LogFails
<1>4. CASE ~Fail(Abandon(disk))
  <2>1. disk' = SyncFd(disk, Target) /\ UNCHANGED <<pc, bg_error, lax, lost>>
    BY <1>4, SyncIs DEF SyncManifest, Target, history
  <2>2. /\ Evolves(disk, disk', {}, {}) /\ States(disk') = {Dir(disk)} /\ Dir(disk') = Dir(disk)
        /\ disk'.data[Target] = disk.data[Target] /\ disk'.synced[Target] = Len(disk.data[Target])
    BY <1>2, <2>1, DirFacts, SyncFdEvolves
  <2>3. CASE NewManifest
    <3>1. op' = [op EXCEPT !.at = "temp"] /\ UNCHANGED <<versions, compaction>>
      BY <1>4, <2>3 DEF SyncManifest
    <3>2. op'.at = "temp" /\ op'.call = op.call /\ op'.edit = op.edit /\ "temp" \in Logging
      BY <3>1 DEF CrashInv, RecInv, OpInv, OpFields, Logging, Whole
    <3>3. ASSUME Target' = Target, NewManifest' = NewManifest PROVE LogState'
      <4>1. Edited' = Edited
        BY <3>1, <3>2 DEF Edited
      <4>2. Complete(disk.data[Target]) /\ (~bg_error => FilesOf(disk.data[Target]) = Edited)
        BY <1>1 DEF CrashInv, LogState
      <4>. QED BY <1>2, <2>1, <2>2, <2>3, <3>2, <3>3, <4>1, <4>2 DEF LogState
    <3>. PICK touched : touched = {}
      OBVIOUS
    <3>4. Evolves(disk, disk', {}, touched) /\ touched \subseteq {ManifestNumber}
      BY <2>2
    <3>. QED BY <1>1, <2>1, <2>3, <3>1, <3>2, <3>3, <3>4, LogGoes
  <2>4. CASE ~NewManifest
    <3>1. op.call # "newdb" /\ Install(disk')
      BY <1>4, <2>4 DEF SyncManifest, NewManifest
    <3>2. Dir(disk').cur = k /\ k # 0
      BY <1>1, <2>2, <2>4, LogTarget
    <3>3. DirInv'
      <4>. PICK gone : gone = {}
        OBVIOUS
      <4>1. /\ Evolves(disk, disk', gone, gone) /\ \A j \in Nat : j \in gone => Dir(disk).cur < j
            /\ CM(Dir(disk)) \notin gone /\ \A n : Sst(n) \notin gone
        BY <2>2
      <4>. QED BY <2>1, <4>1, DirKeptPlain
    <3>. QED BY <1>1, <2>1, <2>2, <3>1, <3>2, <3>3, InstallCrash
  <2>. QED BY <2>3, <2>4
<1>. QED BY <1>3, <1>4
LEMMA WriteTempCrash == CrashInv /\ RecInv' /\ WriteTemp => CrashInv'
<1>. SUFFICES ASSUME CrashInv, RecInv', WriteTemp PROVE CrashInv'
  OBVIOUS
<1>. PICK k : k = ManifestNumber
  OBVIOUS
<1>. PICK none : none = {}
  OBVIOUS
<1>1. op.at = "temp" /\ op.at \in Logging /\ NewManifest
  BY DEF WriteTemp, Logging, Whole, CrashInv, LogState
<1>2. /\ k \in Nat /\ Target = Manifest(k) /\ Target \in Dir(disk).files
  BY <1>1, LogTarget DEF CrashInv, LogState, Target, Whole
<1>. PICK one : one = NewWritableFile(disk, Temp(k))
  OBVIOUS
<1>. PICK two : two = RemoveFile(one, Temp(k))
  OBVIOUS
<1>3. CASE Fail(NotCurrent(two))
  <2>1. Evolves(disk, one, {}, {})
    <3>1. Temp(k) \in Files /\ \A j \in Nat : Temp(k) # Manifest(j)
      BY <1>2, FileNames
    <3>. QED BY <3>1, DirFacts, NewFileEvolves
  <2>2. Evolves(one, two, {Temp(k)}, {})
    BY <2>1, RemoveFileEvolves DEF Evolves
  <2>3. Evolves(disk, two, {} \cup {Temp(k)}, {} \cup {})
    BY <2>1, <2>2, EvolvesTwice
  <2>4. Evolves(two, NotCurrent(two), AbandonGone, {})
    BY <2>2, AbandonEvolves DEF Evolves
  <2>. PICK gone : gone = ({} \cup {Temp(k)}) \cup AbandonGone
    OBVIOUS
  <2>5. Evolves(disk, NotCurrent(two), gone, none)
    <3>1. Evolves(disk, NotCurrent(two), ({} \cup {Temp(k)}) \cup AbandonGone, ({} \cup {}) \cup {})
      BY <2>3, <2>4, EvolvesTwice
    <3>2. ({} \cup {}) \cup {} = none
      OBVIOUS
    <3>. QED BY <3>1, <3>2
  <2>6. gone \subseteq AbandonGone \cup {Temp(ManifestNumber)} /\ \A j \in Nat : j \in none => Dir(disk).cur < j
    OBVIOUS
  <2>. QED BY <1>1, <1>3, <2>5, <2>6, LogFails
<1>4. CASE ~Fail(NotCurrent(two))
  <2>1. /\ disk' = WriteStringToFileSync(disk, k) /\ op' = [op EXCEPT !.at = "rename"]
        /\ UNCHANGED <<pc, versions, compaction, bg_error, lax, lost>>
    BY <1>4 DEF WriteTemp, history
  <2>2. Evolves(disk, disk', none, none)
    BY <1>2, <2>1, DirFacts, WriteStringEvolves
  <2>3. /\ Target \in Dir(disk').files /\ disk'.data[Target] = disk.data[Target]
        /\ disk'.synced[Target] \in {disk.synced[Target], Len(disk.data[Target])}
    <3>1. k \notin none /\ Manifest(k) \notin none /\ Manifest(k) \in Dir(disk).files
      BY <1>2
    <3>. QED BY <1>2, <2>2, <3>1, ManifestKept
  <2>4. op'.at = "rename" /\ op'.call = op.call /\ op'.edit = op.edit /\ "rename" \in Logging
    BY <2>1 DEF CrashInv, RecInv, OpInv, OpFields, Logging, Whole
  <2>5. ASSUME Target' = Target, NewManifest' = NewManifest PROVE LogState'
    <3>1. Edited' = Edited
      BY <2>1, <2>4 DEF Edited
    <3>2. /\ Complete(disk.data[Target]) /\ (~bg_error => FilesOf(disk.data[Target]) = Edited)
          /\ disk.synced[Target] = Len(disk.data[Target])
      BY <1>1 DEF CrashInv, LogState
    <3>. QED BY <1>1, <2>1, <2>3, <2>4, <2>5, <3>1, <3>2 DEF LogState
  <2>6. Evolves(disk, disk', {}, none) /\ none \subseteq {ManifestNumber}
    BY <2>2
  <2>. QED BY <1>1, <2>1, <2>4, <2>5, <2>6, LogGoes
<1>. QED BY <1>3, <1>4

LEMMA RenameTempCrash == CrashInv /\ RecInv' /\ RenameTemp => CrashInv'
<1>. SUFFICES ASSUME CrashInv, RecInv', RenameTemp PROVE CrashInv'
  OBVIOUS
<1>. PICK k : k = ManifestNumber
  OBVIOUS
<1>. PICK none : none = {}
  OBVIOUS
<1>1. op.at = "rename" /\ op.at \in Logging /\ NewManifest /\ op.at \in {"sync", "rename"}
  BY DEF RenameTemp, Logging, Whole, CrashInv, LogState
<1>2. /\ k \in Nat /\ Target = Manifest(k) /\ Target \in Dir(disk).files
      /\ Dir(disk).cur < k /\ pc = "opening" /\ ~bg_error /\ (op.call # "newdb" => Known)
  BY <1>1, LogTarget DEF CrashInv, LogState, Target, Whole
<1>. PICK two : two = RemoveFile(disk, Temp(k))
  OBVIOUS
<1>3. CASE Fail(NotCurrent(two))
  <2>1. Evolves(disk, two, {Temp(k)}, {})
    BY DirFacts, RemoveFileEvolves
  <2>2. Evolves(two, NotCurrent(two), AbandonGone, {})
    BY <2>1, AbandonEvolves DEF Evolves
  <2>. PICK gone : gone = {Temp(k)} \cup AbandonGone
    OBVIOUS
  <2>3. Evolves(disk, NotCurrent(two), gone, none)
    <3>1. Evolves(disk, NotCurrent(two), {Temp(k)} \cup AbandonGone, {} \cup {})
      BY <2>1, <2>2, EvolvesTwice
    <3>2. {} \cup {} = none
      OBVIOUS
    <3>. QED BY <3>1, <3>2
  <2>4. gone \subseteq AbandonGone \cup {Temp(ManifestNumber)} /\ \A j \in Nat : j \in none => Dir(disk).cur < j
    OBVIOUS
  <2>. QED BY <1>1, <1>3, <2>3, <2>4, LogFails
<1>4. CASE ~Fail(NotCurrent(two))
  <2>1. /\ disk' = RenameToCurrent(disk, k) /\ Install(disk')
        /\ UNCHANGED <<pc, bg_error, lax, lost>>
    BY <1>4 DEF RenameTemp, history
  <2>2. /\ disk.synced[Target] = Len(disk.data[Target]) /\ Complete(disk.data[Target])
        /\ FilesOf(disk.data[Target]) = Edited
    BY <1>1, <1>2 DEF CrashInv, LogState
  <2>3. /\ CurOK(disk') /\ Dir(disk').cur = k /\ Dir(disk').files = Dir(disk).files \ {Temp(k)}
        /\ disk'.data[Target] = disk.data[Target]
        /\ disk'.synced[Target] = Len(disk.data[Target])
        /\ Holds(Dir(disk), disk.data[Target]) => FoundNow(disk')
        /\ Holds(Dir(disk), disk.data[Target]) /\ FoundLater(disk) => FoundLater(disk')
    <3>. PICK new : new = RenameToCurrent(disk, k)
      OBVIOUS
    <3>1. /\ CurOK(disk) /\ Manifest(k) \in Dir(disk).files /\ k \in Nat /\ Dir(disk).cur < k
          /\ disk.synced[Manifest(k)] = Len(disk.data[Manifest(k)])
          /\ Complete(disk.data[Manifest(k)])
      BY <1>2, <2>2, DirFacts
    <3>2. /\ CurOK(new) /\ Dir(new).cur = k /\ Dir(new).files = Dir(disk).files \ {Temp(k)}
          /\ new.data[Manifest(k)] = disk.data[Manifest(k)]
          /\ new.synced[Manifest(k)] = Len(disk.data[Manifest(k)])
          /\ Holds(Dir(disk), disk.data[Manifest(k)]) => FoundNow(new)
          /\ Holds(Dir(disk), disk.data[Manifest(k)]) /\ FoundLater(disk) => FoundLater(new)
      BY <3>1, RenameKept
    <3>. QED BY <1>2, <2>1, <3>2
  <2>4. k # 0
    BY <1>2, DirFacts
  <2>5. ASSUME ~lost, NEW n \in Edited PROVE Has(Dir(disk), n)
    <3>1. n \in versions.files \/ n \in op.edit.new
      BY DEF Edited, SaveTo, Apply, NoChange
    <3>2. n \in versions.files => Has(Dir(disk), n)
      <4>1. CASE op.call = "newdb"
        BY <4>1, NewVersionFields DEF CrashInv, RecInv, OpInv
      <4>2. CASE op.call # "newdb"
        BY <1>2, <2>5, <4>2 DEF CrashInv, KnownInv
      <4>. QED BY <4>1, <4>2
    <3>3. n \in op.edit.new => Has(Dir(disk), n)
      BY DirFacts DEF CrashInv, EditState
    <3>. QED BY <3>1, <3>2, <3>3
  <2>6. DirInv'
    <3>0. ~lost => Holds(Dir(disk), disk.data[Target])
      BY <2>2, <2>5 DEF Holds
    <3>1. ~lost => FoundNow(disk')
      BY <2>3, <3>0
    <3>2. ~lax => FoundLater(disk')
      <4>1. ~lax => ~lost /\ FoundLater(disk)
        BY DEF CrashInv, DirInv
      <4>. QED BY <2>3, <3>0, <4>1
    <3>. QED BY <2>1, <2>3, <3>1, <3>2 DEF CrashInv, DirInv
  <2>7. \A n : Has(Dir(disk), n) => Has(Dir(disk'), n)
    <3>1. \A n : Sst(n) # Temp(k)
      BY DEF Sst, Temp
    <3>. QED BY <2>3, <3>1 DEF Has
  <2>8. CASE op.call # "newdb"
    BY <1>1, <2>1, <2>3, <2>4, <2>6, <2>7, <2>8, InstallCrash
  <2>9. CASE op.call = "newdb"
    <3>1. op' = [NoOp EXCEPT !.call = "open", !.at = "recover"] /\ UNCHANGED <<versions, compaction>>
      BY <2>1, <2>9 DEF Install
    <3>2. op'.call = "open" /\ op'.at = "recover" /\ op'.edit.new = {}
      BY <3>1, NoOpFields DEF OpFields
    <3>3. KnownInv' /\ CallInv' /\ EditState' /\ OutState'
      BY <1>2, <2>1, <2>3, <2>4, <2>7, <3>1, <3>2
         DEF KnownInv, Known, CallInv, EditState, OutState, CrashInv
    <3>4. LogState' /\ BuildState' /\ RemoveState' /\ OpenSucceeds'
      <4>1. op'.at \notin Logging /\ op'.at \notin Replaying /\ pc' # "corrupt"
        BY <1>2, <2>1, <3>2 DEF Logging, Whole, Replaying
      <4>. QED BY <3>2, <4>1, NoLog, NoBuild, NoRemove, NotCorrupt
    <3>. QED BY <2>6, <3>3, <3>4 DEF CrashInv
  <2>. QED BY <2>8, <2>9
<1>. QED BY <1>3, <1>4
-----------------------------------------------------------------------------
(***************************************************************************)
(* The steps of a process that knows the disk                              *)
(***************************************************************************)

(* All that is left to see of a step that takes no SST file away. *)
LEMMA GoesCrash ==
    ASSUME CrashInv, RecInv', Known, NEW gone, Evolves(disk, disk', gone, {}),
           CM(Dir(disk)) \notin gone, \A n : Sst(n) \notin gone, Bumped(versions, versions'),
           UNCHANGED <<lax, lost>>, bg_error => bg_error', pc' \in {"opening", "opened"},
           pc' = "opened" \/ (pc' = pc /\ bg_error' = bg_error /\ compaction' = compaction),
           op'.call # "newdb", op'.at # "recover", op.at = "sync" => op'.at = "sync",
           op'.at = "replay" => pc' = "opening", op'.at = "build" => op'.call = "flush" \/ pc' = "opening",
           DirInv' /\ KnownInv' => LogState' /\ EditState' /\ BuildState' /\ OutState' /\ RemoveState'
    PROVE  CrashInv'
<1>. PICK touched : touched = {}
  OBVIOUS
<1>1. Evolves(disk, disk', gone, touched) /\ \A k \in Nat : k \in touched => Dir(disk).cur < k
  OBVIOUS
<1>2. DirInv'
  BY <1>1, DirKeptPlain
<1>3. KnownInv'
  BY <1>1, KnownKept
<1>4. CallInv'
  BY DEF CallInv, CrashInv
<1>5. OpenSucceeds'
  BY NotCorrupt
<1>. QED BY <1>2, <1>3, <1>4, <1>5 DEF CrashInv

(* The call stays what it is. *)
LEMMA SameCallCrash ==
    ASSUME CrashInv, RecInv', pc = "opened", pc' = pc, op' = op, Evolves(disk, disk', {}, {}),
           Bumped(versions, versions'), UNCHANGED <<compaction, bg_error, lax, lost>>
    PROVE  CrashInv'
<1>. PICK none : none = {}
  OBVIOUS
<1>1. op.call # "newdb" /\ op.at # "recover" /\ Known /\ versions.log_open
  BY NewVersionFields DEF CrashInv, RecInv, LogInv, OpInv, Known
<1>2. /\ Evolves(disk, disk', none, none) /\ CM(Dir(disk)) \notin none /\ \A n : Sst(n) \notin none
      /\ \A k \in Nat : k \in none => Dir(disk).cur < k
  OBVIOUS
<1>3. Dir(disk).cur # 0 /\ versions.manifest = Dir(disk).cur /\ Dir(disk).cur \in Nat
  BY <1>1, DirFacts DEF CrashInv, KnownInv
<1>4. /\ Dir(disk').cur = Dir(disk).cur /\ CM(Dir(disk')) = CM(Dir(disk))
      /\ CM(Dir(disk)) \in DOMAIN disk.data
      /\ disk'.data[CM(Dir(disk'))] = disk.data[CM(Dir(disk))]
      /\ disk'.synced[CM(Dir(disk'))] \in {disk.synced[CM(Dir(disk))], Len(disk.data[CM(Dir(disk))])}
  BY <1>2, <1>3, CurrentKept
<1>5. versions'.manifest = versions.manifest /\ versions'.files = versions.files
  BY DEF Bumped
<1>6. EditState' /\ OutState'
  BY <1>2, EditKept, OutKept
<1>7. LogState'
  <2>1. CASE op.at \notin Logging
    BY <2>1, NoLog
  <2>2. CASE op.at \in Logging
    <3>1. ~NewManifest /\ op.at \in {"record", "sync"}
      <4>1. ~NewManifest
        BY <1>1 DEF NewManifest
      <4>. QED BY <2>2, <4>1 DEF CrashInv, LogState, Logging, Whole
    <3>2. Target = CM(Dir(disk)) /\ Target' = Target
      BY <1>1, <1>3, <1>5 DEF Target, ManifestNumber, CM
    <3>3. Target \in Dir(disk').files
      BY <3>1, <1>2 DEF CrashInv, LogState, Whole, Evolves
    <3>4. Edited' = Edited
      BY <1>5 DEF Edited
    <3>5. disk'.data[Target] = disk.data[Target]
      BY <1>4, <3>2
    <3>. QED BY <1>5, <3>1, <3>2, <3>3, <3>4, <3>5 DEF LogState, CrashInv
  <2>. QED BY <2>1, <2>2
<1>8. BuildState'
  <2>1. SUFFICES ASSUME op.at = "build" PROVE BuildState'
    BY DEF BuildState
  <2>2. /\ Has(Dir(disk), op.number) /\ BelowIn(disk, Dir(disk).cur, op.number)
        /\ op.number \notin versions.files \cup {compaction.out}
    BY <2>1 DEF CrashInv, BuildState
  <2>3. Has(Dir(disk'), op.number)
    BY <1>2, <2>2 DEF Has, Evolves
  <2>4. BelowIn(disk', Dir(disk').cur, op.number)
    BY <1>4, <2>2 DEF BelowIn, CM
  <2>. QED BY <1>5, <2>2, <2>3, <2>4 DEF BuildState
<1>9. RemoveState'
  BY <1>4, <1>5 DEF CrashInv, RemoveState, Relied
<1>10. op.at # "replay" /\ (op.at = "build" => op.call = "flush")
  BY DEF CrashInv, CallInv
<1>. QED BY <1>1, <1>2, <1>6, <1>7, <1>8, <1>9, <1>10, GoesCrash

LEMMA WriteEntryCrash ==
    ASSUME NEW sync \in BOOLEAN, CrashInv, RecInv', WriteEntry(sync)
    PROVE  CrashInv'
<1>. PICK f : f = Wal(wal_file_number)
  OBVIOUS
<1>. PICK e : e = versions.last + 1
  OBVIOUS
<1>. PICK written : written = AddRecord(disk, f, e)
  OBVIOUS
<1>1. /\ disk' = (IF sync THEN Sync(written, f) ELSE written)
      /\ versions' = [versions EXCEPT !.last = e] /\ pc = "opened"
      /\ UNCHANGED <<pc, op, compaction, bg_error, lax, lost>>
  BY DEF WriteEntry
<1>2. f[1] # "manifest"
  BY DEF Wal
<1>3. Evolves(disk, written, {}, {})
  BY <1>2, DirFacts, AddDataEvolves
<1>4. Evolves(written, SyncFd(written, f), {}, {})
  BY <1>3, SyncFdEvolves DEF Evolves
<1>5. Evolves(disk, disk', {}, {})
  BY <1>1, <1>3, <1>4, SyncIs, EvolvesOn
<1>6. Bumped(versions, versions')
  BY <1>1, BumpedLast DEF CrashInv
<1>. QED BY <1>1, <1>5, <1>6, SameCallCrash

LEMMA SwitchCrash == CrashInv /\ RecInv' /\ Switch => CrashInv'
<1>. SUFFICES ASSUME CrashInv, RecInv', Switch PROVE CrashInv'
  OBVIOUS
<1>. PICK n : n = versions.next
  OBVIOUS
<1>1. /\ disk' = NewWritableFile(disk, Wal(n)) /\ versions' = NewFileNumber(versions)
      /\ pc = "opened" /\ UNCHANGED <<pc, op, compaction, bg_error, lax, lost>>
  BY DEF Switch, history
<1>2. n \in Nat
  BY DEF CrashInv, RecInv, VersionInv
<1>3. Wal(n) \in Files /\ \A k \in Nat : Wal(n) # Manifest(k)
  BY <1>2, FileNames
<1>4. Evolves(disk, disk', {}, {})
  BY <1>1, <1>3, DirFacts, NewFileEvolves
<1>5. Bumped(versions, versions')
  BY <1>1, BumpedSame, BumpedNew DEF CrashInv
<1>. QED BY <1>1, <1>4, <1>5, SameCallCrash

LEMMA RemoveOneCrash == CrashInv /\ RecInv' /\ RemoveOne => CrashInv'
<1>. SUFFICES ASSUME CrashInv, RecInv', RemoveOne PROVE CrashInv'
  OBVIOUS
<1>1. PICK f \in op.todo : disk' = RemoveFile(disk, f) /\ op' = [op EXCEPT !.todo = @ \ {f}]
  BY DEF RemoveOne
<1>2. /\ op.at = "remove" /\ op.todo # {}
      /\ UNCHANGED <<pc, versions, compaction, bg_error, lax, lost>>
  BY DEF RemoveOne, history
<1>3. /\ op'.at = "remove" /\ op'.call = op.call /\ op'.edit = op.edit /\ op'.todo = op.todo \ {f}
  BY <1>1, <1>2 DEF CrashInv, RecInv, OpInv, OpFields
<1>4. versions.log_open /\ op.call # "newdb" /\ pc \in {"opening", "opened"} /\ Known
  BY <1>2, NewVersionFields, NoOpFields DEF CrashInv, RecInv, LogInv, OpInv, Known, Logging, Whole
<1>. PICK gone : gone = {f}
  OBVIOUS
<1>. PICK none : none = {}
  OBVIOUS
<1>5. Evolves(disk, disk', gone, none) /\ \A k \in Nat : k \in none => Dir(disk).cur < k
  BY <1>1, DirFacts, RemoveFileEvolves
<1>6. /\ Dir(disk).cur # 0 /\ versions.manifest = Dir(disk).cur /\ Dir(disk).cur \in Nat
      /\ ~bg_error => FilesOf(disk.data[CM(Dir(disk))]) = versions.files
  BY <1>2, <1>4, DirFacts DEF CrashInv, KnownInv
<1>7. /\ f[1] = "manifest" => f[2] < versions.manifest
      /\ f[1] = "sst" => f[2] \notin versions.files \cup {compaction.out}
      /\ ~bg_error
      /\ lax \/ disk.synced[CM(Dir(disk))] = Len(disk.data[CM(Dir(disk))])
  BY <1>2 DEF CrashInv, RemoveState, Relied
<1>8. CM(Dir(disk)) \notin gone
  BY <1>6, <1>7 DEF CM, Manifest
<1>9. \A n \in versions.files \cup {compaction.out} : Sst(n) \notin gone
  BY <1>7 DEF Sst
<1>10. SparesNow(disk, gone)
  BY <1>6, <1>7, <1>8, <1>9 DEF SparesNow
<1>11. ~lax => SparesLater(disk, gone)
  <2>. SUFFICES ASSUME ~lax,
                       NEW len \in disk.synced[CM(Dir(disk))]..Len(disk.data[CM(Dir(disk))]),
                       NEW n \in FilesAt(disk, Dir(disk), len)
                PROVE  Sst(n) \notin gone
    BY DEF SparesLater
  <2>. PICK recs : recs = disk.data[CM(Dir(disk))]
    OBVIOUS
  <2>1. IsSeq(recs) /\ Len(recs) \in Nat
    <3>1. GoodManifest(Dir(disk).cur, recs)
      BY <1>6, DirFacts, StatesOK DEF Leads
    <3>. QED BY <3>1, SeqFacts DEF GoodManifest
  <2>2. len \in Len(recs)..Len(recs)
    BY <1>7
  <2>3. len = Len(recs)
    BY <2>1, <2>2
  <2>4. n \in FilesOf(recs)
    BY <2>1, <2>3, WholePrefix DEF FilesAt
  <2>. QED BY <1>6, <1>7, <1>9, <2>4
<1>12. DirInv'
  BY <1>2, <1>5, <1>8, <1>10, <1>11, DirKept
<1>13. KnownInv'
  <2>1. Bumped(versions, versions')
    BY <1>2, BumpedSame DEF CrashInv
  <2>2. \A n \in versions.files : Sst(n) \notin gone
    BY <1>9
  <2>. QED BY <1>2, <1>4, <1>5, <1>8, <2>1, <2>2, KnownKept
<1>14. CallInv'
  BY <1>2, <1>3, <1>4 DEF CrashInv, CallInv
<1>15. EditState'
  <2>1. op.edit.new = {}
    BY <1>2 DEF CrashInv, RemoveState
  <2>. QED BY <1>3, <1>5, <2>1, EditKept
<1>16. OutState'
  BY <1>2, <1>5, <1>9, OutKept
<1>17. RemoveState'
  <2>1. lax' \/ disk'.synced[CM(Dir(disk'))] = Len(disk'.data[CM(Dir(disk'))])
    <3>1. /\ disk'.data[CM(Dir(disk'))] = disk.data[CM(Dir(disk))]
          /\ disk'.synced[CM(Dir(disk'))] \in {disk.synced[CM(Dir(disk))], Len(disk.data[CM(Dir(disk))])}
      BY <1>5, <1>6, <1>8, CurrentKept
    <3>. QED BY <1>2, <1>7, <3>1
  <2>. QED BY <1>2, <1>3, <2>1 DEF CrashInv, RemoveState
<1>18. LogState' /\ BuildState' /\ OpenSucceeds'
  BY <1>2, <1>3, <1>4, NoLog, NoBuild, NotCorrupt DEF Logging, Whole
<1>. QED BY <1>12, <1>13, <1>14, <1>15, <1>16, <1>17, <1>18 DEF CrashInv
LEMMA RemoveDoneCrash == CrashInv /\ RecInv' /\ RemoveDone => CrashInv'
<1>. SUFFICES ASSUME CrashInv, RecInv', RemoveDone PROVE CrashInv'
  OBVIOUS
<1>. PICK none : none = {}
  OBVIOUS
<1>1. /\ op.at = "remove" /\ op' = NoOp /\ pc' = "opened"
      /\ UNCHANGED <<disk, versions, compaction, bg_error, lax, lost>>
  BY DEF RemoveDone, history
<1>2. op.call # "newdb" /\ pc \in {"opening", "opened"} /\ Known
  BY <1>1, NoOpFields DEF CrashInv, RecInv, OpInv, Known, Logging, Whole
<1>3. Evolves(disk, disk', none, {}) /\ Evolves(disk, disk', none, none)
  BY <1>1, DirFacts, EvolvesSame
<1>4. Bumped(versions, versions')
  BY <1>1, BumpedSame DEF CrashInv
<1>5. op'.at = "none" /\ op'.call = "none" /\ op'.edit.new = {}
  BY <1>1, NoOpFields
<1>6. LogState' /\ EditState' /\ BuildState' /\ RemoveState'
  BY <1>1, <1>5, NoLog, NoBuild, NoRemove DEF Logging, Whole, EditState
<1>7. OutState'
  BY <1>1, <1>3, OutKept
<1>8. CM(Dir(disk)) \notin none /\ \A n : Sst(n) \notin none
  OBVIOUS
<1>. QED BY <1>1, <1>2, <1>3, <1>4, <1>5, <1>6, <1>7, <1>8, GoesCrash

(* What was relied on can be relied on still. *)
LEMMA StillRelied ==
    ASSUME CrashInv, Known, NEW gone, NEW touched, Evolves(disk, disk', gone, touched), touched = {},
           CM(Dir(disk)) \notin gone, lax' = lax,
           op'.at # "remove", pc' = "opening" /\ op'.at \in Replaying /\ versions'.log_open => Relied
    PROVE  RemoveState'
<1>1. ASSUME Relied PROVE lax' \/ disk'.synced[CM(Dir(disk'))] = Len(disk'.data[CM(Dir(disk'))])
  <2>1. Dir(disk).cur # 0 /\ \A k \in Nat : k \in touched => Dir(disk).cur < k
    BY DEF CrashInv, KnownInv
  <2>2. /\ disk'.data[CM(Dir(disk'))] = disk.data[CM(Dir(disk))]
        /\ disk'.synced[CM(Dir(disk'))] \in {disk.synced[CM(Dir(disk))], Len(disk.data[CM(Dir(disk))])}
    BY <2>1, CurrentKept
  <2>3. lax \/ disk.synced[CM(Dir(disk))] = Len(disk.data[CM(Dir(disk))])
    BY <1>1 DEF CrashInv, RemoveState
  <2>. QED BY <2>2, <2>3
<1>. QED BY <1>1 DEF RemoveState, Relied

(* LogAndApply begins. *)
LEMMA RecordBegun ==
    ASSUME DirInv', KnownInv', Known', versions'.log_open, op'.at = "record"
    PROVE  LogState'
<1>1. op'.call # "newdb" /\ Dir(disk').cur # 0 /\ versions'.manifest = Dir(disk').cur
  BY DEF Known, KnownInv
<1>2. Target' = CM(Dir(disk'))
  BY <1>1 DEF Target, ManifestNumber, CM
<1>3. Target' \in Dir(disk').files
  <2>1. Dir(disk') \in States(disk')
    BY StatesOK DEF DirInv, CurOK, Base
  <2>. QED BY <1>1, <1>2, <2>1 DEF DirInv, CurOK, Leads
<1>4. ~bg_error' => FilesOf(disk'.data[Target'])  = versions'.files
  BY <1>2 DEF KnownInv
<1>. QED BY <1>3, <1>4 DEF LogState

LEMMA CreateBegun == op'.at = "create" /\ NewManifest' => LogState'
BY DEF LogState, Whole
-----------------------------------------------------------------------------
(***************************************************************************)
(* SST files                                                               *)
(***************************************************************************)

(* The file of a new number. *)
LEMMA NewSst ==
    ASSUME CrashInv, Known, disk' = NewWritableFile(disk, Sst(versions.next))
    PROVE  /\ Evolves(disk, disk', {}, {}) /\ Has(Dir(disk'), versions.next)
           /\ BelowIn(disk', Dir(disk').cur, versions.next)
           /\ versions.next \notin versions.files \cup {compaction.out}
<1>. PICK n : n = versions.next
  OBVIOUS
<1>. PICK none : none = {}
  OBVIOUS
<1>1. n \in Nat /\ \A m \in versions.files \cup {compaction.out} : m \in Nat /\ m < n
  BY DEF CrashInv, RecInv, VersionInv
<1>2. n \notin versions.files \cup {compaction.out}
  BY <1>1
<1>3. Sst(n) \in Files /\ \A k \in Nat : Sst(n) # Manifest(k)
  BY <1>1, FileNames
<1>4. Evolves(disk, disk', none, none) /\ Sst(n) \in Dir(disk').files
  BY <1>3, DirFacts, NewFileEvolves
<1>5. Dir(disk).cur # 0 /\ BelowIn(disk, Dir(disk).cur, n)
  BY DEF CrashInv, KnownInv
<1>6. /\ Dir(disk').cur = Dir(disk).cur /\ CM(Dir(disk')) = CM(Dir(disk))
      /\ CM(Dir(disk)) \in DOMAIN disk.data
      /\ disk'.data[CM(Dir(disk'))] = disk.data[CM(Dir(disk))]
  <2>1. CM(Dir(disk)) \notin none /\ \A k \in Nat : k \in none => Dir(disk).cur < k
    OBVIOUS
  <2>. QED BY <1>4, <1>5, <2>1, CurrentKept
<1>7. BelowIn(disk', Dir(disk').cur, n)
  BY <1>5, <1>6 DEF BelowIn, CM
<1>. QED BY <1>2, <1>4, <1>7 DEF Has

LEMMA BuildBegunCrash ==
    ASSUME CrashInv, RecInv', Known, disk' = NewWritableFile(disk, Sst(versions.next)),
           op'.at = "build", op'.number = versions.next, op'.edit.new \subseteq op.edit.new,
           op'.call # "newdb", Bumped(versions, versions'), op.at # "sync",
           UNCHANGED <<pc, compaction, bg_error, lax, lost>>,
           (pc = "opened" /\ op'.call = "flush") \/ (pc = "opening" /\ op.at = "replay")
    PROVE  CrashInv'
<1>. PICK none : none = {}
  OBVIOUS
<1>1. /\ Evolves(disk, disk', none, none) /\ Has(Dir(disk'), versions.next)
      /\ BelowIn(disk', Dir(disk').cur, versions.next)
      /\ versions.next \notin versions.files \cup {compaction.out}
  BY NewSst
<1>2. CM(Dir(disk)) \notin none /\ (\A n : Sst(n) \notin none) /\ Evolves(disk, disk', none, {})
  BY <1>1
<1>3. EditState' /\ OutState'
  BY <1>1, <1>2, EditKept, OutKept
<1>4. versions'.log_open = versions.log_open /\ versions'.files = versions.files
  BY DEF Bumped
<1>5. RemoveState'
  <2>1. pc' = "opening" /\ op'.at \in Replaying /\ versions'.log_open => Relied
    BY <1>4 DEF Relied, Replaying
  <2>. QED BY <1>1, <1>2, <2>1, StillRelied
<1>6. BuildState'
  BY <1>1, <1>4 DEF BuildState
<1>7. LogState'
  BY NoLog DEF Logging, Whole
<1>8. pc' \in {"opening", "opened"}
  BY DEF Known
<1>. QED BY <1>2, <1>3, <1>5, <1>6, <1>7, <1>8, GoesCrash
(* LogAndApply begins, in the open database or at the end of a recovery. *)
LEMMA LogBegunCrash ==
    ASSUME CrashInv, RecInv', Known, NEW none, none = {}, Evolves(disk, disk', none, none),
           (op'.at = "record" /\ versions.log_open) \/ (op'.at = "create" /\ NewManifest'),
           op'.call # "newdb", Bumped(versions, versions'), op.at # "sync",
           UNCHANGED <<pc, compaction, bg_error, lax, lost>>, EditState'
    PROVE  CrashInv'
<1>1. CM(Dir(disk)) \notin none /\ (\A n : Sst(n) \notin none) /\ Evolves(disk, disk', none, {})
  OBVIOUS
<1>2. OutState'
  BY <1>1, OutKept
<1>3. BuildState' /\ RemoveState' /\ pc' \in {"opening", "opened"}
  BY NoBuild, NoRemove DEF Replaying, Known
<1>4. versions'.log_open = versions.log_open /\ Known'
  BY DEF Bumped, Known
<1>5. DirInv' /\ KnownInv' => LogState'
  BY <1>4, RecordBegun, CreateBegun
<1>. QED BY <1>1, <1>2, <1>3, <1>5, GoesCrash

LEMMA OpenedKnown ==
    ASSUME CrashInv, pc = "opened"
    PROVE  Known /\ versions.log_open /\ op.call # "newdb" /\ op.at # "recover"
BY NewVersionFields DEF CrashInv, RecInv, LogInv, OpInv, Known

LEMMA FlushCrash == CrashInv /\ RecInv' /\ Flush => CrashInv'
<1>. SUFFICES ASSUME CrashInv, RecInv', Flush PROVE CrashInv'
  OBVIOUS
<1>. PICK vs : vs = NewFileNumber(versions)
  OBVIOUS
<1>. PICK begin : begin = [NoOp EXCEPT !.call = "flush"]
  OBVIOUS
<1>1. /\ pc = "opened" /\ op = NoOp /\ versions' = vs
      /\ UNCHANGED <<pc, compaction, bg_error, lax, lost>>
  BY DEF Flush, history
<1>2. /\ DOMAIN begin = OpFields /\ begin.call = "flush" /\ begin.edit = NoEdit /\ op.edit = NoEdit
      /\ NoEdit.new = {} /\ DOMAIN NoEdit = Tags /\ op.at = "none"
  BY <1>1, NoOpFields DEF OpFields
<1>3. Bumped(versions, versions')
  BY <1>1, BumpedSame, BumpedNew DEF CrashInv
<1>4. Known /\ versions.log_open
  BY <1>1, OpenedKnown
<1>5. CASE The(imm) = {}
  <2>. PICK edit : edit = [NoEdit EXCEPT !.wal = {wal_file_number}, !.next = {vs.next}, !.last = {vs.last}]
    OBVIOUS
  <2>1. op' = [begin EXCEPT !.at = "record", !.edit = edit] /\ disk' = disk
    BY <1>1, <1>5, Zenon DEF Flush
  <2>2. edit.new = {}
    BY <1>2 DEF Tags
  <2>3. op'.at = "record" /\ op'.call = "flush" /\ op'.edit.new = {}
    BY <1>2, <2>1, <2>2 DEF OpFields
  <2>. PICK none : none = {}
    OBVIOUS
  <2>4. Evolves(disk, disk', none, none)
    BY <2>1, DirFacts, EvolvesSame
  <2>5. EditState'
    BY <2>3 DEF EditState
  <2>. QED BY <1>1, <1>2, <1>3, <1>4, <2>3, <2>4, <2>5, LogBegunCrash
<1>6. CASE The(imm) # {}
  <2>1. BeginBuild(begin, The(imm))
    BY <1>1, <1>6, Zenon DEF Flush
  <2>. PICK ents : ents = The(imm)
    OBVIOUS
  <2>2. /\ disk' = NewWritableFile(disk, Sst(versions.next))
        /\ op' = [begin EXCEPT !.at = "build", !.number = versions.next, !.ents = ents]
    BY <2>1 DEF BeginBuild
  <2>3. /\ op'.at = "build" /\ op'.call = "flush" /\ op'.edit = NoEdit /\ op'.number = versions.next
    BY <1>2, <2>2 DEF OpFields
  <2>. QED BY <1>1, <1>2, <1>3, <1>4, <2>2, <2>3, BuildBegunCrash
<1>. QED BY <1>5, <1>6

LEMMA CompactCrash == CrashInv /\ RecInv' /\ Compact => CrashInv'
<1>. SUFFICES ASSUME CrashInv, RecInv', Compact PROVE CrashInv'
  OBVIOUS
<1>. PICK none : none = {}
  OBVIOUS
<1>1. /\ pc = "opened" /\ op = NoOp /\ disk' = NewWritableFile(disk, Sst(versions.next))
      /\ versions' = NewFileNumber(versions) /\ compaction'.out = versions.next
      /\ UNCHANGED <<pc, op, bg_error, lax, lost>>
  BY DEF Compact, history
<1>2. /\ op'.at = "none" /\ op'.call = "none" /\ op'.edit.new = {} /\ op.at = "none"
  BY <1>1, NoOpFields
<1>3. Bumped(versions, versions')
  BY <1>1, BumpedSame, BumpedNew DEF CrashInv
<1>4. Known
  BY <1>1, OpenedKnown
<1>5. Evolves(disk, disk', none, none) /\ Has(Dir(disk'), compaction'.out)
  BY <1>1, <1>4, NewSst
<1>6. CM(Dir(disk)) \notin none /\ (\A n : Sst(n) \notin none) /\ Evolves(disk, disk', none, {})
  BY <1>5
<1>7. LogState' /\ EditState' /\ BuildState' /\ RemoveState' /\ OutState'
  BY <1>2, <1>1, <1>5, NoLog, NoBuild, NoRemove DEF Logging, Whole, EditState, Replaying, OutState
<1>. QED BY <1>1, <1>2, <1>3, <1>4, <1>6, <1>7, GoesCrash

LEMMA FinishCompactionCrash == CrashInv /\ RecInv' /\ FinishCompaction => CrashInv'
<1>. SUFFICES ASSUME CrashInv, RecInv', FinishCompaction PROVE CrashInv'
  OBVIOUS
<1>. PICK none : none = {}
  OBVIOUS
<1>. PICK out : out = compaction.out
  OBVIOUS
<1>1. /\ pc = "opened" /\ op = NoOp /\ compaction # NoCompaction
      /\ UNCHANGED <<pc, versions, lax, lost>>
  BY DEF FinishCompaction, history
<1>2. Known /\ versions.log_open /\ op.at = "none" /\ op.edit.new = {} /\ op.call = "none"
  BY <1>1, OpenedKnown, NoOpFields
<1>3. Bumped(versions, versions')
  BY <1>1, BumpedSame DEF CrashInv
<1>4. CASE compaction' = NoCompaction /\ bg_error' = TRUE /\ UNCHANGED <<disk, op>>
  <2>1. Evolves(disk, disk', none, none)
    BY <1>4, DirFacts, EvolvesSame
  <2>2. CM(Dir(disk)) \notin none /\ (\A n : Sst(n) \notin none) /\ Evolves(disk, disk', none, {})
    BY <2>1
  <2>3. op'.at = "none" /\ op'.edit.new = {} /\ op'.call = "none"
    BY <1>2, <1>4
  <2>4. LogState' /\ EditState' /\ BuildState' /\ RemoveState' /\ OutState'
    BY <2>3, <1>4, NoLog, NoBuild, NoRemove DEF Logging, Whole, EditState, Replaying, OutState
  <2>. QED BY <1>1, <1>2, <1>3, <1>4, <2>2, <2>3, <2>4, GoesCrash
<1>5. CASE ~(compaction' = NoCompaction /\ bg_error' = TRUE /\ UNCHANGED <<disk, op>>)
  <2>. PICK ents : ents = UNION {ToSet(disk.data[Sst(n)]) : n \in compaction.in}
    OBVIOUS
  <2>. PICK edit : edit = [NoEdit EXCEPT !.new = {out}, !.deleted = compaction.in]
    OBVIOUS
  <2>. PICK new : new = [edit EXCEPT !.wal = {versions.wal}, !.next = {versions.next}, !.last = {versions.last}]
    OBVIOUS
  <2>1. /\ disk' = BuildSST(disk, out, ents)
        /\ op' = [NoOp EXCEPT !.call = "compact", !.at = "record", !.edit = new]
        /\ UNCHANGED <<compaction, bg_error>>
    BY <1>5, Zenon DEF FinishCompaction
  <2>2. new.new = {out}
    BY NoOpFields DEF Tags
  <2>3. op'.call = "compact" /\ op'.at = "record" /\ op'.edit.new = {out}
    BY <2>1, <2>2, NoOpFields DEF OpFields
  <2>4. out \in Nat /\ Has(Dir(disk), out)
    BY <1>1 DEF CrashInv, RecInv, VersionInv, OutState
  <2>5. Evolves(disk, disk', none, none) /\ States(disk') = {Dir(disk)}
    BY <2>1, <2>4, DirFacts, BuildSSTEvolves
  <2>6. EditState'
    BY <2>3, <2>4, <2>5 DEF EditState
  <2>. QED BY <1>1, <1>2, <1>3, <2>1, <2>3, <2>5, <2>6, LogBegunCrash
<1>. QED BY <1>4, <1>5
LEMMA LogBegins ==
    ASSUME NEW vs, NEW edit, BeginLog(vs, edit), DOMAIN op = OpFields, DOMAIN edit = Tags
    PROVE  /\ op'.at = IF vs.log_open THEN "record" ELSE "create"
           /\ op'.call = op.call /\ op'.edit.new = edit.new
<1>. PICK new : new = [edit EXCEPT !.wal = IF @ = {} THEN {vs.wal} ELSE @,
                                   !.next = {vs.next}, !.last = {vs.last}]
  BY Zenon
<1>1. op' = [op EXCEPT !.at = IF vs.log_open THEN "record" ELSE "create", !.edit = new]
  BY Zenon DEF BeginLog
<1>2. new.new = edit.new
  BY DEF Tags
<1>. QED BY <1>1, <1>2 DEF OpFields

LEMMA FinishBuildCrash == CrashInv /\ RecInv' /\ FinishBuild => CrashInv'
<1>. SUFFICES ASSUME CrashInv, RecInv', FinishBuild PROVE CrashInv'
  OBVIOUS
<1>. PICK none : none = {}
  OBVIOUS
<1>. PICK n : n = op.number
  OBVIOUS
<1>. PICK left : left = RemoveFile(disk, Sst(n))
  OBVIOUS
<1>1. op.at = "build" /\ op.at \in Replaying
  BY DEF FinishBuild, Replaying
<1>2. /\ pc \in {"opening", "opened"} /\ op.call # "newdb" /\ Known /\ n \in Nat
      /\ DOMAIN op = OpFields /\ DOMAIN op.edit = Tags
  BY <1>1, NoOpFields DEF CrashInv, RecInv, OpInv, Known, Logging, Whole
<1>3. /\ Has(Dir(disk), n) /\ BelowIn(disk, Dir(disk).cur, n)
      /\ n \notin versions.files \cup {compaction.out}
  BY <1>1 DEF CrashInv, BuildState
<1>4. Dir(disk).cur # 0
  BY <1>2 DEF CrashInv, KnownInv
<1>5. CASE Fail(left)
  <2>. PICK gone : gone = {Sst(n)}
    OBVIOUS
  <2>1. disk' = left /\ UNCHANGED <<lax, lost>>
    BY <1>5 DEF Fail, history
  <2>2. Evolves(disk, left, gone, none)
    BY DirFacts, RemoveFileEvolves
  <2>3. CM(Dir(disk)) \notin gone
    BY DEF CM, Manifest, Sst
  <2>4. \A m : Sst(m) \in gone => m = n
    BY DEF Sst
  <2>5. SparesNow(disk, gone) /\ SparesLater(disk, gone)
    <3>1. CurOK(disk) /\ \A m \in Nat : Sst(m) \in gone => BelowIn(disk, Dir(disk).cur, m)
      BY <1>3, <2>4, DirFacts
    <3>. QED BY <1>4, <2>3, <3>1, SparesBelow
  <2>6. \A k \in Nat : k \in none => Dir(disk).cur < k
    OBVIOUS
  <2>7. DirInv'
    BY <2>1, <2>2, <2>3, <2>5, <2>6, DirKept
  <2>8. Sst(compaction.out) \notin gone /\ \A m \in versions.files : Sst(m) \notin gone
    BY <1>3, <2>4
  <2>9. Dir(left).cur = Dir(disk).cur /\ Dir(disk).files \ gone \subseteq Dir(left).files
    BY <2>2 DEF Evolves
  <2>. QED BY <1>2, <1>5, <2>7, <2>8, <2>9, FailCrash
<1>6. CASE ~Fail(left)
  <2>. PICK edit : edit = [op.edit EXCEPT !.new = @ \cup {n}]
    OBVIOUS
  <2>1. /\ disk' = BuildSST(disk, n, op.ents)
        /\ UNCHANGED <<pc, versions, compaction, bg_error, lax, lost>>
        /\ IF op.call = "flush" THEN BeginLog(versions, [edit EXCEPT !.wal = {wal_file_number}])
           ELSE op' = [op EXCEPT !.at = "replay", !.edit = edit, !.number = 0, !.ents = {}]
    BY <1>6, Zenon DEF FinishBuild, history
  <2>2. Bumped(versions, versions')
    BY <2>1, BumpedSame DEF CrashInv
  <2>. PICK ents : ents = op.ents
    OBVIOUS
  <2>3. Evolves(disk, disk', none, none) /\ States(disk') = {Dir(disk)}
    BY <1>2, <2>1, DirFacts, BuildSSTEvolves
  <2>4. edit.new = op.edit.new \cup {n} /\ DOMAIN edit = Tags
    BY <1>2 DEF Tags
  <2>5. op'.edit.new = edit.new => EditState'
    <3>1. \A m \in op.edit.new : Has(Dir(disk), m)
      BY DirFacts DEF CrashInv, EditState
    <3>. QED BY <1>3, <2>3, <2>4, <3>1 DEF EditState
  <2>6. CASE op.call = "flush"
    <3>1. versions.log_open
      <4>1. pc = "opened"
        BY <2>6 DEF CrashInv, RecInv, OpInv
      <4>. QED BY <4>1, OpenedKnown
    <3>. PICK logged : logged = [edit EXCEPT !.wal = {wal_file_number}]
      OBVIOUS
    <3>2. BeginLog(versions, logged) /\ DOMAIN logged = Tags /\ logged.new = edit.new
      BY <2>1, <2>4, <2>6 DEF Tags
    <3>3. op'.at = "record" /\ op'.call = op.call /\ op'.edit.new = logged.new
      BY <1>2, <3>1, <3>2, LogBegins
    <3>5. op'.at = "record" /\ op'.call = "flush" /\ op'.edit.new = edit.new
      BY <2>6, <3>2, <3>3
    <3>. QED BY <1>1, <1>2, <2>1, <2>2, <2>3, <2>5, <3>1, <3>5, LogBegunCrash
  <2>7. CASE op.call # "flush"
    <3>1. op' = [op EXCEPT !.at = "replay", !.edit = edit, !.number = 0, !.ents = {}]
      BY <2>1, <2>7
    <3>2. op'.at = "replay" /\ op'.call = op.call /\ op'.edit = edit
      BY <1>2, <3>1 DEF OpFields
    <3>3. CM(Dir(disk)) \notin none /\ (\A m : Sst(m) \notin none) /\ Evolves(disk, disk', none, {})
      BY <2>3
    <3>4. RemoveState'
      <4>1. pc' = "opening" /\ op'.at \in Replaying /\ versions'.log_open => Relied
        BY <1>1, <2>1 DEF Relied
      <4>. QED BY <1>2, <2>1, <2>3, <3>2, <3>3, <4>1, StillRelied
    <3>5. LogState' /\ BuildState' /\ OutState' /\ EditState'
      BY <2>1, <2>3, <2>5, <3>2, <3>3, NoLog, NoBuild, OutKept DEF Logging, Whole
    <3>6. pc = "opening"
      BY <1>1, <2>7 DEF CrashInv, CallInv
    <3>. QED BY <1>1, <1>2, <2>1, <2>2, <3>2, <3>3, <3>4, <3>5, <3>6, GoesCrash
  <2>. QED BY <2>6, <2>7
<1>. QED BY <1>5, <1>6
-----------------------------------------------------------------------------
(***************************************************************************)
(* RecoverWalFile and the end of Recover                                   *)
(***************************************************************************)
LEMMA ReplayKnown ==
    ASSUME CrashInv, op.at = "replay"
    PROVE  /\ Known /\ pc = "opening" /\ op.call # "newdb" /\ op.at # "sync"
           /\ DOMAIN op = OpFields /\ DOMAIN op.edit = Tags /\ op.at \in Replaying
BY WhileReplaying DEF CrashInv, Known, Replaying, CallInv

LEMMA ReplayFullCrash == CrashInv /\ RecInv' /\ ReplayFull => CrashInv'
<1>. SUFFICES ASSUME CrashInv, RecInv', ReplayFull PROVE CrashInv'
  OBVIOUS
<1>. PICK part : part = SubSeq(Rest, 1, WriteBufferSize + 1)
  OBVIOUS
<1>. PICK o : o = [op EXCEPT !.pos = @ + Len(part), !.max_sequence = Seen(part), !.save = TRUE]
  OBVIOUS
<1>. PICK ents : ents = ToSet(part)
  OBVIOUS
<1>1. /\ op.at = "replay" /\ versions' = NewFileNumber(versions)
      /\ UNCHANGED <<pc, compaction, bg_error, lax, lost>>
  BY DEF ReplayFull, history
<1>2. BeginBuild(o, ents)
  BY Zenon DEF ReplayFull
<1>3. DOMAIN o = OpFields /\ o.call = op.call /\ o.edit = op.edit
  BY <1>1, ReplayKnown DEF OpFields
<1>4. /\ disk' = NewWritableFile(disk, Sst(versions.next))
      /\ op'.at = "build" /\ op'.number = versions.next /\ op'.edit = op.edit /\ op'.call = op.call
  BY <1>2, <1>3 DEF BeginBuild, OpFields
<1>5. Bumped(versions, versions')
  BY <1>1, BumpedSame, BumpedNew DEF CrashInv
<1>. QED BY <1>1, <1>4, <1>5, ReplayKnown, BuildBegunCrash

(* A WAL file is done, and no SST file begun. *)
LEMMA WalDoneCrash ==
    ASSUME CrashInv, RecInv', op.at = "replay", op.wals # {}, op' = NextWal(op),
           versions' = MarkFileNumberAsUsed(versions, FirstWal),
           UNCHANGED <<disk, pc, compaction, bg_error, lax, lost>>
    PROVE  CrashInv'
<1>. PICK none : none = {}
  OBVIOUS
<1>1. op'.at = "replay" /\ op'.call = op.call /\ op'.edit = op.edit
  BY ReplayKnown, NextWalFields
<1>2. Bumped(versions, versions')
  <2>1. FirstWal \in Nat
    BY WhileReplaying DEF CrashInv
  <2>. QED BY <2>1, BumpedSame, BumpedMark DEF CrashInv
<1>3. /\ Evolves(disk, disk', none, none) /\ Evolves(disk, disk', none, {})
      /\ CM(Dir(disk)) \notin none /\ \A n : Sst(n) \notin none
  BY DirFacts, EvolvesSame
<1>4. versions'.log_open = versions.log_open
  BY <1>2 DEF Bumped
<1>5. RemoveState'
  <2>1. pc' = "opening" /\ op'.at \in Replaying /\ versions'.log_open => Relied
    BY <1>4, ReplayKnown DEF Relied
  <2>. QED BY <1>1, <1>3, <2>1, ReplayKnown, StillRelied
<1>6. LogState' /\ BuildState' /\ EditState' /\ OutState'
  <2>1. op'.edit.new \subseteq op.edit.new /\ op'.at \notin Logging /\ op'.at # "build"
    BY <1>1 DEF Logging, Whole
  <2>. QED BY <1>3, <2>1, NoLog, NoBuild, EditKept, OutKept
<1>. QED BY <1>1, <1>2, <1>3, <1>5, <1>6, ReplayKnown, GoesCrash

LEMMA ReplayReuseCrash == CrashInv /\ RecInv' /\ ReplayReuse => CrashInv'
BY WalDoneCrash DEF ReplayReuse, history

LEMMA ReplayEndCrash == CrashInv /\ RecInv' /\ ReplayEnd => CrashInv'
<1>. SUFFICES ASSUME CrashInv, RecInv', ReplayEnd PROVE CrashInv'
  OBVIOUS
<1>1. op.at = "replay" /\ op.wals # {} /\ UNCHANGED <<pc, compaction, bg_error, lax, lost>>
  BY DEF ReplayEnd, history
<1>2. CASE Rest = <<>>
  BY <1>1, <1>2, WalDoneCrash DEF ReplayEnd
<1>3. CASE Rest # <<>>
  <2>. PICK n : n = FirstWal
    OBVIOUS
  <2>. PICK next : next = NextWal(op)
    OBVIOUS
  <2>. PICK o : o = [next EXCEPT !.save = TRUE]
    OBVIOUS
  <2>. PICK ents : ents = ToSet(Rest)
    OBVIOUS
  <2>. PICK v : v = NewFileNumber(versions)
    OBVIOUS
  <2>1. BeginBuild(o, ents) /\ versions' = MarkFileNumberAsUsed(v, n)
    BY <1>3, Zenon DEF ReplayEnd
  <2>2. DOMAIN next = OpFields /\ next.call = op.call /\ next.edit = op.edit
    BY <1>1, ReplayKnown, NextWalFields
  <2>3. DOMAIN o = OpFields /\ o.call = op.call /\ o.edit = op.edit
    BY <2>2 DEF OpFields
  <2>4. /\ disk' = NewWritableFile(disk, Sst(versions.next))
        /\ op'.at = "build" /\ op'.number = versions.next /\ op'.edit = op.edit /\ op'.call = op.call
    BY <2>1, <2>3 DEF BeginBuild, OpFields
  <2>5. Bumped(versions, versions')
    <3>1. Bumped(versions, v)
      BY BumpedSame, BumpedNew DEF CrashInv
    <3>2. n \in Nat
      BY <1>1, WhileReplaying DEF CrashInv
    <3>. QED BY <2>1, <3>1, <3>2, BumpedMark DEF CrashInv
  <2>. QED BY <1>1, <2>4, <2>5, ReplayKnown, BuildBegunCrash
<1>. QED BY <1>2, <1>3
LEMMA FinishRecoverCrash == CrashInv /\ RecInv' /\ FinishRecover => CrashInv'
<1>. SUFFICES ASSUME CrashInv, RecInv', FinishRecover PROVE CrashInv'
  OBVIOUS
<1>. PICK none : none = {}
  OBVIOUS
<1>. DEFINE reused == wal_file_number # 0
            seen == [versions EXCEPT !.last = Max({@, op.max_sequence})]
            vs == IF reused THEN seen ELSE NewFileNumber(seen)
            num == IF reused THEN wal_file_number ELSE seen.next
<1>1. op.at = "replay" /\ Known /\ pc = "opening" /\ op.call # "newdb" /\ op.at # "sync"
  BY ReplayKnown DEF FinishRecover
<1>2. CASE Fail(disk)
  <2>1. DirInv'
    BY <1>2, DirSame DEF Fail, history
  <2>2. Dir(disk).files \ none \subseteq Dir(disk).files
    OBVIOUS
  <2>. QED BY <1>1, <1>2, <2>1, <2>2, FailCrash
<1>3. ASSUME disk' = IF reused THEN disk ELSE NewWritableFile(disk, Wal(num)),
             versions' = vs,
             IF op.save THEN BeginLog(vs, [op.edit EXCEPT !.wal = {num}]) /\ UNCHANGED compaction
             ELSE UNCHANGED compaction /\ BeginRemove(disk', vs),
             UNCHANGED <<pc, bg_error, lax, lost>>
      PROVE  CrashInv'
  <2>1. Bumped(versions, seen) /\ seen.next = versions.next
    <3>. PICK e : e = Max({versions.last, op.max_sequence})
      OBVIOUS
    <3>1. seen = [versions EXCEPT !.last = e]
      OBVIOUS
    <3>. QED BY <3>1, BumpedLast DEF CrashInv
  <2>. HIDE DEF seen
  <2>2. Bumped(versions, vs) /\ num \in Nat
    <3>1. CASE reused
      BY <2>1, <3>1, Numbered DEF CrashInv
    <3>2. CASE ~reused
      BY <2>1, <3>2, BumpedNew, Numbered DEF CrashInv
    <3>. QED BY <3>1, <3>2
  <2>3. Evolves(disk, disk', none, none)
    <3>1. CASE reused
      BY <1>3, <3>1, DirFacts, EvolvesSame
    <3>2. CASE ~reused
      <4>. HIDE DEF num
      <4>1. disk' = NewWritableFile(disk, Wal(num))
        BY <1>3, <3>2
      <4>2. Wal(num) \in Files /\ \A k \in Nat : Wal(num) # Manifest(k)
        BY <2>2, FileNames
      <4>. QED BY <4>1, <4>2, DirFacts, NewFileEvolves
    <3>. QED BY <3>1, <3>2
  <2>. HIDE DEF num, vs
  <2>4. vs.log_open = versions.log_open /\ Bumped(versions, versions')
    BY <1>3, <2>2 DEF Bumped
  <2>5. CM(Dir(disk)) \notin none /\ (\A n : Sst(n) \notin none) /\ Evolves(disk, disk', none, {})
    BY <2>3
  <2>6. CASE op.save
    <3>. PICK edit : edit = [op.edit EXCEPT !.wal = {num}]
      OBVIOUS
    <3>1. DOMAIN edit = Tags /\ edit.new = op.edit.new
      BY <1>1, ReplayKnown DEF Tags
    <3>2. BeginLog(vs, edit)
      BY <1>3, <2>6
    <3>3. /\ op'.at = IF vs.log_open THEN "record" ELSE "create"
          /\ op'.call = op.call /\ op'.edit.new = edit.new
      BY <1>1, <3>1, <3>2, ReplayKnown, LogBegins
    <3>4. EditState'
      <4>1. op'.edit.new \subseteq op.edit.new /\ \A n \in op.edit.new : Sst(n) \notin none
        BY <3>1, <3>3
      <4>. QED BY <2>3, <4>1, EditKept
    <3>5. (op'.at = "record" /\ versions.log_open) \/ (op'.at = "create" /\ NewManifest')
      BY <1>1, <1>3, <2>4, <3>3 DEF NewManifest
    <3>6. op'.call # "newdb" /\ UNCHANGED <<pc, compaction, bg_error, lax, lost>>
      BY <1>1, <1>3, <2>6, <3>3
    <3>. QED BY <1>1, <2>3, <2>4, <3>4, <3>5, <3>6, LogBegunCrash
  <2>7. CASE ~op.save
    <3>. PICK dk : dk = disk'
      OBVIOUS
    <3>. PICK dir : dir = Dir(dk)
      OBVIOUS
    <3>. PICK out : out = compaction'.out
      OBVIOUS
    <3>. PICK s : s = IF bg_error THEN {} ELSE Obsolete(dir, vs, {out})
      OBVIOUS
    <3>1. op' = [NoOp EXCEPT !.call = op.call, !.at = "remove", !.todo = s] /\ UNCHANGED compaction
      BY <1>3, <2>7, Zenon DEF BeginRemove
    <3>2. op'.at = "remove" /\ op'.call = op.call /\ op'.edit = NoEdit /\ op'.todo = s
      BY <3>1, NoOpFields DEF OpFields
    <3>3. lax' \/ dk.synced[CM(Dir(dk))] = Len(dk.data[CM(Dir(dk))])
      <4>1. Relied
        BY <1>1, <2>7, WhileReplaying DEF Relied, Replaying, CrashInv
      <4>2. Dir(disk).cur # 0 /\ \A k \in Nat : k \in none => Dir(disk).cur < k
        BY <1>1 DEF CrashInv, KnownInv
      <4>3. /\ disk'.data[CM(Dir(disk'))] = disk.data[CM(Dir(disk))]
            /\ disk'.synced[CM(Dir(disk'))] \in {disk.synced[CM(Dir(disk))], Len(disk.data[CM(Dir(disk))])}
        BY <2>3, <2>5, <4>2, CurrentKept
      <4>4. lax \/ disk.synced[CM(Dir(disk))] = Len(disk.data[CM(Dir(disk))])
        BY <4>1 DEF CrashInv, RemoveState
      <4>. QED BY <1>3, <4>3, <4>4
    <3>4. bg_error' = bg_error /\ vs = versions'
      BY <1>3
    <3>5. RemoveState' /\ LogState' /\ BuildState' /\ EditState'
      BY ONLY <3>2, <3>3, <3>4, dk = disk', out = compaction'.out,
              s = IF bg_error THEN {} ELSE Obsolete(dir, vs, {out}), RemoveBegun
    <3>6. OutState'
      BY <2>3, <2>5, <3>1, OutKept
    <3>. QED BY <1>1, <1>3, <2>4, <2>5, <3>1, <3>2, <3>5, <3>6, GoesCrash
  <2>. QED BY <2>6, <2>7
<1>4. \/ Fail(disk)
      \/ /\ disk' = IF reused THEN disk ELSE NewWritableFile(disk, Wal(num))
         /\ versions' = vs
         /\ IF op.save THEN BeginLog(vs, [op.edit EXCEPT !.wal = {num}]) /\ UNCHANGED compaction
            ELSE UNCHANGED compaction /\ BeginRemove(disk', vs)
         /\ UNCHANGED <<pc, bg_error, lax, lost>>
  BY Zenon DEF FinishRecover, history
<1>. QED BY <1>2, <1>3, <1>4, Zenon
-----------------------------------------------------------------------------
(***************************************************************************)
(* DB::Open and the end of the process                                     *)
(***************************************************************************)

(* CURRENT leads to a MANIFEST that Recover finds nothing wrong with. *)
LEMMA Leading ==
    ASSUME NEW dk, NEW dir, NEW recs, recs = dk.data[Manifest(dir.cur)], dir.cur \in Nat,
           Manifest(dir.cur) \in dir.files, GoodManifest(dir.cur, recs), Complete(recs), ~Spoilt(recs),
           Holds(dir, recs)
    PROVE  Openable(dk, dir)
<1>. PICK m : m = ReadManifest(Records(recs))
  OBVIOUS
<1>1. IsSeq(recs)
  BY DEF GoodManifest
<1>2. m = ReadManifest(recs)
  BY <1>1, RecordsRead
<1>3. PICK j \in 1..Len(recs) : Field(recs[j], "next") # {}
  BY DEF Complete
<1>4. Field(recs[j], "wal") # {} /\ Field(recs[j], "last") # {}
  <2>1. GoodRecord(dir.cur, recs, j)
    BY DEF GoodManifest
  <2>. QED BY <1>3, <2>1 DEF GoodRecord
<1>5. "next" \in Tags /\ "wal" \in Tags /\ "last" \in Tags
  BY DEF Tags
<1>6. LastField(recs, "next") # {} /\ LastField(recs, "wal") # {} /\ LastField(recs, "last") # {}
  BY <1>1, <1>3, <1>4, <1>5, LastFieldThere
<1>7. m.next # {} /\ m.wal # {} /\ m.last # {}
  <2>. PICK files : files = FilesOf(recs)
    OBVIOUS
  <2>1. m = [wal |-> LastField(recs, "wal"), next |-> LastField(recs, "next"),
             last |-> LastField(recs, "last"), files |-> files]
    BY <1>2, Zenon DEF ReadManifest, FilesOf
  <2>. QED BY <1>6, <2>1
<1>8. m.files \subseteq {f[2] : f \in dir.files}
  <2>1. ASSUME NEW n \in m.files PROVE n \in {f[2] : f \in dir.files}
    <3>1. Sst(n) \in dir.files
      BY <1>2 DEF FilesOf, Holds, Has
    <3>2. Sst(n)[2] = n
      BY DEF Sst
    <3>. QED BY <3>1, <3>2
  <2>. QED BY <2>1
<1>. QED BY <1>7, <1>8, Zenon DEF Openable

LEMMA DiskOpens ==
    ASSUME NEW dk, CurOK(dk), Dir(dk).cur # 0, FoundNow(dk), ~Spoilt(dk.data[CM(Dir(dk))])
    PROVE  Openable(dk, Dir(dk))
<1>. PICK dir : dir = Dir(dk)
  OBVIOUS
<1>. PICK recs : recs = dk.data[CM(dir)]
  OBVIOUS
<1>1. dir \in States(dk) /\ dir.cur \in Nat /\ Leads(dk, dir)
  BY StatesOK DEF CurOK, Base
<1>2. CM(dir) \in dir.files /\ GoodManifest(dir.cur, recs)
  BY <1>1, StatesOK DEF CurOK, Base, Leads
<1>3. Complete(recs)
  <2>1. Len(recs) \in Nat
    BY <1>2, SeqFacts DEF GoodManifest
  <2>2. PICK j \in 1..dk.synced[CM(dir)] : Field(recs[j], "next") # {}
    BY <1>1 DEF Leads
  <2>3. j \in 1..Len(recs)
    BY <1>1, <2>1 DEF Leads
  <2>. QED BY <2>2, <2>3 DEF Complete
<1>4. Holds(dir, recs)
  BY DEF FoundNow, Holds
<1>. QED BY <1>1, <1>2, <1>3, <1>4, Leading DEF CM

LEMMA OpenCrash == CrashInv /\ RecInv' /\ Open => CrashInv'
<1>. SUFFICES ASSUME CrashInv, RecInv', Open PROVE CrashInv'
  OBVIOUS
<1>. PICK edit : edit = [NoEdit EXCEPT !.wal = {0}, !.next = {2}, !.last = {0}]
  OBVIOUS
<1>1. /\ pc = "closed" /\ pc' = "opening" /\ UNCHANGED <<disk, versions, compaction, bg_error, lax, lost>>
      /\ op' = IF Dir(disk).cur = 0 THEN [NoOp EXCEPT !.call = "newdb", !.at = "create", !.edit = edit]
               ELSE [NoOp EXCEPT !.call = "open", !.at = "recover"]
  BY Zenon DEF Open
<1>2. edit.new = {}
  BY NoOpFields DEF Tags
<1>3. /\ op'.edit.new = {}
      /\ \/ op'.call = "newdb" /\ op'.at = "create" /\ Dir(disk).cur = 0
         \/ op'.call = "open" /\ op'.at = "recover" /\ Dir(disk).cur # 0
  BY <1>1, <1>2, NoOpFields DEF OpFields
<1>4. ~bg_error /\ compaction = NoCompaction
  BY <1>1 DEF CrashInv, CallInv
<1>5. DirInv' /\ KnownInv' /\ CallInv'
  BY <1>1, <1>3, <1>4, DirSame DEF KnownInv, Known, CallInv
<1>6. EditState' /\ OutState' /\ BuildState' /\ RemoveState'
  BY <1>1, <1>3, <1>4, NoBuild, NoRemove DEF EditState, OutState, Replaying
<1>7. LogState'
  BY <1>3, NoLog, CreateBegun DEF NewManifest, Logging, Whole
<1>8. OpenSucceeds'
  BY <1>1, NotCorrupt
<1>. QED BY <1>5, <1>6, <1>7, <1>8 DEF CrashInv

LEMMA EndCrash == CrashInv /\ RecInv' /\ (Close \/ Die) => CrashInv'
<1>. SUFFICES ASSUME CrashInv, RecInv', Close \/ Die PROVE CrashInv'
  OBVIOUS
<1>1. pc' = "closed" /\ Forget /\ UNCHANGED <<disk, lax, lost>>
  BY DEF Close, Die, history
<1>. QED BY <1>1, DirSame, ForgetCrash

LEMMA RecoverCorruptCrash == CrashInv /\ RecInv' /\ RecoverCorrupt => CrashInv'
<1>. SUFFICES ASSUME CrashInv, RecInv', RecoverCorrupt PROVE CrashInv'
  OBVIOUS
<1>1. /\ op.at = "recover" /\ ~Openable(disk, Dir(disk)) /\ Forget /\ pc' = "corrupt"
      /\ UNCHANGED <<disk, lax, lost>>
  BY DEF RecoverCorrupt, history
<1>2. ~(Intact /\ ~lost)
  <2>. SUFFICES ASSUME Intact, ~lost PROVE FALSE
    OBVIOUS
  <2>1. Dir(disk).cur # 0 /\ CurOK(disk) /\ FoundNow(disk)
    BY <1>1 DEF CrashInv, CallInv, DirInv
  <2>2. ~Spoilt(disk.data[CM(Dir(disk))])
    <3>1. CM(Dir(disk)) \in DOMAIN disk.data
      BY <2>1, DirFacts DEF Leads
    <3>. QED BY <3>1 DEF Intact, CM, Manifest
  <2>. QED BY <1>1, <2>1, <2>2, DiskOpens
<1>3. OpenSucceeds'
  BY <1>1, <1>2 DEF OpenSucceeds, Intact
<1>4. /\ op' = NoOp /\ versions' = NewVersionSet /\ compaction' = NoCompaction /\ bg_error' = FALSE
      /\ DirInv'
  BY <1>1, DirSame DEF Forget
<1>5. /\ op'.at = "none" /\ op'.call = "none" /\ op'.edit.new = {}
  BY <1>4, NoOpFields
<1>6. KnownInv' /\ CallInv' /\ EditState' /\ OutState'
  BY <1>1, <1>4, <1>5 DEF KnownInv, Known, CallInv, EditState, OutState
<1>7. LogState' /\ BuildState' /\ RemoveState'
  BY <1>5, NoLog, NoBuild, NoRemove DEF Logging, Whole, Replaying
<1>. QED BY <1>3, <1>4, <1>6, <1>7 DEF CrashInv
LEMMA RecoverCrash == CrashInv /\ RecInv' /\ Recover => CrashInv'
<1>. SUFFICES ASSUME CrashInv, RecInv', Recover PROVE CrashInv'
  OBVIOUS
<1>. PICK none : none = {}
  OBVIOUS
<1>. PICK dir : dir = Dir(disk)
  OBVIOUS
<1>. PICK recs : recs = disk.data[Manifest(dir.cur)]
  OBVIOUS
<1>. PICK synced : synced = disk.synced[Manifest(dir.cur)]
  OBVIOUS
<1>. PICK m : m = ReadManifest(Records(recs))
  OBVIOUS
<1>. PICK x : x = The(m.next)
  OBVIOUS
<1>. DEFINE vs == [manifest |-> x, log_open |-> FALSE, next |-> x + 1,
                   last |-> The(m.last), wal |-> The(m.wal), files |-> m.files]
            begin == [op EXCEPT !.at = "replay", !.wals = WalsFrom(dir, vs.wal)]
<1>1. /\ op.at = "recover" /\ Openable(disk, Dir(disk))
      /\ UNCHANGED <<disk, pc, compaction, bg_error, lost>>
  BY DEF Recover
<1>2. \/ /\ versions' = [vs EXCEPT !.manifest = dir.cur, !.log_open = TRUE] /\ op' = begin
         /\ lax' = (lax \/ synced < Len(recs))
      \/ versions' = vs /\ op' = [begin EXCEPT !.save = TRUE] /\ lax' = lax
  BY Zenon DEF Recover
<1>3. /\ dir.cur # 0 /\ CM(dir) = Manifest(dir.cur) /\ dir \in States(disk) /\ dir.cur \in Nat
      /\ CM(dir) \in dir.files /\ synced \in 0..Len(recs) /\ DiskOK(disk) /\ CurOK(disk)
  BY <1>1, DirFacts DEF CrashInv, CallInv, CM, Leads
<1>4. IsSeq(recs) /\ Len(recs) \in Nat
  <2>1. GoodManifest(dir.cur, recs)
    BY <1>3, StatesOK
  <2>. QED BY <2>1, SeqFacts DEF GoodManifest
<1>5. x \in Nat /\ dir.cur < x /\ NewsBelow(recs, x)
  BY <1>1, <1>3, OpenableReads
<1>6. m.files = FilesOf(recs)
  BY <1>4, RecordsRead DEF FilesOf
<1>. PICK files : files = m.files
  OBVIOUS
<1>7. /\ versions'.next = x + 1 /\ versions'.files = files
      /\ \/ versions'.manifest = dir.cur /\ versions'.log_open = TRUE
         \/ versions'.manifest = x /\ versions'.log_open = FALSE
  <2>1. /\ DOMAIN vs = VersionFields /\ vs.next = x + 1 /\ vs.files = files
        /\ vs.manifest = x /\ vs.log_open = FALSE
    BY DEF VersionFields
  <2>. HIDE DEF vs
  <2>2. versions' = vs \/ versions' = [vs EXCEPT !.manifest = dir.cur, !.log_open = TRUE]
    BY <1>2
  <2>. QED BY <2>1, <2>2 DEF VersionFields
<1>8. op'.at = "replay" /\ op'.call = op.call /\ op'.edit = op.edit
  BY <1>2 DEF CrashInv, RecInv, OpInv, OpFields
<1>. HIDE DEF begin
<1>9. versions'.log_open => lax' \/ synced = Len(recs)
  <2>1. versions'.log_open => lax' = (lax \/ synced < Len(recs))
    <3>1. vs.log_open = FALSE
      OBVIOUS
    <3>. HIDE DEF vs
    <3>. QED BY <1>2, <3>1
  <2>2. synced = Len(recs) \/ synced < Len(recs)
    BY <1>3, <1>4
  <2>. QED BY <2>1, <2>2
<1>10. lax => lax'
  BY <1>2
<1>. HIDE DEF vs
<1>11. pc = "opening" /\ op.call # "newdb"
  <2>1. op # NoOp /\ op.call # "newdb" /\ ~versions.log_open
    BY <1>1, NewVersionFields, NoOpFields DEF CrashInv, RecInv, OpInv, Logging, Whole
  <2>. QED BY <2>1 DEF CrashInv, RecInv, OpInv, LogInv
<1>12. DirInv'
  BY <1>1, <1>10 DEF CrashInv, DirInv
<1>13. KnownInv'
  <2>1. BelowIn(disk', Dir(disk').cur, versions'.next)
    <3>1. BelowIn(disk, dir.cur, x)
      BY <1>5 DEF BelowIn
    <3>2. x + 1 \in Nat /\ x <= x + 1
      BY <1>5
    <3>3. BelowIn(disk, dir.cur, x + 1)
      BY <1>3, <1>5, <3>1, <3>2, BelowMore
    <3>. QED BY <1>1, <1>7, <3>3
  <2>2. ~lost' => \A n \in versions'.files : Has(Dir(disk'), n)
    <3>1. ~lost => \A n \in FilesOf(recs) : Has(dir, n)
      BY <1>3 DEF CrashInv, DirInv, FoundNow
    <3>. QED BY <1>1, <1>6, <1>7, <3>1
  <2>3. FilesOf(disk'.data[CM(Dir(disk'))]) = versions'.files
    BY <1>1, <1>3, <1>6, <1>7
  <2>4. IF versions'.log_open THEN versions'.manifest = Dir(disk').cur
        ELSE versions'.manifest > Dir(disk').cur
    BY <1>1, <1>3, <1>5, <1>7
  <2>. QED BY <1>1, <1>3, <2>1, <2>2, <2>3, <2>4 DEF KnownInv
<1>14. CallInv'
  BY <1>1, <1>8, <1>11 DEF CrashInv, CallInv
<1>15. RemoveState'
  <2>1. Relied' => lax' \/ disk'.synced[CM(Dir(disk'))] = Len(disk'.data[CM(Dir(disk'))])
    BY <1>1, <1>3, <1>8, <1>9 DEF Relied
  <2>. QED BY <1>8, <2>1 DEF RemoveState
<1>16. EditState' /\ OutState'
  <2>1. Evolves(disk, disk', none, none) /\ op'.edit.new \subseteq op.edit.new
    BY <1>1, <1>8, DirFacts, EvolvesSame
  <2>2. (\A n \in op.edit.new : Sst(n) \notin none) /\ Sst(compaction.out) \notin none
    OBVIOUS
  <2>. QED BY <1>1, <2>1, <2>2, EditKept, OutKept
<1>17. LogState' /\ BuildState' /\ OpenSucceeds'
  BY <1>1, <1>8, <1>11, NoLog, NoBuild, NotCorrupt DEF Logging, Whole
<1>. QED BY <1>12, <1>13, <1>14, <1>15, <1>16, <1>17 DEF CrashInv
LEMMA PowerFailsCrash == CrashInv /\ RecInv' /\ PowerFails => CrashInv'
<1>. SUFFICES ASSUME CrashInv, RecInv', PowerFails PROVE CrashInv'
  OBVIOUS
<1>1. /\ pc = "closed" /\ UNCHANGED <<pc, op, versions, compaction, bg_error, lax>>
      /\ lost' = (lost \/ lax)
  BY DEF PowerFails, processVars
<1>2. PICK i \in DOMAIN disk.dir, torn \in BOOLEAN :
         LET dir == disk.dir[i]
             loose == {f \in dir.files : disk.synced[f] < Len(disk.data[f])}
         IN  \E len \in [loose -> UNION {0..Len(disk.data[f]) : f \in loose}] :
               /\ \A f \in loose : len[f] >= disk.synced[f] /\ len[f] <= Len(disk.data[f])
               /\ disk' = LET data == [f \in dir.files |-> IF f \in loose THEN CutTo(f, len[f], torn)
                                                           ELSE disk.data[f]]
                          IN  [dir |-> <<dir>>, data |-> data, synced |-> [f \in dir.files |-> Len(data[f])]]
  BY Zenon DEF PowerFails
<1>. PICK dir : dir = disk.dir[i]
  OBVIOUS
<1>. PICK loose : loose = {f \in dir.files : disk.synced[f] < Len(disk.data[f])}
  OBVIOUS
<1>3. PICK len \in [loose -> UNION {0..Len(disk.data[f]) : f \in loose}] :
         /\ \A f \in loose : len[f] >= disk.synced[f] /\ len[f] <= Len(disk.data[f])
         /\ disk' = LET data == [f \in dir.files |-> IF f \in loose THEN CutTo(f, len[f], torn)
                                                     ELSE disk.data[f]]
                    IN  [dir |-> <<dir>>, data |-> data, synced |-> [f \in dir.files |-> Len(data[f])]]
  BY <1>2, Zenon
<1>. PICK new : new = disk'
  OBVIOUS
<1>4. /\ new.dir = <<dir>> /\ DOMAIN new.data = dir.files /\ DOMAIN new.synced = dir.files
      /\ \A f \in dir.files : /\ new.data[f] = IF f \in loose THEN CutTo(f, len[f], torn) ELSE disk.data[f]
                              /\ new.synced[f] = Len(new.data[f])
  BY <1>3
<1>5. dir \in States(disk) /\ CurOK(disk)
  BY DirFacts DEF States
<1>6. Base(new)
  BY <1>4 DEF RecInv, DiskInv, Base
<1>7. ASSUME dir.cur # 0
      PROVE  /\ new.synced[CM(dir)] = Len(new.data[CM(dir)])
             /\ Shortened(disk.data[CM(dir)], disk.synced[CM(dir)], new.data[CM(dir)])
  <2>. PICK f : f = CM(dir)
    OBVIOUS
  <2>. PICK recs : recs = disk.data[f]
    OBVIOUS
  <2>. PICK s : s = disk.synced[f]
    OBVIOUS
  <2>1. f \in dir.files /\ s \in 0..Len(recs)
    BY <1>5, <1>7 DEF CurOK, Leads
  <2>2. IsSeq(recs) /\ Len(recs) \in Nat
    <3>1. GoodManifest(dir.cur, recs)
      BY <1>5, <2>1, StatesOK DEF CurOK, Base
    <3>. QED BY <3>1, SeqFacts DEF GoodManifest
  <2>3. CASE f \in loose
    <3>. PICK l : l = len[f]
      OBVIOUS
    <3>1. l \in s..Len(recs)
      <4>1. l \in UNION {0..Len(disk.data[g]) : g \in loose}
        BY <1>3, <2>3
      <4>2. PICK m : l \in 0..m
        BY <4>1
      <4>3. l >= s /\ l <= Len(recs)
        BY <1>3, <2>3
      <4>. QED BY <2>1, <2>2, <4>2, <4>3
    <3>. PICK rest : rest = SubSeq(recs, 1, l)
      OBVIOUS
    <3>2. new.data[f] = CutTo(f, l, torn)
      BY <1>4, <2>1, <2>3
    <3>3. CutTo(f, l, torn) \in {rest, Append(rest, Torn)}
      BY Zenon DEF CutTo
    <3>4. new.data[f] \in {SubSeq(recs, 1, l), Append(SubSeq(recs, 1, l), Torn)}
      BY <3>2, <3>3, Zenon
    <3>5. Shortened(recs, s, new.data[f])
      BY <3>1, <3>4, Zenon DEF Shortened
    <3>. QED BY <1>4, <2>1, <3>5
  <2>4. CASE f \notin loose
    <3>1. new.data[f] = recs /\ ~(s < Len(recs))
      BY <1>4, <2>1, <2>4
    <3>2. s = Len(recs) /\ Len(recs) \in s..Len(recs)
      BY <2>1, <2>2, <3>1
    <3>3. SubSeq(recs, 1, Len(recs)) = recs
      BY <2>2, WholePrefix
    <3>. QED BY <1>4, <2>1, <3>1, <3>2, <3>3 DEF Shortened
  <2>. QED BY <2>3, <2>4
<1>8. CurOK(new) /\ (FoundLater(disk) => FoundNow(new) /\ FoundLater(new))
  BY <1>4, <1>5, <1>6, <1>7, CutKept
<1>9. DirInv'
  <2>1. ~lax => FoundLater(disk)
    BY DEF CrashInv, DirInv
  <2>2. (~lost' => ~lax) /\ (lost' => lax')
    BY <1>1 DEF CrashInv, DirInv
  <2>. QED BY <1>1, <1>8, <2>1, <2>2 DEF DirInv
<1>10. /\ op' = NoOp /\ versions' = NewVersionSet /\ pc' = "closed"
       /\ ~bg_error' /\ compaction' = NoCompaction
  BY <1>1 DEF CrashInv, RecInv, OpInv, CallInv
<1>11. /\ op'.at = "none" /\ op'.call = "none" /\ op'.edit.new = {}
  BY <1>10, NoOpFields
<1>12. KnownInv' /\ CallInv' /\ EditState' /\ OutState'
  BY <1>10, <1>11 DEF KnownInv, Known, CallInv, EditState, OutState
<1>13. LogState' /\ BuildState' /\ RemoveState' /\ OpenSucceeds'
  BY <1>10, <1>11, NoLog, NoBuild, NoRemove, NotCorrupt DEF Logging, Whole, Replaying
<1>. QED BY <1>9, <1>12, <1>13 DEF CrashInv
-----------------------------------------------------------------------------
(***************************************************************************)
(* OpenSucceeds                                                            *)
(***************************************************************************)
LEMMA InitCrash == Init => CrashInv
<1>. SUFFICES ASSUME Init PROVE CrashInv
  OBVIOUS
<1>1. /\ op = NoOp /\ versions = NewVersionSet /\ compaction = NoCompaction /\ ~bg_error
      /\ pc = "closed" /\ disk = EmptyDisk /\ ~lax /\ ~lost
  BY DEF Init
<1>2. RecInv
  BY InitInv
<1>3. disk.dir = <<EmptyDir>> /\ DOMAIN disk.data = DOMAIN disk.synced
  BY <1>1 DEF EmptyDisk
<1>4. States(disk) = {EmptyDir} /\ Dir(disk) = EmptyDir /\ EmptyDir.cur = 0
  BY <1>3 DEF States, Dir, Last, EmptyDir
<1>5. DirInv
  BY <1>1, <1>2, <1>3, <1>4 DEF RecInv, DiskInv, DirInv, CurOK, Base, FoundNow, FoundLater
<1>6. op.at = "none" /\ op.call = "none" /\ op.edit.new = {}
  BY <1>1, NoOpFields
<1>7. KnownInv /\ CallInv /\ EditState /\ OutState
  BY <1>1, <1>6 DEF KnownInv, Known, CallInv, EditState, OutState
<1>8. LogState /\ BuildState /\ RemoveState /\ OpenSucceeds
  BY <1>1, <1>6 DEF LogState, Whole, BuildState, RemoveState, Relied, Replaying, OpenSucceeds
<1>. QED BY <1>2, <1>5, <1>7, <1>8 DEF CrashInv

LEMMA StutterCrash == CrashInv /\ RecInv' /\ UNCHANGED vars => CrashInv'
<1>. SUFFICES ASSUME CrashInv, RecInv', UNCHANGED vars PROVE CrashInv'
  OBVIOUS
<1>1. UNCHANGED <<disk, pc, op, versions, compaction, bg_error, lax, lost>>
  BY Zenon DEF vars, processVars
<1>2. DirInv' /\ KnownInv' /\ CallInv' /\ EditState' /\ OutState'
  BY <1>1 DEF CrashInv, DirInv, KnownInv, Known, CallInv, EditState, OutState
<1>3. BuildState' /\ RemoveState' /\ OpenSucceeds'
  BY <1>1 DEF CrashInv, BuildState, RemoveState, Relied, OpenSucceeds, Intact
<1>4. LogState'
  BY <1>1 DEF CrashInv, LogState, NewManifest, Target, ManifestNumber, Edited
<1>. QED BY <1>2, <1>3, <1>4 DEF CrashInv

LEMMA NextCrash == CrashInv /\ [Next]_vars => CrashInv'
<1>. SUFFICES ASSUME CrashInv, [Next]_vars PROVE CrashInv'
  OBVIOUS
<1>1. RecInv'
  BY NextInv DEF CrashInv
<1>2. CASE UNCHANGED vars
  BY <1>1, <1>2, StutterCrash
<1>3. CASE Open \/ Recover \/ RecoverCorrupt
  BY <1>1, <1>3, OpenCrash, RecoverCrash, RecoverCorruptCrash
<1>4. CASE ReplayFull \/ ReplayReuse \/ ReplayEnd \/ FinishRecover
  BY <1>1, <1>4, ReplayFullCrash, ReplayReuseCrash, ReplayEndCrash, FinishRecoverCrash
<1>5. CASE CreateManifest \/ WriteSnapshot \/ WriteEdit \/ SyncManifest \/ WriteTemp \/ RenameTemp
  BY <1>1, <1>5, CreateManifestCrash, WriteSnapshotCrash, WriteEditCrash, SyncManifestCrash,
     WriteTempCrash, RenameTempCrash
<1>6. CASE FinishBuild \/ RemoveOne \/ RemoveDone
  BY <1>1, <1>6, FinishBuildCrash, RemoveOneCrash, RemoveDoneCrash
<1>7. CASE \E sync \in BOOLEAN : WriteEntry(sync)
  BY <1>1, <1>7, WriteEntryCrash
<1>8. CASE Switch \/ Flush \/ Compact \/ FinishCompaction
  BY <1>1, <1>8, SwitchCrash, FlushCrash, CompactCrash, FinishCompactionCrash
<1>9. CASE Close \/ Die
  BY <1>1, <1>9, EndCrash
<1>10. CASE PowerFails
  BY <1>1, <1>10, PowerFailsCrash
<1>. QED BY <1>2, <1>3, <1>4, <1>5, <1>6, <1>7, <1>8, <1>9, <1>10, Zenon DEF Next

(* Whatever crashes, power failures, failed calls and restarts came before, *)
(* DBImpl::Recover finds a database: CURRENT names a MANIFEST that is there *)
(* and complete, and so are the files it names; with the exceptions that    *)
(* the property states.                                                     *)
THEOREM OpenAlwaysSucceeds == Spec => []OpenSucceeds
<1>1. Spec => []CrashInv
  BY InitCrash, NextCrash, PTL DEF Spec
<1>2. CrashInv => OpenSucceeds
  BY DEF CrashInv
<1>. QED BY <1>1, <1>2, PTL
=============================================================================
