---------------------------- MODULE CacheProofs ----------------------------
(***************************************************************************)
(* Proofs about LRUCache, for any keys, entries, charges and capacity, and  *)
(* about SSTCache, which makes every step of it a step of some thread, for  *)
(* any number of threads and files.                                         *)
(***************************************************************************)
EXTENDS SSTCache, SequenceTheorems, FiniteSetTheorems, WellFoundedInduction, TLAPS

(* The part of ListsAgree that is about one shard. *)
Lists(s) ==
    /\ IsInjective(s.lru)
    /\ ToSet(s.lru) = {h \in s.in_cache : s.refs[h] = 1}
    /\ s.in_use = {h \in s.in_cache : s.refs[h] > 1}

-----------------------------------------------------------------------------
(***************************************************************************)
(* Lists without repetitions                                               *)
(***************************************************************************)

(* Taking out what is not there changes nothing. *)
LEMMA RemoveAbsent ==
    ASSUME NEW S, NEW s \in Seq(S), NEW e, e \notin ToSet(s)
    PROVE  RemoveFirst(s, e) = s
BY DEF RemoveFirst, ToSet

(* In a list without repetitions, e is in one place. *)
LEMMA OnlyPlace ==
    ASSUME NEW S, NEW s \in Seq(S), IsInjective(s), NEW e,
           NEW i \in 1..Len(s), s[i] = e
    PROVE  RemoveFirst(s, e) = RemoveAt(s, i)
<1>. DEFINE I == {j \in 1..Len(s) : s[j] = e}
<1>1. I = {i}
  BY DEF IsInjective
<1>2. Min(I) = i
  BY <1>1 DEF Min
<1>3. SelectInSeq(s, LAMBDA v : v = e) = IF I # {} THEN Min(I) ELSE 0
  BY Zenon DEF SelectInSeq
<1>4. SelectInSeq(s, LAMBDA v : v = e) = i
  BY <1>1, <1>2, <1>3
<1>. QED
  BY <1>4 DEF RemoveFirst

(* The list without its i-th element. *)
LEMMA RemoveAtFunction ==
    ASSUME NEW S, NEW s \in Seq(S), NEW i \in 1..Len(s)
    PROVE  RemoveAt(s, i) =
             [j \in 1..(Len(s) - 1) |-> IF j < i THEN s[j] ELSE s[j + 1]]
<1>. DEFINE a == SubSeq(s, 1, i - 1)
            b == SubSeq(s, i + 1, Len(s))
            r == [j \in 1..(Len(s) - 1) |-> IF j < i THEN s[j] ELSE s[j + 1]]
<1>1. a \in Seq(S) /\ Len(a) = i - 1 /\ \A j \in 1..(i - 1) : a[j] = s[j]
  BY SubSeqProperties
<1>2. /\ b \in Seq(S) /\ Len(b) = Len(s) - i
      /\ \A j \in 1..(Len(s) - i) : b[j] = s[j + i]
  BY SubSeqProperties
<1>. HIDE DEF a, b
<1>3. /\ a \o b \in Seq(S) /\ Len(a \o b) = Len(s) - 1
      /\ \A j \in 1..(Len(s) - 1) :
            (a \o b)[j] = IF j <= i - 1 THEN a[j] ELSE b[j - (i - 1)]
  <2>1. /\ a \o b \in Seq(S) /\ Len(a \o b) = Len(a) + Len(b)
        /\ \A j \in 1..(Len(a) + Len(b)) :
              (a \o b)[j] = IF j <= Len(a) THEN a[j] ELSE b[j - Len(a)]
    BY <1>1, <1>2, ConcatProperties
  <2>2. Len(a) + Len(b) = Len(s) - 1 /\ Len(a) = i - 1
    BY <1>1, <1>2
  <2>. QED BY <2>1, <2>2
<1>4. r \in Seq(S) /\ Len(r) = Len(s) - 1
  OBVIOUS
<1>5. ASSUME NEW j \in 1..(Len(s) - 1) PROVE (a \o b)[j] = r[j]
  <2>1. CASE j < i
    BY <2>1, <1>1, <1>3
  <2>2. CASE j >= i
    <3>1. (a \o b)[j] = b[j - (i - 1)]
      BY <2>2, <1>3
    <3>2. b[j - (i - 1)] = s[j - (i - 1) + i]
      BY <2>2, <1>2
    <3>. QED BY <3>1, <3>2, <2>2
  <2>3. i \in Int /\ j \in Int
    OBVIOUS
  <2>4. j < i \/ j >= i
    BY <2>3
  <2>. QED BY <2>1, <2>2, <2>4
<1>6. a \o b = r
  BY <1>3, <1>4, <1>5, SeqEqual
<1>. QED
  BY <1>6 DEF RemoveAt, a, b

(* LRU_Remove: e is gone, the others stay, still without repetitions. *)
LEMMA RemovePresent ==
    ASSUME NEW S, NEW s \in Seq(S), IsInjective(s), NEW e
    PROVE  /\ RemoveFirst(s, e) \in Seq(S)
           /\ IsInjective(RemoveFirst(s, e))
           /\ ToSet(RemoveFirst(s, e)) = ToSet(s) \ {e}
<1>1. CASE e \notin ToSet(s)
  BY <1>1, RemoveAbsent
<1>2. CASE e \in ToSet(s)
  <2>1. PICK i \in 1..Len(s) : s[i] = e
    BY <1>2 DEF ToSet
  <2>. DEFINE r == [j \in 1..(Len(s) - 1) |-> IF j < i THEN s[j] ELSE s[j + 1]]
  <2>3. RemoveFirst(s, e) = r
    BY <2>1, OnlyPlace, RemoveAtFunction
  <2>4. r \in Seq(S) /\ Len(r) = Len(s) - 1 /\ DOMAIN r = 1..(Len(s) - 1)
    OBVIOUS
  <2>5. IsInjective(r)
    BY DEF IsInjective
  <2>6. ToSet(r) = ToSet(s) \ {e}
    <3>1. ASSUME NEW x \in ToSet(r) PROVE x \in ToSet(s) \ {e}
      BY <2>1 DEF ToSet, IsInjective
    <3>2. ASSUME NEW x \in ToSet(s) \ {e} PROVE x \in ToSet(r)
      <4>1. PICK j \in 1..Len(s) : s[j] = x
        BY DEF ToSet
      <4>2. CASE j < i
        <5>. j \in DOMAIN r /\ r[j] = x
          BY <4>1, <4>2, <2>4
        <5>. QED BY DEF ToSet
      <4>3. CASE j > i
        <5>. (j - 1) \in DOMAIN r /\ r[j - 1] = x
          BY <4>1, <4>3, <2>4
        <5>. QED BY DEF ToSet
      <4>. QED BY <4>1, <4>2, <4>3, <2>1
    <3>. QED BY <3>1, <3>2
  <2>. QED
    BY <2>3, <2>4, <2>5, <2>6
<1>. QED
  BY <1>1, <1>2

(* LRU_Append *)
LEMMA AppendNew ==
    ASSUME NEW S, NEW s \in Seq(S), IsInjective(s), NEW e \in S, e \notin ToSet(s)
    PROVE  /\ Append(s, e) \in Seq(S)
           /\ IsInjective(Append(s, e))
           /\ ToSet(Append(s, e)) = ToSet(s) \cup {e}
<1>1. Append(s, e) \in Seq(S) /\ DOMAIN Append(s, e) = 1..(Len(s) + 1)
  OBVIOUS
<1>2. /\ \A i \in 1..Len(s) : Append(s, e)[i] = s[i]
      /\ Append(s, e)[Len(s) + 1] = e
  OBVIOUS
<1>3. IsInjective(Append(s, e))
  BY <1>1, <1>2 DEF IsInjective, ToSet
<1>4. ToSet(Append(s, e)) = ToSet(s) \cup {e}
  BY <1>1, <1>2 DEF ToSet
<1>. QED
  BY <1>1, <1>3, <1>4

-----------------------------------------------------------------------------
(***************************************************************************)
(* The private functions keep the two lists in step with the counts        *)
(***************************************************************************)

(* LRU_Remove takes e off both lists and leaves the rest of the shard. *)
LEMMA ListRemoved ==
    ASSUME NEW s \in Shards, IsInjective(s.lru), NEW e \in Handles
    PROVE  /\ LRU_Remove(s, e) \in Shards
           /\ LRU_Remove(s, e).refs = s.refs
           /\ LRU_Remove(s, e).in_cache = s.in_cache
           /\ LRU_Remove(s, e).freed = s.freed
           /\ LRU_Remove(s, e).table = s.table
           /\ LRU_Remove(s, e).usage = s.usage
           /\ LRU_Remove(s, e).in_use = s.in_use \ {e}
           /\ IsInjective(LRU_Remove(s, e).lru)
           /\ ToSet(LRU_Remove(s, e).lru) = ToSet(s.lru) \ {e}
<1>. DEFINE l == RemoveFirst(s.lru, e)
<1>1. s.lru \in Seq(Handles)
  BY DEF Shards
<1>2. l \in Seq(Handles) /\ IsInjective(l) /\ ToSet(l) = ToSet(s.lru) \ {e}
  BY <1>1, RemovePresent
<1>. HIDE DEF l
<1>3. LRU_Remove(s, e) = [s EXCEPT !.lru = l, !.in_use = @ \ {e}]
  BY DEF LRU_Remove, l
<1>. QED
  BY <1>2, <1>3 DEF Shards

(* A new handle of an entry of the cache. *)
LEMMA RefLists ==
    ASSUME NEW s \in Shards, Lists(s), NEW e \in Handles, e \in s.in_cache,
           s.refs[e] > 0
    PROVE  /\ Ref(s, e) \in Shards
           /\ Ref(s, e).refs = [s.refs EXCEPT ![e] = @ + 1]
           /\ Ref(s, e).in_cache = s.in_cache
           /\ Ref(s, e).freed = s.freed
           /\ Ref(s, e).table = s.table
           /\ Lists(Ref(s, e))
<1>. DEFINE m == LRU_Remove(s, e)
            r == [s.refs EXCEPT ![e] = @ + 1]
<1>0. s.refs \in [Handles -> Nat] /\ r \in [Handles -> Nat] /\ s.in_cache \subseteq Handles
  BY DEF Shards
<1>1. CASE s.refs[e] = 1
  <2>1. /\ m \in Shards /\ m.refs = s.refs /\ m.in_cache = s.in_cache
        /\ m.freed = s.freed /\ m.table = s.table
        /\ m.in_use = s.in_use \ {e}
        /\ IsInjective(m.lru) /\ ToSet(m.lru) = ToSet(s.lru) \ {e}
    BY ListRemoved DEF Lists
  <2>2. Ref(s, e) = [[m EXCEPT !.in_use = @ \cup {e}] EXCEPT !.refs[e] = @ + 1]
    BY <1>1 DEF Ref
  <2>. HIDE DEF m
  <2>3. /\ Ref(s, e) \in Shards /\ Ref(s, e).refs = r /\ Ref(s, e).in_cache = s.in_cache
        /\ Ref(s, e).freed = s.freed /\ Ref(s, e).table = s.table
        /\ Ref(s, e).lru = m.lru /\ Ref(s, e).in_use = (s.in_use \ {e}) \cup {e}
    <3>. DEFINE n == [m EXCEPT !.in_use = @ \cup {e}]
    <3>1. m.in_use \cup {e} \in SUBSET Handles
      BY <2>1 DEF Shards
    <3>2. /\ n \in Shards /\ n.refs = s.refs /\ n.in_cache = s.in_cache
          /\ n.freed = s.freed /\ n.table = s.table /\ n.lru = m.lru
          /\ n.in_use = (s.in_use \ {e}) \cup {e}
      BY <2>1, <3>1 DEF Shards
    <3>. HIDE DEF n
    <3>3. Ref(s, e) = [n EXCEPT !.refs = r]
      BY <2>2, <3>2 DEF n, Shards
    <3>. QED BY <3>2, <3>3, <1>0 DEF Shards
  <2>4. ToSet(m.lru) = {h \in s.in_cache : r[h] = 1}
    BY <2>1, <1>0, <1>1 DEF Lists
  <2>5. (s.in_use \ {e}) \cup {e} = {h \in s.in_cache : r[h] > 1}
    BY <2>1, <1>0, <1>1 DEF Lists
  <2>. QED
    BY <2>1, <2>3, <2>4, <2>5 DEF Lists
<1>2. CASE s.refs[e] # 1
  <2>1. Ref(s, e) = [s EXCEPT !.refs[e] = @ + 1]
    BY <1>2 DEF Ref
  <2>2. /\ Ref(s, e) \in Shards /\ Ref(s, e).refs = r /\ Ref(s, e).in_cache = s.in_cache
        /\ Ref(s, e).freed = s.freed /\ Ref(s, e).table = s.table
        /\ Ref(s, e).lru = s.lru /\ Ref(s, e).in_use = s.in_use
    BY <2>1, <1>0 DEF Shards
  <2>3. /\ {h \in s.in_cache : s.refs[h] = 1} = {h \in s.in_cache : r[h] = 1}
        /\ {h \in s.in_cache : s.refs[h] > 1} = {h \in s.in_cache : r[h] > 1}
    BY <1>0, <1>2
  <2>. QED
    BY <2>2, <2>3 DEF Lists
<1>. QED
  BY <1>1, <1>2

(* A reference is dropped: a client's, or the cache's own once the entry   *)
(* has left the cache.                                                     *)
LEMMA UnrefLists ==
    ASSUME NEW s \in Shards, Lists(s), NEW e \in Handles, s.refs[e] > 0,
           e \in s.in_cache => s.refs[e] > 1
    PROVE  /\ Unref(s, e) \in Shards
           /\ Unref(s, e).refs = [s.refs EXCEPT ![e] = @ - 1]
           /\ Unref(s, e).in_cache = s.in_cache
           /\ Unref(s, e).freed = IF s.refs[e] = 1 THEN s.freed \cup {e} ELSE s.freed
           /\ Unref(s, e).table = s.table
           /\ Lists(Unref(s, e))
<1>. DEFINE d == [s EXCEPT !.refs[e] = @ - 1]
            r == [s.refs EXCEPT ![e] = @ - 1]
            m == LRU_Remove(d, e)
            u == Unref(s, e)
<1>0. /\ s.refs \in [Handles -> Nat] /\ r \in [Handles -> Nat]
      /\ s.in_cache \subseteq Handles /\ r[e] = s.refs[e] - 1
      /\ \A h \in Handles : h # e => r[h] = s.refs[h]
  BY DEF Shards
<1>1. /\ d \in Shards /\ d.refs = r /\ d.in_cache = s.in_cache /\ d.freed = s.freed
      /\ d.table = s.table /\ d.lru = s.lru /\ d.in_use = s.in_use
  BY <1>0 DEF Shards
<1>. HIDE DEF d, r
<1>2. CASE s.refs[e] = 1
  <2>1. r[e] = 0
    BY <1>0, <1>2
  <2>2. u = [d EXCEPT !.freed = @ \cup {e}]
    BY <2>1, <1>1 DEF Unref, d
  <2>3. /\ u \in Shards /\ u.refs = r /\ u.in_cache = s.in_cache
        /\ u.freed = s.freed \cup {e} /\ u.table = s.table
        /\ u.lru = s.lru /\ u.in_use = s.in_use
    <3>1. d.freed \cup {e} \in SUBSET Handles
      BY <1>1 DEF Shards
    <3>. QED BY <2>2, <3>1, <1>1 DEF Shards
  <2>4. e \notin s.in_cache
    BY <1>2
  <2>5. /\ {h \in s.in_cache : s.refs[h] = 1} = {h \in s.in_cache : r[h] = 1}
        /\ {h \in s.in_cache : s.refs[h] > 1} = {h \in s.in_cache : r[h] > 1}
    BY <2>4, <1>0
  <2>. QED
    BY <2>3, <2>5, <1>2 DEF Lists, r
<1>3. CASE s.refs[e] # 1 /\ e \in s.in_cache /\ s.refs[e] = 2
  <2>1. r[e] = 1
    BY <1>0, <1>3
  <2>2. /\ m \in Shards /\ m.refs = r /\ m.in_cache = s.in_cache
        /\ m.freed = s.freed /\ m.table = s.table
        /\ m.in_use = s.in_use \ {e}
        /\ IsInjective(m.lru) /\ ToSet(m.lru) = ToSet(s.lru) \ {e}
    BY <1>1, ListRemoved DEF Lists
  <2>. HIDE DEF m
  <2>3. /\ Append(m.lru, e) \in Seq(Handles) /\ IsInjective(Append(m.lru, e))
        /\ ToSet(Append(m.lru, e)) = ToSet(s.lru) \cup {e}
    <3>1. m.lru \in Seq(Handles) /\ e \notin ToSet(m.lru)
      BY <2>2 DEF Shards
    <3>. QED BY <3>1, <2>2, AppendNew
  <2>4. u = [m EXCEPT !.lru = Append(@, e)]
    BY <2>1, <1>1, <1>3 DEF Unref, d, m
  <2>5. /\ u \in Shards /\ u.refs = r /\ u.in_cache = s.in_cache
        /\ u.freed = s.freed /\ u.table = s.table
        /\ u.lru = Append(m.lru, e) /\ u.in_use = s.in_use \ {e}
    BY <2>2, <2>3, <2>4 DEF Shards
  <2>6. ToSet(s.lru) \cup {e} = {h \in s.in_cache : r[h] = 1}
    BY <2>1, <1>0, <1>3 DEF Lists
  <2>7. s.in_use \ {e} = {h \in s.in_cache : r[h] > 1}
    BY <2>1, <1>0, <1>3 DEF Lists
  <2>. QED
    BY <2>3, <2>5, <2>6, <2>7, <1>3 DEF Lists, r
<1>4. CASE s.refs[e] # 1 /\ ~(e \in s.in_cache /\ s.refs[e] = 2)
  <2>1. r[e] # 0 /\ (e \in s.in_cache => r[e] > 1)
    BY <1>0, <1>4
  <2>2. u = d
    BY <2>1, <1>0, <1>1, <1>4 DEF Unref, d
  <2>3. /\ {h \in s.in_cache : s.refs[h] = 1} = {h \in s.in_cache : r[h] = 1}
        /\ {h \in s.in_cache : s.refs[h] > 1} = {h \in s.in_cache : r[h] > 1}
    BY <2>1, <1>0, <1>4
  <2>. QED
    BY <2>2, <2>3, <1>1, <1>4 DEF Lists, r
<1>. QED
  BY <1>2, <1>3, <1>4

(* An entry leaves the cache. *)
LEMMA EraseLists ==
    ASSUME NEW s \in Shards, Lists(s), NEW e \in Handles, e \in s.in_cache,
           s.refs[e] > 0, charge \in [Handles -> Nat]
    PROVE  /\ FinishErase(s, e) \in Shards
           /\ FinishErase(s, e).refs = [s.refs EXCEPT ![e] = @ - 1]
           /\ FinishErase(s, e).in_cache = s.in_cache \ {e}
           /\ FinishErase(s, e).freed =
                 IF s.refs[e] = 1 THEN s.freed \cup {e} ELSE s.freed
           /\ FinishErase(s, e).table = s.table
           /\ Lists(FinishErase(s, e))
<1>. DEFINE m == LRU_Remove(s, e)
            x == [m EXCEPT !.in_cache = @ \ {e}, !.usage = @ - charge[e]]
<1>1. /\ m \in Shards /\ m.refs = s.refs /\ m.in_cache = s.in_cache
      /\ m.freed = s.freed /\ m.table = s.table /\ m.in_use = s.in_use \ {e}
      /\ IsInjective(m.lru) /\ ToSet(m.lru) = ToSet(s.lru) \ {e}
  BY ListRemoved DEF Lists
<1>2. FinishErase(s, e) = Unref(x, e)
  BY LRUCacheAssumption DEF FinishErase
<1>. HIDE DEF m
<1>3. /\ x \in Shards /\ x.refs = s.refs /\ x.in_cache = s.in_cache \ {e}
      /\ x.freed = s.freed /\ x.table = s.table /\ x.in_use = s.in_use \ {e}
      /\ x.lru = m.lru
  <2>1. m.in_cache \ {e} \in SUBSET Handles /\ m.usage - charge[e] \in Int
    BY <1>1 DEF Shards
  <2>. QED BY <2>1, <1>1 DEF Shards
<1>. HIDE DEF x
<1>4. Lists(x)
  BY <1>1, <1>3 DEF Lists
<1>. QED
  BY <1>2, <1>3, <1>4, UnrefLists
-----------------------------------------------------------------------------
(***************************************************************************)
(* The inductive invariant                                                 *)
(***************************************************************************)

Counts == \A h \in Handles :
    shard.refs[h] = held[h] + (IF h \in shard.in_cache THEN 1 ELSE 0)

Freed == \A h \in Handles :
    h \in shard.freed <=> (key[h] # NoHandle /\ shard.refs[h] = 0)

Unused == \A h \in Handles : key[h] = NoHandle => held[h] = 0 /\ h \notin shard.in_cache

Tabled == mtx # "destroyed" =>
    \A k \in Keys, h \in Handles : shard.table[k] = h <=> (h \in shard.in_cache /\ key[h] = k)

CacheInv ==
    /\ TypeOK /\ Lists(shard)
    /\ Counts /\ Freed /\ Unused /\ Tabled /\ NoLeak

(* The invariant is established by the constructor. *)
LEMMA InitInv == Init => CacheInv
<1>. SUFFICES ASSUME Init PROVE CacheInv
  OBVIOUS
<1>. USE LRUCacheAssumption DEF Init
<1>1. TypeOK
  BY DEF TypeOK, Shards
<1>2. Lists(shard)
  <2>1. ToSet(shard.lru) = {}
    BY DEF ToSet
  <2>. QED BY <2>1 DEF Lists, IsInjective
<1>3. Counts
  BY DEF Counts
<1>4. Freed
  BY DEF Freed
<1>5. Unused
  BY DEF Unused
<1>6. Tabled
  BY DEF Tabled
<1>7. NoLeak
  BY DEF NoLeak
<1>. QED
  BY <1>1, <1>2, <1>3, <1>4, <1>5, <1>6, <1>7 DEF CacheInv

(* Erasing what the table has under k: the step of Erase and of the loops. *)
LEMMA EraseKeyInv ==
    ASSUME CacheInv, mtx # "destroyed", NEW k \in Keys,
           shard' = EraseKey(shard, k), UNCHANGED <<mtx, key, charge, held>>
    PROVE  CacheInv'
<1>. DEFINE s == TableRemove(shard, k)
            e == shard.table[k]
<1>0. shard \in Shards /\ key \in [Handles -> Keys \cup {NoHandle}] /\ charge \in [Handles -> Nat]
  BY DEF CacheInv, TypeOK
<1>1. /\ s \in Shards /\ s.refs = shard.refs /\ s.in_cache = shard.in_cache
      /\ s.lru = shard.lru /\ s.in_use = shard.in_use /\ s.freed = shard.freed
      /\ s.table = [shard.table EXCEPT ![k] = NoHandle]
  <2>1. [shard.table EXCEPT ![k] = NoHandle] \in [Keys -> Handles \cup {NoHandle}]
    BY <1>0 DEF Shards
  <2>. QED BY <2>1, <1>0 DEF TableRemove, Shards
<1>2. Lists(s)
  BY <1>1 DEF CacheInv, Lists
<1>3. shard' = FinishErase(s, e)
  BY DEF EraseKey
<1>4. /\ shard.refs \in [Handles -> Nat] /\ shard.table \in [Keys -> Handles \cup {NoHandle}]
      /\ held \in [Handles -> Nat]
  BY DEF CacheInv, TypeOK, Shards
<1>. HIDE DEF s
<1>5. CASE e = NoHandle
  <2>1. shard' = s
    BY <1>3, <1>5 DEF FinishErase
  <2>2. shard'.table = shard.table
    BY <2>1, <1>1, <1>4, <1>5
  <2>3. TypeOK'
    BY <2>1, <1>1 DEF CacheInv, TypeOK
  <2>. QED
    BY <2>1, <2>2, <2>3, <1>1, <1>2
    DEF CacheInv, Counts, Freed, Unused, Tabled, NoLeak, Allocated
<1>6. CASE e # NoHandle
  <2>1. e \in Handles /\ e \in shard.in_cache /\ key[e] = k /\ shard.refs[e] > 0
    BY <1>4, <1>6 DEF CacheInv, Tabled, Counts
  <2>2. /\ shard' \in Shards
        /\ shard'.refs = [shard.refs EXCEPT ![e] = @ - 1]
        /\ shard'.in_cache = shard.in_cache \ {e}
        /\ shard'.freed = IF shard.refs[e] = 1 THEN shard.freed \cup {e} ELSE shard.freed
        /\ shard'.table = [shard.table EXCEPT ![k] = NoHandle]
        /\ Lists(shard')
    <3>1. e \in s.in_cache /\ s.refs[e] > 0
      BY <2>1, <1>1
    <3>. HIDE DEF e
    <3>2. /\ FinishErase(s, e) \in Shards
          /\ FinishErase(s, e).refs = [s.refs EXCEPT ![e] = @ - 1]
          /\ FinishErase(s, e).in_cache = s.in_cache \ {e}
          /\ FinishErase(s, e).freed =
                IF s.refs[e] = 1 THEN s.freed \cup {e} ELSE s.freed
          /\ FinishErase(s, e).table = s.table
          /\ Lists(FinishErase(s, e))
      BY <3>1, <2>1, <1>0, <1>1, <1>2, EraseLists
    <3>. QED BY <3>2, <1>1, <1>3
  <2>3. TypeOK'
    BY <2>2 DEF CacheInv, TypeOK
  <2>4. Counts'
    BY <2>1, <2>2, <1>4 DEF CacheInv, Counts
  <2>5. Freed'
    <3>. SUFFICES ASSUME NEW h \in Handles
                  PROVE  h \in shard'.freed <=> (key[h] # NoHandle /\ shard'.refs[h] = 0)
      BY DEF Freed
    <3>1. h \in shard.freed <=> (key[h] # NoHandle /\ shard.refs[h] = 0)
      BY DEF CacheInv, Freed
    <3>2. CASE h = e
      <4>1. shard'.refs[h] = shard.refs[e] - 1 /\ key[h] # NoHandle
        BY <3>2, <2>1, <2>2, <1>4, LRUCacheAssumption
      <4>2. shard.refs[e] = 1 => h \in shard'.freed
        BY <3>2, <2>2
      <4>3. shard.refs[e] # 1 => h \notin shard'.freed
        BY <3>1, <3>2, <2>1, <2>2
      <4>. QED BY <4>1, <4>2, <4>3, <1>4, <2>1
    <3>3. CASE h # e
      <4>1. shard'.refs[h] = shard.refs[h]
        BY <3>3, <2>1, <2>2, <1>4
      <4>2. h \in shard'.freed <=> h \in shard.freed
        BY <3>3, <2>2
      <4>. QED BY <4>1, <4>2, <3>1
    <3>. QED BY <3>2, <3>3
  <2>6. Unused'
    BY <2>2 DEF CacheInv, Unused
  <2>7. Tabled'
    BY <2>1, <2>2, <1>4, LRUCacheAssumption DEF CacheInv, Tabled
  <2>8. NoLeak'
    BY DEF NoLeak
  <2>. QED
    BY <2>2, <2>3, <2>4, <2>5, <2>6, <2>7, <2>8 DEF CacheInv
<1>. QED
  BY <1>5, <1>6

(* The oldest entry of lru_, which the loops erase, has a key. *)
LEMMA OldestHasKey ==
    ASSUME CacheInv, shard.lru # <<>>
    PROVE  key[Head(shard.lru)] \in Keys
<1>1. shard.lru \in Seq(Handles) /\ key \in [Handles -> Keys \cup {NoHandle}]
  BY DEF CacheInv, TypeOK, Shards
<1>2. Head(shard.lru) \in Handles /\ Head(shard.lru) \in ToSet(shard.lru)
  BY <1>1 DEF ToSet
<1>3. Head(shard.lru) \in shard.in_cache
  BY <1>2 DEF CacheInv, Lists
<1>. QED
  BY <1>1, <1>2, <1>3 DEF CacheInv, Unused
(* A client looks an entry up. *)
LEMMA LookupInv ==
    ASSUME CacheInv, NEW k \in Keys, Lookup(k)
    PROVE  CacheInv'
<1>. DEFINE e == shard.table[k]
<1>0. /\ shard \in Shards /\ shard.refs \in [Handles -> Nat]
      /\ shard.table \in [Keys -> Handles \cup {NoHandle}] /\ held \in [Handles -> Nat]
  BY DEF CacheInv, TypeOK, Shards
<1>1. mtx = "free" /\ UNCHANGED <<mtx, key, charge>>
  BY DEF Lookup
<1>2. CASE e = NoHandle
  <2>1. UNCHANGED <<shard, held>>
    BY <1>2 DEF Lookup
  <2>. QED
    BY <2>1, <1>1 DEF CacheInv, TypeOK, Counts, Freed, Unused, Tabled, NoLeak, Allocated
<1>3. CASE e # NoHandle
  <2>1. e \in Handles /\ e \in shard.in_cache /\ shard.refs[e] > 0
    BY <1>0, <1>1, <1>3 DEF CacheInv, Tabled, Counts
  <2>2. shard' = Ref(shard, e) /\ held' = [held EXCEPT ![e] = @ + 1]
    BY <1>3 DEF Lookup
  <2>. HIDE DEF e
  <2>3. /\ shard' \in Shards
        /\ shard'.refs = [shard.refs EXCEPT ![e] = @ + 1]
        /\ shard'.in_cache = shard.in_cache
        /\ shard'.freed = shard.freed
        /\ shard'.table = shard.table
        /\ Lists(shard')
    BY <2>1, <2>2, <1>0, RefLists DEF CacheInv
  <2>4. TypeOK'
    BY <2>1, <2>2, <2>3, <1>0, <1>1 DEF CacheInv, TypeOK
  <2>5. Counts'
    BY <2>1, <2>2, <2>3, <1>0 DEF CacheInv, Counts
  <2>6. Freed'
    BY <2>1, <2>3, <1>0, <1>1 DEF CacheInv, Freed
  <2>7. Unused'
    BY <2>1, <2>2, <2>3, <1>0, <1>1 DEF CacheInv, Unused
  <2>8. Tabled' /\ NoLeak'
    BY <2>3, <1>1 DEF CacheInv, Tabled, NoLeak
  <2>. QED
    BY <2>3, <2>4, <2>5, <2>6, <2>7, <2>8 DEF CacheInv
<1>. QED
  BY <1>2, <1>3

(* A client gives a handle back. *)
LEMMA ReleaseInv ==
    ASSUME CacheInv, NEW h \in Handles, Release(h)
    PROVE  CacheInv'
<1>0. /\ shard \in Shards /\ shard.refs \in [Handles -> Nat] /\ held \in [Handles -> Nat]
  BY DEF CacheInv, TypeOK, Shards
<1>1. /\ mtx = "free" /\ UNCHANGED <<mtx, key, charge>> /\ held[h] > 0
      /\ shard' = Unref(shard, h) /\ held' = [held EXCEPT ![h] = @ - 1]
  BY DEF Release
<1>2. /\ shard.refs[h] > 0 /\ (h \in shard.in_cache => shard.refs[h] > 1)
      /\ (h \notin shard.in_cache => shard.refs[h] = held[h])
  BY <1>0, <1>1 DEF CacheInv, Counts
<1>3. key[h] # NoHandle
  BY <1>0, <1>1 DEF CacheInv, Unused
<1>4. /\ shard' \in Shards
      /\ shard'.refs = [shard.refs EXCEPT ![h] = @ - 1]
      /\ shard'.in_cache = shard.in_cache
      /\ shard'.freed = IF shard.refs[h] = 1 THEN shard.freed \cup {h} ELSE shard.freed
      /\ shard'.table = shard.table
      /\ Lists(shard')
  BY <1>0, <1>1, <1>2, UnrefLists DEF CacheInv
<1>5. TypeOK'
  <2>1. held' \in [Handles -> Nat]
    BY <1>0, <1>1
  <2>. QED BY <2>1, <1>1, <1>4 DEF CacheInv, TypeOK
<1>6. Counts'
  BY <1>0, <1>1, <1>4 DEF CacheInv, Counts
<1>7. Freed'
  <2>. SUFFICES ASSUME NEW g \in Handles
                PROVE  g \in shard'.freed <=> (key[g] # NoHandle /\ shard'.refs[g] = 0)
    BY <1>1 DEF Freed
  <2>1. g \in shard.freed <=> (key[g] # NoHandle /\ shard.refs[g] = 0)
    BY DEF CacheInv, Freed
  <2>2. CASE g = h
    <3>1. shard'.refs[g] = shard.refs[h] - 1
      BY <2>2, <1>0, <1>4
    <3>2. shard.refs[h] = 1 => g \in shard'.freed
      BY <2>2, <1>4
    <3>3. shard.refs[h] # 1 => g \notin shard'.freed
      BY <2>1, <2>2, <1>2, <1>4
    <3>. QED BY <3>1, <3>2, <3>3, <2>2, <1>0, <1>3
  <2>3. CASE g # h
    <3>1. shard'.refs[g] = shard.refs[g]
      BY <2>3, <1>0, <1>4
    <3>2. g \in shard'.freed <=> g \in shard.freed
      BY <2>3, <1>4
    <3>. QED BY <3>1, <3>2, <2>1
  <2>. QED BY <2>2, <2>3
<1>8. Unused'
  BY <1>0, <1>1, <1>3, <1>4 DEF CacheInv, Unused
<1>9. Tabled' /\ NoLeak'
  BY <1>1, <1>4 DEF CacheInv, Tabled, NoLeak
<1>. QED
  BY <1>4, <1>5, <1>6, <1>7, <1>8, <1>9 DEF CacheInv

(* The destructor frees what is left. *)
LEMMA DestroyInv ==
    ASSUME CacheInv, Destroy
    PROVE  CacheInv'
<1>. DEFINE L == ToSet(shard.lru)
            r == [h \in Handles |-> IF h \in L THEN 0 ELSE shard.refs[h]]
<1>0. /\ shard \in Shards /\ shard.refs \in [Handles -> Nat] /\ held \in [Handles -> Nat]
      /\ shard.in_cache \in SUBSET Handles /\ shard.freed \in SUBSET Handles
      /\ shard.in_use \in SUBSET Handles
  BY DEF CacheInv, TypeOK, Shards
<1>1. /\ mtx' = "destroyed" /\ UNCHANGED <<key, charge, held>>
      /\ \A h \in Handles : held[h] = 0
  BY DEF Destroy
<1>2. /\ L = {h \in shard.in_cache : shard.refs[h] = 1}
      /\ \A h \in shard.in_cache : shard.refs[h] = 1
      /\ \A h \in Handles \ shard.in_cache : shard.refs[h] = 0
  BY <1>0, <1>1 DEF CacheInv, Lists, Counts
<1>3. L = shard.in_cache
  BY <1>2
<1>4. shard' = [shard EXCEPT !.in_cache = @ \ L, !.refs = r, !.freed = @ \cup L, !.lru = <<>>]
  BY DEF Destroy, Leftovers
<1>5. r \in [Handles -> Nat] /\ \A h \in Handles : r[h] = 0
  BY <1>0, <1>2, <1>3
<1>. HIDE DEF L, r
<1>6. /\ shard' \in Shards /\ shard'.refs = r /\ shard'.in_cache = {}
      /\ shard'.freed = shard.freed \cup L /\ shard'.lru = <<>>
      /\ shard'.in_use = shard.in_use
  <2>1. /\ shard.in_cache \ L = {} /\ {} \in SUBSET Handles
        /\ shard.freed \cup L \in SUBSET Handles /\ <<>> \in Seq(Handles)
    BY <1>0, <1>3
  <2>. QED BY <2>1, <1>0, <1>4, <1>5 DEF Shards
<1>7. Lists(shard')
  <2>1. ToSet(shard'.lru) = {} /\ IsInjective(shard'.lru)
    BY <1>6 DEF ToSet, IsInjective
  <2>2. shard'.in_use = {}
    BY <1>2, <1>6 DEF CacheInv, Lists
  <2>. QED BY <2>1, <2>2, <1>6 DEF Lists
<1>8. TypeOK'
  BY <1>1, <1>6 DEF CacheInv, TypeOK
<1>9. Counts' /\ Unused' /\ Tabled'
  BY <1>1, <1>5, <1>6 DEF Counts, Unused, Tabled
<1>10. Freed'
  BY <1>1, <1>2, <1>3, <1>5, <1>6 DEF CacheInv, Freed, Unused
<1>11. NoLeak'
  BY <1>1, <1>5, <1>6, <1>10 DEF NoLeak, Freed, Allocated
<1>. QED
  BY <1>6, <1>7, <1>8, <1>9, <1>10, <1>11 DEF CacheInv
(* A new entry, and what becomes of one with the same key. *)
LEMMA InsertInv ==
    ASSUME CacheInv, NEW k \in Keys, NEW c \in Charges, NEW h \in Handles, Insert(k, c, h)
    PROVE  CacheInv'
<1>. USE LRUCacheAssumption
<1>0. /\ shard \in Shards /\ shard.refs \in [Handles -> Nat] /\ held \in [Handles -> Nat]
      /\ shard.in_cache \in SUBSET Handles /\ shard.in_use \in SUBSET Handles
      /\ shard.table \in [Keys -> Handles \cup {NoHandle}] /\ shard.usage \in Int
      /\ key \in [Handles -> Keys \cup {NoHandle}] /\ charge \in [Handles -> Nat]
  BY DEF CacheInv, TypeOK, Shards
<1>1. /\ mtx = "free" /\ mtx' = "insert" /\ key[h] = NoHandle
      /\ key' = [key EXCEPT ![h] = k] /\ charge' = [charge EXCEPT ![h] = c]
      /\ held' = [held EXCEPT ![h] = 1]
  BY DEF Insert, Allocated
<1>2. /\ shard.refs[h] = 0 /\ held[h] = 0 /\ h \notin shard.in_cache /\ h \notin shard.freed
      /\ h \notin shard.in_use /\ h \notin ToSet(shard.lru)
  BY <1>0, <1>1 DEF CacheInv, Unused, Counts, Freed, Lists
<1>3. /\ mtx' \in {"free", "insert", "prune", "destroyed"}
      /\ key' \in [Handles -> Keys \cup {NoHandle}]
      /\ charge' \in [Handles -> Nat] /\ held' \in [Handles -> Nat]
      /\ key'[h] = k /\ held'[h] = 1
      /\ \A g \in Handles : g # h => key'[g] = key[g] /\ held'[g] = held[g]
  BY <1>0, <1>1
<1>4. CASE Capacity = 0
  <2>. DEFINE r == [shard.refs EXCEPT ![h] = 1]
  <2>1. shard' = [shard EXCEPT !.refs = r]
    BY <1>4, <1>0 DEF Insert, Shards
  <2>2. r \in [Handles -> Nat] /\ r[h] = 1 /\ \A g \in Handles : g # h => r[g] = shard.refs[g]
    BY <1>0
  <2>. HIDE DEF r
  <2>3. /\ shard' \in Shards /\ shard'.refs = r /\ shard'.in_cache = shard.in_cache
        /\ shard'.freed = shard.freed /\ shard'.table = shard.table
        /\ shard'.lru = shard.lru /\ shard'.in_use = shard.in_use
    BY <2>1, <2>2, <1>0 DEF Shards
  <2>4. TypeOK'
    BY <2>3, <1>3 DEF TypeOK
  <2>5. Lists(shard')
    BY <2>2, <2>3, <1>0, <1>2 DEF CacheInv, Lists
  <2>6. Counts' /\ Unused'
    BY <2>2, <2>3, <1>0, <1>2, <1>3 DEF CacheInv, Counts, Unused
  <2>7. Freed'
    BY <2>2, <2>3, <1>2, <1>3 DEF CacheInv, Freed
  <2>8. Tabled'
    BY <2>3, <1>0, <1>1, <1>2, <1>3 DEF CacheInv, Tabled
  <2>9. NoLeak'
    BY <1>1 DEF NoLeak
  <2>. QED
    BY <2>4, <2>5, <2>6, <2>7, <2>8, <2>9 DEF CacheInv
<1>5. CASE Capacity # 0
  <2>. DEFINE old == shard.table[k]
              r == [shard.refs EXCEPT ![h] = 2]
              t == [shard.table EXCEPT ![k] = h]
              s == [shard EXCEPT !.refs = r, !.in_cache = @ \cup {h}, !.in_use = @ \cup {h},
                                 !.usage = shard.usage + c, !.table = t]
  <2>1. shard' = FinishErase(s, old)
    BY <1>5, <1>0 DEF Insert, Displace, AddUsage, Shards
  <2>2. /\ r \in [Handles -> Nat] /\ r[h] = 2
        /\ \A g \in Handles : g # h => r[g] = shard.refs[g]
        /\ t \in [Keys -> Handles \cup {NoHandle}] /\ t[k] = h
        /\ \A j \in Keys : j # k => t[j] = shard.table[j]
    BY <1>0
  <2>. HIDE DEF r, t
  <2>3. /\ s \in Shards /\ s.refs = r /\ s.in_cache = shard.in_cache \cup {h}
        /\ s.freed = shard.freed /\ s.table = t
        /\ s.lru = shard.lru /\ s.in_use = shard.in_use \cup {h}
    <3>1. /\ shard.in_cache \cup {h} \in SUBSET Handles
          /\ shard.in_use \cup {h} \in SUBSET Handles /\ shard.usage + c \in Int
      BY <1>0
    <3>. QED BY <3>1, <2>2, <1>0 DEF Shards
  <2>. HIDE DEF s
  <2>4. Lists(s)
    <3>1. ToSet(s.lru) = {g \in s.in_cache : s.refs[g] = 1}
      BY <2>2, <2>3, <1>0, <1>2 DEF CacheInv, Lists
    <3>2. s.in_use = {g \in s.in_cache : s.refs[g] > 1}
      BY <2>2, <2>3, <1>0, <1>2 DEF CacheInv, Lists
    <3>. QED BY <3>1, <3>2, <2>3 DEF CacheInv, Lists
  <2>5. CASE old = NoHandle
    <3>1. shard' = s
      BY <2>1, <2>5 DEF FinishErase
    <3>2. TypeOK'
      BY <3>1, <2>3, <1>3 DEF TypeOK
    <3>3. Counts' /\ Unused'
      BY <3>1, <2>2, <2>3, <1>0, <1>2, <1>3 DEF CacheInv, Counts, Unused
    <3>4. Freed'
      BY <3>1, <2>2, <2>3, <1>2, <1>3 DEF CacheInv, Freed
    <3>5. Tabled'
      BY <3>1, <2>2, <2>3, <2>5, <1>0, <1>1, <1>2, <1>3 DEF CacheInv, Tabled
    <3>6. NoLeak'
      BY <1>1 DEF NoLeak
    <3>. QED
      BY <3>1, <3>2, <3>3, <3>4, <3>5, <3>6, <2>4 DEF CacheInv
  <2>6. CASE old # NoHandle
    <3>1. /\ old \in Handles /\ old \in shard.in_cache /\ key[old] = k /\ old # h
          /\ shard.refs[old] > 0
      BY <2>6, <1>0, <1>1, <1>2 DEF CacheInv, Tabled, Counts
    <3>2. old \in s.in_cache /\ s.refs[old] = shard.refs[old] /\ s.refs[old] > 0
      BY <3>1, <2>2, <2>3
    <3>. HIDE DEF old
    <3>3. /\ shard' \in Shards
          /\ shard'.refs = [r EXCEPT ![old] = @ - 1]
          /\ shard'.in_cache = (shard.in_cache \cup {h}) \ {old}
          /\ shard'.freed = IF shard.refs[old] = 1 THEN shard.freed \cup {old} ELSE shard.freed
          /\ shard'.table = t
          /\ Lists(shard')
      <4>1. /\ FinishErase(s, old) \in Shards
            /\ FinishErase(s, old).refs = [s.refs EXCEPT ![old] = @ - 1]
            /\ FinishErase(s, old).in_cache = s.in_cache \ {old}
            /\ FinishErase(s, old).freed =
                  IF s.refs[old] = 1 THEN s.freed \cup {old} ELSE s.freed
            /\ FinishErase(s, old).table = s.table
            /\ Lists(FinishErase(s, old))
        BY <3>1, <3>2, <2>3, <2>4, <1>0, EraseLists
      <4>. QED BY <4>1, <3>2, <2>1, <2>3
    <3>4. /\ shard'.refs[h] = 2 /\ shard'.refs[old] = shard.refs[old] - 1
          /\ \A g \in Handles \ {h, old} : shard'.refs[g] = shard.refs[g]
      BY <3>1, <3>3, <2>2
    <3>5. TypeOK'
      BY <3>3, <1>3 DEF TypeOK
    <3>6. Counts'
      BY <3>1, <3>3, <3>4, <1>0, <1>2, <1>3 DEF CacheInv, Counts
    <3>7. Unused'
      BY <3>1, <3>3, <1>0, <1>2, <1>3 DEF CacheInv, Unused
    <3>8. Freed'
      <4>. SUFFICES ASSUME NEW g \in Handles
                    PROVE  g \in shard'.freed <=> (key'[g] # NoHandle /\ shard'.refs[g] = 0)
        BY DEF Freed
      <4>1. g \in shard.freed <=> (key[g] # NoHandle /\ shard.refs[g] = 0)
        BY DEF CacheInv, Freed
      <4>2. CASE g = h
        BY <4>2, <3>1, <3>3, <3>4, <1>2
      <4>3. CASE g = old
        <5>1. shard'.refs[g] = shard.refs[old] - 1 /\ key'[g] # NoHandle
          BY <4>3, <3>1, <3>4, <1>3
        <5>2. shard.refs[old] = 1 => g \in shard'.freed
          BY <4>3, <3>3
        <5>3. shard.refs[old] # 1 => g \notin shard'.freed
          BY <4>1, <4>3, <3>1, <3>3
        <5>. QED BY <5>1, <5>2, <5>3, <3>1, <1>0
      <4>4. CASE g # h /\ g # old
        <5>1. shard'.refs[g] = shard.refs[g] /\ key'[g] = key[g]
          BY <4>4, <3>4, <1>3
        <5>2. g \in shard'.freed <=> g \in shard.freed
          BY <4>4, <3>3
        <5>. QED BY <5>1, <5>2, <4>1
      <4>. QED BY <4>2, <4>3, <4>4
    <3>9. Tabled'
      <4>. SUFFICES ASSUME NEW j \in Keys, NEW g \in Handles
                    PROVE  t[j] = g <=> (g \in shard'.in_cache /\ key'[g] = j)
        BY <3>3 DEF Tabled
      <4>1. shard.table[j] = g <=> (g \in shard.in_cache /\ key[g] = j)
        BY <1>1 DEF CacheInv, Tabled
      <4>2. shard.table[k] = g <=> (g \in shard.in_cache /\ key[g] = k)
        BY <1>1 DEF CacheInv, Tabled
      <4>3. CASE g = h
        BY <4>3, <4>1, <3>1, <3>3, <2>2, <1>2, <1>3
      <4>4. CASE g = old
        BY <4>4, <4>1, <3>1, <3>3, <2>2, <1>2, <1>3
      <4>5. CASE g # h /\ g # old
        BY <4>5, <4>1, <4>2, <3>1, <3>3, <2>2, <1>2, <1>3 DEF old
      <4>. QED BY <4>3, <4>4, <4>5
    <3>10. NoLeak'
      BY <1>1 DEF NoLeak
    <3>. QED
      BY <3>3, <3>5, <3>6, <3>7, <3>8, <3>9, <3>10 DEF CacheInv
  <2>. QED
    BY <2>5, <2>6
<1>. QED
  BY <1>4, <1>5

(* Every step preserves the invariant. *)
LEMMA StepInv == CacheInv /\ [Next]_vars => CacheInv'
<1>. SUFFICES ASSUME CacheInv, [Next]_vars PROVE CacheInv'
  OBVIOUS
<1>1. ASSUME NEW k \in Keys, Lookup(k) PROVE CacheInv'
  BY <1>1, LookupInv
<1>2. ASSUME NEW k \in Keys, Erase(k) PROVE CacheInv'
  BY <1>2, EraseKeyInv DEF Erase
<1>3. ASSUME NEW k \in Keys, NEW c \in Charges, NEW h \in Handles, Insert(k, c, h)
      PROVE CacheInv'
  BY <1>3, InsertInv
<1>4. ASSUME NEW h \in Handles, Release(h) PROVE CacheInv'
  BY <1>4, ReleaseInv
<1>5. CASE Evict
  BY <1>5, EraseKeyInv, OldestHasKey DEF Evict
<1>6. CASE InsertDone \/ Prune \/ (PruneStep /\ shard.lru = <<>>)
  BY <1>6 DEF InsertDone, Prune, PruneStep, CacheInv, TypeOK, Counts, Freed, Unused,
              Tabled, NoLeak, Allocated
<1>7. CASE PruneStep /\ shard.lru # <<>>
  BY <1>7, EraseKeyInv, OldestHasKey DEF PruneStep
<1>8. CASE Destroy
  BY <1>8, DestroyInv
<1>9. CASE UNCHANGED vars
  BY <1>9 DEF vars, CacheInv, TypeOK, Counts, Freed, Unused, Tabled, NoLeak, Allocated
<1>. QED
  BY <1>1, <1>2, <1>3, <1>4, <1>5, <1>6, <1>7, <1>8, <1>9 DEF Next

(* The invariant says what the properties of LRUCache say. *)
LEMMA InvImplies ==
    CacheInv => TypeOK /\ RefCounts /\ ListsAgree /\ LookupExact /\ NoLeak
<1>. SUFFICES ASSUME CacheInv
              PROVE  TypeOK /\ RefCounts /\ ListsAgree /\ LookupExact /\ NoLeak
  OBVIOUS
<1>0. /\ shard.table \in [Keys -> Handles \cup {NoHandle}]
      /\ shard.in_cache \subseteq Handles /\ key \in [Handles -> Keys \cup {NoHandle}]
  BY DEF CacheInv, TypeOK, Shards
<1>1. TypeOK /\ NoLeak
  BY DEF CacheInv
<1>2. RefCounts
  BY DEF CacheInv, RefCounts, Counts, Freed, Allocated
<1>3. ListsAgree
  BY DEF CacheInv, ListsAgree, Lists
<1>4. LookupExact
  <2>. SUFFICES ASSUME mtx # "destroyed"
                PROVE  /\ shard.in_cache \subseteq Allocated
                       /\ \A h \in Allocated : h \in shard.in_cache <=> shard.table[key[h]] = h
                       /\ \A k \in Keys : shard.table[k] # NoHandle => key[shard.table[k]] = k
    BY Zenon DEF LookupExact
  <2>1. shard.in_cache \subseteq Allocated
    BY <1>0 DEF CacheInv, Unused, Allocated
  <2>2. ASSUME NEW h \in Allocated PROVE h \in shard.in_cache <=> shard.table[key[h]] = h
    BY <1>0 DEF CacheInv, Tabled, Allocated
  <2>3. ASSUME NEW k \in Keys, shard.table[k] # NoHandle PROVE key[shard.table[k]] = k
    BY <2>3, <1>0 DEF CacheInv, Tabled
  <2>. QED BY <2>1, <2>2, <2>3
<1>. QED
  BY <1>1, <1>2, <1>3, <1>4

(* Every reachable state of a shard satisfies the invariant. *)
THEOREM CacheInvariant == Spec => []CacheInv
<1>1. Init => CacheInv
  BY InitInv
<1>2. CacheInv /\ [Next]_vars => CacheInv'
  BY StepInv
<1>. QED
  BY <1>1, <1>2, PTL DEF Spec

(* The shard is well typed; in particular no reference count goes negative. *)
THEOREM CacheTypeCorrect == Spec => []TypeOK
BY CacheInvariant, InvImplies, PTL

(* LRUCache::Ref, Unref and FinishErase count references exactly, and an   *)
(* entry is freed exactly when nobody refers to it any more.               *)
THEOREM ReferencesExact == Spec => []RefCounts
BY CacheInvariant, InvImplies, PTL

(* lru_ and in_use_ hold what cache.cc says they hold. *)
THEOREM ListsExact == Spec => []ListsAgree
BY CacheInvariant, InvImplies, PTL

(* The table finds the entries of the cache and nothing else, so that the  *)
(* loops of Insert and Prune erase the entry they mean.                    *)
THEOREM TableExact == Spec => []LookupExact
BY CacheInvariant, InvImplies, PTL

(* ~LRUCache leaks nothing. *)
THEOREM DestructorFreesAll == Spec => []NoLeak
BY CacheInvariant, InvImplies, PTL

-----------------------------------------------------------------------------
(***************************************************************************)
(* Sums over finite sets                                                   *)
(***************************************************************************)

(* The sum of c over a set. *)
Total(c, S) == MapThenSumSet(LAMBDA h : c[h], S)

(* g gives the sum of c over every subset of S: an element adds its value. *)
Sums(g, c, S) ==
    /\ g = [T \in SUBSET S |-> g[T]] /\ g[{}] = 0
    /\ \A T \in SUBSET S : g[T] \in Int
    /\ \A T \in SUBSET S : \A x \in S \ T : g[T \cup {x}] = g[T] + c[x]

LEMMA LeastNumber ==
    ASSUME NEW T \in SUBSET Nat, T # {}
    PROVE  \E m \in T : \A y \in T : m <= y
<1>. DEFINE R == OpToRel(<, Nat)
<1>1. \E m \in T : \A y \in T : ~(<<y, m>> \in R)
  <2>. HIDE DEF R
  <2>1. IsWellFoundedOn(R, Nat)
    BY NatLessThanWellFounded DEF R
  <2>. QED
    BY <2>1, WFMin, Zenon
<1>2. \A y, m \in Nat : y < m => <<y, m>> \in R
  BY Zenon DEF OpToRel
<1>. HIDE DEF R
<1>3. PICK m \in T : \A y \in T : ~(<<y, m>> \in R)
  BY <1>1, Zenon
<1>4. \A y \in T : ~(y < m)
  BY <1>2, <1>3, Zenon
<1>5. \A y \in T : m <= y
  BY <1>4
<1>. QED
  BY <1>5

(* The values of c are integers on S. *)
Valued(c, S) == \A h \in S : c[h] \in Int

(* There are such sums for every finite set. *)
Summable(c, S) == \E g : Sums(g, c, S)

LEMMA SumsAdd ==
    ASSUME NEW S, NEW a, a \notin S, NEW c, Valued(c, S \cup {a}), Summable(c, S)
    PROVE  Summable(c, S \cup {a})
<1>1. PICK g0 : Sums(g0, c, S)
  BY DEF Summable
<1>. DEFINE U == S \cup {a}
            g == [T \in SUBSET U |-> IF a \in T THEN g0[T \ {a}] + c[a] ELSE g0[T]]
<1>2. c[a] \in Int
  BY DEF Valued
<1>3. g = [T \in SUBSET U |-> g[T]] /\ g[{}] = 0
  BY <1>1 DEF Sums
<1>4. ASSUME NEW T \in SUBSET U PROVE g[T] \in Int
  <2>1. T \ {a} \in SUBSET S /\ (a \notin T => T \in SUBSET S)
    OBVIOUS
  <2>2. g0[T \ {a}] \in Int /\ (a \notin T => g0[T] \in Int)
    BY <1>1, <2>1, Zenon DEF Sums
  <2>. QED BY <1>2, <2>2
<1>5. ASSUME NEW T \in SUBSET U, NEW x \in U \ T PROVE g[T \cup {x}] = g[T] + c[x]
  <2>0. T \cup {x} \in SUBSET U
    OBVIOUS
  <2>1. CASE x = a
    <3>1. (T \cup {x}) \ {a} = T /\ a \notin T /\ a \in T \cup {x}
      BY <2>1
    <3>2. g[T \cup {x}] = g0[(T \cup {x}) \ {a}] + c[a] /\ g[T] = g0[T]
      BY <2>0, <3>1
    <3>3. g[T \cup {x}] = g0[T] + c[x]
      BY <3>1, <3>2, <2>1
    <3>. QED BY <3>2, <3>3
  <2>2. CASE x # a /\ a \in T
    <3>1. /\ (T \cup {x}) \ {a} = (T \ {a}) \cup {x} /\ T \ {a} \in SUBSET S
          /\ x \in S \ (T \ {a}) /\ a \in T \cup {x}
      BY <2>2
    <3>2. g0[(T \ {a}) \cup {x}] = g0[T \ {a}] + c[x]
      BY <1>1, <3>1, Zenon DEF Sums
    <3>3. g0[T \ {a}] \in Int /\ c[x] \in Int
      BY <1>1, <3>1 DEF Sums, Valued
    <3>4. g[T \cup {x}] = g0[(T \cup {x}) \ {a}] + c[a] /\ g[T] = g0[T \ {a}] + c[a]
      BY <2>0, <2>2, <3>1
    <3>5. g0[(T \cup {x}) \ {a}] = g0[T \ {a}] + c[x]
      BY <3>1, <3>2, Zenon
    <3>. HIDE DEF g
    <3>. QED BY <3>3, <3>4, <3>5, <1>2
  <2>3. CASE x # a /\ a \notin T
    <3>1. a \notin T \cup {x} /\ T \in SUBSET S /\ x \in S \ T
      BY <2>3
    <3>2. g[T \cup {x}] = g0[T \cup {x}] /\ g[T] = g0[T]
      BY <2>0, <2>3, <3>1
    <3>3. g0[T \cup {x}] = g0[T] + c[x]
      BY <1>1, <3>1, Zenon DEF Sums
    <3>. QED BY <3>2, <3>3
  <2>. QED BY <2>1, <2>2, <2>3
<1>6. Sums(g, c, U)
  BY <1>3, <1>4, <1>5 DEF Sums
<1>. QED
  BY <1>6 DEF Summable

LEMMA SumsExist ==
    ASSUME NEW S, IsFiniteSet(S), NEW c, Valued(c, S)
    PROVE  Summable(c, S)
<1>. DEFINE Bad == {n \in Nat : \E T \in SUBSET S : Cardinality(T) = n /\ ~Summable(c, T)}
<1>1. ASSUME Bad # {} PROVE FALSE
  <2>1. PICK n \in Bad : \A m \in Bad : n <= m
    <3>. HIDE DEF Bad
    <3>1. Bad \in SUBSET Nat
      BY DEF Bad
    <3>. QED BY <1>1, <3>1, LeastNumber
  <2>2. PICK T \in SUBSET S : Cardinality(T) = n /\ ~Summable(c, T)
    OBVIOUS
  <2>3. IsFiniteSet(T)
    BY FS_Subset
  <2>4. T # {}
    <3>1. ASSUME T = {} PROVE FALSE
      <4>. DEFINE g == [U \in SUBSET T |-> 0]
      <4>1. Sums(g, c, T)
        BY <3>1 DEF Sums
      <4>. QED BY <4>1, <2>2, Zenon DEF Summable
    <3>. QED BY <3>1
  <2>5. PICK a : a \in T
    BY <2>4
  <2>6. Cardinality(T \ {a}) = n - 1 /\ n \in Nat /\ Cardinality(T \ {a}) \in Nat
    BY <2>2, <2>3, <2>5, FS_RemoveElement, FS_CardinalityType, FS_Subset
  <2>7. Summable(c, T \ {a})
    <3>1. ~(n - 1 \in Bad)
      BY <2>1, <2>6
    <3>2. T \ {a} \in SUBSET S
      OBVIOUS
    <3>. QED BY <3>1, <3>2, <2>6
  <2>8. (T \ {a}) \cup {a} = T /\ Valued(c, T)
    BY <2>5 DEF Valued
  <2>9. Summable(c, (T \ {a}) \cup {a})
    BY <2>7, <2>8, SumsAdd
  <2>. QED BY <2>2, <2>8, <2>9
<1>2. Cardinality(S) \in Nat
  BY FS_CardinalityType
<1>. QED
  BY <1>1, <1>2

(* One element of a set. *)
Some(s) == CHOOSE x \in s : TRUE

LEMMA TotalRecursion ==
    ASSUME NEW S, IsFiniteSet(S), NEW c, Valued(c, S), NEW g, Sums(g, c, S)
    PROVE  Total(c, S) = g[S]
<1>. DEFINE Body(i) == [s \in SUBSET S |-> IF s = {} THEN 0 ELSE c[Some(s)] + i[s \ {Some(s)}]]
            iter == CHOOSE i : i = Body(i)
<1>1. Total(c, S) = iter[S]
  BY Zenon DEF Total, MapThenSumSet, MapThenFoldSet, Some
<1>2. ASSUME NEW s \in SUBSET S, s # {}
      PROVE  /\ Some(s) \in s /\ s \ {Some(s)} \in SUBSET S
             /\ g[s] = c[Some(s)] + g[s \ {Some(s)}]
  <2>1. Some(s) \in s
    BY <1>2 DEF Some
  <2>. DEFINE x == Some(s)
              r == s \ {x}
  <2>. HIDE DEF x
  <2>2. x \in s /\ x \in S \ r /\ r \cup {x} = s /\ r \in SUBSET S
    BY <2>1 DEF x
  <2>3. g[r \cup {x}] = g[r] + c[x] /\ g[r] \in Int /\ c[x] \in Int
    BY <2>2 DEF Sums, Valued
  <2>4. g[s] = c[x] + g[r]
    <3>. HIDE DEF r
    <3>1. g[s] = g[r] + c[x]
      BY <2>2, <2>3, Zenon
    <3>. QED BY <2>3, <3>1
  <2>. QED BY <2>2, <2>4 DEF x
<1>3. g = Body(g)
  <2>1. g = [s \in SUBSET S |-> g[s]] /\ g[{}] = 0
    BY DEF Sums
  <2>2. \A s \in SUBSET S : g[s] = IF s = {} THEN 0 ELSE c[Some(s)] + g[s \ {Some(s)}]
    BY <1>2, <2>1
  <2>3. [s \in SUBSET S |-> g[s]] = Body(g)
    BY <2>2
  <2>. QED BY <2>1, <2>3
<1>4. iter = Body(iter)
  <2>. HIDE DEF Body
  <2>. QED BY <1>3, Zenon
<1>. DEFINE Bad == {n \in Nat : \E s \in SUBSET S : Cardinality(s) = n /\ iter[s] # g[s]}
<1>. HIDE DEF iter
<1>5. \A s \in SUBSET S : iter[s] = IF s = {} THEN 0 ELSE c[Some(s)] + iter[s \ {Some(s)}]
  <2>. DEFINE h == Body(iter)
  <2>1. \A s \in SUBSET S : h[s] = IF s = {} THEN 0 ELSE c[Some(s)] + iter[s \ {Some(s)}]
    OBVIOUS
  <2>. HIDE DEF h
  <2>2. h = iter
    BY <1>4 DEF h
  <2>. QED BY <2>1, <2>2
<1>6. ASSUME Bad # {} PROVE FALSE
  <2>1. PICK n \in Bad : \A m \in Bad : n <= m
    <3>. HIDE DEF Bad
    <3>1. Bad \in SUBSET Nat
      BY DEF Bad
    <3>. QED BY <1>6, <3>1, LeastNumber
  <2>2. PICK s \in SUBSET S : Cardinality(s) = n /\ iter[s] # g[s]
    OBVIOUS
  <2>3. IsFiniteSet(s)
    BY FS_Subset
  <2>4. s # {}
    BY <1>5, <2>2 DEF Sums
  <2>. DEFINE r == s \ {Some(s)}
  <2>5. /\ Some(s) \in s /\ r \in SUBSET S
        /\ iter[s] = c[Some(s)] + iter[r] /\ g[s] = c[Some(s)] + g[r]
    BY <1>2, <1>5, <2>4
  <2>6. Cardinality(r) = n - 1 /\ n \in Nat /\ Cardinality(r) \in Nat
    BY <2>2, <2>3, <2>5, FS_RemoveElement, FS_CardinalityType, FS_Subset
  <2>7. ~(n - 1 \in Bad)
    BY <2>1, <2>6
  <2>8. iter[r] = g[r]
    BY <2>5, <2>6, <2>7
  <2>. QED BY <2>2, <2>5, <2>8
<1>7. Cardinality(S) \in Nat
  BY FS_CardinalityType
<1>8. iter[S] = g[S]
  BY <1>6, <1>7
<1>. QED BY <1>1, <1>8

(* Adding an element adds its value. *)
LEMMA TotalAdd ==
    ASSUME NEW S, IsFiniteSet(S), NEW a, a \notin S, NEW c, Valued(c, S \cup {a})
    PROVE  /\ Total(c, S \cup {a}) = Total(c, S) + c[a]
           /\ Total(c, S) \in Int /\ c[a] \in Int
<1>. DEFINE U == S \cup {a}
<1>1. IsFiniteSet(U) /\ Valued(c, S) /\ c[a] \in Int
  BY FS_AddElement DEF Valued
<1>2. PICK g : Sums(g, c, U)
  BY <1>1, SumsExist DEF Summable
<1>. DEFINE f == [T \in SUBSET S |-> g[T]]
<1>3. Sums(f, c, S)
  <2>0. /\ \A T \in SUBSET S : f[T] = g[T]
        /\ \A T \in SUBSET S : T \in SUBSET U
    OBVIOUS
  <2>1. f = [T \in SUBSET S |-> f[T]]
    BY <2>0
  <2>2. f[{}] = 0 /\ \A T \in SUBSET S : f[T] \in Int
    BY <1>2, <2>0 DEF Sums
  <2>3. ASSUME NEW T \in SUBSET S, NEW x \in S \ T PROVE f[T \cup {x}] = f[T] + c[x]
    <3>1. T \cup {x} \in SUBSET S /\ x \in U \ T /\ T \in SUBSET U
      OBVIOUS
    <3>2. g[T \cup {x}] = g[T] + c[x]
      BY <1>2, <3>1, Zenon DEF Sums
    <3>3. f[T \cup {x}] = g[T \cup {x}] /\ f[T] = g[T]
      BY <3>1
    <3>. QED BY <3>2, <3>3
  <2>. HIDE DEF f
  <2>. QED BY <2>1, <2>2, <2>3 DEF Sums
<1>4. Total(c, S) = g[S]
  <2>1. f[S] = g[S]
    OBVIOUS
  <2>. HIDE DEF f
  <2>. QED BY <1>1, <1>3, <2>1, TotalRecursion
<1>5. Total(c, U) = g[U]
  BY <1>1, <1>2, TotalRecursion
<1>6. g[U] = g[S] + c[a] /\ g[S] \in Int
  BY <1>2, Zenon DEF Sums
<1>. QED BY <1>1, <1>4, <1>5, <1>6

(* The sum depends on the values in the set only. *)
LEMMA TotalSame ==
    ASSUME NEW S, IsFiniteSet(S), NEW c, NEW d, Valued(c, S), \A x \in S : c[x] = d[x]
    PROVE  Total(c, S) = Total(d, S)
<1>1. PICK g : Sums(g, c, S)
  BY SumsExist DEF Summable
<1>2. Valued(d, S) /\ Sums(g, d, S)
  <2>1. Valued(d, S)
    BY DEF Valued
  <2>2. ASSUME NEW T \in SUBSET S, NEW x \in S \ T PROVE g[T \cup {x}] = g[T] + d[x]
    <3>1. g[T \cup {x}] = g[T] + c[x]
      BY <1>1, Zenon DEF Sums
    <3>2. c[x] = d[x]
      OBVIOUS
    <3>. QED BY <3>1, <3>2
  <2>. QED BY <1>1, <2>1, <2>2, Zenon DEF Sums
<1>. QED BY <1>1, <1>2, TotalRecursion
-----------------------------------------------------------------------------
(***************************************************************************)
(* usage_                                                                  *)
(***************************************************************************)

(* What usage is to be in shard s, whose entries are charged by c. *)
Charged(s, c) == IsFiniteSet(s.in_cache) /\ s.usage = Total(c, s.in_cache)

UsageInv == mtx # "destroyed" => Charged(shard, charge)

(* The lists and the references have no part in it. *)
LEMMA RefsNotCharged ==
    ASSUME NEW s \in Shards, NEW e
    PROVE  /\ Ref(s, e).usage = s.usage /\ Ref(s, e).in_cache = s.in_cache
           /\ Unref(s, e).usage = s.usage /\ Unref(s, e).in_cache = s.in_cache
<1>1. Ref(s, e).usage = s.usage /\ Ref(s, e).in_cache = s.in_cache
  BY DEF Ref, LRU_Remove, Shards
<1>2. Unref(s, e).usage = s.usage /\ Unref(s, e).in_cache = s.in_cache
  BY DEF Unref, LRU_Remove, Shards
<1>. QED BY <1>1, <1>2

(* An entry that leaves the cache takes its charge along. *)
LEMMA EraseCharged ==
    ASSUME NEW s \in Shards, NEW e \in s.in_cache, NEW c, Valued(c, s.in_cache),
           c[e] = charge[e], Charged(s, c)
    PROVE  Charged(FinishErase(s, e), c)
<1>. DEFINE m == LRU_Remove(s, e)
            x == [m EXCEPT !.in_cache = @ \ {e}, !.usage = @ - charge[e]]
            R == s.in_cache \ {e}
<1>1. e \in Handles /\ e # NoHandle
  BY LRUCacheAssumption DEF Shards
<1>2. m.in_cache = s.in_cache /\ m.usage = s.usage /\ x.in_cache = R /\ x.usage = s.usage - charge[e]
  BY DEF LRU_Remove, Shards
<1>3. FinishErase(s, e).in_cache = R /\ FinishErase(s, e).usage = s.usage - charge[e]
  <2>1. FinishErase(s, e) = Unref(x, e)
    BY <1>1 DEF FinishErase
  <2>2. Unref(x, e).in_cache = x.in_cache /\ Unref(x, e).usage = x.usage
    BY DEF Unref, LRU_Remove, Shards
  <2>. QED BY <2>1, <2>2, <1>2
<1>4. IsFiniteSet(R) /\ e \notin R /\ R \cup {e} = s.in_cache
  BY FS_Subset DEF Charged
<1>5. Total(c, R \cup {e}) = Total(c, R) + c[e] /\ Total(c, R) \in Int /\ c[e] \in Int
  <2>. HIDE DEF R
  <2>. QED BY <1>4, TotalAdd
<1>6. s.usage = Total(c, R \cup {e})
  BY <1>4 DEF Charged
<1>7. s.usage - charge[e] = Total(c, R)
  BY <1>5, <1>6
<1>. QED BY <1>3, <1>4, <1>7 DEF Charged

(* Erasing what the table has under k. *)
LEMMA EraseKeyCharged ==
    ASSUME CacheInv, UsageInv, mtx # "destroyed", NEW k \in Keys,
           shard' = EraseKey(shard, k), UNCHANGED <<mtx, key, charge, held>>
    PROVE  UsageInv'
<1>. DEFINE s == TableRemove(shard, k)
            e == shard.table[k]
<1>1. /\ shard \in Shards /\ charge \in [Handles -> Nat]
      /\ shard.table \in [Keys -> Handles \cup {NoHandle}] /\ shard.in_cache \in SUBSET Handles
  BY DEF CacheInv, TypeOK, Shards
<1>2. s \in Shards /\ s.in_cache = shard.in_cache /\ s.usage = shard.usage
  <2>1. [shard.table EXCEPT ![k] = NoHandle] \in [Keys -> Handles \cup {NoHandle}]
    BY <1>1
  <2>. QED BY <2>1, <1>1 DEF TableRemove, Shards
<1>3. Charged(s, charge)
  BY <1>2 DEF UsageInv, Charged
<1>4. shard' = FinishErase(s, e)
  BY DEF EraseKey
<1>. HIDE DEF s
<1>5. Charged(FinishErase(s, e), charge)
  <2>1. CASE e = NoHandle
    BY <2>1, <1>3 DEF FinishErase
  <2>2. CASE e # NoHandle
    <3>1. e \in s.in_cache
      BY <2>2, <1>1, <1>2 DEF CacheInv, Tabled
    <3>2. Valued(charge, s.in_cache)
      BY <1>1, <1>2 DEF Valued
    <3>. QED BY <1>2, <1>3, <3>1, <3>2, EraseCharged
  <2>. QED BY <2>1, <2>2
<1>. QED BY <1>4, <1>5 DEF UsageInv

(* Insert counts the new entry, and no longer the one it displaces. *)
LEMMA InsertCharged ==
    ASSUME CacheInv, UsageInv, NEW k \in Keys, NEW c \in Charges, NEW h \in Handles,
           Insert(k, c, h)
    PROVE  UsageInv'
<1>0. /\ shard \in Shards /\ shard.refs \in [Handles -> Nat] /\ charge \in [Handles -> Nat]
      /\ shard.table \in [Keys -> Handles \cup {NoHandle}]
      /\ shard.in_cache \in SUBSET Handles /\ shard.in_use \in SUBSET Handles
      /\ shard.usage \in Int /\ c \in Nat
  BY LRUCacheAssumption DEF CacheInv, TypeOK, Shards
<1>1. /\ mtx = "free" /\ h \notin shard.in_cache
      /\ charge' = [charge EXCEPT ![h] = c]
  BY DEF Insert, Allocated, CacheInv, Unused
<1>. PICK d : d = charge'
  OBVIOUS
<1>2. d \in [Handles -> Nat] /\ d[h] = c /\ \A g \in Handles : g # h => d[g] = charge[g]
  BY <1>0, <1>1
<1>3. Charged(shard, d)
  <2>1. Charged(shard, charge) /\ Valued(charge, shard.in_cache)
    BY <1>0, <1>1 DEF UsageInv, Valued
  <2>2. \A g \in shard.in_cache : charge[g] = d[g]
    BY <1>0, <1>1, <1>2
  <2>. QED BY <2>1, <2>2, TotalSame DEF Charged
<1>4. CASE Capacity = 0
  <2>1. shard'.in_cache = shard.in_cache /\ shard'.usage = shard.usage
    BY <1>0, <1>4 DEF Insert, Shards
  <2>. QED BY <2>1, <1>3 DEF UsageInv, Charged
<1>5. CASE Capacity # 0
  <2>. DEFINE old == shard.table[k]
              s == [shard EXCEPT !.refs[h] = 2, !.in_cache = @ \cup {h}, !.in_use = @ \cup {h},
                                 !.usage = AddUsage(shard, c), !.table[k] = h]
  <2>1. shard' = FinishErase(s, old)
    BY <1>5 DEF Insert, Displace
  <2>2. s \in Shards /\ s.in_cache = shard.in_cache \cup {h} /\ s.usage = shard.usage + c
    <3>1. /\ [shard.refs EXCEPT ![h] = 2] \in [Handles -> Nat]
          /\ [shard.table EXCEPT ![k] = h] \in [Keys -> Handles \cup {NoHandle}]
          /\ shard.usage + c \in Int
          /\ shard.in_cache \cup {h} \in SUBSET Handles /\ shard.in_use \cup {h} \in SUBSET Handles
      BY <1>0
    <3>. QED BY <3>1, <1>0 DEF AddUsage, Shards
  <2>. HIDE DEF s
  <2>3. Charged(s, d)
    <3>1. Valued(d, shard.in_cache \cup {h}) /\ IsFiniteSet(shard.in_cache \cup {h})
      BY <1>0, <1>2, <1>3, FS_AddElement DEF Valued, Charged
    <3>2. Total(d, shard.in_cache \cup {h}) = Total(d, shard.in_cache) + d[h]
      BY <3>1, <1>1, <1>3, TotalAdd DEF Charged
    <3>. QED BY <3>1, <3>2, <2>2, <1>2, <1>3 DEF Charged
  <2>4. Charged(FinishErase(s, old), d)
    <3>1. CASE old = NoHandle
      BY <3>1, <2>3 DEF FinishErase
    <3>2. CASE old # NoHandle
      <4>1. old \in shard.in_cache /\ old \in s.in_cache /\ old # h
        BY <3>2, <1>0, <1>1, <2>2 DEF CacheInv, Tabled
      <4>2. Valued(d, s.in_cache) /\ d[old] = charge[old]
        BY <4>1, <1>0, <1>2, <2>2 DEF Valued
      <4>. HIDE DEF old
      <4>. QED BY <4>1, <4>2, <2>2, <2>3, EraseCharged
    <3>. QED BY <3>1, <3>2
  <2>. QED BY <2>1, <2>4 DEF UsageInv
<1>. QED BY <1>4, <1>5

(* A step that leaves the entries in the cache and their charges alone. *)
KeepsCharges ==
    /\ mtx # "destroyed" \/ mtx' = mtx
    /\ shard'.in_cache = shard.in_cache /\ shard'.usage = shard.usage /\ charge' = charge

LEMMA KeptCharged ==
    ASSUME UsageInv, KeepsCharges
    PROVE  UsageInv'
BY DEF UsageInv, KeepsCharges, Charged

LEMMA UsageStep ==
    ASSUME CacheInv, UsageInv, [Next]_vars
    PROVE  UsageInv'
<1>0. shard \in Shards
  BY DEF CacheInv, TypeOK
<1>1. ASSUME NEW k \in Keys, Lookup(k) PROVE UsageInv'
  <2>1. mtx = "free" /\ mtx' = mtx /\ charge' = charge
        /\ (shard' = shard \/ shard' = Ref(shard, shard.table[k]))
    BY <1>1 DEF Lookup
  <2>2. KeepsCharges
    BY <1>0, <2>1, RefsNotCharged DEF KeepsCharges
  <2>. QED BY <2>2, KeptCharged
<1>2. ASSUME NEW k \in Keys, Erase(k) PROVE UsageInv'
  BY <1>2, EraseKeyCharged DEF Erase
<1>3. ASSUME NEW k \in Keys, NEW c \in Charges, NEW h \in Handles, Insert(k, c, h)
      PROVE  UsageInv'
  BY <1>3, InsertCharged
<1>4. ASSUME NEW h \in Handles, Release(h) PROVE UsageInv'
  <2>1. mtx = "free" /\ mtx' = mtx /\ charge' = charge /\ shard' = Unref(shard, h)
    BY <1>4 DEF Release
  <2>2. KeepsCharges
    BY <1>0, <2>1, RefsNotCharged DEF KeepsCharges
  <2>. QED BY <2>2, KeptCharged
<1>5. CASE Evict
  BY <1>5, EraseKeyCharged, OldestHasKey DEF Evict
<1>6. CASE InsertDone \/ Prune \/ (PruneStep /\ shard.lru = <<>>)
  <2>1. KeepsCharges
    BY <1>6 DEF InsertDone, Prune, PruneStep, KeepsCharges
  <2>. QED BY <2>1, KeptCharged
<1>7. CASE PruneStep /\ shard.lru # <<>>
  BY <1>7, EraseKeyCharged, OldestHasKey DEF PruneStep
<1>8. CASE Destroy
  BY <1>8 DEF Destroy, UsageInv
<1>9. CASE UNCHANGED vars
  <2>1. KeepsCharges
    BY <1>9 DEF vars, KeepsCharges
  <2>. QED BY <2>1, KeptCharged
<1>. QED
  BY <1>1, <1>2, <1>3, <1>4, <1>5, <1>6, <1>7, <1>8, <1>9 DEF Next

(* usage_ is what the entries in the cache were charged, after every       *)
(* insertion, replacement, eviction and erasure: it neither leaks nor      *)
(* wraps around.                                                           *)
THEOREM UsageIsExact == Spec => []UsageExact
<1>1. Init => UsageInv
  <2>. SUFFICES ASSUME Init PROVE UsageInv
    OBVIOUS
  <2>1. shard.in_cache = {} /\ shard.usage = 0
    BY DEF Init
  <2>2. IsFiniteSet({}) /\ Valued(charge, {})
    BY FS_EmptySet DEF Valued
  <2>3. PICK g : Sums(g, charge, {})
    BY <2>2, SumsExist DEF Summable
  <2>4. Total(charge, {}) = g[{}] /\ g[{}] = 0
    <3>1. g[{}] = 0
      BY <2>3 DEF Sums
    <3>. QED BY <3>1, <2>2, <2>3, TotalRecursion
  <2>. QED BY <2>1, <2>2, <2>4 DEF UsageInv, Charged
<1>2. CacheInv /\ UsageInv /\ [Next]_vars => UsageInv'
  BY UsageStep
<1>3. UsageInv => UsageExact
  BY DEF UsageInv, Charged, UsageExact, Total
<1>. QED
  BY <1>1, <1>2, <1>3, CacheInvariant, PTL DEF Spec

-----------------------------------------------------------------------------
(***************************************************************************)
(* The SST cache.  The invariant of the LRU cache speaks of the handles     *)
(* that clients hold as of a number; here each of them belongs to a thread. *)
(***************************************************************************)
(* The threads that use entry h. *)
Users(h) == {t \in Clients : pc[t] = "using" /\ handle[t] = h}

ClientTypes ==
    /\ pc \in [Clients -> {"idle", "opening", "using"}]
    /\ number \in [Clients -> Keys \cup {NoHandle}]
    /\ handle \in [Clients -> Handles \cup {NoHandle}]
    /\ live \in SUBSET Keys

(* A thread that is not idle reads a file that its version keeps, and the  *)
(* entry it uses was made for that file.                                   *)
OwnTable ==
    \A t \in Clients :
        /\ pc[t] # "idle" => number[t] \in live
        /\ pc[t] = "using" => handle[t] \in Handles /\ key[handle[t]] = number[t]

(* Every handle that is out belongs to one thread that will release it. *)
HandlesOwned ==
    \A h \in Handles : IsFiniteSet(Users(h)) /\ held[h] = Cardinality(Users(h))

(* The cache keeps no table of a deleted file. *)
CachedLive == \A h \in shard.in_cache : key[h] \in live

SSTInv == CacheInv /\ ClientTypes /\ OwnTable /\ HandlesOwned /\ CachedLive

-----------------------------------------------------------------------------
(* FinishErase takes nothing into the cache and does not touch the table. *)
LEMMA EraseFrame ==
    ASSUME NEW s \in Shards, NEW e
    PROVE  /\ FinishErase(s, e).in_cache \subseteq s.in_cache
           /\ FinishErase(s, e).table = s.table
BY DEF FinishErase, Unref, LRU_Remove, Shards

(* EraseKey leaves no entry of that key in the cache. *)
LEMMA EraseKeyGone ==
    ASSUME CacheInv, mtx # "destroyed", NEW k \in Keys,
           shard' = EraseKey(shard, k), UNCHANGED <<mtx, key, charge, held>>
    PROVE  /\ shard'.in_cache \subseteq shard.in_cache
           /\ \A h \in shard'.in_cache : key[h] # k
<1>0. /\ shard \in Shards /\ shard.table \in [Keys -> Handles \cup {NoHandle}]
      /\ shard.in_cache \subseteq Handles
  BY DEF CacheInv, TypeOK, Shards
<1>1. /\ TableRemove(shard, k) \in Shards
      /\ TableRemove(shard, k).in_cache = shard.in_cache
      /\ TableRemove(shard, k).table = [shard.table EXCEPT ![k] = NoHandle]
  <2>1. [shard.table EXCEPT ![k] = NoHandle] \in [Keys -> Handles \cup {NoHandle}]
    BY <1>0
  <2>. QED BY <2>1, <1>0 DEF TableRemove, Shards
<1>2. shard'.in_cache \subseteq shard.in_cache /\ shard'.table[k] = NoHandle
  BY <1>0, <1>1, EraseFrame DEF EraseKey
<1>3. CacheInv'
  BY EraseKeyInv
<1>4. ASSUME NEW h \in shard'.in_cache, key[h] = k PROVE FALSE
  <2>1. h \in Handles
    BY <1>0, <1>2, <1>4
  <2>2. shard'.table[k] = h
    BY <1>3, <1>4, <2>1 DEF CacheInv, Tabled
  <2>. QED BY <2>1, <2>2, <1>2, LRUCacheAssumption
<1>. QED
  BY <1>2, <1>4

(* What a new entry is, and what else Insert takes into the cache: nothing. *)
LEMMA InsertFrame ==
    ASSUME CacheInv, NEW k \in Keys, NEW c \in Nat, NEW h \in Handles, Insert(k, c, h)
    PROVE  shard'.in_cache \subseteq shard.in_cache \cup {h}
<1>. DEFINE s == [shard EXCEPT !.refs[h] = 2, !.in_cache = @ \cup {h},
                               !.in_use = @ \cup {h}, !.usage = AddUsage(shard, c),
                               !.table[k] = h]
<1>0. /\ shard \in Shards /\ shard.in_cache \subseteq Handles /\ shard.in_use \subseteq Handles
      /\ shard.refs \in [Handles -> Nat] /\ shard.usage \in Int
      /\ shard.table \in [Keys -> Handles \cup {NoHandle}]
  BY DEF CacheInv, TypeOK, Shards
<1>1. CASE Capacity = 0
  BY <1>0, <1>1 DEF Insert, Shards
<1>2. CASE Capacity # 0
  <2>1. shard' = FinishErase(s, shard.table[k])
    BY <1>2 DEF Insert, Displace
  <2>2. s \in Shards /\ s.in_cache = shard.in_cache \cup {h}
    <3>1. /\ [shard.refs EXCEPT ![h] = 2] \in [Handles -> Nat]
          /\ [shard.table EXCEPT ![k] = h] \in [Keys -> Handles \cup {NoHandle}]
          /\ shard.in_cache \cup {h} \in SUBSET Handles
          /\ shard.in_use \cup {h} \in SUBSET Handles
          /\ AddUsage(shard, c) \in Int
      BY <1>0 DEF AddUsage
    <3>. QED BY <3>1, <1>0 DEF Shards
  <2>. HIDE DEF s
  <2>. QED BY <2>1, <2>2, EraseFrame
<1>. QED
  BY <1>1, <1>2

-----------------------------------------------------------------------------
(***************************************************************************)
(* The invariant                                                           *)
(***************************************************************************)

LEMMA SSTInitInv == SSTInit => SSTInv
<1>. SUFFICES ASSUME SSTInit PROVE SSTInv
  OBVIOUS
<1>1. CacheInv
  BY InitInv DEF SSTInit
<1>2. ClientTypes /\ OwnTable
  BY DEF SSTInit, ClientTypes, OwnTable
<1>3. CachedLive
  BY DEF SSTInit, Init, CachedLive
<1>4. HandlesOwned
  <2>. SUFFICES ASSUME NEW h \in Handles
                PROVE  IsFiniteSet(Users(h)) /\ held[h] = Cardinality(Users(h))
    BY DEF HandlesOwned
  <2>1. Users(h) = {} /\ held[h] = 0
    BY DEF SSTInit, Init, Users
  <2>. QED BY <2>1, FS_EmptySet
<1>. QED
  BY <1>1, <1>2, <1>3, <1>4 DEF SSTInv

(* A step of the cache alone, as far as the threads are concerned. *)
LEMMA CacheOnly ==
    ASSUME SSTInv, CacheInv', UNCHANGED <<key, held, clientVars>>,
           shard'.in_cache \subseteq shard.in_cache, live' \subseteq live,
           \A t \in Clients : pc[t] # "idle" => number[t] \in live',
           \A h \in shard'.in_cache : key[h] \in live'
    PROVE  SSTInv'
<1>1. ClientTypes' /\ OwnTable'
  BY DEF SSTInv, ClientTypes, OwnTable, clientVars
<1>2. HandlesOwned'
  BY DEF SSTInv, HandlesOwned, Users, clientVars
<1>3. CachedLive'
  BY DEF CachedLive
<1>. QED
  BY <1>1, <1>2, <1>3 DEF SSTInv

LEMMA FindTableInv ==
    ASSUME SSTInv, NEW t \in Clients, NEW k \in Keys, FindTable(t, k)
    PROVE  SSTInv'
<1>. DEFINE e == shard.table[k]
<1>0. /\ pc[t] = "idle" /\ k \in live /\ Lookup(k) /\ live' = live
      /\ number' = [number EXCEPT ![t] = k] /\ handle' = [handle EXCEPT ![t] = e]
      /\ pc' = [pc EXCEPT ![t] = IF e = NoHandle THEN "opening" ELSE "using"]
      /\ key' = key /\ mtx = "free"
  BY DEF FindTable, Lookup
<1>1. CacheInv /\ ClientTypes /\ OwnTable /\ HandlesOwned /\ CachedLive
  BY DEF SSTInv
<1>2. CacheInv'
  BY <1>0, <1>1, LookupInv
<1>3. /\ shard \in Shards /\ e \in Handles \cup {NoHandle} /\ held \in [Handles -> Nat]
      /\ e # NoHandle => e \in shard.in_cache /\ key[e] = k /\ shard.refs[e] > 0
  BY <1>0, <1>1 DEF CacheInv, TypeOK, Shards, Tabled, Counts
<1>4. ClientTypes'
  BY <1>0, <1>1, <1>3 DEF ClientTypes
<1>5. OwnTable'
  BY <1>0, <1>1, <1>3, <1>4 DEF OwnTable, ClientTypes
<1>6. shard'.in_cache = shard.in_cache
  <2>1. CASE e = NoHandle
    BY <2>1, <1>0 DEF Lookup
  <2>2. CASE e # NoHandle
    <3>1. shard' = Ref(shard, e)
      BY <2>2, <1>0 DEF Lookup
    <3>. HIDE DEF e
    <3>. QED BY <3>1, <2>2, <1>3, <1>1, RefLists DEF CacheInv
  <2>. QED BY <2>1, <2>2
<1>7. CachedLive'
  BY <1>0, <1>1, <1>6 DEF CachedLive
<1>8. HandlesOwned'
  <2>. SUFFICES ASSUME NEW h \in Handles
                PROVE  IsFiniteSet(Users(h)') /\ held'[h] = Cardinality(Users(h)')
    BY DEF HandlesOwned
  <2>1. IsFiniteSet(Users(h)) /\ held[h] = Cardinality(Users(h)) /\ t \notin Users(h)
    BY <1>0, <1>1 DEF HandlesOwned, Users
  <2>2. CASE h = e
    <3>1. Users(h)' = Users(h) \cup {t}
      BY <2>2, <1>0, <1>1, LRUCacheAssumption DEF Users, ClientTypes
    <3>2. held'[h] = held[h] + 1
      BY <2>2, <1>0, <1>3, LRUCacheAssumption DEF Lookup
    <3>. QED BY <3>1, <3>2, <2>1, FS_AddElement
  <2>3. CASE h # e
    <3>1. Users(h)' = Users(h)
      BY <2>3, <1>0, <1>1 DEF Users, ClientTypes
    <3>2. held'[h] = held[h]
      BY <2>3, <1>0, <1>3 DEF Lookup
    <3>. QED BY <3>1, <3>2, <2>1
  <2>. QED BY <2>2, <2>3
<1>. QED
  BY <1>2, <1>4, <1>5, <1>7, <1>8 DEF SSTInv

LEMMA OpenAndInsertInv ==
    ASSUME SSTInv, NEW t \in Clients, NEW h \in Handles, OpenAndInsert(t, h)
    PROVE  SSTInv'
<1>. DEFINE k == number[t]
<1>0. /\ pc[t] = "opening" /\ Insert(k, 1, h) /\ live' = live /\ number' = number
      /\ handle' = [handle EXCEPT ![t] = h] /\ pc' = [pc EXCEPT ![t] = "using"]
      /\ key' = [key EXCEPT ![h] = k] /\ held' = [held EXCEPT ![h] = 1]
      /\ key[h] = NoHandle
  BY DEF OpenAndInsert, Insert, Allocated
<1>1. CacheInv /\ ClientTypes /\ OwnTable /\ HandlesOwned /\ CachedLive
  BY DEF SSTInv
<1>2. k \in live /\ k \in Keys /\ live \subseteq Keys
  BY <1>0, <1>1 DEF OwnTable, ClientTypes
<1>3. CacheInv'
  BY <1>0, <1>1, <1>2, InsertInv, SSTCacheAssumption
<1>4. shard'.in_cache \subseteq shard.in_cache \cup {h}
  BY <1>0, <1>1, <1>2, InsertFrame
<1>5. /\ key \in [Handles -> Keys \cup {NoHandle}] /\ held \in [Handles -> Nat]
      /\ shard.in_cache \subseteq Handles /\ held[h] = 0
  BY <1>0, <1>1 DEF CacheInv, TypeOK, Shards, Unused
<1>6. ClientTypes'
  BY <1>0, <1>1 DEF ClientTypes
<1>7. OwnTable'
  <2>. SUFFICES ASSUME NEW u \in Clients
                PROVE  /\ pc'[u] # "idle" => number'[u] \in live'
                       /\ pc'[u] = "using" => /\ handle'[u] \in Handles
                                              /\ key'[handle'[u]] = number'[u]
    BY DEF OwnTable
  <2>1. CASE u = t
    BY <2>1, <1>0, <1>1, <1>2, <1>5 DEF ClientTypes
  <2>2. CASE u # t
    <3>1. pc'[u] = pc[u] /\ handle'[u] = handle[u]
      BY <2>2, <1>0, <1>1 DEF ClientTypes
    <3>2. pc[u] = "using" => handle[u] # h
      BY <1>0, <1>1, <1>2, LRUCacheAssumption DEF OwnTable
    <3>. QED BY <3>1, <3>2, <1>0, <1>1, <1>5 DEF OwnTable
  <2>. QED BY <2>1, <2>2
<1>8. CachedLive'
  BY <1>0, <1>1, <1>2, <1>4, <1>5 DEF CachedLive
<1>9. HandlesOwned'
  <2>. SUFFICES ASSUME NEW g \in Handles
                PROVE  IsFiniteSet(Users(g)') /\ held'[g] = Cardinality(Users(g)')
    BY DEF HandlesOwned
  <2>1. IsFiniteSet(Users(g)) /\ held[g] = Cardinality(Users(g)) /\ t \notin Users(g)
    BY <1>0, <1>1 DEF HandlesOwned, Users
  <2>2. CASE g = h
    <3>1. Users(g)' = Users(g) \cup {t}
      BY <2>2, <1>0, <1>1 DEF Users, ClientTypes
    <3>2. held'[g] = 1
      BY <2>2, <1>0, <1>5
    <3>3. Cardinality(Users(g)) = 0
      BY <2>1, <2>2, <1>5
    <3>4. /\ IsFiniteSet(Users(g) \cup {t})
          /\ Cardinality(Users(g) \cup {t}) = Cardinality(Users(g)) + 1
      BY <2>1, FS_AddElement
    <3>. QED BY <3>1, <3>2, <3>3, <3>4
  <2>3. CASE g # h
    <3>1. Users(g)' = Users(g)
      BY <2>3, <1>0, <1>1 DEF Users, ClientTypes
    <3>2. held'[g] = held[g]
      BY <2>3, <1>0, <1>5
    <3>. QED BY <3>1, <3>2, <2>1
  <2>. QED BY <2>2, <2>3
<1>. QED
  BY <1>3, <1>6, <1>7, <1>8, <1>9 DEF SSTInv

LEMMA ReleaseTableInv ==
    ASSUME SSTInv, NEW t \in Clients, ReleaseTable(t)
    PROVE  SSTInv'
<1>. DEFINE h == handle[t]
<1>0. /\ pc[t] = "using" /\ Release(h) /\ live' = live /\ number' = number
      /\ handle' = [handle EXCEPT ![t] = NoHandle] /\ pc' = [pc EXCEPT ![t] = "idle"]
      /\ key' = key /\ held' = [held EXCEPT ![h] = @ - 1] /\ held[h] > 0
      /\ shard' = Unref(shard, h)
  BY DEF ReleaseTable, Release
<1>1. CacheInv /\ ClientTypes /\ OwnTable /\ HandlesOwned /\ CachedLive
  BY DEF SSTInv
<1>2. h \in Handles
  BY <1>0, <1>1 DEF OwnTable
<1>3. CacheInv'
  BY <1>0, <1>1, <1>2, ReleaseInv
<1>4. shard \in Shards /\ held \in [Handles -> Nat]
  BY <1>1 DEF CacheInv, TypeOK
<1>5. shard'.in_cache = shard.in_cache
  <2>. HIDE DEF h
  <2>. QED BY <1>0, <1>4 DEF Unref, LRU_Remove, Shards
<1>6. ClientTypes'
  BY <1>0, <1>1 DEF ClientTypes
<1>7. OwnTable'
  BY <1>0, <1>1 DEF OwnTable, ClientTypes
<1>8. CachedLive'
  BY <1>0, <1>1, <1>5 DEF CachedLive
<1>9. HandlesOwned'
  <2>. SUFFICES ASSUME NEW g \in Handles
                PROVE  IsFiniteSet(Users(g)') /\ held'[g] = Cardinality(Users(g)')
    BY DEF HandlesOwned
  <2>1. IsFiniteSet(Users(g)) /\ held[g] = Cardinality(Users(g))
    BY <1>1 DEF HandlesOwned
  <2>2. CASE g = h
    <3>1. Users(g)' = Users(g) \ {t} /\ t \in Users(g)
      BY <2>2, <1>0, <1>1 DEF Users, ClientTypes
    <3>2. held'[g] = held[g] - 1
      BY <2>2, <1>0, <1>4
    <3>. QED BY <3>1, <3>2, <2>1, FS_RemoveElement
  <2>3. CASE g # h
    <3>1. Users(g)' = Users(g)
      BY <2>3, <1>0, <1>1 DEF Users, ClientTypes
    <3>2. held'[g] = held[g]
      BY <2>3, <1>0, <1>4
    <3>. QED BY <3>1, <3>2, <2>1
  <2>. QED BY <2>2, <2>3
<1>. QED
  BY <1>3, <1>6, <1>7, <1>8, <1>9 DEF SSTInv

LEMMA OpenFailsInv ==
    ASSUME SSTInv, NEW t \in Clients, OpenFails(t)
    PROVE  SSTInv'
<1>0. /\ pc[t] = "opening" /\ pc' = [pc EXCEPT ![t] = "idle"]
      /\ UNCHANGED <<vars, number, handle, live>>
  BY DEF OpenFails
<1>1. CacheInv /\ ClientTypes /\ OwnTable /\ HandlesOwned /\ CachedLive
  BY DEF SSTInv
<1>2. CacheInv'
  BY <1>0, <1>1, StepInv
<1>3. ClientTypes'
  BY <1>0, <1>1 DEF ClientTypes
<1>4. OwnTable'
  BY <1>0, <1>1 DEF OwnTable, ClientTypes, vars
<1>5. CachedLive'
  BY <1>0, <1>1 DEF CachedLive, vars
<1>6. ASSUME NEW h \in Handles PROVE Users(h)' = Users(h)
  BY <1>0, <1>1 DEF Users, ClientTypes
<1>7. HandlesOwned'
  BY <1>0, <1>1, <1>6 DEF HandlesOwned, vars
<1>. QED
  BY <1>2, <1>3, <1>4, <1>5, <1>7 DEF SSTInv

(* RemoveObsoleteFiles evicts the table of the file that it deletes. *)
LEMMA RemoveFileInv ==
    ASSUME SSTInv, NEW k \in Keys, RemoveFile(k)
    PROVE  SSTInv'
<1>0. /\ Erase(k) /\ live' = live \ {k} /\ UNCHANGED clientVars
      /\ \A t \in Clients : pc[t] # "idle" => number[t] # k
  BY DEF RemoveFile, EvictTable, Uses
<1>1. /\ mtx = "free" /\ shard' = EraseKey(shard, k)
      /\ UNCHANGED <<mtx, key, charge, held>>
  BY <1>0 DEF Erase
<1>2. CacheInv
  BY DEF SSTInv
<1>3. CacheInv'
  BY <1>1, <1>2, EraseKeyInv
<1>4. shard'.in_cache \subseteq shard.in_cache /\ \A h \in shard'.in_cache : key[h] # k
  BY <1>1, <1>2, EraseKeyGone
<1>5. \A t \in Clients : pc[t] # "idle" => number[t] \in live'
  BY <1>0 DEF SSTInv, OwnTable
<1>6. \A h \in shard'.in_cache : key[h] \in live'
  BY <1>0, <1>4 DEF SSTInv, CachedLive
<1>. QED
  BY <1>0, <1>1, <1>3, <1>4, <1>5, <1>6, CacheOnly

(* Evictions, Prune and the destructor. *)
LEMMA CacheStepInv ==
    ASSUME SSTInv, CacheStep \/ Close
    PROVE  SSTInv'
<1>0. CacheInv /\ live' = live /\ UNCHANGED clientVars
  BY DEF SSTInv, CacheStep, Close
<1>1. CacheInv'
  BY <1>0, StepInv DEF CacheStep, Close, Next
<1>2. UNCHANGED <<key, held>>
  BY DEF CacheStep, Close, Evict, InsertDone, Prune, PruneStep, Destroy
<1>3. shard'.in_cache \subseteq shard.in_cache
  <2>0. shard \in Shards
    BY <1>0 DEF CacheInv, TypeOK
  <2>1. CASE UNCHANGED shard
    BY <2>1
  <2>2. CASE /\ mtx # "destroyed" /\ shard.lru # <<>>
             /\ shard' = EraseKey(shard, key[Head(shard.lru)])
             /\ UNCHANGED <<mtx, key, charge, held>>
    BY <2>2, <1>0, OldestHasKey, EraseKeyGone
  <2>3. CASE Destroy
    BY <2>0, <2>3 DEF Destroy, Shards
  <2>. QED
    BY <2>1, <2>2, <2>3 DEF CacheStep, Close, Evict, InsertDone, Prune, PruneStep
<1>4. \A t \in Clients : pc[t] # "idle" => number[t] \in live'
  BY <1>0 DEF SSTInv, OwnTable
<1>5. \A h \in shard'.in_cache : key[h] \in live'
  BY <1>0, <1>3 DEF SSTInv, CachedLive
<1>. QED
  BY <1>0, <1>1, <1>2, <1>3, <1>4, <1>5, CacheOnly

LEMMA SSTStepInv == SSTInv /\ [SSTNext]_sstVars => SSTInv'
<1>. SUFFICES ASSUME SSTInv, [SSTNext]_sstVars PROVE SSTInv'
  OBVIOUS
<1>1. ASSUME NEW t \in Clients, NEW k \in Keys, FindTable(t, k) PROVE SSTInv'
  BY <1>1, FindTableInv
<1>2. ASSUME NEW t \in Clients, NEW h \in Handles, OpenAndInsert(t, h) PROVE SSTInv'
  BY <1>2, OpenAndInsertInv
<1>3. ASSUME NEW t \in Clients, OpenFails(t) PROVE SSTInv'
  BY <1>3, OpenFailsInv
<1>4. ASSUME NEW t \in Clients, ReleaseTable(t) PROVE SSTInv'
  BY <1>4, ReleaseTableInv
<1>5. ASSUME NEW k \in Keys, RemoveFile(k) PROVE SSTInv'
  BY <1>5, RemoveFileInv
<1>6. CASE CacheStep \/ Close
  BY <1>6, CacheStepInv
<1>7. CASE UNCHANGED sstVars
  <2>1. UNCHANGED <<vars, clientVars, live>>
    BY <1>7 DEF sstVars
  <2>2. CacheInv'
    BY <2>1, StepInv DEF SSTInv
  <2>. QED
    BY <2>1, <2>2 DEF SSTInv, ClientTypes, OwnTable, HandlesOwned, CachedLive, Users,
                      clientVars, vars
<1>. QED
  BY <1>1, <1>2, <1>3, <1>4, <1>5, <1>6, <1>7 DEF SSTNext

(* A table in use has a holder, and so is not freed; one of a deleted file *)
(* is neither cached nor held, and so is.                                  *)
LEMMA SSTInvImplies == SSTInv => TableUsable /\ NoStaleTable
<1>. SUFFICES ASSUME SSTInv PROVE TableUsable /\ NoStaleTable
  OBVIOUS
<1>0. CacheInv /\ ClientTypes /\ OwnTable /\ HandlesOwned /\ CachedLive
  BY DEF SSTInv
<1>1. /\ held \in [Handles -> Nat] /\ shard.refs \in [Handles -> Nat]
      /\ shard.freed \subseteq Handles
  BY <1>0 DEF CacheInv, TypeOK, Shards
<1>2. ASSUME NEW t \in Clients, pc[t] = "using"
      PROVE  handle[t] \notin shard.freed /\ key[handle[t]] = number[t]
  <2>1. handle[t] \in Handles /\ key[handle[t]] = number[t]
    BY <1>0, <1>2 DEF OwnTable
  <2>2. IsFiniteSet(Users(handle[t])) /\ t \in Users(handle[t])
    BY <2>1, <1>0, <1>2 DEF HandlesOwned, Users
  <2>3. Cardinality(Users(handle[t])) # 0
    BY <2>2, FS_EmptySet
  <2>4. held[handle[t]] # 0
    BY <2>1, <2>3, <1>0 DEF HandlesOwned
  <2>5. shard.refs[handle[t]] # 0
    BY <2>1, <2>4, <1>0, <1>1 DEF CacheInv, Counts
  <2>. QED BY <2>1, <2>5, <1>0 DEF CacheInv, Freed
<1>3. ASSUME NEW h \in Allocated, key[h] \notin live PROVE h \in shard.freed
  <2>1. h \in Handles /\ key[h] # NoHandle /\ h \notin shard.in_cache
    BY <1>0, <1>3 DEF Allocated, CachedLive
  <2>2. Users(h) = {}
    BY <1>0, <1>3 DEF OwnTable, Users
  <2>3. held[h] = 0
    BY <2>1, <2>2, <1>0, FS_EmptySet DEF HandlesOwned
  <2>. QED BY <2>1, <2>3, <1>0, <1>1 DEF CacheInv, Counts, Freed
<1>. QED
  BY <1>2, <1>3 DEF TableUsable, NoStaleTable

(* Every reachable state of the cache and its threads satisfies the        *)
(* invariant.                                                              *)
LEMMA SSTInvariant == SSTSpec => []SSTInv
<1>1. SSTInit => SSTInv
  BY SSTInitInv
<1>2. SSTInv /\ [SSTNext]_sstVars => SSTInv'
  BY SSTStepInv
<1>. QED
  BY <1>1, <1>2, PTL DEF SSTSpec

-----------------------------------------------------------------------------
(* The table that FindTable gives a thread stays open, and is the one of   *)
(* the file it asked for, until that thread releases it, for any number of *)
(* threads that open, replace, evict and release tables of the same files. *)
THEOREM TablesStayUsable == SSTSpec => []TableUsable
BY SSTInvariant, SSTInvImplies, PTL

(* Once RemoveObsoleteFiles has evicted and deleted a file, every table    *)
(* that was ever opened for it is closed.                                  *)
THEOREM NoTableOutlivesFile == SSTSpec => []NoStaleTable
BY SSTInvariant, SSTInvImplies, PTL

=============================================================================
