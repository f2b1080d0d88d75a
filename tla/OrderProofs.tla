---------------------------- MODULE OrderProofs ----------------------------
(***************************************************************************)
(* Proofs about order: the skip list of a memtable, for any number of       *)
(* levels, keys and inserts and any searches beside them, and what the      *)
(* comparators promise of the keys they shorten, for all strings.           *)
(***************************************************************************)
EXTENDS Iterators, InternalKeys, SequenceTheorems, WellFoundedInduction, TLAPS

-----------------------------------------------------------------------------
(***************************************************************************)
(* The invariant                                                           *)
(***************************************************************************)

(* The nodes whose pointer at level l is set. *)
Nodes(l) == {x \in DOMAIN next_ : next_[x][l] # Wild}

(* A node that has its pointer at level l and that no node points to yet. *)
Unlinked(x, l) == insert # NoInsert /\ insert.set /\ insert.level = l /\ insert.key = x

ListTypes ==
    /\ DOMAIN next_ \subseteq Nat /\ head_ \in DOMAIN next_
    /\ \A x \in DOMAIN next_ : DOMAIN next_[x] = Levels
    /\ heights \subseteq 1..kMaxHeight /\ heights # {}

Ordered ==
    \A l \in Levels :
        /\ head_ \in Nodes(l)
        /\ \A x \in Nodes(l) :
              next_[x][l] # Null => next_[x][l] \in Nodes(l) /\ next_[x][l] > x
        /\ l > 0 => Nodes(l) \subseteq Nodes(l - 1)

Reached ==
    \A l \in Levels : \A x \in Nodes(l) \ {head_} :
        /\ \E h \in heights : l < h
        /\ Unlinked(x, l) \/ \E y \in Nodes(l) : next_[y][l] = x

(* Where the new node goes at the levels where it is not linked yet. *)
Between(y, key, l) ==
    /\ y \in Nodes(l) /\ y < key
    /\ next_[y][l] = Null \/ next_[y][l] > key

InsertInv ==
    insert # NoInsert =>
        /\ {"key", "height", "level", "set", "prev"} \subseteq DOMAIN insert
        /\ insert.key \in DOMAIN next_ \ {head_}
        /\ insert.height \in 1..kMaxHeight /\ \E h \in heights : insert.height <= h
        /\ insert.level \in 0..(insert.height - 1) /\ insert.set \in BOOLEAN
        /\ \A l \in Levels :
              insert.key \in Nodes(l) <=> l < insert.level \/ (l = insert.level /\ insert.set)
        /\ \A i \in insert.level..(insert.height - 1) : Between(insert.prev[i], insert.key, i)
        /\ insert.set => next_[insert.key][insert.level] =
                             next_[insert.prev[insert.level]][insert.level]

(* The keys are those of the writes so far. *)
WrittenUpTo(n) == {Entry(user, seq) : user \in UserKeys, seq \in 1..n}

Written ==
    /\ sequence \in 0..MaxSequence
    /\ DOMAIN next_ \ {head_} \subseteq WrittenUpTo(sequence)

SkipListInv == ListTypes /\ Ordered /\ Reached /\ InsertInv /\ Written

LEMMA Heights ==
    /\ kMaxHeight \in Nat \ {0} /\ Levels \subseteq Nat /\ 0 \in Levels
    /\ \A l \in Levels : l > 0 => l - 1 \in Levels
    /\ \A l \in Levels : \A i \in 0..l : i \in Levels
    /\ \A h \in 1..kMaxHeight : h - 1 \in Levels /\ 0..(h - 1) \subseteq Levels
<1>1. kMaxHeight \in Nat \ {0}
  BY HeightAssumption
<1>. QED
  BY <1>1 DEF Levels

LEMMA NodeFacts ==
    ASSUME ListTypes, NEW l, NEW x \in Nodes(l)
    PROVE  x \in DOMAIN next_ /\ x \in Nat /\ next_[x][l] # Wild
BY DEF ListTypes, Nodes

(* What a search relies on. *)
LEMMA SkipListInvImplies == SkipListInv => LevelsSound
<1>. SUFFICES ASSUME SkipListInv PROVE LevelsSound
  OBVIOUS
<1>0. ListTypes /\ Ordered /\ Reached /\ InsertInv
  BY DEF SkipListInv
<1>. SUFFICES ASSUME NEW l \in Levels
              PROVE  /\ \A x \in {head_} \cup Linked(l) : next_[x][l] = Null \/ next_[x][l] > x
                     /\ l > 0 => Linked(l) \subseteq Linked(l - 1)
  BY DEF LevelsSound
<1>1. ASSUME NEW k \in Levels, NEW y
      PROVE  y \in Linked(k) <=> y \notin {Null, Wild} /\ \E x \in Nodes(k) : next_[x][k] = y
  BY DEF Linked, Nodes
<1>2. ASSUME NEW y \in Linked(l) PROVE y \in Nodes(l) /\ y # head_ /\ y \in Nat
  <2>1. PICK x \in Nodes(l) : next_[x][l] = y /\ y # Null
    BY <1>1
  <2>2. y \in Nodes(l) /\ y > x /\ x \in Nat
    BY <2>1, <1>0, NodeFacts DEF Ordered
  <2>3. y \in Nat
    BY <2>2, <1>0, NodeFacts
  <2>. QED BY <2>2, <2>3 DEF head_
<1>3. ASSUME NEW x \in {head_} \cup Linked(l) PROVE next_[x][l] = Null \/ next_[x][l] > x
  <2>1. x \in Nodes(l)
    BY <1>0, <1>2 DEF Ordered
  <2>. QED BY <2>1, <1>0 DEF Ordered
<1>4. ASSUME l > 0, NEW y \in Linked(l) PROVE y \in Linked(l - 1)
  <2>1. l \in Nat /\ l - 1 \in Levels
    BY <1>4, Heights
  <2>2. y \in Nodes(l) /\ y \in Nodes(l - 1) /\ y # head_ /\ y \in Nat
    BY <1>0, <1>2, <1>4 DEF Ordered
  <2>3. ~Unlinked(y, l - 1)
    <3>. SUFFICES ASSUME Unlinked(y, l - 1) PROVE FALSE
      OBVIOUS
    <3>1. insert # NoInsert /\ insert.level = l - 1 /\ insert.key = y
      BY DEF Unlinked
    <3>2. l < l - 1 \/ l = l - 1
      BY <3>1, <2>2, <1>0 DEF InsertInv
    <3>. QED BY <3>2, <2>1
  <2>4. \E x \in Nodes(l - 1) : next_[x][l - 1] = y
    BY <2>1, <2>2, <2>3, <1>0 DEF Reached
  <2>5. y \notin {Null, Wild}
    BY <2>2 DEF Null, Wild
  <2>. QED BY <2>1, <2>4, <2>5, <1>1
<1>. QED
  BY <1>3, <1>4

-----------------------------------------------------------------------------
(***************************************************************************)
(* A level of an Insert                                                    *)
(***************************************************************************)

(* The facts about the Insert in progress. *)
LEMMA InsertFacts ==
    ASSUME SkipListInv, insert # NoInsert, NEW key, key = insert.key, NEW level, level = insert.level,
           NEW prev, prev = insert.prev[level]
    PROVE  /\ key \in DOMAIN next_ /\ key \in Nat /\ key # head_
           /\ level \in Levels /\ level \in Nat /\ Between(prev, key, level)
           /\ prev \in DOMAIN next_ /\ prev \in Nat /\ prev # key
           /\ insert.height \in Nat /\ level < insert.height
           /\ DOMAIN next_[key] = Levels /\ DOMAIN next_[prev] = Levels
<1>0. ListTypes /\ InsertInv
  BY DEF SkipListInv
<1>1. /\ key \in DOMAIN next_ \ {head_} /\ insert.height \in 1..kMaxHeight
      /\ level \in 0..(insert.height - 1)
      /\ \A i \in level..(insert.height - 1) : Between(insert.prev[i], insert.key, i)
  BY <1>0 DEF InsertInv
<1>2. kMaxHeight \in Nat
  BY Heights
<1>3. insert.height \in Nat /\ level \in Nat /\ level < insert.height /\ level \in Levels
  BY <1>1, <1>2 DEF Levels
<1>4. Between(prev, key, level)
  BY <1>1, <1>3
<1>5. prev \in DOMAIN next_ /\ prev \in Nat /\ prev < key
  BY <1>4, <1>0, NodeFacts DEF Between
<1>6. key \in DOMAIN next_ /\ key \in Nat /\ key # head_
  BY <1>0, <1>1 DEF ListTypes
<1>7. DOMAIN next_[key] = Levels /\ DOMAIN next_[prev] = Levels
  BY <1>0, <1>5, <1>6 DEF ListTypes
<1>. QED
  BY <1>3, <1>4, <1>5, <1>6, <1>7

(* One pointer is stored. *)
Stored(x, l, n) ==
    /\ DOMAIN next_' = DOMAIN next_
    /\ \A y \in DOMAIN next_ : DOMAIN next_'[y] = Levels
    /\ next_'[x][l] = n
    /\ \A y \in DOMAIN next_, k \in Levels : y # x \/ k # l => next_'[y][k] = next_[y][k]

LEMMA StoreNext ==
    ASSUME ListTypes, NEW x \in DOMAIN next_, NEW l \in Levels, NEW n,
           next_' = [next_ EXCEPT ![x][l] = n]
    PROVE  Stored(x, l, n)
BY DEF ListTypes, Stored

(* The new node gets its own pointer, before any node points to it. *)
LEMMA SetKeeps ==
    ASSUME SkipListInv, InsertSet, UNCHANGED sequence
    PROVE  SkipListInv'
<1>0. ListTypes /\ Ordered /\ Reached /\ InsertInv /\ Written
  BY DEF SkipListInv
<1>. PICK key : key = insert.key
  OBVIOUS
<1>. PICK level : level = insert.level
  OBVIOUS
<1>. PICK prev : prev = insert.prev[level]
  OBVIOUS
<1>. PICK n : n = next_[prev][level]
  OBVIOUS
<1>1. /\ insert # NoInsert /\ ~insert.set /\ next_' = [next_ EXCEPT ![key][level] = n]
      /\ insert' = [insert EXCEPT !.set = TRUE] /\ heights' = heights
  BY DEF InsertSet
<1>2. /\ key \in DOMAIN next_ /\ key \in Nat /\ key # head_
      /\ level \in Levels /\ level \in Nat /\ Between(prev, key, level)
      /\ prev \in DOMAIN next_ /\ prev \in Nat /\ prev # key
      /\ insert.height \in Nat /\ level < insert.height
  BY <1>1, InsertFacts
<1>3. /\ DOMAIN next_' = DOMAIN next_
      /\ \A y \in DOMAIN next_ : DOMAIN next_'[y] = Levels
      /\ next_'[key][level] = n
      /\ \A y \in DOMAIN next_, k \in Levels :
            y # key \/ k # level => next_'[y][k] = next_[y][k]
  <2>1. Stored(key, level, n)
    BY <1>0, <1>1, <1>2, StoreNext
  <2>. QED BY <2>1 DEF Stored
<1>4. /\ n # Wild
      /\ n # Null => n \in Nodes(level) /\ n > key
  BY <1>0, <1>2, NodeFacts DEF Between, Ordered
<1>5. /\ {"key", "height", "level", "set", "prev"} \subseteq DOMAIN insert
      /\ insert.height \in 1..kMaxHeight /\ \E h \in heights : insert.height <= h
      /\ level \in 0..(insert.height - 1)
      /\ \A l \in Levels : key \in Nodes(l) <=> l < level
      /\ \A i \in level..(insert.height - 1) : Between(insert.prev[i], key, i)
  BY <1>0, <1>1 DEF InsertInv
<1>6. /\ insert'.key = key /\ insert'.height = insert.height /\ insert'.level = level
      /\ insert'.set = TRUE /\ insert'.prev = insert.prev /\ insert' # NoInsert
      /\ {"key", "height", "level", "set", "prev"} \subseteq DOMAIN insert'
  <2>1. /\ insert'.key = key /\ insert'.height = insert.height /\ insert'.level = level
        /\ insert'.set = TRUE /\ insert'.prev = insert.prev
        /\ {"key", "height", "level", "set", "prev"} \subseteq DOMAIN insert'
    BY <1>1, <1>5
  <2>2. NoInsert.set = FALSE
    BY DEF NoInsert
  <2>. QED BY <2>1, <2>2
<1>7. ASSUME NEW l \in Levels
      PROVE  Nodes(l)' = IF l = level THEN Nodes(l) \cup {key} ELSE Nodes(l)
  <2>1. Nodes(l)' = {x \in DOMAIN next_' : next_'[x][l] # Wild}
    BY DEF Nodes
  <2>. QED BY <2>1, <1>2, <1>3, <1>4 DEF Nodes
<1>8. ListTypes'
  BY <1>0, <1>1, <1>3 DEF ListTypes
<1>9. Ordered'
  <2>. SUFFICES ASSUME NEW l \in Levels
                PROVE  /\ head_ \in Nodes(l)'
                       /\ \A x \in Nodes(l)' : next_'[x][l] # Null =>
                             next_'[x][l] \in Nodes(l)' /\ next_'[x][l] > x
                       /\ l > 0 => Nodes(l)' \subseteq Nodes(l - 1)'
    BY DEF Ordered
  <2>1. head_ \in Nodes(l)'
    BY <1>0, <1>7 DEF Ordered
  <2>2. ASSUME NEW x \in Nodes(l)', next_'[x][l] # Null
        PROVE  next_'[x][l] \in Nodes(l)' /\ next_'[x][l] > x
    <3>1. CASE l = level /\ x = key
      BY <3>1, <2>2, <1>3, <1>4, <1>7
    <3>2. CASE ~(l = level /\ x = key)
      <4>1. x \in Nodes(l)
        BY <3>2, <1>7
      <4>2. x \in DOMAIN next_ /\ next_'[x][l] = next_[x][l]
        BY <4>1, <3>2, <1>0, <1>3, NodeFacts
      <4>3. next_[x][l] \in Nodes(l) /\ next_[x][l] > x
        BY <4>1, <4>2, <2>2, <1>0 DEF Ordered
      <4>. QED BY <4>2, <4>3, <1>7
    <3>. QED BY <3>1, <3>2
  <2>3. l > 0 => Nodes(l)' \subseteq Nodes(l - 1)'
    <3>. SUFFICES ASSUME l > 0 PROVE Nodes(l)' \subseteq Nodes(l - 1)'
      OBVIOUS
    <3>1. l \in Nat /\ l - 1 \in Levels /\ Nodes(l) \subseteq Nodes(l - 1)
      BY <1>0, Heights DEF Ordered
    <3>2. l = level => key \in Nodes(l - 1)
      BY <3>1, <1>5
    <3>3. Nodes(l - 1) \subseteq Nodes(l - 1)'
      BY <3>1, <1>7
    <3>. QED BY <3>1, <3>2, <3>3, <1>7
  <2>. QED BY <2>1, <2>2, <2>3
<1>10. Reached'
  <2>. SUFFICES ASSUME NEW l \in Levels, NEW x \in Nodes(l)' \ {head_}
                PROVE  /\ \E h \in heights' : l < h
                       /\ Unlinked(x, l)' \/ \E y \in Nodes(l)' : next_'[y][l] = x
    BY DEF Reached
  <2>1. CASE l = level /\ x = key
    <3>1. Unlinked(x, l)'
      BY <2>1, <1>6 DEF Unlinked
    <3>2. PICK h \in heights : insert.height <= h
      BY <1>5
    <3>3. h \in Nat
      BY <1>0, Heights DEF ListTypes
    <3>. QED BY <2>1, <3>1, <3>2, <3>3, <1>1, <1>2
  <2>2. CASE ~(l = level /\ x = key)
    <3>1. x \in Nodes(l) \ {head_}
      BY <2>2, <1>7
    <3>2. ~Unlinked(x, l)
      BY <1>1 DEF Unlinked
    <3>3. PICK y \in Nodes(l) : next_[y][l] = x
      BY <3>1, <3>2, <1>0 DEF Reached
    <3>4. y \in DOMAIN next_ /\ y \in Nodes(l)' /\ ~(y = key /\ l = level)
      BY <3>3, <1>0, <1>2, <1>5, <1>7, NodeFacts
    <3>5. next_'[y][l] = x
      BY <3>3, <3>4, <1>3
    <3>6. \E h \in heights' : l < h
      BY <3>1, <1>0, <1>1 DEF Reached
    <3>. QED BY <3>4, <3>5, <3>6
  <2>. QED BY <2>1, <2>2
<1>11. InsertInv'
  <2>1. \A l \in Levels : key \in Nodes(l)' <=> l < level \/ l = level
    BY <1>5, <1>7
  <2>2. ASSUME NEW i \in level..(insert.height - 1) PROVE Between(insert.prev[i], key, i)'
    <3>1. i \in Levels
      BY <1>2, <1>5, Heights DEF Levels
    <3>. PICK y : y = insert.prev[i]
      OBVIOUS
    <3>2. y \in Nodes(i) /\ y < key /\ (next_[y][i] = Null \/ next_[y][i] > key)
      BY <1>5 DEF Between
    <3>3. y \in DOMAIN next_ /\ y # key
      BY <3>2, <1>0, <1>2, NodeFacts
    <3>4. y \in Nodes(i)' /\ next_'[y][i] = next_[y][i]
      BY <3>1, <3>2, <3>3, <1>3, <1>7
    <3>5. insert'.prev[i] = y /\ insert'.key = key
      BY <1>6
    <3>6. Between(y, key, i)'
      BY <3>2, <3>4 DEF Between
    <3>. QED BY <3>5, <3>6
  <2>3. next_'[key][level] = next_'[prev][level]
    BY <1>2, <1>3
  <2>. QED BY <2>1, <2>2, <2>3, <1>1, <1>2, <1>3, <1>5, <1>6 DEF InsertInv
<1>12. Written'
  BY <1>0, <1>3 DEF Written
<1>. QED
  BY <1>8, <1>9, <1>10, <1>11, <1>12 DEF SkipListInv

(* The node before it points to the new node. *)
LEMMA LinkKeeps ==
    ASSUME SkipListInv, InsertLink, UNCHANGED sequence
    PROVE  SkipListInv'
<1>0. ListTypes /\ Ordered /\ Reached /\ InsertInv /\ Written
  BY DEF SkipListInv
<1>. PICK key : key = insert.key
  OBVIOUS
<1>. PICK level : level = insert.level
  OBVIOUS
<1>. PICK prev : prev = insert.prev[level]
  OBVIOUS
<1>. PICK n : n = next_[prev][level]
  OBVIOUS
<1>1. /\ insert # NoInsert /\ insert.set /\ next_' = [next_ EXCEPT ![prev][level] = key]
      /\ insert' = IF level + 1 = insert.height THEN NoInsert
                   ELSE [insert EXCEPT !.level = level + 1, !.set = FALSE]
      /\ heights' = heights
  BY DEF InsertLink
<1>2. /\ key \in DOMAIN next_ /\ key \in Nat /\ key # head_
      /\ level \in Levels /\ level \in Nat /\ Between(prev, key, level)
      /\ prev \in DOMAIN next_ /\ prev \in Nat /\ prev # key
      /\ insert.height \in Nat /\ level < insert.height
  BY <1>1, InsertFacts
<1>3. /\ DOMAIN next_' = DOMAIN next_
      /\ \A y \in DOMAIN next_ : DOMAIN next_'[y] = Levels
      /\ next_'[prev][level] = key
      /\ \A y \in DOMAIN next_, k \in Levels :
            y # prev \/ k # level => next_'[y][k] = next_[y][k]
  <2>1. Stored(prev, level, key)
    BY <1>0, <1>1, <1>2, StoreNext
  <2>. QED BY <2>1 DEF Stored
<1>4. /\ {"key", "height", "level", "set", "prev"} \subseteq DOMAIN insert
      /\ insert.height \in 1..kMaxHeight /\ \E h \in heights : insert.height <= h
      /\ \A l \in Levels : key \in Nodes(l) <=> l < level \/ l = level
      /\ \A i \in level..(insert.height - 1) : Between(insert.prev[i], key, i)
      /\ next_[key][level] = n
  BY <1>0, <1>1 DEF InsertInv
<1>5. prev \in Nodes(level) /\ key \in Nodes(level) /\ prev < key
  BY <1>2, <1>4 DEF Between
<1>6. ASSUME NEW l \in Levels PROVE Nodes(l)' = Nodes(l)
  <2>1. Nodes(l)' = {x \in DOMAIN next_' : next_'[x][l] # Wild}
    BY DEF Nodes
  <2>2. key # Wild /\ next_[prev][level] # Wild
    BY <1>2, <1>5 DEF Nodes, Wild
  <2>. QED BY <2>1, <2>2, <1>2, <1>3 DEF Nodes
<1>7. ListTypes'
  BY <1>0, <1>1, <1>3 DEF ListTypes
<1>8. Ordered'
  <2>. SUFFICES ASSUME NEW l \in Levels
                PROVE  /\ head_ \in Nodes(l)'
                       /\ \A x \in Nodes(l)' : next_'[x][l] # Null =>
                             next_'[x][l] \in Nodes(l)' /\ next_'[x][l] > x
                       /\ l > 0 => Nodes(l)' \subseteq Nodes(l - 1)'
    BY DEF Ordered
  <2>1. ASSUME NEW x \in Nodes(l), next_'[x][l] # Null
        PROVE  next_'[x][l] \in Nodes(l) /\ next_'[x][l] > x
    <3>1. CASE l = level /\ x = prev
      BY <3>1, <1>2, <1>3, <1>5
    <3>2. CASE ~(l = level /\ x = prev)
      <4>1. x \in DOMAIN next_ /\ next_'[x][l] = next_[x][l]
        BY <3>2, <1>0, <1>3, NodeFacts
      <4>. QED BY <4>1, <2>1, <1>0 DEF Ordered
    <3>. QED BY <3>1, <3>2
  <2>2. l > 0 => l - 1 \in Levels /\ Nodes(l) \subseteq Nodes(l - 1)
    BY <1>0, Heights DEF Ordered
  <2>. QED BY <2>1, <2>2, <1>0, <1>6 DEF Ordered
<1>9. Reached'
  <2>. SUFFICES ASSUME NEW l \in Levels, NEW x \in Nodes(l) \ {head_}
                PROVE  /\ \E h \in heights : l < h
                       /\ \E y \in Nodes(l) : next_'[y][l] = x
    BY <1>1, <1>6 DEF Reached
  <2>1. \E h \in heights : l < h
    BY <1>0 DEF Reached
  <2>2. CASE l = level /\ x = key
    BY <2>1, <2>2, <1>3, <1>5
  <2>3. CASE ~(l = level /\ x = key)
    <3>1. ~Unlinked(x, l)
      BY <2>3 DEF Unlinked
    <3>2. PICK y \in Nodes(l) : next_[y][l] = x
      BY <3>1, <1>0 DEF Reached
    <3>3. CASE l = level /\ y = prev
      BY <3>2, <3>3, <2>1, <1>2, <1>3, <1>4, <1>5
    <3>4. CASE ~(l = level /\ y = prev)
      <4>1. y \in DOMAIN next_ /\ next_'[y][l] = x
        BY <3>2, <3>4, <1>0, <1>3, NodeFacts
      <4>. QED BY <4>1, <2>1
    <3>. QED BY <3>3, <3>4
  <2>. QED BY <2>2, <2>3
<1>10. InsertInv'
  <2>1. CASE level + 1 = insert.height
    BY <2>1, <1>1 DEF InsertInv
  <2>2. CASE level + 1 # insert.height
    <3>1. /\ insert'.key = key /\ insert'.height = insert.height /\ insert'.level = level + 1
          /\ insert'.set = FALSE /\ insert'.prev = insert.prev
          /\ {"key", "height", "level", "set", "prev"} \subseteq DOMAIN insert'
      BY <2>2, <1>1, <1>4
    <3>2. level + 1 \in 0..(insert.height - 1)
      BY <2>2, <1>2
    <3>3. ASSUME NEW l \in Levels PROVE key \in Nodes(l)' <=> l < level + 1
      <4>1. l \in Nat
        BY Heights
      <4>. QED BY <4>1, <1>2, <1>4, <1>6
    <3>4. ASSUME NEW i \in (level + 1)..(insert.height - 1)
          PROVE  Between(insert.prev[i], key, i)'
      <4>1. i \in Levels /\ i \in level..(insert.height - 1) /\ i # level
        BY <1>2, <1>4, Heights DEF Levels
      <4>. PICK y : y = insert.prev[i]
        OBVIOUS
      <4>2. y \in Nodes(i) /\ y < key /\ (next_[y][i] = Null \/ next_[y][i] > key)
        BY <4>1, <1>4 DEF Between
      <4>3. y \in DOMAIN next_
        BY <4>2, <1>0, NodeFacts
      <4>4. y \in Nodes(i)' /\ next_'[y][i] = next_[y][i]
        BY <4>1, <4>2, <4>3, <1>3, <1>6
      <4>5. Between(y, key, i)'
        BY <4>2, <4>4 DEF Between
      <4>. QED BY <4>5, <3>1
    <3>5. key \in DOMAIN next_' \ {head_} /\ \E h \in heights' : insert.height <= h
      BY <1>1, <1>2, <1>3, <1>4
    <3>6. \A l \in Levels :
             key \in Nodes(l)' <=> l < level + 1 \/ (l = level + 1 /\ insert'.set)
      BY <3>1, <3>3
    <3>7. SUFFICES ASSUME insert' # NoInsert
                   PROVE  /\ {"key", "height", "level", "set", "prev"} \subseteq DOMAIN insert'
                          /\ insert'.key \in DOMAIN next_' \ {head_}
                          /\ insert'.height \in 1..kMaxHeight
                          /\ \E h \in heights' : insert'.height <= h
                          /\ insert'.level \in 0..(insert'.height - 1)
                          /\ insert'.set \in BOOLEAN
                          /\ \A l \in Levels : insert'.key \in Nodes(l)' <=>
                                l < insert'.level \/ (l = insert'.level /\ insert'.set)
                          /\ \A i \in insert'.level..(insert'.height - 1) :
                                Between(insert.prev[i], insert.key, i)'
                          /\ insert'.set => next_'[insert'.key][insert'.level] =
                                next_'[insert'.prev[insert'.level]][insert'.level]
      BY DEF InsertInv
    <3>. QED
      <4>1. insert'.set \in BOOLEAN /\ ~insert'.set
        BY <3>1
      <4>2. \A l \in Levels : insert'.key \in Nodes(l)' <=>
               l < insert'.level \/ (l = insert'.level /\ insert'.set)
        BY <3>1, <3>6
      <4>3. ASSUME NEW i \in insert'.level..(insert'.height - 1)
            PROVE  Between(insert.prev[i], insert.key, i)'
        <5>. PICK y : y = insert.prev[i]
          OBVIOUS
        <5>1. i \in (level + 1)..(insert.height - 1)
          BY <3>1
        <5>2. insert'.prev[i] = y /\ insert'.key = key
          BY <3>1
        <5>3. Between(insert.prev[i], key, i)'
          BY <5>1, <3>4
        <5>. QED BY <5>2, <5>3
      <4>4. /\ {"key", "height", "level", "set", "prev"} \subseteq DOMAIN insert'
            /\ insert'.key \in DOMAIN next_' \ {head_}
            /\ insert'.height \in 1..kMaxHeight
            /\ \E h \in heights' : insert'.height <= h
            /\ insert'.level \in 0..(insert'.height - 1)
        BY <3>1, <3>2, <3>5, <1>4
      <4>. QED BY <4>1, <4>2, <4>3, <4>4
  <2>. QED BY <2>1, <2>2
<1>11. Written'
  BY <1>0, <1>3 DEF Written
<1>. QED
  BY <1>7, <1>8, <1>9, <1>10, <1>11 DEF SkipListInv

-----------------------------------------------------------------------------
(***************************************************************************)
(* FindGreaterOrEqual ends, and finds the places of a key on every level   *)
(***************************************************************************)

(* A set of natural numbers that is not empty has a least element ... *)
LEMMA LeastNatural ==
    ASSUME NEW T \in SUBSET Nat, T # {}
    PROVE  \E m \in T : \A y \in T : m <= y
<1>. DEFINE R == OpToRel(<, Nat)
<1>1. \E m \in T : \A y \in T : ~(<<y, m>> \in R)
  <2>. HIDE DEF R
  <2>1. IsWellFoundedOn(R, Nat)
    BY NatLessThanWellFounded DEF R
  <2>. QED
    BY <2>1, WFMin, Zenon
<1>2. \A y, m \in Nat : y < m => <<y, m>> \in R
  BY Zenon DEF OpToRel
<1>. HIDE DEF R
<1>3. PICK m \in T : \A y \in T : ~(<<y, m>> \in R)
  BY <1>1, Zenon
<1>4. \A y \in T : ~(y < m)
  BY <1>2, <1>3, Zenon
<1>5. \A y \in T : m <= y
  BY <1>4
<1>. QED
  BY <1>5

(* ... and one of bounded numbers a greatest. *)
LEMMA GreatestNatural ==
    ASSUME NEW n \in Nat, NEW T \in SUBSET (0..n), T # {}
    PROVE  \E m \in T : \A y \in T : y <= m
<1>. DEFINE U == {n - y : y \in T}
<1>1. U \in SUBSET Nat /\ U # {}
  <2>1. \A y \in T : n - y \in Nat
    OBVIOUS
  <2>. QED BY <2>1
<1>2. PICK u \in U : \A v \in U : u <= v
  <2>. HIDE DEF U
  <2>. QED BY <1>1, LeastNatural
<1>3. PICK m \in T : u = n - m
  OBVIOUS
<1>4. \A y \in T : n - m <= n - y
  BY <1>2, <1>3
<1>. QED
  BY <1>4

LEMMA MaxHeight ==
    ASSUME ListTypes
    PROVE  /\ max_height_ \in heights /\ max_height_ \in 1..kMaxHeight
           /\ \A g \in heights : g <= max_height_
<1>1. heights \in SUBSET (0..kMaxHeight) /\ heights # {} /\ kMaxHeight \in Nat
  BY Heights DEF ListTypes
<1>2. \E h \in heights : \A g \in heights : g <= h
  BY <1>1, GreatestNatural
<1>3. max_height_ \in heights /\ \A g \in heights : g <= max_height_
  BY <1>2 DEF max_height_
<1>. QED
  BY <1>3 DEF ListTypes

(* The places of a search, and what it does with those that follow one. *)
Places == {p \in (DOMAIN next_) \X Levels : next_[p[1]][p[2]] # Wild}
GoesOn(key, p) == KeyIsAfterNode(key, next_[p[1]][p[2]])
After(p) == <<next_[p[1]][p[2]], p[2]>>
Below(p) == <<p[1], p[2] - 1>>

PrevFrom(key, f, p) ==
    IF GoesOn(key, p) THEN f[After(p)]
    ELSE [i \in 0..p[2] |-> IF i = p[2] THEN p[1] ELSE f[Below(p)][i]]

(* f is a search for key, as far as the places in S. *)
Searches(f, key, S) == \A p \in S : f[p] = PrevFrom(key, f, p)

LEMMA FindPrevSearches ==
    ASSUME NEW key, \E f : f = [p \in Places |-> PrevFrom(key, f, p)]
    PROVE  \E f : /\ Searches(f, key, Places)
                  /\ FindPrev(key) = f[<<head_, max_height_ - 1>>]
<1>. DEFINE Eq(f) == f = [p \in Places |-> PrevFrom(key, f, p)]
            from == CHOOSE f : Eq(f)
<1>1. Eq(from)
  BY Zenon
<1>2. FindPrev(key) = from[<<head_, max_height_ - 1>>]
  BY DEF FindPrev, Places, PrevFrom, GoesOn, After, Below
<1>. HIDE DEF from
<1>3. Searches(from, key, Places)
  BY <1>1 DEF Searches
<1>. QED
  BY <1>2, <1>3

(* What is left of a search: levels to go down, then keys to pass. *)
Left(key) == [p \in Places |-> p[2] * (key + 1) + (IF p[1] < key THEN key - p[1] ELSE 0)]

LEMMA SearchGetsOn ==
    ASSUME ListTypes, Ordered, NEW key \in Nat, NEW p \in Places
    PROVE  /\ p[1] \in Nodes(p[2]) /\ p[1] \in Nat /\ p[2] \in Levels /\ p[2] \in Nat
           /\ Left(key)[p] \in Nat /\ Left(key)[p] < kMaxHeight * (key + 1)
           /\ GoesOn(key, p) => /\ After(p) \in Places /\ After(p)[1] < key
                                /\ Left(key)[After(p)] < Left(key)[p]
           /\ ~GoesOn(key, p) /\ p[2] # 0 => /\ Below(p) \in Places
                                             /\ Left(key)[Below(p)] < Left(key)[p]
<1>. PICK x, l : x = p[1] /\ l = p[2]
  OBVIOUS
<1>. PICK K : K = key + 1
  OBVIOUS
<1>1. /\ x \in DOMAIN next_ /\ l \in Levels /\ next_[x][l] # Wild /\ p = <<x, l>>
      /\ x \in Nodes(l)
  BY DEF Places, Nodes
<1>2. x \in Nat /\ l \in Nat /\ l <= kMaxHeight - 1 /\ kMaxHeight \in Nat /\ K \in Nat /\ K > 0
  BY <1>1, NodeFacts, Heights DEF Levels
<1>3. l * K \in Nat /\ (l - 1) * K = l * K - K /\ l * K <= (kMaxHeight - 1) * K
      /\ (kMaxHeight - 1) * K = kMaxHeight * K - K
  <2>1. l * K \in Nat /\ (l - 1) * K = l * K - K /\ (kMaxHeight - 1) * K = kMaxHeight * K - K
    BY <1>2
  <2>2. \A a, b, c \in Nat : a <= b => a * c <= b * c
    OBVIOUS
  <2>. QED BY <2>1, <2>2, <1>2
<1>4. Left(key)[p] = l * K + (IF x < key THEN key - x ELSE 0)
  BY DEF Left
<1>5. Left(key)[p] \in Nat /\ Left(key)[p] < kMaxHeight * (key + 1)
  <2>1. (IF x < key THEN key - x ELSE 0) \in Nat /\ (IF x < key THEN key - x ELSE 0) < K
    BY <1>2
  <2>. QED BY <2>1, <1>2, <1>3, <1>4
<1>6. ASSUME GoesOn(key, p)
      PROVE  /\ After(p) \in Places /\ After(p)[1] < key
             /\ Left(key)[After(p)] < Left(key)[p]
  <2>. PICK n : n = next_[x][l]
    OBVIOUS
  <2>1. n # Null /\ n < key
    BY <1>6 DEF GoesOn, KeyIsAfterNode
  <2>2. n \in Nodes(l) /\ n > x
    BY <2>1, <1>1 DEF Ordered
  <2>3. n \in DOMAIN next_ /\ n \in Nat /\ next_[n][l] # Wild
    BY <2>2, NodeFacts
  <2>4. After(p) = <<n, l>> /\ <<n, l>> \in Places
    BY <2>3, <1>1 DEF After, Places
  <2>5. Left(key)[After(p)] = l * K + (IF n < key THEN key - n ELSE 0)
    BY <2>4 DEF Left
  <2>. QED BY <2>1, <2>2, <2>3, <2>4, <2>5, <1>2, <1>3, <1>4
<1>7. ASSUME p[2] # 0
      PROVE  Below(p) \in Places /\ Left(key)[Below(p)] < Left(key)[p]
  <2>1. l > 0 /\ l - 1 \in Levels /\ x \in Nodes(l - 1)
    BY <1>1, <1>2, <1>7, Heights DEF Ordered
  <2>2. Below(p) = <<x, l - 1>> /\ <<x, l - 1>> \in Places
    BY <2>1, <1>1 DEF Below, Places, Nodes
  <2>3. Left(key)[Below(p)] = (l - 1) * K + (IF x < key THEN key - x ELSE 0)
    BY <2>2 DEF Left
  <2>4. (l - 1) * K + (IF x < key THEN key - x ELSE 0) < l * K + (IF x < key THEN key - x ELSE 0)
    BY <1>2, <1>3
  <2>. QED BY <2>2, <2>3, <2>4, <1>4
<1>. QED
  BY <1>1, <1>2, <1>5, <1>6, <1>7

(* The places with less than n left. *)
Near(key, n) == {p \in Places : Left(key)[p] < n}

LEMMA SearchExists ==
    ASSUME ListTypes, Ordered, NEW key \in Nat
    PROVE  \E f : /\ Searches(f, key, Places)
                  /\ FindPrev(key) = f[<<head_, max_height_ - 1>>]
<1>. DEFINE P(n) == \E f : Searches(f, key, Near(key, n))
            T == {n \in Nat : ~P(n)}
            m == kMaxHeight * (key + 1)
<1>1. T = {}
  <2>. SUFFICES ASSUME T # {} PROVE FALSE
    OBVIOUS
  <2>1. PICK n \in T : \A k \in T : n <= k
    <3>1. T \in SUBSET Nat
      OBVIOUS
    <3>. HIDE DEF T
    <3>. QED BY <3>1, LeastNatural
  <2>2. n # 0
    <3>1. Near(key, 0) = {}
      BY SearchGetsOn DEF Near
    <3>2. P(0)
      BY <3>1 DEF Searches
    <3>. QED BY <2>1, <3>2
  <2>3. n \in Nat /\ n - 1 \in Nat /\ P(n - 1)
    <3>1. n \in Nat /\ n - 1 \in Nat
      BY <2>1, <2>2
    <3>2. n - 1 \notin T
      <4>. HIDE DEF T
      <4>. QED BY <2>1, <3>1
    <3>. HIDE DEF P
    <3>. QED BY <3>1, <3>2
  <2>4. PICK f : Searches(f, key, Near(key, n - 1))
    BY <2>3
  <2>. DEFINE g == [p \in Places |-> IF p \in Near(key, n - 1) THEN f[p] ELSE PrevFrom(key, f, p)]
  <2>5. ASSUME NEW p \in Near(key, n) PROVE g[p] = PrevFrom(key, g, p)
    <3>1. p \in Places /\ Left(key)[p] < n /\ Left(key)[p] \in Nat /\ p[2] \in Nat
      BY SearchGetsOn DEF Near
    <3>2. g[p] = PrevFrom(key, f, p)
      BY <3>1, <2>4 DEF Searches
    <3>3. ASSUME NEW q \in Places, Left(key)[q] < Left(key)[p] PROVE g[q] = f[q]
      <4>1. Left(key)[q] \in Nat
        BY SearchGetsOn
      <4>2. q \in Near(key, n - 1)
        BY <4>1, <3>1, <3>3, <2>3 DEF Near
      <4>. QED BY <4>2
    <3>. HIDE DEF g
    <3>4. CASE GoesOn(key, p)
      <4>1. g[After(p)] = f[After(p)]
        BY <3>1, <3>3, <3>4, SearchGetsOn
      <4>. QED BY <3>2, <3>4, <4>1 DEF PrevFrom
    <3>5. CASE ~GoesOn(key, p)
      <4>1. p[2] # 0 => g[Below(p)] = f[Below(p)]
        BY <3>1, <3>3, <3>5, SearchGetsOn
      <4>2. \A i \in 0..p[2] : i # p[2] => p[2] # 0
        BY <3>1
      <4>3. [i \in 0..p[2] |-> IF i = p[2] THEN p[1] ELSE g[Below(p)][i]] =
            [i \in 0..p[2] |-> IF i = p[2] THEN p[1] ELSE f[Below(p)][i]]
        BY <4>1, <4>2, Zenon
      <4>. QED BY <3>2, <3>5, <4>3 DEF PrevFrom
    <3>. QED BY <3>4, <3>5
  <2>. HIDE DEF g
  <2>6. P(n)
    BY <2>5 DEF Searches
  <2>. HIDE DEF P
  <2>. QED BY <2>1, <2>6
<1>2. m \in Nat /\ Near(key, m) = Places
  <2>1. m \in Nat
    BY Heights
  <2>. QED BY <2>1, SearchGetsOn DEF Near
<1>3. PICK f : Searches(f, key, Places)
  <2>1. P(m)
    <3>. HIDE DEF P
    <3>. QED BY <1>1, <1>2
  <2>. QED BY <1>2, <2>1
<1>. DEFINE g == [p \in Places |-> f[p]]
<1>4. ASSUME NEW p \in Places PROVE g[p] = PrevFrom(key, g, p)
  <2>1. g[p] = PrevFrom(key, f, p)
    BY <1>3 DEF Searches
  <2>2. ASSUME NEW q \in Places PROVE g[q] = f[q]
    OBVIOUS
  <2>. HIDE DEF g
  <2>3. CASE GoesOn(key, p)
    BY <2>1, <2>2, <2>3, SearchGetsOn DEF PrevFrom
  <2>4. CASE ~GoesOn(key, p)
    <3>1. p[2] # 0 => g[Below(p)] = f[Below(p)]
      BY <2>2, <2>4, SearchGetsOn
    <3>2. \A i \in 0..p[2] : i # p[2] => p[2] # 0
      BY SearchGetsOn
    <3>3. [i \in 0..p[2] |-> IF i = p[2] THEN p[1] ELSE g[Below(p)][i]] =
          [i \in 0..p[2] |-> IF i = p[2] THEN p[1] ELSE f[Below(p)][i]]
      BY <3>1, <3>2, Zenon
    <3>. QED BY <2>1, <2>4, <3>3 DEF PrevFrom
  <2>. QED BY <2>3, <2>4
<1>5. g = [p \in Places |-> PrevFrom(key, g, p)]
  <2>1. g = [p \in Places |-> g[p]]
    OBVIOUS
  <2>. HIDE DEF g
  <2>. QED BY <2>1, <1>4
<1>. HIDE DEF g
<1>6. \E h : h = [p \in Places |-> PrevFrom(key, h, p)]
  BY <1>5
<1>. QED
  BY <1>6, FindPrevSearches

(* Every level the search comes through is left at the place of the key. *)
LEMMA SearchFinds ==
    ASSUME ListTypes, Ordered, NEW key \in Nat \ {0}, key \notin DOMAIN next_
    PROVE  \A i \in 0..(max_height_ - 1) : Between(FindPrev(key)[i], key, i)
<1>1. PICK f : /\ Searches(f, key, Places)
               /\ FindPrev(key) = f[<<head_, max_height_ - 1>>]
  BY SearchExists
<1>. DEFINE Good(p) == \A i \in 0..p[2] : Between(f[p][i], key, i)
            Bad == {p \in Places : p[1] < key /\ ~Good(p)}
            T == {Left(key)[p] : p \in Bad}
<1>2. Bad = {}
  <2>. SUFFICES ASSUME Bad # {} PROVE FALSE
    OBVIOUS
  <2>1. T \in SUBSET Nat /\ T # {}
    BY SearchGetsOn
  <2>2. PICK p \in Bad : \A q \in Bad : Left(key)[p] <= Left(key)[q]
    <3>1. PICK n \in T : \A k \in T : n <= k
      <4>. HIDE DEF T
      <4>. QED BY <2>1, LeastNatural
    <3>. HIDE DEF Bad
    <3>. QED BY <3>1
  <2>. PICK x, l : x = p[1] /\ l = p[2]
    OBVIOUS
  <2>3. /\ p \in Places /\ x \in Nodes(l) /\ x \in Nat /\ l \in Levels /\ l \in Nat /\ x < key
        /\ Left(key)[p] \in Nat
    BY SearchGetsOn
  <2>4. ASSUME NEW q \in Places, q[1] < key, Left(key)[q] < Left(key)[p] PROVE Good(q)
    <3>1. Left(key)[q] \in Nat
      BY SearchGetsOn
    <3>2. q \notin Bad
      <4>. HIDE DEF Bad
      <4>. QED BY <3>1, <2>2, <2>3, <2>4
    <3>. HIDE DEF Good
    <3>. QED BY <3>2, <2>4
  <2>5. f[p] = PrevFrom(key, f, p)
    BY <1>1, <2>3 DEF Searches
  <2>6. Good(p)
    <3>1. CASE GoesOn(key, p)
      <4>1. Good(After(p))
        <5>. HIDE DEF Good
        <5>. QED BY <3>1, <2>3, <2>4, SearchGetsOn
      <4>2. f[p] = f[After(p)] /\ After(p)[2] = p[2]
        BY <2>5, <3>1 DEF PrevFrom, After
      <4>. QED BY <4>1, <4>2
    <3>2. CASE ~GoesOn(key, p)
      <4>. SUFFICES ASSUME NEW i \in 0..l PROVE Between(f[p][i], key, i)
        OBVIOUS
      <4>1. f[p] = [j \in 0..l |-> IF j = l THEN x ELSE f[Below(p)][j]]
        BY <2>5, <3>2 DEF PrevFrom
      <4>2. CASE i = l
        <5>1. f[p][i] = x
          BY <4>1, <4>2
        <5>. PICK n : n = next_[x][l]
          OBVIOUS
        <5>2. n = Null \/ ~(n < key)
          BY <3>2 DEF GoesOn, KeyIsAfterNode
        <5>3. n # Null => n \in DOMAIN next_ /\ n \in Nat
          BY <2>3, NodeFacts DEF Ordered
        <5>4. n = Null \/ n > key
          BY <5>2, <5>3
        <5>. QED BY <5>1, <5>4, <2>3, <4>2 DEF Between
      <4>3. CASE i # l
        <5>1. l # 0 /\ i \in 0..(l - 1)
          BY <4>3, <2>3
        <5>2. Below(p) \in Places /\ Below(p)[1] = x /\ Below(p)[2] = l - 1
              /\ Left(key)[Below(p)] < Left(key)[p]
          BY <5>1, <3>2, <2>3, SearchGetsOn DEF Below
        <5>3. Good(Below(p))
          <6>. HIDE DEF Good
          <6>. QED BY <5>2, <2>3, <2>4
        <5>4. f[p][i] = f[Below(p)][i]
          BY <4>1, <4>3
        <5>. QED BY <5>1, <5>2, <5>3, <5>4
      <4>. QED BY <4>2, <4>3
    <3>. QED BY <3>1, <3>2
  <2>. QED BY <2>6
<1>. PICK h : h = max_height_
  OBVIOUS
<1>3. h \in 1..kMaxHeight /\ h - 1 \in Levels
  BY MaxHeight, Heights
<1>. PICK p : p = <<head_, h - 1>>
  OBVIOUS
<1>4. p \in Places /\ head_ < key
  BY <1>3 DEF Ordered, Nodes, Places, head_
<1>5. Good(p)
  <2>. HIDE DEF Good
  <2>. QED BY <1>2, <1>4
<1>. QED
  BY <1>1, <1>5

-----------------------------------------------------------------------------
(***************************************************************************)
(* The start of an Insert                                                  *)
(***************************************************************************)

(* Entries are numbered by their user keys first. *)
LEMMA InOrder ==
    ASSUME NEW K \in Nat \ {0}, NEW x \in Nat, NEW y \in Nat, NEW c \in Nat, NEW d \in Nat,
           c < K, x < y
    PROVE  x * K + c < y * K + d
<1>1. (x + 1) * K = x * K + K /\ x * K \in Nat /\ y * K \in Nat
  OBVIOUS
<1>2. \A i, j, k \in Nat : i <= j => i * k <= j * k
  OBVIOUS
<1>3. (x + 1) * K <= y * K
  BY <1>2
<1>. QED
  BY <1>1, <1>3

LEMMA Division ==
    ASSUME NEW K \in Nat \ {0}, NEW u \in Nat, NEW a \in Nat, a < K
    PROVE  (u * K + a) \div K = u /\ (u * K + a) % K = a
<1>. PICK e : e = u * K + a
  OBVIOUS
<1>1. e \in Nat
  OBVIOUS
<1>2. e \div K \in Nat /\ e % K \in Nat /\ e % K < K
  BY <1>1
<1>3. e = (e \div K) * K + (e % K)
  BY <1>1
<1>. PICK q, r : q = e \div K /\ r = e % K
  OBVIOUS
<1>4. q \in Nat /\ r \in Nat /\ r < K /\ q * K + r = u * K + a /\ q * K + r \in Nat
  BY <1>2, <1>3
<1>5. ~(q < u) /\ ~(u < q)
  BY <1>4, InOrder
<1>6. q = u
  BY <1>4, <1>5
<1>. QED
  BY <1>4, <1>6

LEMMA EntryParts ==
    ASSUME NEW u \in UserKeys, NEW s \in 0..MaxSequence
    PROVE  User(Entry(u, s)) = u /\ SeqOf(Entry(u, s)) = s
<1>. PICK K, a : K = MaxSequence + 1 /\ a = MaxSequence - s
  OBVIOUS
<1>1. u \in Nat /\ MaxSequence \in Nat
  BY EntriesAssumption
<1>2. K \in Nat \ {0} /\ a \in Nat /\ a < K
  BY <1>1
<1>3. (u * K + a) \div K = u /\ (u * K + a) % K = a
  BY <1>1, <1>2, Division
<1>. QED
  BY <1>1, <1>3 DEF Entry, User, SeqOf

(* Of a user key the newest entry is the first. *)
LEMMA EntryOrder ==
    ASSUME NEW u \in UserKeys, NEW v \in UserKeys, NEW s \in 0..MaxSequence, NEW t \in 0..MaxSequence,
           Entry(u, s) <= Entry(v, t)
    PROVE  u <= v /\ (u = v => t <= s)
<1>. PICK K, a, b : K = MaxSequence + 1 /\ a = MaxSequence - s /\ b = MaxSequence - t
  OBVIOUS
<1>1. u \in Nat /\ v \in Nat /\ MaxSequence \in Nat
  BY EntriesAssumption
<1>2. K \in Nat \ {0} /\ a \in Nat /\ a < K /\ b \in Nat /\ b < K
  BY <1>1
<1>3. u * K + a <= v * K + b /\ u * K + a \in Nat /\ v * K + b \in Nat
  BY <1>1, <1>2 DEF Entry
<1>4. ~(v < u)
  <2>. SUFFICES ASSUME v < u PROVE FALSE
    OBVIOUS
  <2>1. v * K + b < u * K + a
    BY <1>1, <1>2, InOrder
  <2>. QED BY <2>1, <1>3
<1>5. u = v => a <= b
  BY <1>1, <1>2, <1>3
<1>. QED
  BY <1>1, <1>4, <1>5

(* No two entries have the same key. *)
LEMMA EntriesDiffer ==
    ASSUME NEW u \in UserKeys, NEW v \in UserKeys, NEW s \in 0..MaxSequence, NEW t \in 0..MaxSequence
    PROVE  /\ Entry(u, s) \in Nat \ {0}
           /\ Entry(u, s) = Entry(v, t) => u = v /\ s = t
<1>. PICK K : K = MaxSequence + 1
  OBVIOUS
<1>1. u \in Nat \ {0} /\ v \in Nat \ {0} /\ MaxSequence \in Nat
  BY EntriesAssumption
<1>. PICK a, b : a = MaxSequence - s /\ b = MaxSequence - t
  OBVIOUS
<1>2. a \in Nat /\ b \in Nat /\ a < K /\ b < K /\ K \in Nat /\ K > 0
  BY <1>1
<1>3. \A x, y \in Nat, c, d \in Nat : c < K /\ d < K /\ x < y => x * K + c < y * K + d
  BY <1>2, InOrder
<1>4. Entry(u, s) = u * K + a /\ Entry(v, t) = v * K + b
  BY DEF Entry
<1>5. u * K + a > 0
  <2>1. 0 * K + 0 < u * K + a
    BY <1>1, <1>2, <1>3
  <2>. QED BY <2>1, <1>2
<1>6. u * K + a \in Nat
  BY <1>1, <1>2
<1>7. u * K + a = v * K + b => u = v /\ a = b
  <2>. SUFFICES ASSUME u * K + a = v * K + b PROVE u = v /\ a = b
    OBVIOUS
  <2>1. ~(u < v) /\ ~(v < u)
    <3>1. u * K + a \in Nat /\ v * K + b \in Nat
      BY <1>1, <1>2
    <3>. QED BY <3>1, <1>1, <1>2, <1>3
  <2>2. u = v
    BY <2>1, <1>1
  <2>. QED BY <2>2, <1>1, <1>2
<1>. QED
  BY <1>1, <1>4, <1>5, <1>6, <1>7

(* prev[i] is the place of the key at every level of the new node. *)
LEMMA PrevsFit ==
    ASSUME ListTypes, Ordered, Reached, insert = NoInsert,
           NEW key \in Nat \ {0}, key \notin DOMAIN next_, NEW height \in 1..kMaxHeight
    PROVE  \A i \in 0..(height - 1) : Between(Prevs(key, height)[i], key, i)
<1>. SUFFICES ASSUME NEW i \in 0..(height - 1) PROVE Between(Prevs(key, height)[i], key, i)
  OBVIOUS
<1>. PICK h : h = max_height_
  OBVIOUS
<1>1. h \in 1..kMaxHeight /\ \A g \in heights : g <= h /\ g \in Nat
  BY MaxHeight DEF ListTypes
<1>2. i \in Levels /\ i \in Nat
  BY Heights
<1>3. Prevs(key, height)[i] = IF i < h THEN FindPrev(key)[i] ELSE head_
  BY DEF Prevs
<1>4. CASE i < h
  <2>1. i \in 0..(h - 1)
    BY <1>1, <1>2, <1>4
  <2>. QED BY <2>1, <1>3, <1>4, SearchFinds
<1>5. CASE ~(i < h)
  <2>1. head_ \in Nodes(i) /\ head_ < key
    BY <1>2 DEF Ordered, head_
  <2>. PICK n : n = next_[head_][i]
    OBVIOUS
  <2>2. ASSUME n # Null PROVE FALSE
    <3>1. n \in Nodes(i) /\ n > head_
      BY <2>1, <2>2, <1>2 DEF Ordered
    <3>2. n \in Nodes(i) \ {head_}
      BY <3>1 DEF head_
    <3>3. \E g \in heights : i < g
      BY <3>2, <1>2 DEF Reached
    <3>. QED BY <3>3, <1>1, <1>2, <1>5
  <2>. QED BY <2>1, <2>2, <1>3, <1>5 DEF Between
<1>. QED
  BY <1>4, <1>5

LEMMA AddKeeps ==
    ASSUME SkipListInv, NEW user \in UserKeys, NEW height \in 1..kMaxHeight, Add(user, height)
    PROVE  SkipListInv'
<1>0. ListTypes /\ Ordered /\ Reached /\ InsertInv /\ Written
  BY DEF SkipListInv
<1>. PICK key : key = Entry(user, sequence + 1)
  OBVIOUS
<1>. PICK prevs : prevs = Prevs(key, height)
  OBVIOUS
<1>. PICK top : top = max_height_
  OBVIOUS
<1>1. /\ insert = NoInsert /\ sequence < MaxSequence /\ sequence' = sequence + 1
      /\ insert' = [key |-> key, height |-> height, level |-> 0, set |-> FALSE, prev |-> prevs]
      /\ heights' = IF height > top THEN heights \cup {height} ELSE heights
      /\ next_' = [x \in DOMAIN next_ \cup {key} |->
                      IF x = key THEN [l \in Levels |-> Wild] ELSE next_[x]]
  BY DEF Add, InsertBegin
<1>2. sequence \in Nat /\ MaxSequence \in Nat /\ sequence + 1 \in 1..MaxSequence
  BY <1>0, <1>1, EntriesAssumption DEF Written
<1>3. key \in Nat \ {0} /\ key \notin DOMAIN next_
  <2>1. key \in Nat \ {0}
    BY <1>2, EntriesDiffer
  <2>2. ASSUME key \in DOMAIN next_ PROVE FALSE
    <3>1. key \in WrittenUpTo(sequence)
      BY <2>1, <2>2, <1>0 DEF Written, head_
    <3>2. PICK u \in UserKeys, seq \in 1..sequence : key = Entry(u, seq)
      BY <3>1 DEF WrittenUpTo
    <3>3. seq \in 0..MaxSequence /\ sequence + 1 \in 0..MaxSequence
      BY <1>2
    <3>4. sequence + 1 = seq
      BY <3>2, <3>3, EntriesDiffer
    <3>. QED BY <3>4, <1>2
  <2>. QED BY <2>1, <2>2
<1>4. \A i \in 0..(height - 1) : Between(prevs[i], key, i)
  BY <1>0, <1>1, <1>3, PrevsFit
<1>5. /\ DOMAIN next_' = DOMAIN next_ \cup {key} /\ next_'[key] = [l \in Levels |-> Wild]
      /\ \A x \in DOMAIN next_ : next_'[x] = next_[x]
  BY <1>1, <1>3
<1>6. ASSUME NEW l \in Levels PROVE Nodes(l)' = Nodes(l) /\ key \notin Nodes(l)
  <2>1. Nodes(l)' = {x \in DOMAIN next_' : next_'[x][l] # Wild}
    BY DEF Nodes
  <2>. QED BY <2>1, <1>3, <1>5 DEF Nodes
<1>7. /\ insert'.key = key /\ insert'.height = height /\ insert'.level = 0
      /\ insert'.set = FALSE /\ insert'.prev = prevs
      /\ {"key", "height", "level", "set", "prev"} \subseteq DOMAIN insert'
  BY <1>1
<1>8. heights \subseteq heights' /\ \E h \in heights' : height <= h
  <2>1. top \in heights /\ top \in Nat /\ height \in Nat
    BY <1>0, MaxHeight, Heights
  <2>. QED BY <2>1, <1>1
<1>9. ListTypes'
  <2>1. heights' \subseteq 1..kMaxHeight /\ heights' # {}
    BY <1>0, <1>1, <1>8 DEF ListTypes
  <2>2. \A x \in DOMAIN next_' : DOMAIN next_'[x] = Levels
    BY <1>0, <1>5 DEF ListTypes
  <2>. QED BY <2>1, <2>2, <1>0, <1>3, <1>5 DEF ListTypes
<1>10. Ordered'
  <2>. SUFFICES ASSUME NEW l \in Levels
                PROVE  /\ head_ \in Nodes(l)'
                       /\ \A x \in Nodes(l)' : next_'[x][l] # Null =>
                             next_'[x][l] \in Nodes(l)' /\ next_'[x][l] > x
                       /\ l > 0 => Nodes(l)' \subseteq Nodes(l - 1)'
    BY DEF Ordered
  <2>1. \A x \in Nodes(l) : next_'[x][l] = next_[x][l]
    BY <1>0, <1>5, NodeFacts
  <2>2. l > 0 => l - 1 \in Levels /\ Nodes(l) \subseteq Nodes(l - 1)
    BY <1>0, Heights DEF Ordered
  <2>. QED BY <2>1, <2>2, <1>0, <1>6 DEF Ordered
<1>11. Reached'
  <2>. SUFFICES ASSUME NEW l \in Levels, NEW x \in Nodes(l) \ {head_}
                PROVE  /\ \E h \in heights' : l < h
                       /\ \E y \in Nodes(l) : next_'[y][l] = x
    BY <1>6 DEF Reached
  <2>1. ~Unlinked(x, l)
    BY <1>1 DEF Unlinked
  <2>2. PICK y \in Nodes(l) : next_[y][l] = x
    BY <2>1, <1>0 DEF Reached
  <2>3. next_'[y][l] = x
    BY <2>2, <1>0, <1>5, NodeFacts
  <2>4. \E h \in heights' : l < h
    BY <1>0, <1>8 DEF Reached
  <2>. QED BY <2>3, <2>4
<1>12. InsertInv'
  <2>1. \A l \in Levels : insert'.key \in Nodes(l)' <=>
            l < insert'.level \/ (l = insert'.level /\ insert'.set)
    <3>1. \A l \in Levels : l \in Nat /\ ~(l < 0)
      BY Heights
    <3>. QED BY <3>1, <1>6, <1>7
  <2>2. ASSUME NEW i \in insert'.level..(insert'.height - 1)
        PROVE  Between(insert.prev[i], insert.key, i)'
    <3>1. i \in 0..(height - 1) /\ i \in Levels
      BY <1>7, Heights
    <3>. PICK y : y = prevs[i]
      OBVIOUS
    <3>2. y \in Nodes(i) /\ y < key /\ (next_[y][i] = Null \/ next_[y][i] > key)
      BY <3>1, <1>4 DEF Between
    <3>3. y \in Nodes(i)' /\ next_'[y][i] = next_[y][i]
      BY <3>1, <3>2, <1>0, <1>5, <1>6, NodeFacts
    <3>4. Between(y, key, i)'
      BY <3>2, <3>3 DEF Between
    <3>5. insert'.prev[i] = y /\ insert'.key = key
      BY <1>7
    <3>. QED BY <3>4, <3>5
  <2>3. /\ insert'.key \in DOMAIN next_' \ {head_}
        /\ insert'.height \in 1..kMaxHeight /\ \E h \in heights' : insert'.height <= h
        /\ insert'.level \in 0..(insert'.height - 1)
        /\ insert'.set \in BOOLEAN /\ ~insert'.set
    <3>1. key \in DOMAIN next_' \ {head_}
      BY <1>3, <1>5 DEF head_
    <3>2. \E h \in heights' : height <= h
      BY <1>8
    <3>3. height \in 1..kMaxHeight /\ 0 \in 0..(height - 1)
      OBVIOUS
    <3>. QED BY <3>1, <3>2, <3>3, <1>7
  <2>. QED BY <2>1, <2>2, <2>3, <1>7 DEF InsertInv
<1>13. Written'
  <2>1. sequence' \in 0..MaxSequence
    BY <1>1, <1>2
  <2>2. key \in WrittenUpTo(sequence')
    <3>1. sequence + 1 \in 1..sequence'
      BY <1>1, <1>2
    <3>. QED BY <3>1 DEF WrittenUpTo
  <2>3. WrittenUpTo(sequence) \subseteq WrittenUpTo(sequence')
    <3>1. 1..sequence \subseteq 1..sequence'
      BY <1>1, <1>2
    <3>. QED BY <3>1 DEF WrittenUpTo
  <2>4. DOMAIN next_' \ {head_} \subseteq WrittenUpTo(sequence')
    BY <2>2, <2>3, <1>0, <1>5 DEF Written
  <2>. QED BY <2>1, <2>4 DEF Written
<1>. QED
  BY <1>9, <1>10, <1>11, <1>12, <1>13 DEF SkipListInv

-----------------------------------------------------------------------------
(***************************************************************************)
(* The list a memtable starts with, and the theorem                        *)
(***************************************************************************)

(* The keys after x that have a pointer at level l. *)
Later(height, x, l) == {k \in DOMAIN height : k > x /\ height[k] > l}

LEMMA ListNext ==
    ASSUME NEW height, DOMAIN height \subseteq Nat, NEW x \in Nat, NEW l
    PROVE  \/ Least(Later(height, x, l)) = Null /\ Later(height, x, l) = {}
           \/ /\ Least(Later(height, x, l)) \in Later(height, x, l)
              /\ \A k \in Later(height, x, l) : Least(Later(height, x, l)) <= k
<1>1. Later(height, x, l) \in SUBSET Nat
  BY DEF Later
<1>. PICK S : S = Later(height, x, l)
  OBVIOUS
<1>2. CASE S = {}
  BY <1>2 DEF Least
<1>3. CASE S # {}
  <2>1. \E m \in S : \A y \in S : m <= y
    BY <1>1, <1>3, LeastNatural
  <2>. QED BY <2>1, <1>3 DEF Least
<1>. QED
  BY <1>2, <1>3

LEMMA ListStarts ==
    ASSUME NEW keys, NEW height \in [keys -> 1..kMaxHeight], keys \subseteq Nat \ {0},
           ListInit(height)
    PROVE  /\ ListTypes /\ Ordered /\ Reached /\ InsertInv
           /\ DOMAIN next_ \ {head_} = keys /\ keys \subseteq Nodes(0)
<1>0. /\ DOMAIN height = keys /\ \A k \in keys : height[k] \in 1..kMaxHeight
      /\ \A k \in keys : height[k] \in Nat
      /\ kMaxHeight \in Nat \ {0} /\ insert = NoInsert
  <2>1. kMaxHeight \in Nat \ {0}
    BY Heights
  <2>. QED BY <2>1 DEF ListInit
<1>1. /\ DOMAIN next_ = keys \cup {head_}
      /\ \A x \in DOMAIN next_ : DOMAIN next_[x] = Levels
      /\ \A x \in DOMAIN next_ : \A l \in Levels :
            next_[x][l] = IF x # head_ /\ height[x] <= l THEN Wild ELSE Least(Later(height, x, l))
  BY <1>0 DEF ListInit, ListOf, Later
<1>2. /\ DOMAIN next_ \subseteq Nat /\ head_ \in DOMAIN next_ /\ head_ \notin keys /\ head_ = 0
      /\ \A x \in DOMAIN next_ : x # head_ => x \in keys
  BY <1>1 DEF head_
<1>3. \A l \in Levels : l \in Nat
  BY Heights
<1>4. PICK h \in 1..kMaxHeight : heights = {h} /\ \A k \in keys : height[k] <= h
  <2>. PICK H : H = {1} \cup {height[k] : k \in DOMAIN height}
    OBVIOUS
  <2>1. H \in SUBSET (0..kMaxHeight) /\ H \subseteq 1..kMaxHeight /\ H # {}
    <3>1. 1 \in 1..kMaxHeight /\ 1..kMaxHeight \subseteq 0..kMaxHeight
      BY <1>0
    <3>. QED BY <3>1, <1>0
  <2>2. \E h \in H : \A g \in H : g <= h
    BY <2>1, <1>0, GreatestNatural
  <2>3. \E h \in H : \A k \in DOMAIN height : height[k] <= h
    BY <2>2
  <2>. PICK h : h = CHOOSE g \in H : \A k \in DOMAIN height : height[k] <= g
    OBVIOUS
  <2>4. h \in H /\ \A k \in DOMAIN height : height[k] <= h
    BY <2>3
  <2>5. heights = {h}
    BY DEF ListInit
  <2>. QED BY <2>1, <2>4, <2>5, <1>0
<1>5. ASSUME NEW l \in Levels, NEW x \in DOMAIN next_, x = head_ \/ height[x] > l
      PROVE  /\ next_[x][l] = Least(Later(height, x, l)) /\ x \in Nodes(l)
             /\ \/ next_[x][l] = Null /\ Later(height, x, l) = {}
                \/ /\ next_[x][l] \in Later(height, x, l)
                   /\ \A k \in Later(height, x, l) : next_[x][l] <= k
  <2>1. next_[x][l] = Least(Later(height, x, l))
    <3>1. x # head_ => height[x] \in Nat
      BY <1>0, <1>2
    <3>. QED BY <3>1, <1>1, <1>3, <1>5
  <2>2. \/ next_[x][l] = Null /\ Later(height, x, l) = {}
        \/ /\ next_[x][l] \in Later(height, x, l)
           /\ \A k \in Later(height, x, l) : next_[x][l] <= k
    <3>1. DOMAIN height \subseteq Nat /\ x \in Nat
      BY <1>0, <1>2
    <3>. QED BY <3>1, <2>1, ListNext
  <2>3. next_[x][l] # Wild
    <3>1. Later(height, x, l) \subseteq Nat
      BY <1>0 DEF Later
    <3>. QED BY <3>1, <2>2 DEF Null, Wild
  <2>. QED BY <2>1, <2>2, <2>3 DEF Nodes
<1>6. ASSUME NEW l \in Levels, NEW x
      PROVE  x \in Nodes(l) <=> x = head_ \/ (x \in keys /\ height[x] > l)
  <2>1. ASSUME x \in Nodes(l), x # head_ PROVE x \in keys /\ height[x] > l
    <3>1. x \in DOMAIN next_ /\ x \in keys /\ height[x] \in Nat
      BY <2>1, <1>0, <1>2 DEF Nodes
    <3>2. ~(height[x] <= l)
      BY <2>1, <3>1, <1>1 DEF Nodes
    <3>. QED BY <3>1, <3>2, <1>3
  <2>2. ASSUME x = head_ \/ (x \in keys /\ height[x] > l) PROVE x \in Nodes(l)
    BY <2>2, <1>1, <1>2, <1>5
  <2>. QED BY <2>1, <2>2
<1>7. ListTypes
  BY <1>1, <1>2, <1>4 DEF ListTypes
<1>8. Ordered
  <2>. SUFFICES ASSUME NEW l \in Levels
                PROVE  /\ head_ \in Nodes(l)
                       /\ \A x \in Nodes(l) : next_[x][l] # Null =>
                             next_[x][l] \in Nodes(l) /\ next_[x][l] > x
                       /\ l > 0 => Nodes(l) \subseteq Nodes(l - 1)
    BY DEF Ordered
  <2>1. head_ \in Nodes(l)
    BY <1>6
  <2>2. ASSUME NEW x \in Nodes(l), next_[x][l] # Null
        PROVE  next_[x][l] \in Nodes(l) /\ next_[x][l] > x
    <3>1. x \in DOMAIN next_ /\ (x = head_ \/ height[x] > l)
      BY <1>6 DEF Nodes
    <3>2. next_[x][l] \in Later(height, x, l)
      BY <3>1, <2>2, <1>5
    <3>. QED BY <3>2, <1>0, <1>6 DEF Later
  <2>3. ASSUME l > 0, NEW x \in Nodes(l) PROVE x \in Nodes(l - 1)
    <3>1. l - 1 \in Levels /\ l \in Nat
      BY <2>3, Heights
    <3>2. x = head_ \/ (x \in keys /\ height[x] > l /\ height[x] \in Nat)
      BY <1>0, <1>6
    <3>. QED BY <3>1, <3>2, <1>6
  <2>. QED BY <2>1, <2>2, <2>3
<1>9. Reached
  <2>. SUFFICES ASSUME NEW l \in Levels, NEW x \in Nodes(l) \ {head_}
                PROVE  /\ \E g \in heights : l < g
                       /\ \E y \in Nodes(l) : next_[y][l] = x
    BY DEF Reached
  <2>1. x \in keys /\ height[x] > l /\ height[x] \in Nat /\ x \in Nat /\ x # 0
    <3>1. x \in keys /\ height[x] > l
      BY <1>6
    <3>. QED BY <3>1, <1>0
  <2>2. \E g \in heights : l < g
    BY <2>1, <1>3, <1>4
  <2>. DEFINE B == {y \in Nodes(l) : y < x}
  <2>3. B \in SUBSET (0..x) /\ B # {}
    <3>1. \A y \in B : y \in Nat /\ y <= x
      BY <2>1, <1>7, NodeFacts
    <3>2. head_ \in B
      BY <2>1, <1>2, <1>6
    <3>. HIDE DEF B
    <3>. QED BY <3>1, <3>2, <2>1
  <2>4. PICK y \in B : \A z \in B : z <= y
    <3>. HIDE DEF B
    <3>. QED BY <2>1, <2>3, GreatestNatural
  <2>5. y \in Nodes(l) /\ y < x /\ y \in Nat /\ y \in DOMAIN next_ /\ (y = head_ \/ height[y] > l)
    BY <1>6, <1>7, NodeFacts
  <2>6. x \in Later(height, y, l)
    BY <2>1, <2>5, <1>0 DEF Later
  <2>7. next_[y][l] \in Later(height, y, l) /\ next_[y][l] <= x
    BY <2>5, <2>6, <1>5
  <2>. PICK k : k = next_[y][l]
    OBVIOUS
  <2>8. k \in keys /\ k > y /\ height[k] > l /\ k \in Nat /\ k <= x
    BY <2>7, <1>0, <1>2 DEF Later
  <2>9. ~(k < x)
    <3>1. k \in Nodes(l)
      BY <2>8, <1>6
    <3>2. k < x => k \in B
      BY <3>1
    <3>. HIDE DEF B
    <3>. QED BY <3>2, <2>4, <2>5, <2>8
  <2>10. k = x
    BY <2>8, <2>9, <2>1
  <2>. QED BY <2>2, <2>5, <2>10
<1>10. InsertInv
  BY <1>0 DEF InsertInv
<1>11. DOMAIN next_ \ {head_} = keys /\ keys \subseteq Nodes(0)
  <2>1. \A k \in keys : height[k] > 0
    BY <1>0
  <2>. QED BY <2>1, <1>1, <1>2, <1>6, Heights
<1>. QED
  BY <1>7, <1>8, <1>9, <1>10, <1>11

LEMMA SkipListStarts == Init => SkipListInv
<1>. SUFFICES ASSUME Init PROVE SkipListInv
  OBVIOUS
<1>1. layout \in Layouts /\ sequence = layout.last
  BY DEF Init
<1>2. PICK height \in [layout.mem -> 1..kMaxHeight] : ListInit(height)
  BY DEF Init
<1>3. /\ layout.last \in 0..MaxSequence /\ MaxSequence \in Nat
      /\ layout.mem \subseteq WrittenUpTo(layout.last)
  <2>1. MaxSequence \in Nat
    BY EntriesAssumption, Zenon
  <2>2. /\ layout.last \in 0..MaxSequence
        /\ \A e \in layout.mem : \E user \in UserKeys, seq \in 1..layout.last : e = Entry(user, seq)
    BY <1>1, LayoutsAssumption, Zenon
  <2>3. layout.mem \subseteq WrittenUpTo(layout.last)
    BY <2>2 DEF WrittenUpTo
  <2>. QED BY <2>1, <2>2, <2>3
<1>4. layout.mem \subseteq Nat \ {0}
  <2>. SUFFICES ASSUME NEW e \in layout.mem PROVE e \in Nat \ {0}
    OBVIOUS
  <2>1. PICK u \in UserKeys, s \in 1..layout.last : e = Entry(u, s)
    BY <1>3 DEF WrittenUpTo
  <2>2. s \in 0..MaxSequence
    BY <1>3
  <2>. QED BY <2>1, <2>2, EntriesDiffer
<1>5. /\ ListTypes /\ Ordered /\ Reached /\ InsertInv
      /\ DOMAIN next_ \ {head_} = layout.mem
  BY <1>2, <1>4, ListStarts
<1>6. Written
  BY <1>1, <1>3, <1>5 DEF Written
<1>. QED
  BY <1>5, <1>6 DEF SkipListInv

(* Nobody but the writer changes the list. *)
LEMMA ReadersKeep ==
    ASSUME SkipListInv, UNCHANGED <<next_, heights, insert, sequence>>
    PROVE  SkipListInv'
BY DEF SkipListInv, ListTypes, Ordered, Reached, InsertInv, Written, Nodes, Unlinked, Between

LEMMA SkipListStep == SkipListInv /\ [Next]_vars => SkipListInv'
<1>. SUFFICES ASSUME SkipListInv, [Next]_vars PROVE SkipListInv'
  OBVIOUS
<1>1. ASSUME ClientStep PROVE UNCHANGED <<next_, heights, insert, sequence>>
  BY <1>1, Zenon DEF ClientStep, SeekToFirst, SeekToLast, Next_, Prev, Seek, GetBegin, DBStep
<1>2. ASSUME IterStep PROVE UNCHANGED <<next_, heights, insert, sequence>>
  <2>1. ASSUME MergeBegin \/ MergeBack \/ Walk \/ WalkEnd \/ MergeFinish
        PROVE  UNCHANGED <<next_, heights, insert, sequence>>
    BY <2>1, Zenon DEF MergeBegin, MergeBack, Walk, WalkEnd, MergeFinish
  <2>2. ASSUME FindNextUserEntry \/ LeaveKey \/ FindPrevUserEntry
        PROVE  UNCHANGED <<next_, heights, insert, sequence>>
    BY <2>2, Zenon DEF FindNextUserEntry, LeaveKey, FindPrevUserEntry, DBStep
  <2>. QED BY <2>1, <2>2, <1>2 DEF IterStep
<1>3. ASSUME GetEnd PROVE UNCHANGED <<next_, heights, insert, sequence>>
  BY <1>3, Zenon DEF GetEnd
<1>4. ASSUME WriterStep PROVE SkipListInv'
  <2>1. CASE InsertStep
    BY <2>1, SetKeeps, LinkKeeps DEF InsertStep
  <2>2. CASE \E user \in UserKeys, height \in 1..kMaxHeight : Add(user, height)
    BY <2>2, AddKeeps
  <2>. QED BY <1>4, <2>1, <2>2 DEF WriterStep
<1>5. ASSUME UNCHANGED vars PROVE UNCHANGED <<next_, heights, insert, sequence>>
  BY <1>5, Zenon DEF vars
<1>. QED
  BY <1>1, <1>2, <1>3, <1>4, <1>5, ReadersKeep DEF Next

(* However many keys are inserted with whatever heights, at every moment of  *)
(* an Insert (skiplist.h:303) each level of the list is in order and is a    *)
(* part of the level below, so that a search that runs beside it never       *)
(* comes down to a node that is not linked there, nor to a wild pointer.     *)
THEOREM LevelsStaySound == Spec => []LevelsSound
<1>1. Spec => []SkipListInv
  BY SkipListStarts, SkipListStep, PTL DEF Spec
<1>. QED
  BY <1>1, SkipListInvImplies, PTL

-----------------------------------------------------------------------------
(***************************************************************************)
(* MemTable::Get                                                           *)
(***************************************************************************)

(* The nodes of level l that a search may come to. *)
Joined(l) == {x \in Nodes(l) : ~Unlinked(x, l)}

(* No node points to the new node before its place does. *)
Hidden ==
    insert # NoInsert /\ insert.set =>
        \A y \in Nodes(insert.level) : next_[y][insert.level] # insert.key

(* What was in the memtable at first is found at level 0; what is new has   *)
(* newer sequence numbers.                                                  *)
Kept ==
    /\ layout \in Layouts /\ layout.last <= sequence
    /\ layout.mem \subseteq Joined(0)
    /\ \A e \in DOMAIN next_ \ {head_} : SeqOf(e) <= layout.last => e \in layout.mem

(* A Get that has not ended. *)
Getting == got.user # NoKey /\ ~got.done

(* There is one search at a time: the Get's, or one of the MergeIterator.   *)
OneSearch ==
    /\ db.pc = "idle" => merge.op = "none"
    /\ walk # NoWalk /\ merge.op # "none" => merge.stage \in {"walk", "walk2"}
    /\ walk # NoWalk /\ merge.op = "none" => db.pc = "idle" /\ Getting
    /\ Getting => walk # NoWalk /\ merge.op = "none"

(* The Get stands before its key, on a node of the level it searches. *)
OnItsWay ==
    Getting =>
        /\ {"find", "key", "x", "level"} \subseteq DOMAIN walk
        /\ walk.find = "ge" /\ walk.key = Entry(got.user, layout.snap)
        /\ got.user \in UserKeys
        /\ walk.level \in Levels /\ walk.x \in Joined(walk.level) /\ walk.x < walk.key

GetTypes ==
    /\ "pc" \in DOMAIN db /\ {"op", "stage"} \subseteq DOMAIN merge
    /\ {"user", "done", "found", "type", "seq"} \subseteq DOMAIN got
    /\ ~got.done => got = [NothingGot EXCEPT !.user = got.user]

GetInv == Hidden /\ Kept /\ OneSearch /\ OnItsWay /\ GetTypes /\ MemGetExact

LEMMA JoinedFacts ==
    ASSUME SkipListInv, NEW l \in Levels
    PROVE  /\ head_ \in Joined(l)
           /\ \A x \in Joined(l) : x \in Nodes(l) /\ x \in DOMAIN next_ /\ x \in Nat
           /\ l > 0 => l - 1 \in Levels /\ Joined(l) \subseteq Joined(l - 1)
<1>0. ListTypes /\ Ordered /\ InsertInv
  BY DEF SkipListInv
<1>1. \A x \in Joined(l) : x \in Nodes(l) /\ x \in DOMAIN next_ /\ x \in Nat
  BY <1>0, NodeFacts DEF Joined
<1>2. head_ \in Joined(l)
  BY <1>0 DEF Joined, Ordered, InsertInv, Unlinked
<1>3. ASSUME l > 0, NEW x \in Joined(l) PROVE l - 1 \in Levels /\ x \in Joined(l - 1)
  <2>1. l - 1 \in Levels /\ l \in Nat
    BY <1>3, Heights
  <2>2. x \in Nodes(l) /\ x \in Nodes(l - 1)
    BY <1>0, <1>1, <1>3 DEF Ordered
  <2>3. ASSUME Unlinked(x, l - 1) PROVE FALSE
    <3>1. insert # NoInsert /\ insert.level = l - 1 /\ insert.key = x
      BY <2>3 DEF Unlinked
    <3>2. l < l - 1 \/ l = l - 1
      BY <3>1, <2>2, <1>0 DEF InsertInv
    <3>. QED BY <3>2, <2>1
  <2>. QED BY <2>1, <2>2, <2>3 DEF Joined
<1>. QED
  BY <1>1, <1>2, <1>3, Heights

(* A search goes from joined nodes to joined nodes. *)
LEMMA NextJoined ==
    ASSUME SkipListInv, Hidden, NEW l \in Levels, NEW x \in Nodes(l), next_[x][l] # Null
    PROVE  next_[x][l] \in Joined(l) /\ next_[x][l] > x
<1>1. next_[x][l] \in Nodes(l) /\ next_[x][l] > x
  BY DEF SkipListInv, Ordered
<1>2. ~Unlinked(next_[x][l], l)
  BY DEF Hidden, Unlinked
<1>. QED
  BY <1>1, <1>2 DEF Joined

LEMMA FromJoined ==
    ASSUME SkipListInv, NEW l \in Levels, NEW x \in Joined(l), x # head_
    PROVE  \E y \in Joined(l) : next_[y][l] = x
<1>0. ListTypes /\ Ordered /\ Reached /\ InsertInv
  BY DEF SkipListInv
<1>1. PICK y \in Nodes(l) : next_[y][l] = x
  BY <1>0 DEF Joined, Reached
<1>2. CASE Unlinked(y, l)
  <2>. PICK prev : prev = insert.prev[l]
    OBVIOUS
  <2>1. insert # NoInsert /\ insert.set /\ insert.level = l /\ insert.key = y
    BY <1>2 DEF Unlinked
  <2>2. Between(prev, y, l) /\ prev # y
    BY <2>1, InsertFacts
  <2>3. next_[y][l] = next_[prev][l]
    BY <2>1, <1>0 DEF InsertInv
  <2>4. prev \in Joined(l)
    BY <2>1, <2>2 DEF Between, Joined, Unlinked
  <2>. QED BY <2>3, <2>4, <1>1
<1>3. CASE ~Unlinked(y, l)
  BY <1>1, <1>3 DEF Joined
<1>. QED
  BY <1>2, <1>3

(* No joined node is passed over. *)
LEMMA NonePassed ==
    ASSUME SkipListInv, Hidden, NEW l \in Levels
    PROVE  \A e \in Joined(l) : \A x \in Joined(l) :
               x < e => next_[x][l] # Null /\ next_[x][l] <= e
<1>. DEFINE Good(e) == \A x \in Joined(l) : x < e => next_[x][l] # Null /\ next_[x][l] <= e
            Bad == {e \in Joined(l) : ~Good(e)}
<1>1. Bad = {}
  <2>. SUFFICES ASSUME Bad # {} PROVE FALSE
    OBVIOUS
  <2>1. PICK e \in Bad : \A d \in Bad : e <= d
    <3>1. Bad \in SUBSET Nat
      BY JoinedFacts
    <3>. HIDE DEF Bad
    <3>. QED BY <3>1, LeastNatural
  <2>2. e \in Joined(l) /\ e \in Nat
    BY JoinedFacts
  <2>3. ASSUME NEW d \in Joined(l), d < e PROVE Good(d)
    <3>1. d \notin Bad
      <4>1. d \in Nat
        BY JoinedFacts
      <4>. HIDE DEF Bad
      <4>. QED BY <4>1, <2>1, <2>2, <2>3
    <3>. HIDE DEF Good
    <3>. QED BY <3>1
  <2>4. Good(e)
    <3>. SUFFICES ASSUME NEW x \in Joined(l), x < e
                  PROVE  next_[x][l] # Null /\ next_[x][l] <= e
      OBVIOUS
    <3>1. x \in Nodes(l) /\ x \in Nat
      BY JoinedFacts
    <3>2. PICK y \in Joined(l) : next_[y][l] = e
      <4>1. e # head_
        BY <3>1, <2>2 DEF head_
      <4>. QED BY <4>1, <2>2, FromJoined
    <3>3. e # Null /\ y \in Nodes(l) /\ y \in Nat
      BY <2>2, JoinedFacts DEF Null
    <3>4. y < e
      BY <3>2, <3>3, <2>2, NextJoined
    <3>. PICK n : n = next_[x][l]
      OBVIOUS
    <3>5. CASE y = x
      BY <3>5, <3>2, <3>3, <2>2
    <3>6. CASE x < y
      <4>1. n # Null /\ n <= y
        BY <3>4, <3>6, <2>3
      <4>2. n \in Nat
        BY <4>1, <3>1, NextJoined, JoinedFacts
      <4>. QED BY <4>1, <4>2, <3>3, <3>4, <2>2
    <3>7. CASE y < x
      <4>1. next_[y][l] # Null /\ next_[y][l] <= x
        BY <3>7, <2>3
      <4>. QED BY <4>1, <3>1, <3>2, <2>2
    <3>. QED BY <3>1, <3>3, <3>5, <3>6, <3>7
  <2>. HIDE DEF Good
  <2>. QED BY <2>1, <2>4
<1>. QED
  <2>1. ASSUME NEW e \in Joined(l) PROVE Good(e)
    <3>. HIDE DEF Good
    <3>. QED BY <1>1
  <2>. QED BY <2>1

(* The writer only lets nodes join. *)
LEMMA SetJoins ==
    ASSUME SkipListInv, Hidden, InsertSet
    PROVE  Hidden' /\ DOMAIN next_' = DOMAIN next_ /\ \A l \in Levels : Joined(l) \subseteq Joined(l)'
<1>0. ListTypes /\ Ordered /\ InsertInv
  BY DEF SkipListInv
<1>. PICK key, level : key = insert.key /\ level = insert.level
  OBVIOUS
<1>. PICK prev : prev = insert.prev[level]
  OBVIOUS
<1>. PICK n : n = next_[prev][level]
  OBVIOUS
<1>1. /\ insert # NoInsert /\ ~insert.set /\ next_' = [next_ EXCEPT ![key][level] = n]
      /\ insert' = [insert EXCEPT !.set = TRUE]
  BY DEF InsertSet
<1>2. /\ key \in DOMAIN next_ /\ key \in Nat /\ key # head_
      /\ level \in Levels /\ level \in Nat /\ Between(prev, key, level)
      /\ prev \in DOMAIN next_
  BY <1>1, InsertFacts
<1>3. Stored(key, level, n)
  BY <1>0, <1>1, <1>2, StoreNext
<1>4. /\ n # Wild /\ (n # Null => n > key)
      /\ \A l \in Levels : key \in Nodes(l) <=> l < level
      /\ insert'.key = key /\ insert'.level = level
  <2>1. n # Wild
    BY <1>0, <1>2, NodeFacts DEF Between
  <2>2. {"key", "level", "set"} \subseteq DOMAIN insert /\ \A l \in Levels : key \in Nodes(l) <=> l < level
    BY <1>0, <1>1 DEF InsertInv
  <2>. QED BY <2>1, <2>2, <1>1, <1>2 DEF Between
<1>5. ASSUME NEW l \in Levels, NEW x \in Nodes(l)
      PROVE  x \in Nodes(l)' /\ ~(x = key /\ l = level) /\ next_'[x][l] = next_[x][l]
  <2>1. x \in DOMAIN next_ /\ next_[x][l] # Wild
    BY <1>5 DEF Nodes
  <2>2. ~(x = key /\ l = level)
    BY <1>2, <1>4
  <2>3. next_'[x][l] = next_[x][l] /\ x \in DOMAIN next_'
    BY <1>3, <2>1, <2>2 DEF Stored
  <2>. QED BY <2>1, <2>2, <2>3 DEF Nodes
<1>6. ASSUME NEW l \in Levels, NEW x \in Joined(l) PROVE x \in Joined(l)'
  <2>1. x \in Nodes(l)
    BY DEF Joined
  <2>2. ~Unlinked(x, l)'
    BY <2>1, <1>4, <1>5 DEF Unlinked
  <2>. QED BY <2>1, <2>2, <1>5 DEF Joined
<1>7. ASSUME NEW y \in Nodes(level)' PROVE next_'[y][level] # key
  <2>1. CASE y = key
    <3>1. next_'[y][level] = n
      BY <2>1, <1>3 DEF Stored
    <3>. QED BY <3>1, <1>2, <1>4 DEF Null
  <2>2. CASE y # key
    <3>1. y \in DOMAIN next_ /\ next_'[y][level] = next_[y][level] /\ y \in Nodes(level)
      BY <2>2, <1>2, <1>3 DEF Nodes, Stored
    <3>2. key \notin Nodes(level)
      BY <1>2, <1>4
    <3>. QED BY <3>1, <3>2, <1>0, <1>2 DEF Ordered, Null
  <2>. QED BY <2>1, <2>2
<1>8. Hidden'
  <2>1. \A y \in DOMAIN next_' : next_'[y][level] # Wild => next_'[y][level] # key
    BY <1>7 DEF Nodes
  <2>. QED BY <2>1, <1>4 DEF Hidden, Nodes
<1>. QED
  BY <1>3, <1>6, <1>8 DEF Stored

LEMMA LinkJoins ==
    ASSUME SkipListInv, InsertLink
    PROVE  Hidden' /\ DOMAIN next_' = DOMAIN next_ /\ \A l \in Levels : Joined(l) \subseteq Joined(l)'
<1>0. ListTypes /\ InsertInv
  BY DEF SkipListInv
<1>. PICK key, level : key = insert.key /\ level = insert.level
  OBVIOUS
<1>. PICK prev : prev = insert.prev[level]
  OBVIOUS
<1>1. /\ insert # NoInsert /\ next_' = [next_ EXCEPT ![prev][level] = key]
      /\ insert' = IF level + 1 = insert.height THEN NoInsert
                   ELSE [insert EXCEPT !.level = level + 1, !.set = FALSE]
  BY DEF InsertLink
<1>2. key \in Nat /\ level \in Levels /\ prev \in DOMAIN next_
  BY <1>1, InsertFacts
<1>3. Stored(prev, level, key)
  BY <1>0, <1>1, <1>2, StoreNext
<1>4. ~insert'.set
  <2>1. "set" \in DOMAIN insert
    BY <1>0, <1>1 DEF InsertInv
  <2>. QED BY <2>1, <1>1 DEF NoInsert
<1>5. ASSUME NEW l \in Levels, NEW x \in Nodes(l) PROVE x \in Nodes(l)'
  <2>1. x \in DOMAIN next_ /\ next_[x][l] # Wild /\ key # Wild
    BY <1>2, <1>5 DEF Nodes, Wild
  <2>2. next_'[x][l] # Wild /\ x \in DOMAIN next_'
    BY <1>3, <2>1 DEF Stored
  <2>. QED BY <2>2 DEF Nodes
<1>. QED
  BY <1>3, <1>4, <1>5 DEF Stored, Hidden, Joined, Unlinked

LEMMA AddJoins ==
    ASSUME SkipListInv, Kept, NEW user \in UserKeys, NEW height \in 1..kMaxHeight, Add(user, height)
    PROVE  /\ Hidden' /\ \A l \in Levels : Joined(l) \subseteq Joined(l)'
           /\ \A e \in DOMAIN next_' : e \in DOMAIN next_ \/ SeqOf(e) > layout.last
           /\ layout.last <= sequence'
<1>. PICK key : key = Entry(user, sequence + 1)
  OBVIOUS
<1>. PICK prevs : prevs = Prevs(key, height)
  OBVIOUS
<1>1. /\ insert = NoInsert /\ sequence < MaxSequence /\ sequence' = sequence + 1
      /\ insert' = [key |-> key, height |-> height, level |-> 0, set |-> FALSE, prev |-> prevs]
      /\ next_' = [x \in DOMAIN next_ \cup {key} |->
                      IF x = key THEN [l \in Levels |-> Wild] ELSE next_[x]]
  BY DEF Add, InsertBegin
<1>2. /\ sequence \in 0..MaxSequence /\ MaxSequence \in Nat /\ layout.last <= sequence
      /\ layout.last \in 0..MaxSequence
  <2>1. layout \in Layouts /\ layout.last <= sequence /\ sequence \in 0..MaxSequence
    BY DEF Kept, SkipListInv, Written
  <2>2. layout.last \in 0..MaxSequence
    BY <2>1, LayoutsAssumption, Zenon
  <2>. QED BY <2>1, <2>2, EntriesAssumption
<1>3. ~insert'.set /\ ~insert.set
  BY <1>1 DEF NoInsert
<1>4. ASSUME NEW l \in Levels, NEW x \in Nodes(l) PROVE x \in Nodes(l)'
  <2>1. x \in DOMAIN next_ /\ next_[x][l] # Wild
    BY DEF Nodes
  <2>2. x # key
    <3>1. x \in Nat
      BY NodeFacts DEF SkipListInv
    <3>2. SUFFICES ASSUME x = key PROVE FALSE
      OBVIOUS
    <3>3. key # head_
      BY <1>1, <1>2, EntriesDiffer DEF head_
    <3>4. PICK u \in UserKeys, s \in 1..sequence : x = Entry(u, s)
      BY <2>1, <3>2, <3>3 DEF SkipListInv, Written, WrittenUpTo
    <3>5. sequence + 1 = s
      <4>1. s \in 0..MaxSequence /\ sequence + 1 \in 0..MaxSequence
        BY <1>1, <1>2
      <4>. QED BY <4>1, <3>2, <3>4, EntriesDiffer
    <3>. QED BY <3>5, <1>2
  <2>3. x \in DOMAIN next_' /\ next_'[x][l] # Wild
    BY <2>1, <2>2, <1>1
  <2>. QED BY <2>3 DEF Nodes
<1>5. SeqOf(key) > layout.last
  <2>1. sequence + 1 \in 0..MaxSequence
    BY <1>1, <1>2
  <2>2. SeqOf(key) = sequence + 1
    BY <2>1, EntryParts
  <2>. QED BY <2>2, <1>2
<1>. QED
  BY <1>1, <1>2, <1>3, <1>4, <1>5 DEF Hidden, Joined, Unlinked

(* What is in a memtable at first, and what a Get looks for. *)
LEMMA LayoutFacts ==
    ASSUME SkipListInv, Kept
    PROVE  /\ MaxSequence \in Nat /\ sequence \in 0..MaxSequence /\ layout.last \in 0..MaxSequence
           /\ layout.snap \in 0..layout.last /\ layout.snap \in 0..MaxSequence
           /\ layout.last <= sequence
           /\ \A e \in DOMAIN next_ \ {head_} :
                 \E u \in UserKeys, s \in 1..MaxSequence : e = Entry(u, s)
           /\ layout.mem \subseteq DOMAIN next_ \ {head_}
<1>1. layout \in Layouts /\ layout.last <= sequence /\ sequence \in 0..MaxSequence
  BY DEF Kept, SkipListInv, Written
<1>2. /\ layout.last \in 0..MaxSequence /\ layout.snap \in 0..layout.last
      /\ \A e \in layout.mem : \E u \in UserKeys, s \in 1..layout.last : e = Entry(u, s)
  BY <1>1, LayoutsAssumption, Zenon
<1>3. MaxSequence \in Nat
  BY EntriesAssumption
<1>4. ASSUME NEW e \in DOMAIN next_ \ {head_}
      PROVE  \E u \in UserKeys, s \in 1..MaxSequence : e = Entry(u, s)
  <2>1. PICK u \in UserKeys, s \in 1..sequence : e = Entry(u, s)
    BY DEF SkipListInv, Written, WrittenUpTo
  <2>2. s \in 1..MaxSequence
    BY <1>1, <1>3
  <2>. QED BY <2>1, <2>2
<1>5. ASSUME NEW e \in layout.mem PROVE e \in DOMAIN next_ \ {head_}
  <2>1. e \in DOMAIN next_
    BY Heights, JoinedFacts DEF Kept
  <2>2. PICK u \in UserKeys, s \in 1..layout.last : e = Entry(u, s)
    BY <1>2
  <2>3. s \in 0..MaxSequence
    BY <1>2, <1>3
  <2>. QED BY <2>1, <2>2, <2>3, EntriesDiffer DEF head_
<1>. QED
  BY <1>1, <1>2, <1>3, <1>4, <1>5

(* The node the Get ends with is the newest visible entry of its key, if    *)
(* there is one.                                                            *)
LEMMA GetEndsAtNewest ==
    ASSUME SkipListInv, GetInv, Getting, AtEnd(walk), NEW n, n = Found(walk)
    PROVE  /\ Matches(n) <=> Newest(layout.mem, got.user) # 0
           /\ Matches(n) => /\ SeqOf(n) = Newest(layout.mem, got.user)
                            /\ n = Entry(got.user, SeqOf(n))
<1>0. Hidden /\ Kept /\ OnItsWay
  BY DEF GetInv
<1>. PICK x : x = walk.x
  OBVIOUS
<1>. PICK u : u = got.user
  OBVIOUS
<1>. PICK snap : snap = layout.snap
  OBVIOUS
<1>. PICK T : T = Entry(u, snap)
  OBVIOUS
<1>1. /\ u \in UserKeys /\ x \in Joined(0) /\ x < T /\ n = next_[x][0]
      /\ n = Null \/ ~(n < T)
      /\ 0 \in Levels
  <2>1. /\ walk.find = "ge" /\ walk.key = T /\ u \in UserKeys /\ walk.level = 0
        /\ x \in Joined(0) /\ x < T /\ 0 \in Levels
    BY <1>0 DEF OnItsWay, AtEnd
  <2>2. n = next_[x][0]
    BY <2>1 DEF Found, Loaded
  <2>3. n = Null \/ ~(n < T)
    BY <2>1, <2>2 DEF AtEnd, Onward, Loaded, KeyIsAfterNode
  <2>. QED BY <2>1, <2>2, <2>3
<1>2. /\ MaxSequence \in Nat /\ snap \in Nat /\ snap \in 0..MaxSequence /\ snap <= layout.last
      /\ layout.last \in Nat /\ T \in Nat /\ u \in Nat \ {0}
  <2>1. snap \in 0..MaxSequence /\ snap \in Nat /\ snap <= layout.last /\ layout.last \in Nat
        /\ MaxSequence \in Nat
    BY <1>0, LayoutFacts
  <2>2. T \in Nat
    BY <2>1, <1>1, EntriesDiffer
  <2>. QED BY <2>1, <2>2, <1>1, EntriesAssumption
<1>3. ASSUME n # Null
      PROVE  \E v \in UserKeys, s \in 1..MaxSequence :
                 /\ n = Entry(v, s) /\ User(n) = v /\ SeqOf(n) = s /\ u <= v /\ (u = v => s <= snap)
                 /\ n \in DOMAIN next_ \ {head_} /\ n \in Nat
  <2>1. n \in Joined(0) /\ n > x /\ x \in Nat /\ n \in DOMAIN next_ /\ n \in Nat
    BY <1>0, <1>1, <1>3, JoinedFacts, NextJoined
  <2>2. n \in DOMAIN next_ \ {head_}
    BY <2>1 DEF head_
  <2>3. PICK v \in UserKeys, s \in 1..MaxSequence : n = Entry(v, s)
    BY <2>2, <1>0, LayoutFacts
  <2>4. s \in 0..MaxSequence
    BY <1>2
  <2>5. User(n) = v /\ SeqOf(n) = s
    BY <2>3, <2>4, EntryParts
  <2>6. T <= n
    BY <2>1, <1>1, <1>2, <1>3
  <2>7. u <= v /\ (u = v => s <= snap)
    <3>1. Entry(u, snap) <= Entry(v, s)
      BY <2>3, <2>6
    <3>2. snap \in 0..MaxSequence /\ u \in UserKeys
      BY <1>1, <1>2
    <3>. QED BY <3>1, <3>2, <2>4, EntryOrder
  <2>. QED BY <2>1, <2>2, <2>3, <2>5, <2>7
<1>4. ASSUME Matches(n)
      PROVE  /\ n \in layout.mem /\ User(n) = u /\ Visible(n) /\ n = Entry(u, SeqOf(n))
             /\ SeqOf(n) \in 1..MaxSequence
  <2>1. n # Null /\ User(n) = u
    BY <1>4 DEF Matches
  <2>2. PICK v \in UserKeys, s \in 1..MaxSequence :
            /\ n = Entry(v, s) /\ User(n) = v /\ SeqOf(n) = s /\ u <= v /\ (u = v => s <= snap)
            /\ n \in DOMAIN next_ \ {head_}
    BY <2>1, <1>3
  <2>3. s <= snap /\ s <= layout.last
    BY <2>1, <2>2, <1>2
  <2>. QED BY <2>1, <2>2, <2>3, <1>0 DEF Kept, Visible
<1>5. ASSUME NEW e \in layout.mem, User(e) = u, Visible(e)
      PROVE  Matches(n) /\ SeqOf(e) <= SeqOf(n) /\ SeqOf(e) \in 1..MaxSequence
  <2>1. PICK v \in UserKeys, s \in 1..MaxSequence : e = Entry(v, s)
    BY <1>0, LayoutFacts
  <2>2. s \in 0..MaxSequence
    BY <1>2
  <2>3. v = u /\ SeqOf(e) = s /\ s <= snap
    BY <2>1, <2>2, <1>5, EntryParts DEF Visible
  <2>4. e \in Joined(0) /\ e \in Nat /\ x \in Nat
    BY <1>0, <1>1, JoinedFacts DEF Kept
  <2>5. ~(e < T)
    <3>. SUFFICES ASSUME e < T PROVE FALSE
      OBVIOUS
    <3>1. Entry(u, s) <= Entry(u, snap)
      BY <2>1, <2>3, <2>4, <1>2
    <3>2. snap <= s
      BY <3>1, <2>2, <1>1, <1>2, EntryOrder
    <3>. QED BY <3>2, <2>1, <2>3, <2>4, <1>2
  <2>6. n # Null /\ n <= e
    <3>1. x < e
      BY <2>4, <2>5, <1>1, <1>2
    <3>. QED BY <3>1, <2>4, <1>0, <1>1, NonePassed
  <2>7. PICK w \in UserKeys, t \in 1..MaxSequence :
            n = Entry(w, t) /\ User(n) = w /\ SeqOf(n) = t /\ u <= w
    BY <2>6, <1>3
  <2>8. t \in 0..MaxSequence
    BY <1>2
  <2>9. w <= u /\ (w = u => s <= t)
    BY <2>1, <2>2, <2>3, <2>6, <2>7, <2>8, EntryOrder
  <2>10. w = u
    <3>1. w \in Nat
      BY EntriesAssumption
    <3>. QED BY <3>1, <2>7, <2>9, <1>2
  <2>. QED BY <2>3, <2>6, <2>7, <2>9, <2>10 DEF Matches
<1>. PICK seqs : seqs = {SeqOf(e) : e \in {f \in layout.mem : User(f) = u /\ Visible(f)}}
  OBVIOUS
<1>. PICK s : s = Newest(layout.mem, u)
  OBVIOUS
<1>6. s = IF seqs = {} THEN 0 ELSE CHOOSE q \in seqs : \A t \in seqs : t <= q
  BY DEF Newest
<1>7. CASE Matches(n)
  <2>1. SeqOf(n) \in seqs /\ \A t \in seqs : t <= SeqOf(n) /\ t \in Nat
    BY <1>4, <1>5, <1>7
  <2>2. s \in seqs /\ \A t \in seqs : t <= s
    BY <2>1, <1>6
  <2>3. s = SeqOf(n)
    BY <2>1, <2>2
  <2>. QED BY <2>3, <1>4, <1>7
<1>8. CASE ~Matches(n)
  <2>1. seqs = {}
    BY <1>5, <1>8
  <2>. QED BY <2>1, <1>6, <1>8
<1>. QED
  BY <1>7, <1>8

(* Steps that leave the list alone. *)
LEMMA ListRests ==
    ASSUME GetInv, UNCHANGED <<next_, heights, insert, layout, sequence>>
    PROVE  Hidden' /\ Kept' /\ \A l : Joined(l)' = Joined(l)
BY DEF GetInv, Hidden, Kept, Joined, Nodes, Unlinked

LEMMA GotRests ==
    ASSUME GetInv, UNCHANGED <<layout, got>>
    PROVE  MemGetExact'
BY DEF GetInv, MemGetExact, Newest, Visible, Deletion

(* Steps of the iterator, while no search is under way. *)
LEMMA DBStepKeeps ==
    ASSUME GetInv, walk = NoWalk, UNCHANGED <<next_, heights, insert, layout, sequence, walk, got>>,
           "pc" \in DOMAIN db', {"op", "stage"} \subseteq DOMAIN merge',
           db'.pc = "idle" => merge'.op = "none"
    PROVE  GetInv'
<1>1. Hidden' /\ Kept' /\ MemGetExact'
  BY ListRests, GotRests
<1>2. ~Getting /\ ~Getting' /\ walk' = NoWalk
  BY DEF GetInv, OneSearch, Getting
<1>3. OneSearch' /\ OnItsWay'
  BY <1>2 DEF OneSearch, OnItsWay
<1>4. GetTypes'
  BY DEF GetInv, GetTypes
<1>. QED
  BY <1>1, <1>3, <1>4 DEF GetInv

LEMMA CallsKeep ==
    ASSUME GetInv,
           \/ SeekToFirst \/ SeekToLast \/ Next_ \/ Prev \/ \E user \in UserKeys : Seek(user)
           \/ FindNextUserEntry \/ LeaveKey \/ FindPrevUserEntry
    PROVE  GetInv'
<1>0. /\ "pc" \in DOMAIN db /\ {"op", "stage"} \subseteq DOMAIN merge /\ OneSearch
  BY DEF GetInv, GetTypes
<1>1. walk = NoWalk
  <2>1. CASE SeekToFirst \/ SeekToLast \/ Next_ \/ Prev \/ \E user \in UserKeys : Seek(user)
    BY <2>1 DEF SeekToFirst, SeekToLast, Next_, Prev, Seek, Idle
  <2>2. CASE FindNextUserEntry \/ LeaveKey \/ FindPrevUserEntry
    <3>1. merge.op = "none" /\ db.pc # "idle"
      BY <2>2 DEF FindNextUserEntry, LeaveKey, FindPrevUserEntry, Answered
    <3>. QED BY <3>1, <1>0 DEF OneSearch
  <2>. QED BY <2>1, <2>2
<1>2. /\ UNCHANGED <<next_, heights, insert, layout, sequence, walk, got>>
      /\ "pc" \in DOMAIN db' /\ {"op", "stage"} \subseteq DOMAIN merge'
      /\ db'.pc = "idle" => merge'.op = "none"
  <2>0. /\ \A op, key : {"op", "stage"} \subseteq DOMAIN Call(op, key)
        /\ \A op : {"op", "stage"} \subseteq DOMAIN CallFrom(op)
    BY <1>0 DEF Call, CallFrom
  <2>1. CASE SeekToFirst
    BY <2>0, <2>1, <1>0 DEF SeekToFirst, DBStep
  <2>2. CASE SeekToLast
    BY <2>0, <2>2, <1>0 DEF SeekToLast, DBStep
  <2>3. CASE Next_
    BY <2>0, <2>3, <1>0 DEF Next_, DBStep
  <2>4. CASE Prev
    <3>1. PICK d, m : DBStep(d, m) /\ (d.pc = "leave" \/ d.pc = "back")
                      /\ "pc" \in DOMAIN d /\ {"op", "stage"} \subseteq DOMAIN m
      <4>1. CASE db.direction = "forward"
        <5>. PICK d : d = [db EXCEPT !.saved_key = User(IterKey), !.pc = "leave"]
          OBVIOUS
        <5>1. DBStep(d, CallFrom("prev")) /\ d.pc = "leave" /\ "pc" \in DOMAIN d
          BY <2>4, <4>1, <1>0 DEF Prev
        <5>. QED BY <5>1, <2>0
      <4>2. CASE db.direction # "forward"
        <5>. PICK d : d = [db EXCEPT !.pc = "back", !.value_type = "deletion"]
          OBVIOUS
        <5>1. DBStep(d, merge) /\ d.pc = "back" /\ "pc" \in DOMAIN d
          BY <2>4, <4>2, <1>0 DEF Prev
        <5>. QED BY <5>1, <1>0
      <4>. QED BY <4>1, <4>2
    <3>. QED BY <3>1 DEF DBStep
  <2>5. CASE \E user \in UserKeys : Seek(user)
    <3>. PICK user \in UserKeys : Seek(user)
      BY <2>5
    <3>. PICK d : d = [db EXCEPT !.direction = "forward", !.saved_value = 0, !.saved_key = user,
                                 !.pc = "sought", !.skipping = FALSE]
      OBVIOUS
    <3>. PICK m : m = Call("seek", Entry(user, layout.snap))
      OBVIOUS
    <3>1. DBStep(d, m) /\ d.pc = "sought" /\ "pc" \in DOMAIN d
      BY <1>0 DEF Seek
    <3>. QED BY <3>1, <2>0 DEF DBStep
  <2>6. CASE FindNextUserEntry
    BY <2>0, <2>6, <1>0 DEF FindNextUserEntry, DBStep, Answered
  <2>7. CASE LeaveKey
    BY <2>0, <2>7, <1>0 DEF LeaveKey, DBStep, Answered
  <2>8. CASE FindPrevUserEntry
    BY <2>0, <2>8, <1>0 DEF FindPrevUserEntry, DBStep, Answered
  <2>. QED BY <2>1, <2>2, <2>3, <2>4, <2>5, <2>6, <2>7, <2>8
<1>. QED
  BY <1>1, <1>2, DBStepKeeps

(* Steps of the MergeIterator. *)
LEMMA MergeKeeps ==
    ASSUME GetInv, MergeBegin \/ MergeBack \/ WalkEnd \/ MergeFinish
    PROVE  GetInv'
<1>0. {"op", "stage"} \subseteq DOMAIN merge /\ OneSearch
  BY DEF GetInv, GetTypes
<1>1. UNCHANGED <<next_, heights, insert, layout, sequence, db, got>>
  BY Zenon DEF MergeBegin, MergeBack, WalkEnd, MergeFinish
<1>2. merge.op # "none" /\ ~Getting /\ db.pc # "idle"
  BY <1>0 DEF OneSearch, MergeBegin, MergeBack, WalkEnd, MergeFinish
<1>3. /\ {"op", "stage"} \subseteq DOMAIN merge'
      /\ walk' # NoWalk => merge'.op # "none" /\ merge'.stage \in {"walk", "walk2"}
  <2>1. CASE MergeBegin
    BY <2>1, <1>0, <1>2 DEF MergeBegin
  <2>2. CASE MergeBack
    BY <2>2, <1>0, <1>2 DEF MergeBack
  <2>3. CASE WalkEnd
    BY <2>3, <1>0, <1>2 DEF WalkEnd
  <2>4. CASE MergeFinish
    <3>1. merge.stage \notin {"walk", "walk2"}
      BY <2>4 DEF MergeFinish
    <3>2. walk = NoWalk /\ walk' = walk
      BY <2>4, <3>1, <1>0, <1>2 DEF OneSearch, MergeFinish
    <3>3. {"op", "stage"} \subseteq DOMAIN merge'
      BY <2>4 DEF MergeFinish
    <3>. QED BY <3>2, <3>3
  <2>. QED BY <2>1, <2>2, <2>3, <2>4
<1>4. Hidden' /\ Kept' /\ MemGetExact'
  BY <1>1, ListRests, GotRests
<1>5. ~Getting' /\ db'.pc # "idle"
  BY <1>1, <1>2 DEF Getting
<1>6. OneSearch' /\ OnItsWay'
  BY <1>3, <1>5 DEF OneSearch, OnItsWay
<1>7. GetTypes'
  BY <1>1, <1>3 DEF GetInv, GetTypes
<1>. QED
  BY <1>4, <1>6, <1>7 DEF GetInv

(* A turn of a search. *)
LEMMA WalkKeeps ==
    ASSUME SkipListInv, GetInv, Walk
    PROVE  GetInv'
<1>0. /\ walk # NoWalk /\ ~AtEnd(walk) /\ walk' = Turn(walk)
      /\ UNCHANGED <<next_, heights, insert, layout, sequence, merge, db, got>>
  BY DEF Walk
<1>1. Hidden' /\ Kept' /\ MemGetExact' /\ (\A l : Joined(l)' = Joined(l)) /\ GetTypes'
  <2>1. GetTypes'
    BY <1>0 DEF GetInv, GetTypes
  <2>. QED BY <2>1, <1>0, ListRests, GotRests
<1>2. CASE ~Getting
  <2>1. ~Getting' /\ merge.op # "none" /\ merge.stage \in {"walk", "walk2"} /\ db.pc # "idle"
    BY <1>0, <1>2 DEF GetInv, OneSearch, Getting
  <2>2. OneSearch' /\ OnItsWay'
    BY <2>1, <1>0 DEF OneSearch, OnItsWay
  <2>. QED BY <2>2, <1>1 DEF GetInv
<1>3. CASE Getting
  <2>. PICK x, l, T : x = walk.x /\ l = walk.level /\ T = walk.key
    OBVIOUS
  <2>1. /\ {"find", "key", "x", "level"} \subseteq DOMAIN walk
        /\ walk.find = "ge" /\ T = Entry(got.user, layout.snap) /\ got.user \in UserKeys
        /\ l \in Levels /\ x \in Joined(l) /\ x < T
        /\ merge.op = "none" /\ db.pc = "idle" /\ Hidden
    BY <1>0, <1>3 DEF GetInv, OneSearch, OnItsWay
  <2>2. Getting'
    BY <1>0, <1>3 DEF Getting
  <2>. PICK y, k : y = walk'.x /\ k = walk'.level
    OBVIOUS
  <2>3. /\ {"find", "key", "x", "level"} \subseteq DOMAIN walk'
        /\ walk'.find = "ge" /\ walk'.key = T
        /\ k \in Levels /\ y \in Joined(k) /\ y < T
    <3>1. CASE Onward(walk)
      <4>1. walk' = [walk EXCEPT !.x = next_[x][l]] /\ next_[x][l] # Null /\ next_[x][l] < T
        BY <3>1, <2>1, <1>0 DEF Turn, Onward, Loaded, KeyIsAfterNode
      <4>2. next_[x][l] \in Joined(l)
        BY <4>1, <2>1, NextJoined, JoinedFacts
      <4>. QED BY <4>1, <4>2, <2>1
    <3>2. CASE ~Onward(walk)
      <4>1. walk' = [walk EXCEPT !.level = l - 1] /\ l # 0
        BY <3>2, <1>0 DEF Turn, AtEnd
      <4>2. l - 1 \in Levels /\ x \in Joined(l - 1)
        <5>1. l > 0
          BY <4>1, <2>1, Heights
        <5>. QED BY <5>1, <2>1, JoinedFacts
      <4>. QED BY <4>1, <4>2, <2>1
    <3>. QED BY <3>1, <3>2
  <2>4. walk' # NoWalk
    BY <2>3 DEF NoWalk
  <2>5. OneSearch'
    BY <2>1, <2>2, <2>4, <1>0 DEF OneSearch
  <2>6. y \in Joined(k)'
    BY <2>3, <1>1
  <2>7. OnItsWay'
    BY <2>1, <2>3, <2>6, <1>0 DEF OnItsWay, Joined, Nodes, Unlinked, Entry
  <2>. QED BY <2>5, <2>7, <1>1 DEF GetInv
<1>. QED
  BY <1>2, <1>3

LEMMA GetBeginKeeps ==
    ASSUME SkipListInv, GetInv, NEW user \in UserKeys, GetBegin(user)
    PROVE  GetInv'
<1>. PICK T : T = Entry(user, layout.snap)
  OBVIOUS
<1>1. PICK h \in heights : walk' = WalkFrom("ge", T, h)
  BY DEF GetBegin
<1>2. /\ db.pc = "idle" /\ got = NothingGot /\ got' = [NothingGot EXCEPT !.user = user]
      /\ UNCHANGED <<next_, heights, insert, layout, sequence, merge, db>>
  BY DEF GetBegin, Idle
<1>3. Hidden' /\ Kept' /\ \A l : Joined(l)' = Joined(l)
  BY <1>2, ListRests
<1>4. merge.op = "none"
  BY <1>2 DEF GetInv, OneSearch
<1>5. /\ {"user", "done", "found", "type", "seq"} \subseteq DOMAIN got'
      /\ got'.user = user /\ ~got'.done
  BY <1>2 DEF NothingGot
<1>6. /\ walk'.find = "ge" /\ walk'.key = T /\ walk'.x = head_ /\ walk'.level = h - 1
      /\ {"find", "key", "x", "level"} \subseteq DOMAIN walk' /\ walk' # NoWalk
  <2>1. /\ walk'.find = "ge" /\ walk'.key = T /\ walk'.x = head_ /\ walk'.level = h - 1
        /\ {"find", "key", "x", "level"} \subseteq DOMAIN walk'
    BY <1>1 DEF WalkFrom
  <2>. QED BY <2>1 DEF NoWalk
<1>7. h - 1 \in Levels /\ head_ \in Joined(h - 1) /\ head_ < T
  <2>1. h - 1 \in Levels
    BY Heights DEF SkipListInv, ListTypes
  <2>2. head_ \in Joined(h - 1)
    BY <2>1, JoinedFacts
  <2>3. T \in Nat \ {0}
    <3>1. layout.snap \in 0..MaxSequence
      BY LayoutFacts DEF GetInv
    <3>. QED BY <3>1, EntriesDiffer
  <2>. QED BY <2>1, <2>2, <2>3 DEF head_
<1>8. OneSearch'
  BY <1>2, <1>4, <1>5, <1>6, EntriesAssumption DEF OneSearch, Getting, NoKey
<1>9. OnItsWay'
  <2>. PICK x, l : x = walk'.x /\ l = walk'.level
    OBVIOUS
  <2>1. x \in Joined(l)'
    BY <1>3, <1>6, <1>7
  <2>2. walk'.key = Entry(user, layout'.snap) /\ l \in Levels /\ x < walk'.key
    BY <1>2, <1>6, <1>7
  <2>. QED BY <2>1, <2>2, <1>5, <1>6 DEF OnItsWay, Joined, Nodes, Unlinked, Entry
<1>10. GetTypes'
  BY <1>2, <1>5 DEF GetInv, GetTypes
<1>11. MemGetExact'
  BY <1>5 DEF MemGetExact
<1>. QED
  BY <1>3, <1>8, <1>9, <1>10, <1>11 DEF GetInv

LEMMA GetEndKeeps ==
    ASSUME SkipListInv, GetInv, GetEnd
    PROVE  GetInv'
<1>. PICK n : n = Found(walk)
  OBVIOUS
<1>. PICK user : user = got.user
  OBVIOUS
<1>. PICK s : s = Newest(layout.mem, user)
  OBVIOUS
<1>1. /\ walk # NoWalk /\ AtEnd(walk) /\ merge.op = "none" /\ walk' = NoWalk
      /\ got' = IF ~Matches(n) THEN [got EXCEPT !.done = TRUE]
                ELSE [got EXCEPT !.done = TRUE, !.found = TRUE, !.seq = SeqOf(n),
                                 !.type = IF Deletion(n) THEN "deletion" ELSE "value"]
      /\ UNCHANGED <<next_, heights, insert, layout, sequence, merge, db>>
  BY DEF GetEnd
<1>2. Hidden' /\ Kept'
  BY <1>1, ListRests
<1>3. Getting
  BY <1>1 DEF GetInv, OneSearch
<1>4. /\ Matches(n) <=> s # 0
      /\ Matches(n) => SeqOf(n) = s /\ n = Entry(user, s)
  BY <1>1, <1>3, GetEndsAtNewest
<1>5. /\ {"user", "done", "found", "type", "seq"} \subseteq DOMAIN got
      /\ ~got.found
  <2>1. got = [NothingGot EXCEPT !.user = user]
    BY <1>3 DEF GetInv, GetTypes, Getting
  <2>. QED BY <2>1 DEF NothingGot
<1>6. /\ {"user", "done", "found", "type", "seq"} \subseteq DOMAIN got'
      /\ got'.done /\ got'.user = user
      /\ got'.found <=> Matches(n)
      /\ Matches(n) => /\ got'.seq = SeqOf(n)
                       /\ got'.type = "deletion" <=> Deletion(n)
  <2>1. CASE Matches(n)
    <3>. PICK type : type = IF Deletion(n) THEN "deletion" ELSE "value"
      OBVIOUS
    <3>1. got' = [got EXCEPT !.done = TRUE, !.found = TRUE, !.seq = SeqOf(n), !.type = type]
      BY <2>1, <1>1
    <3>. QED BY <3>1, <2>1, <1>5
  <2>2. CASE ~Matches(n)
    BY <2>2, <1>1, <1>5
  <2>. QED BY <2>1, <2>2
<1>7. MemGetExact'
  <2>1. Newest(layout.mem, got.user)' = s
    BY <1>1, <1>6 DEF Newest, Visible
  <2>2. s # 0 => Deletion(n) = Deletion(Entry(got.user, s))'
    BY <1>1, <1>4, <1>6 DEF Deletion, Entry
  <2>. QED BY <2>1, <2>2, <1>4, <1>6 DEF MemGetExact, Deletion, Entry
<1>8. ~Getting' /\ OneSearch' /\ OnItsWay' /\ GetTypes'
  <2>1. ~Getting'
    BY <1>6 DEF Getting
  <2>2. OneSearch' /\ OnItsWay'
    BY <2>1, <1>1 DEF OneSearch, OnItsWay
  <2>3. GetTypes'
    BY <1>1, <1>6 DEF GetInv, GetTypes
  <2>. QED BY <2>1, <2>2, <2>3
<1>. QED
  BY <1>2, <1>7, <1>8 DEF GetInv

LEMMA WriterKeepsGet ==
    ASSUME SkipListInv, GetInv, WriterStep
    PROVE  GetInv'
<1>0. ListTypes /\ Kept /\ OneSearch /\ OnItsWay /\ GetTypes /\ Hidden
  BY DEF SkipListInv, GetInv
<1>1. UNCHANGED readVars
  BY DEF WriterStep, InsertStep, Add
<1>2. UNCHANGED <<layout, walk, merge, db, got>>
  BY <1>1, Zenon DEF readVars
<1>3. /\ Hidden' /\ \A l \in Levels : Joined(l) \subseteq Joined(l)'
      /\ \A e \in DOMAIN next_' : e \in DOMAIN next_ \/ SeqOf(e) > layout.last
      /\ layout.last <= sequence'
  <2>1. CASE InsertStep
    BY <2>1, <1>0, SetJoins, LinkJoins DEF InsertStep, Kept
  <2>2. CASE \E user \in UserKeys, height \in 1..kMaxHeight : Add(user, height)
    BY <2>2, <1>0, AddJoins
  <2>. QED BY <2>1, <2>2 DEF WriterStep
<1>4. Kept'
  <2>. PICK lay : lay = layout
    OBVIOUS
  <2>1. layout' = lay /\ lay.last \in Nat /\ lay.mem \subseteq Joined(0)
    BY <1>0, <1>2, LayoutFacts DEF Kept
  <2>2. lay.mem \subseteq Joined(0)'
    BY <2>1, <1>3, Heights
  <2>3. ASSUME NEW e \in DOMAIN next_' \ {head_}, SeqOf(e) <= lay.last PROVE e \in lay.mem
    <3>1. e \in DOMAIN next_ \/ SeqOf(e) > lay.last
      BY <1>3
    <3>2. ASSUME SeqOf(e) > lay.last PROVE e \in DOMAIN next_
      <4>1. SkipListInv' /\ layout'.last = lay.last
        BY <2>1, SetKeeps, LinkKeeps, AddKeeps DEF WriterStep, InsertStep
      <4>2. PICK u \in UserKeys, s \in 1..sequence' : e = Entry(u, s)
        BY <2>3, <4>1 DEF SkipListInv, Written, WrittenUpTo
      <4>3. s \in 0..MaxSequence /\ s \in Nat
        <5>1. sequence' \in 0..MaxSequence /\ MaxSequence \in Nat
          BY <4>1, EntriesAssumption DEF SkipListInv, Written
        <5>. QED BY <5>1
      <4>4. SeqOf(e) = s
        BY <4>2, <4>3, EntryParts
      <4>. QED BY <4>3, <4>4, <3>2, <2>1, <2>3
    <3>. QED BY <3>1, <3>2, <2>3, <1>0 DEF Kept
  <2>. QED BY <2>1, <2>2, <2>3, <1>0, <1>3 DEF Kept, SeqOf
<1>5. OneSearch' /\ GetTypes' /\ MemGetExact'
  <2>1. OneSearch' /\ GetTypes'
    BY <1>0, <1>2 DEF OneSearch, GetTypes, Getting
  <2>. QED BY <2>1, <1>2, GotRests
<1>6. OnItsWay'
  <2>. SUFFICES ASSUME Getting' PROVE OnItsWay'
    BY DEF OnItsWay
  <2>. PICK x, l : x = walk.x /\ l = walk.level
    OBVIOUS
  <2>1. Getting
    BY <1>2 DEF Getting
  <2>2. /\ {"find", "key", "x", "level"} \subseteq DOMAIN walk
        /\ walk.find = "ge" /\ walk.key = Entry(got.user, layout.snap)
        /\ got.user \in UserKeys /\ l \in Levels /\ x \in Joined(l) /\ x < walk.key
    BY <2>1, <1>0 DEF OnItsWay
  <2>3. x \in Joined(l)'
    BY <2>2, <1>3
  <2>. QED BY <2>2, <2>3, <1>2 DEF OnItsWay, Joined, Nodes, Unlinked, Entry
<1>. QED
  BY <1>3, <1>4, <1>5, <1>6 DEF GetInv

LEMMA GetStarts == Init => GetInv
<1>. SUFFICES ASSUME Init PROVE GetInv
  OBVIOUS
<1>1. /\ layout \in Layouts /\ sequence = layout.last /\ walk = NoWalk /\ got = NothingGot
      /\ db = NewIterator
      /\ merge = [current |-> NoChild, direction |-> "forward", op |-> "none",
                  key |-> Null, stage |-> "start"]
  BY DEF Init
<1>2. PICK height \in [layout.mem -> 1..kMaxHeight] : ListInit(height)
  BY DEF Init
<1>3. insert = NoInsert
  BY <1>2 DEF ListInit
<1>4. /\ layout.last \in 0..MaxSequence /\ MaxSequence \in Nat
      /\ \A e \in layout.mem : \E u \in UserKeys, s \in 1..layout.last : e = Entry(u, s)
  <2>1. MaxSequence \in Nat
    BY EntriesAssumption, Zenon
  <2>. QED BY <2>1, <1>1, LayoutsAssumption, Zenon
<1>5. layout.mem \subseteq Nat \ {0}
  <2>. SUFFICES ASSUME NEW e \in layout.mem PROVE e \in Nat \ {0}
    OBVIOUS
  <2>1. PICK u \in UserKeys, s \in 1..layout.last : e = Entry(u, s)
    BY <1>4
  <2>2. s \in 0..MaxSequence
    BY <1>4
  <2>. QED BY <2>1, <2>2, EntriesDiffer
<1>6. DOMAIN next_ \ {head_} = layout.mem /\ layout.mem \subseteq Nodes(0)
  BY <1>2, <1>5, ListStarts
<1>7. Hidden /\ Kept
  <2>1. layout.last <= sequence
    BY <1>1, <1>4
  <2>. QED BY <2>1, <1>1, <1>3, <1>6 DEF Hidden, Kept, Joined, Unlinked
<1>8. ~Getting /\ ~got.done
  BY <1>1 DEF Getting, NothingGot
<1>9. OneSearch /\ OnItsWay /\ MemGetExact
  BY <1>1, <1>8 DEF OneSearch, OnItsWay, MemGetExact
<1>10. GetTypes
  BY <1>1 DEF GetTypes, NothingGot, NewIterator, NoKey
<1>. QED
  BY <1>7, <1>9, <1>10 DEF GetInv

LEMMA GetStep == SkipListInv /\ GetInv /\ [Next]_vars => GetInv'
<1>. SUFFICES ASSUME SkipListInv, GetInv, [Next]_vars PROVE GetInv'
  OBVIOUS
<1>1. CASE ClientStep
  BY <1>1, CallsKeep, GetBeginKeeps DEF ClientStep
<1>2. CASE IterStep
  BY <1>2, CallsKeep, MergeKeeps, WalkKeeps DEF IterStep
<1>3. CASE GetEnd
  BY <1>3, GetEndKeeps
<1>4. CASE WriterStep
  BY <1>4, WriterKeepsGet
<1>5. CASE UNCHANGED vars
  <2>1. UNCHANGED <<next_, heights, insert, layout, sequence, walk, merge, db, got>>
    BY <1>5, Zenon DEF vars
  <2>2. Hidden' /\ Kept' /\ MemGetExact' /\ \A l : Joined(l)' = Joined(l)
    BY <2>1, ListRests, GotRests
  <2>3. OneSearch' /\ OnItsWay' /\ GetTypes'
    BY <2>1 DEF GetInv, OneSearch, OnItsWay, GetTypes, Getting, Joined, Nodes, Unlinked, Entry
  <2>. QED BY <2>2, <2>3 DEF GetInv
<1>. QED
  BY <1>1, <1>2, <1>3, <1>4, <1>5 DEF Next

(* Whatever is inserted between two loads of its search, MemTable::Get      *)
(* (memtable.cc:110) finds the newest entry of its key that its snapshot    *)
(* shows, or none if there is none.                                         *)
THEOREM GetFindsSnapshot == Spec => []MemGetExact
<1>1. Spec => [](SkipListInv /\ GetInv)
  <2>1. Init => SkipListInv /\ GetInv
    BY SkipListStarts, GetStarts
  <2>2. SkipListInv /\ GetInv /\ [Next]_vars => (SkipListInv /\ GetInv)'
    BY SkipListStep, GetStep
  <2>. QED BY <2>1, <2>2, PTL DEF Spec
<1>2. GetInv => MemGetExact
  BY DEF GetInv
<1>. QED
  BY <1>1, <1>2, PTL
-----------------------------------------------------------------------------
(***************************************************************************)
(* The comparators                                                         *)
(***************************************************************************)

(* A string that is increased in its n-th byte and cut off behind it comes *)
(* after the one it was made from.                                         *)
LEMMA BumpAfter ==
    ASSUME NEW s \in Seq(Bytes), NEW n \in 1..Len(s), s[n] < MaxByte
    PROVE  Bump(s, n) \in Seq(Bytes) /\ Len(Bump(s, n)) = n /\ Less(s, Bump(s, n))
<1> DEFINE b == Bump(s, n)
<1>1. /\ \A i \in 1..Len(s) : s[i] \in Int /\ 0 <= s[i] /\ s[i] <= MaxByte
      /\ Len(s) \in Nat /\ n \in Nat /\ 1 <= n /\ n <= Len(s)
  BY KeysAssumption DEF Bytes
<1>2. b \in Seq(Bytes) /\ Len(b) = n
  <2>1. \A i \in 1..n : (IF i = n THEN s[i] + 1 ELSE s[i]) \in Bytes
    BY <1>1, KeysAssumption DEF Bytes
  <2>2. b \in [1..n -> Bytes]
    BY <2>1 DEF Bump
  <2> QED BY <2>2, <1>1, IsASeq, LenProperties
<1>3. \A i \in 1..n : b[i] = IF i = n THEN s[i] + 1 ELSE s[i]
  BY DEF Bump
<1> HIDE DEF b
<1>4. Agree(s, b, n - 1)
  BY <1>1, <1>2, <1>3 DEF Agree
<1>5. Less(s, b)
  <2>1. n - 1 \in 0..Len(s) /\ n - 1 < Len(b) /\ (n - 1) + 1 = n
    BY <1>1, <1>2
  <2>2. s[n] < b[n]
    BY <1>1, <1>3
  <2> QED BY <1>4, <2>1, <2>2 DEF Less
<1> QED BY <1>2, <1>5 DEF b

(* BytewiseComparator::FindShortestSeparator gives a string at or after    *)
(* start, and before limit if start is (comparator.cc 22-43).              *)
THEOREM SeparatorBetween ==
    ASSUME NEW s \in Seq(Bytes), NEW l \in Seq(Bytes)
    PROVE  /\ FindShortestSeparator(s, l) \in Seq(Bytes)
           /\ FindShortestSeparator(s, l) = s \/ Less(s, FindShortestSeparator(s, l))
           /\ FindShortestSeparator(s, l) = s \/ Less(FindShortestSeparator(s, l), l)
<1>1. CASE \E n \in 0..Len(s) : CanShorten(s, l, n)
  <2> DEFINE n == CHOOSE n \in 0..Len(s) : CanShorten(s, l, n)
             b == Bump(s, n + 1)
  <2>1. n \in 0..Len(s) /\ CanShorten(s, l, n)
    BY <1>1
  <2>2. FindShortestSeparator(s, l) = Bump(s, 1 + n)
    BY <1>1 DEF FindShortestSeparator
  <2> HIDE DEF n
  <2>3. /\ n \in Nat /\ n < Len(s) /\ n < Len(l) /\ n + 1 \in 1..Len(s) /\ 1 + n = n + 1
        /\ Agree(s, l, n) /\ s[n + 1] < MaxByte /\ s[n + 1] + 1 < l[n + 1]
    BY <2>1 DEF CanShorten, DifferAfter
  <2>4. b \in Seq(Bytes) /\ Len(b) = n + 1 /\ Less(s, b)
    BY <2>3, BumpAfter
  <2>5. \A i \in 1..(n + 1) : b[i] = IF i = n + 1 THEN s[i] + 1 ELSE s[i]
    BY DEF Bump
  <2> HIDE DEF b
  <2>6. Agree(b, l, n)
    BY <2>3, <2>4, <2>5 DEF Agree
  <2>7. b[n + 1] < l[n + 1]
    BY <2>3, <2>5
  <2>8. Less(b, l)
    BY <2>3, <2>4, <2>6, <2>7 DEF Less
  <2> QED BY <2>2, <2>3, <2>4, <2>8 DEF b
<1>2. CASE ~\E n \in 0..Len(s) : CanShorten(s, l, n)
  BY <1>2 DEF FindShortestSeparator
<1> QED BY <1>1, <1>2

(* FindShortSuccessor gives a string at or after key (comparator.cc 46-59). *)
THEOREM SuccessorAfter ==
    ASSUME NEW key \in Seq(Bytes)
    PROVE  /\ FindShortSuccessor(key) \in Seq(Bytes)
           /\ FindShortSuccessor(key) = key \/ Less(key, FindShortSuccessor(key))
<1>1. CASE \E n \in 1..Len(key) : FirstIncreasable(key, n)
  <2> DEFINE n == CHOOSE n \in 1..Len(key) : FirstIncreasable(key, n)
  <2>1. n \in 1..Len(key) /\ FirstIncreasable(key, n)
    BY <1>1
  <2>2. FindShortSuccessor(key) = Bump(key, n)
    BY <1>1 DEF FindShortSuccessor
  <2> HIDE DEF n
  <2>3. key[n] < MaxByte
    BY <2>1, KeysAssumption DEF FirstIncreasable, Bytes
  <2> QED BY <2>1, <2>2, <2>3, BumpAfter
<1>2. CASE ~\E n \in 1..Len(key) : FirstIncreasable(key, n)
  BY <1>2 DEF FindShortSuccessor
<1> QED BY <1>1, <1>2

(* A user key with a tag behind it is that user key again. *)
LEMMA TaggedUserKey ==
    ASSUME NEW u \in Seq(Bytes)
    PROVE  ExtractUserKey(u \o MaxTag) = u
<1> DEFINE T == Bytes \cup {1}
           c == u \o MaxTag
<1>1. /\ MaxTag \in Seq(T) /\ Len(MaxTag) = TagSize /\ u \in Seq(T)
  <2>1. MaxTag \in [1..TagSize -> T]
    BY KeysAssumption DEF MaxTag, Bytes
  <2>2. MaxTag \in Seq(T) /\ Len(MaxTag) = TagSize
    <3> HIDE DEF T
    <3> QED BY <2>1, KeysAssumption, IsASeq, LenProperties
  <2>3. u \in Seq(T)
    BY SMT
  <2> QED BY <2>2, <2>3
<1> HIDE DEF T
<1>2. /\ c \in Seq(T) /\ Len(c) = Len(u) + TagSize
      /\ \A i \in 1..Len(u) : c[i] = u[i]
  <2> DEFINE t == MaxTag
  <2> HIDE DEF t
  <2>1. t \in Seq(T) /\ Len(t) = TagSize /\ u \in Seq(T) /\ c = u \o t
    BY <1>1 DEF t
  <2> HIDE DEF c
  <2>2. c \in Seq(T) /\ Len(c) = Len(u) + Len(t)
    BY <2>1, ConcatProperties
  <2>3. Len(u) \in Nat /\ TagSize \in Nat
    BY <2>1, KeysAssumption, LenProperties
  <2>4. ASSUME NEW i \in 1..Len(u) PROVE c[i] = u[i]
    <3>1. i \in 1..(Len(u) + Len(t)) /\ i <= Len(u)
      BY <2>1, <2>3
    <3> QED BY <3>1, <2>1, ConcatProperties
  <2> QED BY <2>1, <2>2, <2>4
<1> HIDE DEF c
<1>3. Len(c) - TagSize = Len(u) /\ Len(u) \in Nat /\ Len(u) <= Len(c)
  BY <1>2, KeysAssumption
<1>4. /\ SubSeq(c, 1, Len(u)) \in Seq(T) /\ Len(SubSeq(c, 1, Len(u))) = Len(u)
      /\ \A i \in 1..Len(u) : SubSeq(c, 1, Len(u))[i] = c[i]
  BY <1>2, <1>3
<1>5. SubSeq(c, 1, Len(u)) = u
  BY <1>1, <1>2, <1>4, SeqEqual
<1> QED BY <1>3, <1>5 DEF ExtractUserKey, c

(* InternalKeyComparator::FindShortestSeparator separates its arguments in *)
(* the order of internal keys (dbformat.cc 54-65): with it the index would *)
(* lead to the right block for every choice of keys and block limits.      *)
THEOREM InternalSeparatorBetween ==
    ASSUME NEW s \in Seq(Bytes), NEW l \in Seq(Bytes),
           Len(s) >= TagSize, Len(l) >= TagSize, InternalLess(s, l)
    PROVE  Separates(InternalSeparator(s, l), s, l)
<1> DEFINE us == ExtractUserKey(s)
           ul == ExtractUserKey(l)
           tmp == FindShortestSeparator(us, ul)
<1>1. us \in Seq(Bytes) /\ ul \in Seq(Bytes)
  BY KeysAssumption DEF ExtractUserKey
<1>2. tmp \in Seq(Bytes) /\ (tmp = us \/ Less(tmp, ul))
  BY <1>1, SeparatorBetween
<1>3. CASE Len(tmp) < Len(us) /\ Less(us, tmp)
  <2>1. InternalSeparator(s, l) = tmp \o MaxTag
    BY <1>3 DEF InternalSeparator
  <2>2. ExtractUserKey(tmp \o MaxTag) = tmp
    BY <1>2, TaggedUserKey
  <2>3. tmp # us
    BY <1>3, <1>1
  <2>4. Less(tmp, ul)
    BY <1>2, <2>3
  <2> HIDE DEF us, ul, tmp
  <2>5. InternalLess(s, tmp \o MaxTag) /\ InternalLess(tmp \o MaxTag, l)
    BY <1>3, <2>2, <2>4 DEF InternalLess, us, ul
  <2> QED BY <2>1, <2>5 DEF Separates
<1>4. CASE ~(Len(tmp) < Len(us) /\ Less(us, tmp))
  <2>1. InternalSeparator(s, l) = s
    BY <1>4 DEF InternalSeparator
  <2> QED BY <2>1 DEF Separates
<1> QED BY <1>3, <1>4
=============================================================================
