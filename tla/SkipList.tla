------------------------------ MODULE SkipList ------------------------------
(***************************************************************************)
(* The skip list of a memtable (src/src/utils/include/skiplist.h): one      *)
(* thread inserts while others search without a lock.  A node is its key, a *)
(* positive number; numbers are ordered as the comparator orders the keys.  *)
(* The next pointers are loaded and stored with acquire and release, one at *)
(* a time; max_height_ is relaxed, so that a search may load any value that *)
(* was stored since the searching thread last held the mutex.               *)
(***************************************************************************)
EXTENDS Integers, FiniteSets

CONSTANT
    kMaxHeight      \* 12 in the code

ASSUME HeightAssumption == kMaxHeight \in Nat \ {0}

VARIABLES
    next_,      \* of each node, the pointers of its levels
    heights,    \* the values of max_height_ a search may load
    insert      \* the locals of the Insert in progress

listVars == <<next_, heights, insert>>

head_ == 0
Null == -1
Wild == -2      \* what an uninitialised pointer holds

Levels == 0..(kMaxHeight - 1)

NoInsert == [key |-> Null, height |-> 0, level |-> 0, set |-> FALSE, prev |-> <<>>]

max_height_ == CHOOSE h \in heights : \A g \in heights : g <= h

Least(S) == IF S = {} THEN Null ELSE CHOOSE x \in S : \A y \in S : x <= y

(* The list the constructor and Inserts with these heights leave: height   *)
(* gives each key its height.                                              *)
ListOf(height) ==
    LET keys == DOMAIN height
    IN  [x \in keys \cup {head_} |->
            [l \in Levels |->
                IF x # head_ /\ height[x] <= l THEN Wild
                ELSE Least({k \in keys : k > x /\ height[k] > l})]]

ListInit(height) ==
    /\ next_ = ListOf(height)
    /\ heights = {CHOOSE h \in {1} \cup {height[k] : k \in DOMAIN height} :
                      \A k \in DOMAIN height : height[k] <= h}
    /\ insert = NoInsert

-----------------------------------------------------------------------------
(***************************************************************************)
(* Insert, by the only writer                                              *)
(***************************************************************************)

KeyIsAfterNode(key, n) == n # Null /\ n < key

(* The array prev that FindGreaterOrEqual fills; only the writer asks for   *)
(* it, and nobody else changes the list.  A place is a node and one of its  *)
(* levels: the search has no way on from a pointer that is not set.         *)
FindPrev(key) ==
    LET places == {p \in (DOMAIN next_) \X Levels : next_[p[1]][p[2]] # Wild}
        from[p \in places] ==
            LET x == p[1]
                l == p[2]
            IN  IF KeyIsAfterNode(key, next_[x][l]) THEN from[<<next_[x][l], l>>]
                ELSE [i \in 0..l |-> IF i = l THEN x ELSE from[<<x, l - 1>>][i]]
    IN  from[<<head_, max_height_ - 1>>]

(* prev of the levels of the new node. *)
Prevs(key, height) ==
    LET found == FindPrev(key)
    IN  [i \in 0..(height - 1) |-> IF i < max_height_ THEN found[i] ELSE head_]

(* Up to NewNode, whose pointers are not initialised. *)
InsertBegin(key, height) ==
    /\ insert = NoInsert
    /\ insert' = [key |-> key, height |-> height, level |-> 0, set |-> FALSE,
                  prev |-> Prevs(key, height)]
    /\ heights' = IF height > max_height_ THEN heights \cup {height} ELSE heights
    /\ next_' = [x \in DOMAIN next_ \cup {key} |->
                    IF x = key THEN [l \in Levels |-> Wild] ELSE next_[x]]

(* Mutant: the node is published before its own pointer is set. *)
InsertSet_Late ==
    /\ insert # NoInsert /\ ~insert.set
    /\ next_' = [next_ EXCEPT ![insert.prev[insert.level]][insert.level] = insert.key]
    /\ insert' = [insert EXCEPT !.set = TRUE]
    /\ UNCHANGED heights

(* x->NoBarrier_SetNext(i, prev[i]->NoBarrier_Next(i)) *)
InsertSet ==
    /\ insert # NoInsert /\ ~insert.set
    /\ next_' = [next_ EXCEPT ![insert.key][insert.level] =
                                  next_[insert.prev[insert.level]][insert.level]]
    /\ insert' = [insert EXCEPT !.set = TRUE]
    /\ UNCHANGED heights

(* prev[i]->SetNext(i, x) *)
InsertLink ==
    /\ insert # NoInsert /\ insert.set
    /\ next_' = [next_ EXCEPT ![insert.prev[insert.level]][insert.level] = insert.key]
    /\ insert' = IF insert.level + 1 = insert.height THEN NoInsert
                 ELSE [insert EXCEPT !.level = @ + 1, !.set = FALSE]
    /\ UNCHANGED heights

-----------------------------------------------------------------------------
(***************************************************************************)
(* Searches, a load of a pointer at a time.  w is the locals of one of      *)
(* FindGreaterOrEqual ("ge"), FindLessThan ("lt") and FindLast ("last").    *)
(***************************************************************************)

NoWalk == [find |-> "none", key |-> Null, x |-> head_, level |-> 0]

WalkFrom(find, key, height) ==
    [find |-> find, key |-> key, x |-> head_, level |-> height - 1]

Loaded(w) == next_[w.x][w.level]

(* The search goes on to the node it loaded. *)
Onward(w) ==
    /\ Loaded(w) # Null
    /\ w.find \in {"ge", "lt"} => KeyIsAfterNode(w.key, Loaded(w))

(* At level 0 it is at its end. *)
AtEnd(w) == ~Onward(w) /\ w.level = 0

(* One turn of the loop. *)
Turn(w) == IF Onward(w) THEN [w EXCEPT !.x = Loaded(w)] ELSE [w EXCEPT !.level = @ - 1]

(* The node_ that Iterator::Seek, Prev and SeekToLast end with. *)
Found(w) == IF w.find = "ge" THEN Loaded(w)
            ELSE IF w.x = head_ THEN Null ELSE w.x

-----------------------------------------------------------------------------
(***************************************************************************)
(* What is promised                                                        *)
(***************************************************************************)

(* The nodes that level l leads to; none is met twice. *)
Linked(l) == {next_[x][l] : x \in {y \in DOMAIN next_ : next_[y][l] # Wild}} \ {Null, Wild}

(* At every moment of an Insert each level is in order, and a node of a     *)
(* level is also on the levels below it, with its pointers set: a search    *)
(* that comes down from any level of any node goes on where it is.          *)
LevelsSound ==
    \A l \in Levels :
        /\ \A x \in {head_} \cup Linked(l) : next_[x][l] = Null \/ next_[x][l] > x
        /\ l > 0 => Linked(l) \subseteq Linked(l - 1)
=============================================================================
