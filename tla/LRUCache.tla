------------------------------ MODULE LRUCache ------------------------------
(***************************************************************************)
(* One shard of the LRU cache (src/src/table/cache.cc): entries with        *)
(* reference counts, the list of entries only the cache refers to, the list *)
(* of entries clients hold as well, and the table that finds them by key.   *)
(*                                                                          *)
(* The state of the shard is a record, and each private function of         *)
(* LRUCache is an operator from the shard before the call to the shard      *)
(* after it.  Every public operation holds mtx_ throughout; the loops of    *)
(* Insert and Prune take one step per entry they erase, and mtx says that   *)
(* nobody else may enter meanwhile.  A shard is chosen by the key's hash,   *)
(* so shards share no state, and one shard is all there is to model.        *)
(***************************************************************************)
EXTENDS Integers, SequencesExt

CONSTANTS
    Keys,      \* the keys that fall into this shard
    Handles,   \* the entries that calls of Insert allocate, each once
    NoHandle,  \* nullptr
    Charges,   \* the charges callers pass to Insert
    Capacity,  \* capacity_
    MaxRefs    \* bound on the handles of one entry that clients hold at a time

ASSUME LRUCacheAssumption ==
    /\ NoHandle \notin Handles /\ NoHandle \notin Keys
    /\ Charges \subseteq Nat /\ Capacity \in Nat /\ MaxRefs \in Nat

VARIABLES
    mtx,     \* "free"; "insert" or "prune": that loop has mtx_; "destroyed"
    shard,   \* the LRUCache and the heap of its entries
    key,     \* e->key() of every entry allocated so far, NoHandle for the others
    charge,  \* e->charge
    held     \* how many handles of each entry clients have not released

vars == <<mtx, shard, key, charge, held>>

Allocated == {h \in Handles : key[h] # NoHandle}

-----------------------------------------------------------------------------
(***************************************************************************)
(* The private functions.  lru_ is the sequence of its entries, oldest     *)
(* first; the order of in_use_ is never looked at, so that it is a set.    *)
(***************************************************************************)

LRU_Remove(s, e) == [s EXCEPT !.lru = RemoveFirst(@, e), !.in_use = @ \ {e}]

(* Mutant: the entry stays where Insert can evict it. *)
Ref_NotMoved(s, e) == [s EXCEPT !.refs[e] = @ + 1]

(* Mutant: the new handle is not counted. *)
Ref_Uncounted(s, e) ==
    IF s.refs[e] = 1 /\ e \in s.in_cache
    THEN [LRU_Remove(s, e) EXCEPT !.in_use = @ \cup {e}] ELSE s

Ref(s, e) ==
    LET moved == [LRU_Remove(s, e) EXCEPT !.in_use = @ \cup {e}]
    IN  [(IF s.refs[e] = 1 /\ e \in s.in_cache THEN moved ELSE s)
            EXCEPT !.refs[e] = @ + 1]

Unref(s, e) ==
    LET dropped == [s EXCEPT !.refs[e] = @ - 1]
    IN  IF dropped.refs[e] = 0
        THEN [dropped EXCEPT !.freed = @ \cup {e}]
        ELSE IF e \in s.in_cache /\ dropped.refs[e] = 1
        THEN [LRU_Remove(dropped, e) EXCEPT !.lru = Append(@, e)]
        ELSE dropped

(* Mutant: the cache keeps its own reference. *)
FinishErase_KeepsRef(s, e) ==
    IF e = NoHandle THEN s
    ELSE [LRU_Remove(s, e) EXCEPT !.in_cache = @ \ {e}, !.usage = @ - charge[e]]

FinishErase(s, e) ==
    IF e = NoHandle THEN s
    ELSE Unref([LRU_Remove(s, e) EXCEPT !.in_cache = @ \ {e}, !.usage = @ - charge[e]], e)

(* table_.Remove(k) *)
TableRemove(s, k) == [s EXCEPT !.table[k] = NoHandle]

(* FinishErase(table_.Remove(k)) *)
EraseKey(s, k) == FinishErase(TableRemove(s, k), s.table[k])

(* Mutant: an entry with the same key is forgotten, not erased. *)
Displace_Forgets(s, e) == s

(* FinishErase of the entry that table_.Insert has displaced. *)
Displace(s, e) == FinishErase(s, e)

(* Mutant: the charge of a replaced entry is counted once more. *)
AddUsage_Twice(s, c) == s.usage + c + c

(* usage_ += charge *)
AddUsage(s, c) == s.usage + c

-----------------------------------------------------------------------------
(***************************************************************************)
(* The public operations                                                   *)
(***************************************************************************)

Lookup(k) ==
    /\ mtx = "free"
    /\ LET e == shard.table[k] IN
        IF e = NoHandle
        THEN UNCHANGED <<shard, held>>
        ELSE /\ held[e] < MaxRefs
             /\ shard' = Ref(shard, e)
             /\ held' = [held EXCEPT ![e] = @ + 1]
    /\ UNCHANGED <<mtx, key, charge>>

Release(h) ==
    /\ mtx = "free" /\ held[h] > 0
    /\ shard' = Unref(shard, h)
    /\ held' = [held EXCEPT ![h] = @ - 1]
    /\ UNCHANGED <<mtx, key, charge>>

(* Insert up to its loop: the caller gets a handle of the new entry.  With *)
(* capacity_ = 0 the cache keeps none.                                     *)
Insert(k, c, h) ==
    /\ mtx = "free" /\ h \in Handles \ Allocated
    /\ mtx' = "insert"
    /\ key' = [key EXCEPT ![h] = k] /\ charge' = [charge EXCEPT ![h] = c]
    /\ held' = [held EXCEPT ![h] = 1]
    /\ shard' = IF Capacity = 0 THEN [shard EXCEPT !.refs[h] = 1]
                ELSE Displace([shard EXCEPT !.refs[h] = 2, !.in_cache = @ \cup {h},
                                            !.in_use = @ \cup {h},
                                            !.usage = AddUsage(shard, c),
                                            !.table[k] = h],
                              shard.table[k])

(* Insert's loop erases the oldest entry that only the cache refers to. *)
Evict ==
    /\ mtx = "insert" /\ shard.usage > Capacity /\ shard.lru # <<>>
    /\ shard' = EraseKey(shard, key[Head(shard.lru)])
    /\ UNCHANGED <<mtx, key, charge, held>>

InsertDone ==
    /\ mtx = "insert" /\ (shard.usage <= Capacity \/ shard.lru = <<>>)
    /\ mtx' = "free"
    /\ UNCHANGED <<shard, key, charge, held>>

Erase(k) ==
    /\ mtx = "free"
    /\ shard' = EraseKey(shard, k)
    /\ UNCHANGED <<mtx, key, charge, held>>

Prune ==
    /\ mtx = "free" /\ shard.lru # <<>>
    /\ mtx' = "prune"
    /\ UNCHANGED <<shard, key, charge, held>>

PruneStep ==
    /\ mtx = "prune"
    /\ IF shard.lru = <<>>
       THEN mtx' = "free" /\ UNCHANGED shard
       ELSE shard' = EraseKey(shard, key[Head(shard.lru)]) /\ UNCHANGED mtx
    /\ UNCHANGED <<key, charge, held>>

(* Mutant: the destructor's loop stops after one entry. *)
Leftovers_One == IF shard.lru = <<>> THEN {} ELSE {Head(shard.lru)}

(* The entries of lru_, which ~LRUCache frees. *)
Leftovers == ToSet(shard.lru)

(* ~LRUCache, which its owner calls when no handle is left: the entries    *)
(* that only the cache refers to are freed.                                *)
Destroy ==
    /\ mtx = "free" /\ \A h \in Handles : held[h] = 0
    /\ mtx' = "destroyed"
    /\ shard' = [shard EXCEPT
          !.in_cache = @ \ Leftovers,
          !.refs = [h \in Handles |-> IF h \in Leftovers THEN 0 ELSE @[h]],
          !.freed = @ \cup Leftovers,
          !.lru = <<>>]
    /\ UNCHANGED <<key, charge, held>>

-----------------------------------------------------------------------------
Init ==
    /\ mtx = "free"
    /\ shard = [refs |-> [h \in Handles |-> 0], in_cache |-> {}, lru |-> <<>>,
                in_use |-> {}, usage |-> 0, freed |-> {},
                table |-> [k \in Keys |-> NoHandle]]
    /\ key = [h \in Handles |-> NoHandle]
    /\ charge = [h \in Handles |-> 0]
    /\ held = [h \in Handles |-> 0]

Next ==
    \/ \E k \in Keys : Lookup(k) \/ Erase(k)
    \/ \E k \in Keys, c \in Charges, h \in Handles : Insert(k, c, h)
    \/ \E h \in Handles : Release(h)
    \/ Evict \/ InsertDone \/ Prune \/ PruneStep \/ Destroy

Spec == Init /\ [][Next]_vars

-----------------------------------------------------------------------------
(***************************************************************************)
(* Properties                                                              *)
(***************************************************************************)

Shards ==
    [refs : [Handles -> Nat], in_cache : SUBSET Handles, lru : Seq(Handles),
     in_use : SUBSET Handles, usage : Int, freed : SUBSET Handles,
     table : [Keys -> Handles \cup {NoHandle}]]

TypeOK ==
    /\ mtx \in {"free", "insert", "prune", "destroyed"}
    /\ shard \in Shards
    /\ key \in [Handles -> Keys \cup {NoHandle}]
    /\ charge \in [Handles -> Nat]
    /\ held \in [Handles -> Nat]

(* An entry's reference count is the number of handles clients hold, plus  *)
(* one while it is in the cache, through every eviction, replacement,      *)
(* erasure and release; its deleter has run exactly when the count has     *)
(* come down to zero.  So no client holds a freed entry and none is freed  *)
(* twice.                                                                  *)
RefCounts ==
    \A h \in Allocated :
        /\ shard.refs[h] = held[h] + (IF h \in shard.in_cache THEN 1 ELSE 0)
        /\ h \in shard.freed <=> shard.refs[h] = 0

(* What cache.cc says of its two lists: lru_ holds each entry of the cache *)
(* that has one reference, once, and in_use_ those with more; nothing else *)
(* is in either, so that the loops of Insert and Prune never erase an      *)
(* entry in use.                                                           *)
ListsAgree ==
    /\ IsInjective(shard.lru)
    /\ ToSet(shard.lru) = {h \in shard.in_cache : shard.refs[h] = 1}
    /\ shard.in_use = {h \in shard.in_cache : shard.refs[h] > 1}

(* The table finds exactly the entries of the cache, each under its key:   *)
(* FinishErase(table_.Remove(e->key())) in the loops erases e itself, so   *)
(* that they make progress.                                                *)
LookupExact == mtx # "destroyed" =>
    /\ shard.in_cache \subseteq Allocated
    /\ \A h \in Allocated : h \in shard.in_cache <=> shard.table[key[h]] = h
    /\ \A k \in Keys : shard.table[k] # NoHandle => key[shard.table[k]] = k

(* usage_ is the sum of the charges of what is in the cache: it neither    *)
(* leaks, which would empty the cache, nor wraps around below zero.        *)
UsageExact ==
    mtx # "destroyed" =>
        shard.usage = MapThenSumSet(LAMBDA h : charge[h], shard.in_cache)

(* When ~LRUCache is through, every entry ever inserted has been freed. *)
NoLeak == mtx = "destroyed" => Allocated \subseteq shard.freed
=============================================================================
