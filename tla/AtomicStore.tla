---------------------------- MODULE AtomicStore ----------------------------
(***************************************************************************)
(* What DBImpl::Write and DBImpl::Get promise their callers, without the    *)
(* queue, the WAL, the memtables and the background thread: a batch becomes *)
(* visible as a whole, at one point between the call and its return, with   *)
(* sequence numbers above all those given out before; a batch whose Write   *)
(* fails never becomes visible; a read sees the batches visible when it     *)
(* began, and keeps seeing exactly those.                                   *)
(***************************************************************************)
EXTENDS Integers

CONSTANTS Calls,    \* calls of Write
          Readers   \* calls of Get

VARIABLES
    outcome,   \* "none", "pending", "ok" or "error", for each call of Write
    entries,   \* the sequence numbers of its entries, once they are visible
    last,      \* the last sequence number given out
    view       \* what each Get sees: whether it has begun, and the entries

vars == <<outcome, entries, last, view>>

Visible == UNION {entries[w] : w \in Calls}

Init ==
    /\ outcome = [w \in Calls |-> "none"]
    /\ entries = [w \in Calls |-> {}]
    /\ last = 0
    /\ view = [r \in Readers |-> [begun |-> FALSE, seen |-> {}]]

Begin(w) ==
    /\ outcome[w] = "none"
    /\ outcome' = [outcome EXCEPT ![w] = "pending"]
    /\ UNCHANGED <<entries, last, view>>

(* The calls in S take effect together: the entries of each get numbers of *)
(* their own above last.                                                   *)
Commit(S) ==
    /\ S # {} /\ \A w \in S : outcome[w] = "pending"
    /\ outcome' = [w \in Calls |-> IF w \in S THEN "ok" ELSE outcome[w]]
    /\ last' >= last
    /\ \A w \in S : entries'[w] \subseteq (last + 1)..last'
    /\ \A v, w \in S : v # w => entries'[v] \cap entries'[w] = {}
    /\ entries' = [w \in Calls |-> IF w \in S THEN entries'[w] ELSE entries[w]]
    /\ UNCHANGED view

(* The calls in S fail; the numbers they were given are not used again. *)
Fail(S) ==
    /\ S # {} /\ \A w \in S : outcome[w] = "pending"
    /\ outcome' = [w \in Calls |-> IF w \in S THEN "error" ELSE outcome[w]]
    /\ last' >= last
    /\ UNCHANGED <<entries, view>>

Read(r) ==
    /\ ~view[r].begun
    /\ view' = [view EXCEPT ![r] = [begun |-> TRUE, seen |-> Visible]]
    /\ UNCHANGED <<outcome, entries, last>>

Next ==
    \/ \E w \in Calls : Begin(w)
    \/ \E S \in SUBSET Calls : Commit(S) \/ Fail(S)
    \/ \E r \in Readers : Read(r)

Spec == Init /\ [][Next]_vars
=============================================================================
