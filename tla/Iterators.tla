----------------------------- MODULE Iterators ------------------------------
(***************************************************************************)
(* A DBIter (src/src/db/db_iter.cc) over a MergeIterator                    *)
(* (src/src/table/iter_merger.cc) over the live memtable, whose skip list   *)
(* the writer goes on to fill, and over children that no longer change: an  *)
(* immutable memtable, a level-0 file, and a level, each a sequence of      *)
(* parts (the files of a level, the blocks of a file) that a                *)
(* TwoLevelIterator goes through.  MemTable::Get reads the same skip list.  *)
(***************************************************************************)
EXTENDS SkipList, Sequences

CONSTANTS
    UserKeys,       \* 1..n, in the order of the user comparator
    MaxSequence,    \* the largest sequence number
    Layouts         \* the contents an iterator may be made over

ASSUME EntriesAssumption == UserKeys \subseteq Nat \ {0} /\ MaxSequence \in Nat

VARIABLES
    layout,     \* the memtables and the version that were current
    sequence,   \* last_sequence_
    node_,      \* the node the memtable's iterator is at
    walk,       \* the search of the skip list in progress
    pos,        \* of the other children: part and entry, or NoPos
    merge,      \* the MergeIterator and the call it is in
    db,         \* the DBIter and the call it is in
    got         \* MemTable::Get: its user key and what it found

vars == <<next_, heights, insert, layout, sequence, node_, walk, pos, merge, db, got>>
readVars == <<layout, node_, walk, pos, merge, db, got>>

-----------------------------------------------------------------------------
(***************************************************************************)
(* Internal keys as numbers, by user key and then the newest first          *)
(***************************************************************************)

Entry(user, seq) == user * (MaxSequence + 1) + (MaxSequence - seq)
User(e) == e \div (MaxSequence + 1)
SeqOf(e) == MaxSequence - (e % (MaxSequence + 1))

(* A layout: mem and dels are sets of entries, children the other children, *)
(* snap the sequence number that is read at, last the last one written.     *)
ASSUME LayoutsAssumption ==
    \A lay \in Layouts :
        /\ lay.last \in 0..MaxSequence /\ lay.snap \in 0..lay.last
        /\ \A e \in lay.mem : \E user \in UserKeys, seq \in 1..lay.last : e = Entry(user, seq)

Visible(e) == SeqOf(e) <= layout.snap
Deletion(e) == e \in layout.dels

-----------------------------------------------------------------------------
(***************************************************************************)
(* TwoLevelIterator over the parts of a child.  No part is empty.          *)
(***************************************************************************)

NoPos == <<0, 0>>

FirstPos(parts) == IF parts = <<>> THEN NoPos ELSE <<1, 1>>
LastPos(parts) ==
    IF parts = <<>> THEN NoPos ELSE <<Len(parts), Len(parts[Len(parts)])>>

(* FindSST, and Seek in an index block: the first part whose last key is    *)
(* not before the target.                                                   *)
FindPart(parts, target) ==
    {i \in DOMAIN parts : parts[i][Len(parts[i])] >= target
                          /\ \A j \in 1..(i - 1) : parts[j][Len(parts[j])] < target}

SeekPos(parts, target) ==
    LET part == FindPart(parts, target)
    IN  IF part = {} THEN NoPos
        ELSE LET i == CHOOSE i \in part : TRUE
             IN  <<i, CHOOSE p \in DOMAIN parts[i] :
                          parts[i][p] >= target /\ \A q \in 1..(p - 1) : parts[i][q] < target>>

NextPos(parts, at) ==
    IF at[2] < Len(parts[at[1]]) THEN <<at[1], at[2] + 1>>
    ELSE IF at[1] < Len(parts) THEN <<at[1] + 1, 1>> ELSE NoPos

PrevPos(parts, at) ==
    IF at[2] > 1 THEN <<at[1], at[2] - 1>>
    ELSE IF at[1] > 1 THEN <<at[1] - 1, Len(parts[at[1] - 1])>> ELSE NoPos

-----------------------------------------------------------------------------
(***************************************************************************)
(* MergeIterator.  Child 0 is the memtable, child i layout.children[i].     *)
(***************************************************************************)

Mem == 0
NoChild == -1

Others == DOMAIN layout.children
AllChildren == {Mem} \cup Others

(* key() of a child at a node and positions; Null if it is not valid. *)
KeyAt(c, node, at) ==
    IF c = Mem THEN node
    ELSE IF at[c] = NoPos THEN Null ELSE layout.children[c][at[c][1]][at[c][2]]

(* FindSmallest takes the first of equal keys, FindLargest the last. *)
FindSmallest(key) ==
    LET valid == {c \in AllChildren : key[c] # Null}
    IN  IF valid = {} THEN NoChild
        ELSE CHOOSE c \in valid : \A d \in valid \ {c} :
                 key[c] < key[d] \/ (key[c] = key[d] /\ c < d)

FindLargest(key) ==
    LET valid == {c \in AllChildren : key[c] # Null}
    IN  IF valid = {} THEN NoChild
        ELSE CHOOSE c \in valid : \A d \in valid \ {c} :
                 key[c] > key[d] \/ (key[c] = key[d] /\ c > d)

IterValid == merge.current # NoChild
IterKey == KeyAt(merge.current, node_, pos)

(* A call of the MergeIterator: key is the target of a Seek, key() otherwise. *)
Call(op, key) == [merge EXCEPT !.op = op, !.key = key, !.stage = "start"]
CallFrom(op) == Call(op, IF IterValid THEN IterKey ELSE Null)

(* Next or Prev against the direction so far: the other children move too. *)
Turns == \/ merge.op = "next" /\ merge.direction = "reverse"
         \/ merge.op = "prev" /\ merge.direction = "forward"

(* The search of the skip list the call begins with. *)
FirstWalk ==
    IF merge.op = "last" THEN "last"
    ELSE IF merge.op = "seek" \/ (Turns /\ merge.current # Mem) THEN "ge"
    ELSE IF merge.op = "prev" /\ merge.current = Mem THEN "lt"
    ELSE "none"

MergeBegin ==
    /\ merge.op # "none" /\ merge.stage = "start" /\ FirstWalk # "none"
    /\ \E h \in heights : walk' = WalkFrom(FirstWalk, merge.key, h)
    /\ merge' = [merge EXCEPT !.stage = "walk"]
    /\ UNCHANGED <<next_, heights, insert, layout, sequence, node_, pos, db, got>>

(* Prev after the Seek of a turn: one back from there, or to the last. *)
MergeBack ==
    /\ merge.op # "none" /\ merge.stage = "back"
    /\ \E h \in heights : walk' = IF node_ # Null THEN WalkFrom("lt", node_, h)
                                  ELSE WalkFrom("last", Null, h)
    /\ merge' = [merge EXCEPT !.stage = "walk2"]
    /\ UNCHANGED <<next_, heights, insert, layout, sequence, node_, pos, db, got>>

Walk ==
    /\ walk # NoWalk /\ ~AtEnd(walk)
    /\ walk' = Turn(walk)
    /\ UNCHANGED <<next_, heights, insert, layout, sequence, node_, pos, merge, db, got>>

WalkEnd ==
    /\ walk # NoWalk /\ AtEnd(walk) /\ merge.op # "none"
    /\ walk' = NoWalk
    /\ node_' = Found(walk)
    /\ merge' = [merge EXCEPT !.stage =
                     IF @ = "walk" /\ merge.op = "prev" /\ merge.current # Mem
                     THEN "back" ELSE "ready"]
    /\ UNCHANGED <<next_, heights, insert, layout, sequence, pos, db, got>>

(* Where the call leaves the memtable's iterator ... *)
NewNode_ ==
    CASE merge.op = "first" -> next_[head_][0]
      [] merge.op = "next" /\ (merge.current = Mem \/ (Turns /\ node_ = merge.key)) ->
             next_[node_][0]
      [] OTHER -> node_

(* ... and another child. *)
TurnForward(parts) ==
    LET at == SeekPos(parts, merge.key)
    IN  IF at # NoPos /\ parts[at[1]][at[2]] = merge.key THEN NextPos(parts, at) ELSE at

(* Mutant: a child without an entry from the key on stays not valid. *)
TurnBack_NoLast(parts) ==
    LET at == SeekPos(parts, merge.key)
    IN  IF at # NoPos THEN PrevPos(parts, at) ELSE NoPos

TurnBack(parts) ==
    LET at == SeekPos(parts, merge.key)
    IN  IF at # NoPos THEN PrevPos(parts, at) ELSE LastPos(parts)

NewPos(c) ==
    LET parts == layout.children[c]
    IN  CASE merge.op = "first" -> FirstPos(parts)
          [] merge.op = "last" -> LastPos(parts)
          [] merge.op = "seek" -> SeekPos(parts, merge.key)
          [] merge.op = "next" -> IF c = merge.current THEN NextPos(parts, pos[c])
                                  ELSE IF Turns THEN TurnForward(parts) ELSE pos[c]
          [] merge.op = "prev" -> IF c = merge.current THEN PrevPos(parts, pos[c])
                                  ELSE IF Turns THEN TurnBack(parts) ELSE pos[c]

(* The other children do not depend on the memtable's: they move at once.  *)
MergeFinish ==
    /\ merge.op # "none"
    /\ merge.stage = "ready" \/ (merge.stage = "start" /\ FirstWalk = "none")
    /\ node_' = NewNode_
    /\ pos' = [c \in Others |-> NewPos(c)]
    /\ LET key == [c \in AllChildren |-> KeyAt(c, NewNode_, [d \in Others |-> NewPos(d)])]
           back == merge.op \in {"last", "prev"}
       IN  merge' = [current |-> IF back THEN FindLargest(key) ELSE FindSmallest(key),
                     direction |-> IF back THEN "reverse" ELSE "forward",
                     op |-> "none", key |-> Null, stage |-> "start"]
    /\ UNCHANGED <<next_, heights, insert, layout, sequence, walk, db, got>>

-----------------------------------------------------------------------------
(***************************************************************************)
(* DBIter                                                                  *)
(***************************************************************************)

NoKey == 0      \* the empty string

NewIterator ==
    [direction |-> "forward", valid |-> FALSE, saved_key |-> NoKey, saved_value |-> 0,
     pc |-> "idle", skipping |-> FALSE, value_type |-> "deletion"]

(* key() and value() when valid_ holds. *)
Key == IF db.direction = "forward" THEN User(IterKey) ELSE db.saved_key
Value == IF db.direction = "forward" THEN SeqOf(IterKey) ELSE db.saved_value

Idle == db.pc = "idle" /\ walk = NoWalk

(* What a call of DBIter changes: only itself and the MergeIterator. *)
DBStep(newDb, newMerge) ==
    /\ db' = newDb /\ merge' = newMerge
    /\ UNCHANGED <<next_, heights, insert, layout, sequence, node_, walk, pos, got>>

(* saved_key_ holds the internal key of the target; nothing compares it. *)
Seek(user) ==
    /\ Idle
    /\ DBStep([db EXCEPT !.direction = "forward", !.saved_value = 0, !.saved_key = user,
                         !.pc = "sought", !.skipping = FALSE],
              Call("seek", Entry(user, layout.snap)))

SeekToFirst ==
    /\ Idle
    /\ DBStep([db EXCEPT !.direction = "forward", !.saved_value = 0,
                         !.pc = "sought", !.skipping = FALSE],
              Call("first", Null))

SeekToLast ==
    /\ Idle
    /\ DBStep([db EXCEPT !.direction = "reverse", !.saved_value = 0,
                         !.pc = "back", !.value_type = "deletion"],
              Call("last", Null))

Next_ ==
    /\ Idle /\ db.valid
    /\ DBStep([db EXCEPT !.direction = "forward", !.pc = "scan", !.skipping = TRUE,
                         !.saved_key = IF db.direction = "reverse" THEN @ ELSE User(IterKey)],
              IF IterValid THEN CallFrom("next") ELSE Call("first", Null))

Prev ==
    /\ Idle /\ db.valid
    /\ IF db.direction = "forward"
       THEN DBStep([db EXCEPT !.saved_key = User(IterKey), !.pc = "leave"], CallFrom("prev"))
       ELSE DBStep([db EXCEPT !.pc = "back", !.value_type = "deletion"], merge)

(* The underlying iterator has answered. *)
Answered(pcs) == db.pc \in pcs /\ merge.op = "none"

Acceptable(e) ==
    Visible(e) /\ ~Deletion(e) /\ ~(db.skipping /\ User(e) <= db.saved_key)

(* FindNextUserEntry: a turn of its loop, or its end.  Next clears          *)
(* saved_key_ before it gives up, Seek does not.                            *)
FindNextUserEntry ==
    /\ Answered({"sought", "scan"})
    /\ IF ~IterValid
       THEN DBStep([db EXCEPT !.valid = FALSE, !.pc = "idle",
                              !.saved_key = IF db.pc = "sought" THEN @ ELSE NoKey], merge)
       ELSE IF Acceptable(IterKey)
       THEN DBStep([db EXCEPT !.valid = TRUE, !.pc = "idle", !.saved_key = NoKey], merge)
       ELSE IF Visible(IterKey) /\ Deletion(IterKey)
       THEN DBStep([db EXCEPT !.pc = "scan", !.saved_key = User(IterKey),
                              !.skipping = TRUE], CallFrom("next"))
       ELSE DBStep([db EXCEPT !.pc = "scan"], CallFrom("next"))

(* The loop of Prev, back to a smaller user key. *)
LeaveKey ==
    /\ Answered({"leave"})
    /\ IF ~IterValid
       THEN DBStep([db EXCEPT !.valid = FALSE, !.pc = "idle", !.saved_key = NoKey,
                              !.saved_value = 0], merge)
       ELSE IF User(IterKey) < db.saved_key
       THEN DBStep([db EXCEPT !.direction = "reverse", !.pc = "back",
                              !.value_type = "deletion"], merge)
       ELSE DBStep(db, CallFrom("prev"))

(* All versions of the saved key are passed. *)
KeyDone(e) == Visible(e) /\ db.value_type = "value" /\ User(e) < db.saved_key

(* FindPrevUserEntry: a turn of its loop, or its end. *)
FindPrevUserEntry ==
    /\ Answered({"back"})
    /\ IF ~IterValid \/ KeyDone(IterKey)
       THEN IF db.value_type = "deletion"
            THEN DBStep([db EXCEPT !.valid = FALSE, !.pc = "idle", !.saved_key = NoKey,
                                   !.saved_value = 0, !.direction = "forward"], merge)
            ELSE DBStep([db EXCEPT !.valid = TRUE, !.pc = "idle"], merge)
       ELSE IF ~Visible(IterKey)
       THEN DBStep(db, CallFrom("prev"))
       ELSE IF Deletion(IterKey)
       THEN DBStep([db EXCEPT !.value_type = "deletion", !.saved_key = NoKey,
                              !.saved_value = 0], CallFrom("prev"))
       ELSE DBStep([db EXCEPT !.value_type = "value", !.saved_key = User(IterKey),
                              !.saved_value = SeqOf(IterKey)], CallFrom("prev"))

-----------------------------------------------------------------------------
(***************************************************************************)
(* MemTable                                                                *)
(***************************************************************************)

NothingGot == [user |-> NoKey, done |-> FALSE, found |-> FALSE, type |-> "deletion", seq |-> 0]

(* Get by a reader that has no iterator: another search of the list. *)
GetBegin(user) ==
    /\ Idle /\ merge.current = NoChild /\ node_ = Null /\ got = NothingGot
    /\ \E h \in heights : walk' = WalkFrom("ge", Entry(user, layout.snap), h)
    /\ got' = [NothingGot EXCEPT !.user = user]
    /\ UNCHANGED <<next_, heights, insert, layout, sequence, node_, pos, merge, db>>

(* Mutant: the user key of the entry found is not compared. *)
Matches_Any(n) == n # Null

Matches(n) == n # Null /\ User(n) = got.user

GetEnd ==
    /\ walk # NoWalk /\ AtEnd(walk) /\ merge.op = "none"
    /\ LET n == Found(walk)
       IN  got' = IF ~Matches(n) THEN [got EXCEPT !.done = TRUE]
                  ELSE [got EXCEPT !.done = TRUE, !.found = TRUE, !.seq = SeqOf(n),
                                   !.type = IF Deletion(n) THEN "deletion" ELSE "value"]
    /\ walk' = NoWalk
    /\ UNCHANGED <<next_, heights, insert, layout, sequence, node_, pos, merge, db>>

(* Add, by the leader of the writers: the sequence number is new. *)
Add(user, height) ==
    /\ sequence < MaxSequence
    /\ InsertBegin(Entry(user, sequence + 1), height)
    /\ sequence' = sequence + 1
    /\ UNCHANGED readVars

InsertStep == (InsertSet \/ InsertLink) /\ UNCHANGED sequence /\ UNCHANGED readVars

-----------------------------------------------------------------------------
(* NewIterator: the writer that filled the memtable held the mutex since.   *)
Init ==
    /\ layout \in Layouts
    /\ \E height \in [layout.mem -> 1..kMaxHeight] : ListInit(height)
    /\ sequence = layout.last
    /\ node_ = Null /\ walk = NoWalk
    /\ pos = [c \in DOMAIN layout.children |-> NoPos]
    /\ merge = [current |-> NoChild, direction |-> "forward", op |-> "none",
                key |-> Null, stage |-> "start"]
    /\ db = NewIterator
    /\ got = NothingGot

IterStep ==
    \/ MergeBegin \/ MergeBack \/ Walk \/ WalkEnd \/ MergeFinish
    \/ FindNextUserEntry \/ LeaveKey \/ FindPrevUserEntry

WriterStep == InsertStep \/ \E user \in UserKeys, height \in 1..kMaxHeight : Add(user, height)

(* What a client calls. *)
ClientStep ==
    \/ SeekToFirst \/ SeekToLast \/ Next_ \/ Prev
    \/ \E user \in UserKeys : Seek(user) \/ GetBegin(user)

Next == ClientStep \/ IterStep \/ GetEnd \/ WriterStep

Spec == Init /\ [][Next]_vars

-----------------------------------------------------------------------------
(***************************************************************************)
(* What is promised                                                        *)
(***************************************************************************)

(* The entries that were there when the iterator was made. *)
Entries ==
    layout.mem \cup
    UNION {UNION {{part[p] : p \in DOMAIN part} :
                  part \in {layout.children[c][i] : i \in DOMAIN layout.children[c]}} :
           c \in Others}

(* The newest of the visible entries of a user key in E; 0 if there is none. *)
Newest(E, user) ==
    LET seqs == {SeqOf(e) : e \in {f \in E : User(f) = user /\ Visible(f)}}
    IN  IF seqs = {} THEN 0 ELSE CHOOSE s \in seqs : \A t \in seqs : t <= s

(* The user keys that are not deleted at the snapshot. *)
View == {u \in UserKeys : LET s == Newest(Entries, u) IN s # 0 /\ ~Deletion(Entry(u, s))}

(* MemTable::Get of a key finds the newest entry that was there when the    *)
(* reader took its snapshot, whatever is being inserted around it.          *)
MemGetExact ==
    got.done =>
        LET s == Newest(layout.mem, got.user)
        IN  /\ got.found <=> s # 0
            /\ got.found => /\ got.seq = s
                            /\ got.type = "deletion" <=> Deletion(Entry(got.user, s))
=============================================================================
