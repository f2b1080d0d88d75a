---------------------------- MODULE MCIterators -----------------------------
(***************************************************************************)
(* Iterators beside a cursor over the sorted keys of the snapshot.          *)
(***************************************************************************)
EXTENDS Iterators

VARIABLE cursor     \* the user key the iterator should be at; NoKey if not valid

(* Four writes, in order: two are in a level, in two files or as the two    *)
(* versions of a key in one, the third in a level-0 file, and the last in   *)
(* the memtable; one of those two is a deletion.  A reader at an older      *)
(* snapshot need not be disturbed as well.                                  *)
LevelParts == {<< <<Entry(1, 1)>>, <<Entry(3, 2)>> >>, << <<Entry(2, 2), Entry(2, 1)>> >>}

LayoutOf(level, third, fourth, dels, snap) ==
    [mem |-> {Entry(fourth, 4)}, children |-> << << <<Entry(third, 3)>> >>, level >>,
     dels |-> dels, snap |-> snap, last |-> IF snap = 4 THEN 4 ELSE MaxSequence]

MCLayouts ==
    UNION {{LayoutOf(level, third, fourth, dels, snap) :
               dels \in {{Entry(third, 3)}, {Entry(fourth, 4)}}} :
           level \in LevelParts, third \in {1, 2}, fourth \in UserKeys, snap \in {3, 4}}

LeastOf(S) == IF S = {} THEN NoKey ELSE CHOOSE x \in S : \A y \in S : x <= y
GreatestOf(S) == IF S = {} THEN NoKey ELSE CHOOSE x \in S : \A y \in S : x >= y

CursorInit == Init /\ cursor = NoKey

CursorNext ==
    \/ SeekToFirst /\ cursor' = LeastOf(View)
    \/ SeekToLast /\ cursor' = GreatestOf(View)
    \/ Next_ /\ cursor' = LeastOf({u \in View : u > cursor})
    \/ Prev /\ cursor' = GreatestOf({u \in View : u < cursor})
    \/ \E user \in UserKeys : Seek(user) /\ cursor' = LeastOf({u \in View : u >= user})
    \/ /\ \/ IterStep \/ WriterStep \/ GetEnd
          \/ \E user \in UserKeys : GetBegin(user)
       /\ UNCHANGED cursor

CursorSpec == CursorInit /\ [][CursorNext]_<<vars, cursor>>

(* After any sequence of seeks and moves in both directions, an iterator is *)
(* where a cursor over the keys that its snapshot shows is, each once and   *)
(* with its newest visible value: entries written since, also between two   *)
(* loads of a search, older versions and deleted keys do not show, and none *)
(* is passed over.                                                          *)
CursorExact ==
    Idle /\ merge.op = "none" =>
        /\ db.valid <=> cursor # NoKey
        /\ db.valid => Key = cursor /\ Value = Newest(Entries, cursor)
=============================================================================
