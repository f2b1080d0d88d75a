------------------------------- MODULE MCSST --------------------------------
(***************************************************************************)
(* SST beside a cursor over the list of its keys.                           *)
(***************************************************************************)
EXTENDS SST

VARIABLE cursor   \* the position the iterator should be at; 0 if not valid

(* Tags of two bytes: the type, then the sequence number. *)
Key(user, seq) == user \o <<1, seq>>

MCKeys == {Key(<<0>>, 1), Key(<<0, 2>>, 1), Key(<<1>>, 2), Key(<<1>>, 1),
           Key(<<2, 0>>, 1), Key(<<3>>, 1)}
MCTargets == {Key(u, s) : u \in {<<0>>, <<0, 2>>, <<1>>, <<2>>, <<2, 0>>, <<3>>},
                          s \in {1, 2}}

(* User keys that are not shorter than the tag, with gaps between them. *)
LongKeys == {Key(<<0, 0, 0>>, 1), Key(<<0, 0, 2>>, 1), Key(<<0, 0, 3>>, 1)}

CursorInit == Init /\ cursor = 0

(* Where a Seek has to lead; only a sound index promises anything. *)
SeekCursor(target) == IF IndexSound THEN FirstAtLeast(target) ELSE Position(iter')

CursorNext ==
    \/ (BuilderStep \/ NewIterator) /\ cursor' = 0
    \/ IterSeekToFirst /\ cursor' = 1
    \/ IterSeekToLast /\ cursor' = Len(added)
    \/ IterNext /\ cursor' = IF cursor = Len(added) THEN 0 ELSE cursor + 1
    \/ IterPrev /\ cursor' = cursor - 1
    \/ \E target \in Targets : IterSeek(target) /\ cursor' = SeekCursor(target)

CursorSpec == CursorInit /\ [][CursorNext]_<<vars, cursor>>

(* Through every sequence of seeks and moves in both directions, across    *)
(* blocks and restart points, the iterator is at the entry the cursor is   *)
(* at, with its key put together rightly from its prefix.                  *)
IterExact ==
    /\ Position(iter) = cursor
    /\ cursor # 0 => iter.data.key = added[cursor]
=============================================================================
