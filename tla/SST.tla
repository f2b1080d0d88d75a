-------------------------------- MODULE SST ---------------------------------
(***************************************************************************)
(* An SST file: SSTBuilder and BlockBuilder write it (sst_builder.cc,       *)
(* block_builder.cc); Table, Block::Iter and TwoLevelIterator read it       *)
(* (table.cc, block.cc, two_level_iterator.cc).                             *)
(*                                                                          *)
(* The offset of an entry in its block is its number, and the handle of a   *)
(* data block is the block's number.  Values are left out; with them the    *)
(* sizes of entries, so that a block may be full after any entry.           *)
(* filter_policy is null: there is no filter block.                         *)
(***************************************************************************)
EXTENDS InternalKeys, SequencesExt

CONSTANTS
    Keys,        \* the internal keys that may be added
    Targets,     \* the internal keys that are looked up
    Intervals,   \* the values of gDBConfig->block_restart_internal
    WriteFails   \* whether writing to the file may fail

ASSUME SSTAssumption ==
    /\ Keys \subseteq Seq(Bytes) /\ Targets \subseteq Seq(Bytes)
    /\ \A k \in Keys \cup Targets : Len(k) >= TagSize
    /\ Intervals \subseteq Nat \ {0} /\ WriteFails \in BOOLEAN

VARIABLES
    interval,      \* gDBConfig->block_restart_internal: 1 once a builder exists
    added,         \* the keys given to SSTBuilder::Add so far
    data_block,    \* rep_->data_block
    index_block,   \* rep_->index_block
    blocks,        \* the data blocks in the file
    last_key,      \* rep_->last_key
    pending,       \* rep_->pending_index_entry
    closed,        \* rep_->closed
    status,        \* rep_->status: "ok" or "error"
    iter           \* a TwoLevelIterator over the file

builderVars == <<added, data_block, index_block, blocks, last_key, pending, closed, status>>
vars == <<interval, builderVars, iter>>

-----------------------------------------------------------------------------
(***************************************************************************)
(* BlockBuilder.  An entry is the number of bytes it shares with the key    *)
(* before it, the others, and a block handle in the index block.  restarts  *)
(* are the numbers of the entries that share nothing.                       *)
(***************************************************************************)

NewBlock == [entries |-> <<>>, restarts |-> <<1>>, counter |-> 0, last |-> <<>>]

SharedBytes(a, b) == Max({n \in 0..Len(a) : Agree(a, b, n)})

(* BlockBuilder::Add *)
BlockAdd(b, key, value) ==
    LET restart == b.counter >= interval
        shared == IF restart THEN 0 ELSE SharedBytes(b.last, key)
    IN [entries |-> Append(b.entries, [shared |-> shared, value |-> value,
                                       delta |-> SubSeq(key, shared + 1, Len(key))]),
        restarts |-> IF restart THEN Append(b.restarts, Len(b.entries) + 1) ELSE b.restarts,
        counter |-> IF restart THEN 1 ELSE b.counter + 1,
        last |-> key]

-----------------------------------------------------------------------------
(***************************************************************************)
(* SSTBuilder                                                              *)
(***************************************************************************)

(* The key of the entry for the last block when key follows it: shortened   *)
(* by gDBConfig->comparator, which compares bytes.                          *)
IndexKey(key) == FindShortestSeparator(last_key, key)

(* WriteBlock of data block d, and WritableFile::Flush. *)
Flush(d) ==
    /\ blocks' = Append(blocks, d)
    /\ data_block' = NewBlock
    /\ status' \in (IF WriteFails THEN {"ok", "error"} ELSE {"ok"})

(* SSTBuilder::Add, which callers call in the order of internal keys. *)
Add(key) ==
    /\ ~closed /\ status = "ok"
    /\ added # <<>> => InternalLess(Last(added), key)
    /\ added' = Append(added, key)
    /\ index_block' = IF pending THEN BlockAdd(index_block, IndexKey(key), Len(blocks))
                      ELSE index_block
    /\ last_key' = key
    /\ LET d == BlockAdd(data_block, key, 0)
       IN  \/ /\ data_block' = d /\ pending' = FALSE /\ UNCHANGED <<blocks, status>>
           \/ Flush(d) /\ pending' \in (IF status' = "ok" THEN {TRUE} ELSE BOOLEAN)
    /\ UNCHANGED <<interval, closed, iter>>

(* SSTBuilder::Finish: the last block, then the index with its last entry. *)
Finish ==
    /\ ~closed /\ status = "ok" /\ added # <<>>
    /\ closed' = TRUE
    /\ IF data_block.entries # <<>> THEN Flush(data_block) /\ status' = "ok"
       ELSE UNCHANGED <<blocks, status, data_block>>
    /\ index_block' = BlockAdd(index_block, FindShortSuccessor(last_key), Len(blocks'))
    /\ pending' = FALSE
    /\ UNCHANGED <<interval, added, last_key, iter>>

(* A write has failed, before Finish or in it: the callers delete the       *)
(* builder and the file, whatever they hold.                                *)
FinishFails ==
    /\ ~closed
    /\ status = "error" \/ (WriteFails /\ added # <<>>)
    /\ closed' = TRUE /\ status' = "error"
    /\ UNCHANGED <<interval, added, data_block, index_block, blocks, last_key, pending, iter>>

-----------------------------------------------------------------------------
(***************************************************************************)
(* Block::Iter.  cur is current_, next is NextEntryOffset(), ri is          *)
(* restart_index_ and key is key_.                                          *)
(***************************************************************************)

Restarts(b) == Len(b.restarts)
Restart(b, i) == b.restarts[i + 1]
Size(b) == Len(b.entries)

NewIter(b) == [cur |-> Size(b) + 1, next |-> 1, ri |-> Restarts(b), key |-> <<>>]
Valid(b, it) == it.cur \in 1..Size(b)

SeekToRestartPoint(b, it, i) ==
    [it EXCEPT !.key = <<>>, !.ri = i, !.next = Restart(b, i)]

(* Mutant: the shared bytes are taken from the start of the delta. *)
Rebuild_NoPrefix(key, e) == e.delta

(* key_.resize(shared); key_.append(delta) *)
Rebuild(key, e) == SubSeq(key, 1, e.shared) \o e.delta

ParseNextKey(b, it) ==
    IF it.next > Size(b)
    THEN [it EXCEPT !.cur = Size(b) + 1, !.ri = Restarts(b)]
    ELSE [cur |-> it.next, next |-> it.next + 1,
          key |-> Rebuild(it.key, b.entries[it.next]),
          ri |-> Min({r \in it.ri..(Restarts(b) - 1) :
                        r + 1 < Restarts(b) => Restart(b, r + 1) >= it.next})]

(* ParseNextKey until it fails or Stop holds of where it is. *)
ParseUntil(b, it, Stop(_)) ==
    FoldLeft(LAMBDA i, n : IF Valid(b, i) /\ ~Stop(i) THEN ParseNextKey(b, i) ELSE i,
             ParseNextKey(b, it), b.entries)

(* Mutant: the scan stops at the last entry before the one it came from. *)
Prev_OneShort(b, it) ==
    LET before == {r \in 0..it.ri : Restart(b, r) < it.cur}
    IN  IF before = {} THEN [it EXCEPT !.cur = Size(b) + 1, !.ri = Restarts(b)]
        ELSE ParseUntil(b, SeekToRestartPoint(b, it, Max(before)),
                        LAMBDA i : i.next + 1 >= it.cur)

Prev(b, it) ==
    LET before == {r \in 0..it.ri : Restart(b, r) < it.cur}
    IN  IF before = {} THEN [it EXCEPT !.cur = Size(b) + 1, !.ri = Restarts(b)]
        ELSE ParseUntil(b, SeekToRestartPoint(b, it, Max(before)),
                        LAMBDA i : i.next >= it.cur)

SeekToFirst(b, it) == ParseNextKey(b, SeekToRestartPoint(b, it, 0))
SeekToLast(b, it) ==
    ParseUntil(b, SeekToRestartPoint(b, it, Restarts(b) - 1), LAMBDA i : i.next > Size(b))

(* The binary search for the last restart point before target, between     *)
(* left and right.                                                         *)
SearchRestarts(b, target, left, right, stray) ==
    LET search[l \in left..right, r \in left..right] ==
            LET mid == (l + r + 1) \div 2
            IN  IF l >= r THEN l
                ELSE IF ComparesLess(b.entries[Restart(b, mid)].delta, target, stray)
                     THEN search[mid, r] ELSE search[l, mid - 1]
    IN  search[left, right]

Seek(b, it, target, stray) ==
    LET less == Valid(b, it) /\ ComparesLess(it.key, target, stray)
        left == SearchRestarts(b, target, IF less THEN it.ri ELSE 0,
                    IF Valid(b, it) /\ ~less THEN it.ri ELSE Restarts(b) - 1, stray)
    IN  IF Valid(b, it) /\ it.key = target THEN it
        ELSE ParseUntil(b, IF less /\ left = it.ri THEN it ELSE SeekToRestartPoint(b, it, left),
                        LAMBDA i : ~ComparesLess(i.key, target, stray))

-----------------------------------------------------------------------------
(***************************************************************************)
(* TwoLevelIterator: idx is index_iter_, data is data_iter_, which may be   *)
(* null, and handle is data_block_handle_.                                  *)
(***************************************************************************)

NoIter == [cur |-> 0, next |-> 0, ri |-> 0, key |-> <<>>]
TableIter(i) == [idx |-> i, handle |-> 0, data |-> NoIter, null |-> TRUE]

DataBlock(t) == blocks[t.handle]
DataValid(t) == ~t.null /\ Valid(DataBlock(t), t.data)
NullData(t) == [t EXCEPT !.null = TRUE, !.data = NoIter]

(* data_iter_ is already there for this handle. *)
SameBlock(t, handle) == ~t.null /\ t.handle = handle

InitDataBlock(t) ==
    IF ~Valid(index_block, t.idx) THEN NullData(t)
    ELSE LET h == index_block.entries[t.idx.cur].value
         IN  IF SameBlock(t, h) THEN t
             ELSE [t EXCEPT !.handle = h, !.null = FALSE, !.data = NewIter(blocks[h])]

(* Apply Op to the data iterator, if there is one. *)
OnData(t, Op(_, _)) == IF t.null THEN t ELSE [t EXCEPT !.data = Op(DataBlock(t), @)]

(* The loops of SkipEmptyDataBlocksForward and Backward. *)
SkipEmptyDataBlocks(t, Move(_, _), Start(_, _)) ==
    FoldLeft(LAMBDA s, n :
                IF DataValid(s) THEN s
                ELSE IF ~Valid(index_block, s.idx) THEN NullData(s)
                ELSE OnData(InitDataBlock([s EXCEPT !.idx = Move(index_block, @)]), Start),
             t, Append(index_block.entries, 0))

Forward(t) == SkipEmptyDataBlocks(t, ParseNextKey, SeekToFirst)
Backward(t) == SkipEmptyDataBlocks(t, Prev, SeekToLast)

(* OpenSST has succeeded. *)
Opened == closed /\ status = "ok"
HasIter == iter.idx # NoIter

(* Table::NewIterator *)
NewIterator ==
    /\ Opened
    /\ iter' = TableIter(NewIter(index_block))
    /\ UNCHANGED <<interval, builderVars>>

IterSeek(target) ==
    /\ HasIter
    /\ \E stray \in BOOLEAN :
        LET SeekTarget(b, it) == Seek(b, it, target, stray)
        IN  iter' = Forward(OnData(InitDataBlock(
                        [iter EXCEPT !.idx = SeekTarget(index_block, @)]), SeekTarget))
    /\ UNCHANGED <<interval, builderVars>>

IterSeekToFirst ==
    /\ HasIter
    /\ iter' = Forward(OnData(InitDataBlock(
                    [iter EXCEPT !.idx = SeekToFirst(index_block, @)]), SeekToFirst))
    /\ UNCHANGED <<interval, builderVars>>

IterSeekToLast ==
    /\ HasIter
    /\ iter' = Backward(OnData(InitDataBlock(
                    [iter EXCEPT !.idx = SeekToLast(index_block, @)]), SeekToLast))
    /\ UNCHANGED <<interval, builderVars>>

IterNext ==
    /\ HasIter /\ DataValid(iter)
    /\ iter' = Forward(OnData(iter, ParseNextKey))
    /\ UNCHANGED <<interval, builderVars>>

IterPrev ==
    /\ HasIter /\ DataValid(iter)
    /\ iter' = Backward(OnData(iter, Prev))
    /\ UNCHANGED <<interval, builderVars>>

-----------------------------------------------------------------------------
(***************************************************************************)
(* Table::InternalGet                                                      *)
(***************************************************************************)

NotFound == <<>>

(* The position of index_iter after Seek, in a new iterator. *)
IndexSeek(target, stray) == Seek(index_block, NewIter(index_block), target, stray)

(* The block's iterator runs through the block once before it seeks. *)
RunThrough(b) == ParseUntil(b, SeekToRestartPoint(b, NewIter(b), 0), LAMBDA i : FALSE)

(* The key that is handed to SaveValue, if it is for the user key. *)
InternalGet(target, stray) ==
    LET i == IndexSeek(target, stray)
        b == blocks[index_block.entries[i.cur].value]
        d == Seek(b, RunThrough(b), target, stray)
    IN  IF /\ Valid(index_block, i) /\ Valid(b, d)
           /\ ExtractUserKey(d.key) = ExtractUserKey(target)
        THEN d.key ELSE NotFound

-----------------------------------------------------------------------------
Init ==
    /\ interval \in Intervals
    /\ added = <<>> /\ data_block = NewBlock /\ index_block = NewBlock /\ blocks = <<>>
    /\ last_key = <<>> /\ pending = FALSE /\ closed = FALSE /\ status = "ok"
    /\ iter = TableIter(NoIter)

BuilderStep == (\E key \in Keys : Add(key)) \/ Finish \/ FinishFails

IterStep ==
    \/ NewIterator \/ IterSeekToFirst \/ IterSeekToLast \/ IterNext \/ IterPrev
    \/ \E target \in Targets : IterSeek(target)

Next == BuilderStep \/ IterStep

Spec == Init /\ [][Next]_vars

-----------------------------------------------------------------------------
(***************************************************************************)
(* Properties                                                              *)
(***************************************************************************)

(* The position in the file of what the iterator is at, or 0. *)
Before(i) == Len(FlattenSeq([j \in 1..(i - 1) |-> blocks[j].entries]))
Position(t) == IF DataValid(t) THEN Before(t.handle) + t.data.cur ELSE 0

(* The position of the first key that is not before target, or 0. *)
FirstAtLeast(target) ==
    LET after == {p \in 1..Len(added) : ~InternalLess(added[p], target)}
    IN  IF after = {} THEN 0 ELSE Min(after)

BlockOf(p) == CHOOSE i \in 1..Len(blocks) : p \in (Before(i) + 1)..(Before(i) + Size(blocks[i]))

(* The index leads to the block of every key in the file. *)
IndexSound ==
    \A p \in 1..Len(added), stray \in BOOLEAN :
        IndexSeek(added[p], stray).cur = BlockOf(p)

(* InternalGet finds the newest version of the user key that the sequence  *)
(* number in target lets it see.                                           *)
GetFinds(target) ==
    LET p == FirstAtLeast(target)
        found == IF p # 0 /\ ExtractUserKey(added[p]) = ExtractUserKey(target)
                 THEN added[p] ELSE NotFound
    IN  \A stray \in BOOLEAN : InternalGet(target, stray) = found

(* Restart points, prefix compression and the two binary searches lose     *)
(* nothing: with a sound index every lookup gives what a search through    *)
(* all entries would.                                                      *)
GetExact == (Opened /\ IndexSound) => \A t \in Targets : GetFinds(t)

(* What comments say of the index keys: they stay valid separators, so     *)
(* that every lookup finds what was added.                                 *)
SeparatorsValid == Opened => \A t \in Targets : GetFinds(t)
=============================================================================
