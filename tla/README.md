# DeltaDB in TLA+

DeltaDB is an embedded key-value store on a log-structured merge tree, written
in C++ (`src/src/`).  This directory holds TLA+ models of its parts, the TLC
configurations that check them on small instances and TLAPS proofs of the
results that should hold for every instance.  `PROJECT.json` lists the
components, the runs, the map from definitions to source lines, the findings,
the hazards and the theorems.

Run a model with `tlc -workers 2 -config <cfg> <module>` and a proof with
`tlapm <module>.tla`.

## 1. Inventory

The code is a single process.  Client threads call `DB` methods; one thread of
a pool runs `BackgroundCall`.  `DBImpl::mtx_` protects the state of `DBImpl`
and of `VersionSet`, and is released around all I/O.

| Component | State | Operations | Interactions | What makes it correct |
|---|---|---|---|---|
| Write path (`db_impl.cc` 1100-1300) | queue `writers_info_`, `mem_`, `imm_`, WAL, `LastSequence` | `Put`, `Delete`, `Write`, `BuildBatchGroup`, `MakeRoomForWrite` | waits for the background thread, wakes the next writer | batches are atomic, acknowledged ones are kept, every call returns |
| Flush, background thread (445-760, 940-960) | `background_compaction_scheduled_`, `bg_error_`, `has_imm_`, `shutting_down_` | `MaybeScheduleCompaction`, `BackgroundCall`, `CompactMemTable`, `RemoveObsoleteFiles`, `~DBImpl` | thread pool, condition variable, `LogAndApply` | `imm_` is flushed, no live file is deleted, nothing runs after the destructor |
| Reads (1040-1100) | references to memtables and a version | `Get`, snapshots | read without the mutex | a read sees the writes acknowledged when it began, and no others |
| WAL (`wal/`) | `block_offset_`, buffer, reader state | `AddRecord`, `Sync`, `ReadRecord` | WAL and MANIFEST files | what was written is read back, nothing else is |
| Recovery (`Open`, `Recover`, `RecoverWalFile`, `filename.cc`) | CURRENT, MANIFEST, WAL, SST and temporary files; what of them is durable | replay, reuse of logs, `SetCurrentFile`, file numbers, removal of files | `VersionSet`, WAL reader | a restart finds the state before the crash, wherever it fell |
| VersionSet (`version_set.cc`) | versions, levels, MANIFEST writer | `LogAndApply`, `Builder`, `PickCompaction`, `AddInputDeletions` | compaction, recovery, reads | sorted, disjoint levels; versions live while referenced |
| Compaction (`DoCompactionWork`) | inputs, outputs, `smallest_snapshot` | merge, drop, install | snapshots, nested flush | a compaction changes no read |
| Manual compaction | `manual_compaction_` | `CompactRange`, `TEST_CompactRange` | shared with the background thread | the range is compacted; no dangling pointer |
| SST files (`sst_builder.cc`, `table.cc`, `block*.cc`) | blocks, index, filter | build, seek, iterate | comparators | a lookup finds what a linear search finds |
| LRU cache (`cache.cc`) | shards: table, `lru_`, `in_use_`, references, usage | `Insert`, `Lookup`, `Release`, `Erase`, `Prune` | blocks and tables | no entry is freed while used, or leaked |
| SST cache (`sst_cache.cc`) | an LRU cache of open tables | `FindTable`, `Get`, `NewIterator`, `Evict` | reads, compactions, deletion of files | a table in use stays open, that of a deleted file does not |
| Iterators (`db_iter.cc`, `iter_merger.cc`, `two_level_iterator.cc`) | position of every child, direction, saved key and value | `Seek`, `SeekToFirst`, `SeekToLast`, `Next`, `Prev` | versions, memtables that grow meanwhile | the sorted view at a snapshot, in both directions |
| MemTable, SkipList, Arena | towers of atomic pointers | `Add`, `Get`, iterator | one writer, many readers without a lock | a reader finds every entry that was there when it began, in order |
| Logger, config, utilities | buffers, a queue of tasks | append, parse, write in the background | a flushing and a writing thread, joined at exit | diagnostics only |

What is hard in this code: the mutex is released in the middle of `Write`,
`CompactMemTable`, `DoCompactionWork`, `LogAndApply` and `RemoveObsoleteFiles`,
and other threads run there; writes are committed by another thread than the
one that made them; every I/O operation can fail with later ones going on; a
crash can fall between any two of them.  `PROJECT.json` lists these hazards one
by one, at the line where each bites.

## 2. Modules

| Module | Models | Composition |
|---|---|---|
| `WritePath` | write queue, group commit, `MakeRoomForWrite`, background thread, flush, level-0 count, `~DBImpl`, `Get` | implements `AtomicStore` |
| `AtomicStore` | abstract: what `Write` and `Get` promise | |
| `MCWritePath` | its instances | extends `WritePath` |
| `WritePathProofs` | proofs: types, level 0, shutdown; who holds the mutex and leads the queue, reads, durability, the refinement of `AtomicStore` | extends `WritePath` |
| `Wal` | writer, reader, crash, reuse of a log | |
| `WalProofs` | proofs: what a recovery returns and reports | extends `Wal` |
| `LSM`, `MCLSM` | levels, flushes, compactions, snapshots, reads through the levels, references to versions, `CompactRange` | |
| `LSMProofs` | proofs: manual compactions, references, files | extends `LSM` |
| `Recovery`, `MCRecovery` | `DB::Open` and everything that changes files, over a file system that loses what was not synced | stands on what `Wal`, `WritePath` and `LSM` show |
| `RecoveryProofs` | proofs: file numbers | extends `Recovery` |
| `CrashProofs` | proofs: whatever a crash or a power failure left, `Open` finds a database | extends `RecoveryProofs` |
| `SequenceNumberProofs` | proofs: sequence numbers are not given twice | extends `CrashProofs` |
| `SkipList` | insertion and searches, pointer by pointer | |
| `Iterators`, `MCIterators` | `DBIter`, `MergeIterator`, the children, `MemTable` | extends `SkipList`; `MCIterators` adds a cursor over the keys of the snapshot |
| `LRUCache` | one shard of the cache | |
| `SSTCache`, `MCSSTCache` | threads using the cache of open tables | extends `LRUCache` |
| `CacheProofs` | proofs: one shard of the cache; tables in use, tables of deleted files | extends `SSTCache` |
| `InternalKeys` | byte-wise and internal comparators, separators, successors | |
| `OrderProofs` | proofs about order: the skip list and the memtable's searches, while entries are inserted; separators and successors | extends `Iterators`, `InternalKeys` |
| `SST`, `MCSST` | builder, blocks, two-level iterator, lookup | extends `InternalKeys`; `MCSST` adds a cursor over the list of keys |

### WritePath

*State.*  A member of `DBImpl` or `VersionSet` is a variable of its name
(`writers_info_` is `writers_info`, `versions_->LastSequence()` is
`last_sequence`, and so on; comments at the declarations give the others).
`pc` says where each call of `Write` is.  An entry is the sequence number it
gets, a batch the number of its entries, `NullBatch` a null `WriteBatch*`, a
memtable the number of the WAL file created with it.  Files are the sets of
entries a reader would find in them: `wal_recs`, `wal_synced` (durable),
`manifest_sst`.

*Actions.*  `mtx` is a variable.  A critical section that ends where it began
is one step that needs `mtx = Free`; one that ends in a wait, an unlock or a
call that unlocks is a step of its own.  The branches of `MakeRoomForWrite` are
`RoomError`, `RoomDelay`, `RoomOK`, `RoomWait`, `RoomSwitch`, with the guards
in the order of the code.  `RoomOK` includes `BuildBatchGroup`; `AddRecord`,
`SyncWal`, `InsertInto` (an entry at a time) run without the mutex;
`FinishWrite` is the last critical section.  The background thread takes a task
(`BackgroundCall`), flushes (`FlushBuilt`, `FlushLogged`, `FlushApply`,
`FlushFail`, `RemoveObsoleteFiles`), or compacts level 0 (`CompactionDone`,
`CompactionApply`), in the middle of which it may flush (`NestedFlush`).
Condition variables wake up on a signal or, if `Spurious`, without one.
`Faults` names the I/O operations that may fail.

*Abstractions.*  Sizes are counted in entries.  A compaction takes some files
off level 0 and changes no entries; which files and levels is the subject of
`LSM`.  A flush puts its file on level 0 or above.  An append that
fails makes the rest of that WAL file unreliable: whether a later record can be
read is a choice.  The one-millisecond delay is a step without the mutex.
`Init` is an empty database, so level 0 begins with no file; what recovery leaves
is `Recovery`'s subject, which has no levels.  `InsertInto` does not fail (it
does on a malformed batch only), and reference counts of memtables are left out:
a memtable is there as long as a `Get` looks at it.

### Wal

A file is a sequence of bytes; a byte knows its record, fragment and place, so
that the CRC is modelled by its purpose: a header checks if and only if its own
data follow.  `EmitPhysicalRecord` is one turn of `AddRecord`'s loop with its
`Flush`; a failing `::write` leaves a prefix.  `Crash` cuts the file anywhere
after the synced part.  `ReadBlock`, `ReadRecord` and `ReadEof` are the steps of
`Reader::ReadRecord` in `RecoverWalFile`'s loop.  A header made of bytes that
belong to different records says anything but does not check.
`ReuseLog` goes on at the end of the file, as `reuse_logs` does.
`initial_offset` is 0 in every use and is left out, and so is the test
`record.size() < 12` in `RecoverWalFile` (`db_impl.cc:368`), which reports and
passes over a record that is too short to be a batch: records have sizes here
and no contents, and every batch that `Write` logs has its header of 12 bytes.

### LSM

*State.*  An entry is its sequence number; `log` says which key it wrote and
whether it is a deletion.  A file is its number, its entries and the two keys of
`SSTMetaData`; a version is a function from levels to sets of files, whose order
`Sorted` gives as `Builder` does.  `refs` is a bag of versions.  `compaction`
is the `Compaction` and `CompactionState` under way (inputs, input version,
`smallest_snapshot`, entries still to come, outputs, the `ManualCompaction` it is
for); `manual` are the calls of `CompactRange`, each with its
`ManualCompaction`, and `manual_compaction_` points to one of them.

*Actions.*  Clients write, replace the memtable, take and release snapshots,
create and delete iterators, use up the seeks of a file (`UpdateStats`) and call
`CompactRange`.  The background thread flushes (`CompactMemTable`), moves a file
(`MoveSST`), or starts a compaction (`StartCompaction`, `StartManual`), goes
through it entry by entry (`CompactEntry`) and installs it
(`InstallCompactionResults`) or fails.  A flush may run before every entry of a
compaction, as `DoCompactionWork` looks at `has_imm_` there.

*Abstractions.*  Only the background thread makes versions, so that a flush or
a move is one step; `WritePath` has the unlocks inside.  Keys are numbers and
the range of `CompactRange` has both ends.  Sizes are counted in entries, and
entries have any size: a memtable or an output file may be full after each of
them, which also covers `ShouldStopBefore`.  A file is used up by one seek.
A lookup inside a file is exact (`SST` is about that), and limits that stop
writers, group commit and shutdown are left to `WritePath`.  `goal` in `manual`
is a history variable for `RangeCompacted`.
`background_compaction_scheduled_` is not a variable: whoever makes work for the
background thread calls `MaybeScheduleCompaction`, so that it holds exactly while
there is some (`Scheduled`).  `NullWrite`, by which `CompactRange` asks for a
flush, may be taken along by another writer's group and then switches nothing,
as `BuildBatchGroup` does.

### LRUCache, SSTCache

`LRUCache` has one step per public method of a shard, and one per turn of the
eviction, pruning and destruction loops, which hold the shard's mutex.  The
private functions (`Ref`, `Unref`, `FinishErase`, ...) are functions from shard
to shard, so that a step composes them in the order of the code.  The hash
table is a map from keys to entries.
`SSTCache` extends `LRUCache`: threads look a file up, open it without a lock
when they miss (which may fail), insert it, use it and release it, while files
become obsolete and are evicted, and `Prune` runs at any time.  Its run checks
the shard's invariants as well.

### Recovery

*State.*  `disk.dir` is the list of the states of the directory (its files and
the MANIFEST that CURRENT names) that a power failure may leave, the last being
the one programs see; `disk.data` holds the records of each file and
`disk.synced` how many of them are durable.  The process is `versions` (the
`VersionSet`), the memtables, `compaction` and `op`, the call that is at work on
the files and how far it is.  `acked` and `durable` are the entries whose `Write`
has returned, and returned with sync.

*Actions.*  One per operation on a file: `Open`, `Recover` (reading CURRENT and
the MANIFEST), `ReplayFull`, `ReplayReuse` and `ReplayEnd` (the WAL files),
`CreateManifest`, `WriteSnapshot`, `WriteEdit`, `SyncManifest`, `WriteTemp`,
`RenameTemp` (`LogAndApply`, `NewDB` and `SetCurrentFile`), `FinishBuild`,
`RemoveOne`.  Each has its failure as a disjunct where the code handles one.
Once open, the database writes, switches, flushes and compacts in the same
steps.  `Die` loses the process, `PowerFails` also what was not synced.

*The file system.*  Directory changes become durable in order, and syncing a file
makes those before it durable, as on a journalling file system.  A power failure
keeps any synced prefix of the changes and cuts every file anywhere behind its
synced part; a MANIFEST may end in a torn record, a WAL file ends between records
(what a torn WAL record does is `Wal`'s subject).  `WritableFile`'s constructor
takes the directory from a name it has moved away (`StoredDirname`), so that
`Sync` of a MANIFEST syncs `.`: under this assumption that costs nothing, on a
file system that reorders directory changes CURRENT may name a MANIFEST that is
lost.

*Abstractions.*  Levels are left out, a batch has one entry, `prev_log_number_`
is 0 in all uses (so that no second WAL file is kept; section 3 says what a
comment claims).  An edit carries the fields that were set (`EncodeTo`) and is
decoded field by field (`DecodeFrom`).

### SkipList, Iterators

A node of the list is its key, a number.  `InsertSet` and `InsertLink` are the
two stores of a turn of `Insert`'s loop; a pointer that is not initialised is
`Wild`.  A search is a record (`find`, the node, the level) that takes a step
for every pointer it loads.  `heights` holds the values a relaxed load of
`max_height_` may return: those stored since the reader last held the mutex.
Loads and stores of the pointers themselves are acquire and release, on which a
search by one thread looks sequentially consistent.

`Iterators` has the memtable as a child whose searches interleave with
insertions, and the others (an immutable memtable, a file, the files of a level)
as sequences of parts with a position; the blocks inside a file are `SST`'s
subject, and an index is taken to be sound.  `merge` and `db` are the two
iterators with the call each is in: a public method of `DBIter` starts
(`Seek`, `SeekToFirst`, `SeekToLast`, `Next_`, `Prev`), the `MergeIterator` moves
its children (`MergeBegin`, `Walk`, `WalkEnd`, `MergeBack`, `MergeFinish`), and
the loops of `DBIter` look at the answer (`FindNextUserEntry`, `LeaveKey`,
`FindPrevUserEntry`).  A value is the sequence number that wrote it.
`NewMergeIterator` returns a single child as it is; a merge of one child behaves
alike.

### InternalKeys, SST

A key is a sequence of bytes.  A data block is what `BlockBuilder` leaves
(entries with the number of shared bytes and the rest of the key, restart
points); offsets are numbers of entries, a block handle is the number of the
block.  `Add` may find the block full after any entry, as sizes of values are
left out.  `Block::Iter` and `TwoLevelIterator` are records, and their methods
functions on them; the actions are the public methods of the iterator of a
table.  `InternalGet` runs through the block once before it seeks, as the code
does.  Index keys can be shorter than a tag: `ExtractUserKey` then wraps around
and the comparison reads behind the key, so that its result is a choice
(`stray`) unless the bytes of the key decide.  `gDBConfig->internal_comparator`
is used for reading and `gDBConfig->comparator`, the byte-wise one, for the
index keys.

## 3. Runs

Every passing run explores its whole state space.  `CHECK_DEADLOCK FALSE` is
set where a system may stop: all calls have returned, or the bounds are used
up.  That no call is stuck is what `WritesReturn` and `CloseReturns` say.

| Run | Checks | Result |
|---|---|---|
| `write` | `TypeOK`, `SnapshotRead`, `Recoverable`, `SyncDurable`, `NoWorkAfterClose`, `ImplementsAtomicStore` | hold with every I/O operation allowed to fail |
| `write_live` | `L0Bounded`, `WritesReturn`, `ImmFlushed`, `CloseReturns` | hold under `FairSpec`, with writes stopping at one level-0 file |
| `torn_wal` | `WalGuaranteesPersistence` | violated |
| `wal_recovery` | `NoPhantomRecords`, `NoFalseAlarm`, `ReadBack`, `RecoveryEnds` | hold |
| `lsm_reads` | `LevelsDisjoint`, `ReadExact`, `NewerAbove` | hold (no `CompactRange`) |
| `lsm_ranges` | `FilesPresent`, `RefsExact`, `RangeCompacted`, `ManualAlive` | hold |
| `lsm_gap` | `LevelsDisjoint` | violated |
| `recovery` | `OpenSucceeds`, `CrashSafe`, `SyncedSurvive`, `RestartExact`, `SequenceFresh`, `NumbersFresh`, `NoGarbage` | hold |
| `iterators` | `LevelsSound`, `CursorExact`, `MemGetExact` | hold |
| `sst_cache` | of the shard `RefCounts`, `ListsAgree`, `LookupExact`, `UsageExact`, `NoLeak`; of the tables `TableUsable`, `NoStaleTable` | hold |
| `sst_file` | `IterExact`, `GetExact` | hold |
| `index_separators` | `SeparatorsValid` | violated |

The violated ones are disagreements between the code and what its comments or
`README.md` say:

* `torn_wal`: a failed `AddRecord` is not a background error; later writes go
  to the same file behind the torn record, are synced and acknowledged, and may
  not be readable.  `Recoverable` and `SyncDurable` therefore speak of intact
  files only.
* `lsm_gap`: `CompactMemTable`, called from `DoCompactionWork`, chooses its level
  by the files of the current version and does not know of the compaction that
  called it.  With files at keys 1 and 3 on levels 0 and 1 and a
  `CompactRange` over both, a memtable with key 2 goes to level 1 between the
  inputs, and the output may be one file from 1 to 3.  Level 1 then has
  overlapping files; the assertion that says so is compiled out in a Release
  build, and `Get` takes the file that `FindSST` finds, which has no key 2.  The
  run starts from the files such a history leaves (`FlushedInit`), to be short.
  The inputs of an automatic compaction grow from one file by overlap and leave
  no gap between them; a manual one takes every file of its range.
  `lsm_ranges`, which calls `CompactRange`, therefore uses two keys without one
  between them, so that what else it promises is checked to the end.
* `index_separators`: the builder's shortened index keys carry no tag, and the
  reader takes their last bytes for one.  A lookup then goes to a later block
  and misses a key that is in the file.  `GetExact` and the seeks of `IterExact`
  therefore speak of files whose index is sound, which the runs reach with
  several blocks as well; they do not catch this disagreement, `SeparatorsValid`
does.

Two more disagreements are stated here and not by runs of their own:

* *Only one WAL file is kept.*  `src/src/wal/include/wal_format.h:47` says
  "双文件保护：始终保留当前和上一个 WAL 文件，提供额外安全层": the current and the
  previous WAL file are always kept, as another layer of safety.  The code does
  not do so.  `RemoveObsoleteFiles` has a test for the previous one
  (`number == versions_->PrevWalNumber()`, `db_impl.cc:212`), but the number is 0
  from the start (`version_set.cc:693`), every edit that sets it sets it to 0
  (`db_impl.cc:490` and `1423`, `version_set.cc:734`), `MakeRoomForWrite` asserts
  that it is (`db_impl.cc:1266`), and no WAL file has number 0.  So the previous
  WAL file is removed as soon as its memtable is flushed, as line 57 of the same
  comment has it ("删除旧 WAL", the old WAL is deleted).  `NoGarbage` in the run
  `recovery` holds *because* the code contradicts line 47: it says that an idle
  database has no WAL file below `LogNumber`, which in every state after a flush
  is the negation of what the comment promises.  `CrashSafe` and `SyncedSurvive`
  hold with the one file; the missing layer could only matter for what they
  except by name (a reused MANIFEST that loses its end, a record behind a torn
  one) or do not consider (an SST file that became unreadable).
* *Assertions of a Debug build.*  `SSTBuilder::Add` (`sst_builder.cc:158`) and
  `BlockBuilder::Add` (`block_builder.cc:63`) assert that keys come in the order
  of the byte-wise comparator.  The keys are internal keys, and of two versions
  of a user key the newer comes first although its bytes are usually greater, so
  that a Debug build would stop at most overwritten keys.  A Release build drops
  these assertions, and that build is what `SST` models.

What `recovery` shows has exceptions, all named in the properties.
`Intact`: a record in a MANIFEST behind a torn one makes `VersionSet::Recover`
report a corruption.  Only a compaction that logs its result after the flush
inside it failed to, and `ReuseManifest` after a power failure, write one.
`lax`: with `reuse_logs` a MANIFEST is continued whose last record a dead process
had not synced, and `RemoveObsoleteFiles` trusts it.  `lost`: the power failed
after that.  The record may be gone and the WAL files it made obsolete with it, or
the inputs of the compaction it logged, so that entries are lost or the database
cannot be opened.  Everything else survives.  `NoGarbage` has one more: a
temporary file left by a crash stays when its number, which no MANIFEST knows of,
becomes that of an SST file, because `RemoveObsoleteFiles` keeps a `.dbtmp` file
by the same list of numbers as an SST file.

So `recovery` does not show two of the hazards going wrong: a compaction that
logs its result behind a torn record is what `Intact` excludes, and a reused
MANIFEST that loses its unsynced end is what `lax` and `lost` exclude.  What it
shows of them is that nothing else needs the exceptions, and that up to the
power failure a database with a reused MANIFEST is exact (`RestartExact`).

### Bounds

* Three writers: a leader, a member of its group and a writer that becomes the
  front.  Each call is made once; nothing in the code
  remembers a call that has returned.  Batches are null, empty, or of one size
  (one or two entries); `SmallBatch` and `MaxGroup` are such that some writers
  join a group and others do not.
* A `Get` is followed until it returns or a background error occurs
  (`ReadsBeforeErrors`): neither changes what the writers do.
* `WriteBufferSize` and the level-0 limits are 0 to 2, so that switches,
  delays, stops, flushes and compactions all happen within three calls.  Writes
  stop at one level-0 file in `write_live`, so that the limit is reached, and at
  two in `write`, so that memtables are switched, and flushed, while level 0 is
  being compacted; `write_live` holds with two as well.
* Blocks of 6 bytes with headers of 2, and records of 2, 3 and 9 bytes: a
  record fills a block exactly up to a header (an empty first fragment), leaves
  less than a header (a trailer), and spans blocks (a middle fragment).  Two
  records and two crashes: one on each side of a reuse.
* Recovery: two entries with write buffers of one, so that a switch, a flush and
  a replay in pieces happen; three calls of `Open`, so that a recovery that
  crashed is recovered from; one failing call; a MANIFEST of three records is too
  big to be reused.  `MaxBusy`, `MaxPower`, `MaxSwitch`, `MaxCompact` and the
  constraint `Small` say in which of the three lives what may happen: all of it in
  the first, a crash in each, a power failure after the first and the second, and
  the third `Open` of small databases only.
* Iterators: three user keys, five sequence numbers, of which the last is inserted
  while the iterator is used; or the reader is at an older snapshot and nothing
  is inserted.  `MCLayouts`
  puts two entries in a level (in two files, or two versions of a key), one in
  a level-0 file and one in the memtable, one of the last two a deletion, for
  every choice of keys.  Nodes have one or two levels.  Any number of moves.
* LSM: three levels (a compaction has inputs, outputs and grandparents), three
  writes of one or two keys, memtables of one or two entries.  The level-0 trigger
  is 2, level 1 is full at one or two entries and `GrandParentLimit` is 0, so
  that flushes land on both levels they may, and files are moved, merged,
  expanded and cut between two versions of a key.  Two snapshots: an oldest one
  and another.  One iterator, whose version outlives several others, beside one
  caller of `CompactRange`; two callers without it (`IteratorOrTwoCallers`).
* Two files, three threads and five tables in the SST cache, so that an entry is
  replaced, evicted and pruned while in use.  Every table is charged 1, as
  `SSTCache` does.
* Six internal keys of one and two bytes and two versions of one key, tags of
  two bytes, bytes 0 to 3: keys that are prefixes of each other, neighbours and
  keys with gaps, each file cut into blocks in every way.  Restart interval 1 is
  what `SSTBuilder` sets; 2 makes prefix compression happen.

Symmetry is used only for sets of interchangeable model values and never with
liveness.

### Fairness

`write_live`: weak fairness of each call that has been made, of the background
thread, of the destructor's wait and of each `Get`: the operating system
schedules runnable threads, and a mutex is held for a finite time.  Nobody has
to make a call, I/O may fail, and condition variables owe nobody a spurious
wake-up.  The end of `DoCompactionWork`'s loop is strongly fair: the loop goes
over a finite input, and after a flush inside it failed it tries again at each
entry, which in the model, where the input is not counted, could go on for
ever.  `wal_recovery`: weak fairness of the reader, which is one thread in a
loop.

## 4. Proofs

The theorems hold for all values of the constants that satisfy the assumptions
named in the modules: `ConstantsAssumption` and `ThreadsAssumption` (`WritePath`),
`CallersAssumption` and `LSMAssumption` (`LSM`), `LRUCacheAssumption`,
`SSTCacheAssumption`, `WalAssumption`, `HeightAssumption` (`SkipList`), `EntriesAssumption` and
`LayoutsAssumption` (`Iterators`), `KeysAssumption` (`InternalKeys`),
`RecoveryAssumption`.  They say that bounds are numbers (some of them above 0),
that sets of threads do not contain the values that stand for "none", that a
table is charged 1 and that an iterator's layout is one of a database; TLC
evaluates them in the runs.  So the results are about any number of threads,
keys, files and levels and any bounds, of which the runs show one instance.

### Write path (`WritePathProofs`)

* `TypeCorrect` (`Spec => []TypeOK`).  `TypeOK` is not inductive: a flush
  indexes `mt` by `imm` and writes `job.log` to the log number.  `TypeInv` adds
  `JobInv`: while a flush is under way `imm` is a memtable, so that no switch
  can happen and `job.log` stays the current WAL number, and the inputs of a
  compaction are on level 0.
* `L0AlwaysBounded` (`Spec => []L0Bounded`).  A switch needs `imm = NoMem` and
  `l0 < L0Stop`; a flush moves at most one file from the second summand to the
  first; a compaction only subtracts inputs that are there (`JobInv`).  `Init`
  is an empty database: that recovery may leave more files on level 0, where it
  dumps memtables without looking at the limit, is outside this theorem.
* `NoUseAfterClose` (`Spec => []NoWorkAfterClose`).  `CloseInv` says that
  `scheduled` holds exactly while a task is queued or the thread is busy
  (`Scheduling`), and that once the destructor is past its wait nothing is
  scheduled and nothing can be, because `shutting_down` stays set (`Closing`).
* `ReadsAreSnapshots`, `AcknowledgedRecoverable`, `SyncedWritesDurable`
  (`SnapshotRead`, `Recoverable`, `SyncDurable`).  One inductive invariant,
  `CommitInv`, carries them all: the queue holds each call that is neither
  committed nor returned, and only its front does anything (`QueueInv`); a group
  is the first of the queue, its calls share out the numbers above
  `last_sequence` (`GroupInv`, `SeqsInv`); how far its leader has come
  (`PhaseInv`); memtables and tables hold what is committed and what the group
  has inserted so far, and nothing else (`StoredInv`); a reader's view is what
  was committed at its sequence number, also after a switch and a flush
  (`ReaderInv`); a memtable's entries are in its WAL file, and where those of a
  synced call are (`WalInv`, `SyncInv`); the WAL files from the MANIFEST's log
  number on exist, and a memtable it no longer names is in its tables
  (`ManifestInv`).  The properties are not inductive by themselves: each speaks
  of calls that have returned, and the calls that still run decide what happens
  to them.
* `WritePathImplements` (`ImplementsAtomicStore`).  A call has its effect when
  `FinishWrite` ends its group.  From `TypeInv` and `CommitInv` each action is
  shown to be a step of `AtomicStore` or a stutter: `FinishWrite` commits all
  calls of the group at once, a `Get` that begins fixes its view, and everything
  else changes neither.

### WAL (`WalProofs`)

One inductive invariant, `WalInv`, carries three theorems.

* `NothingPutTogether` (`NoPhantomRecords`), from `PhantomInv`.  Every byte of
  data is chained to the byte before it: a fragment's bytes follow each other, a
  failed write leaves the first bytes of what was to be written, and nothing
  but `AddRecord` writes data (`FileInv`).  So where a header checks, its
  fragment lies there whole.  What the reader has in `scratch` are the first
  fragments of one record, and that record's bytes end at its position, but for
  the trailer of a block (`ScratchInv`); a block's last fragment ends the
  block, too close to its end for another, so that what is skipped as a
  trailer cannot have held a fragment of the same record.  A whole record is
  handed out at the place of its last byte, and the reader never goes back.
* `AcknowledgedReadBack` (`ReadBack`).  A prefix of the file is `Clean` when it
  is what a writer without failures leaves: zeros stand only at the end of
  blocks, fragments lie within their blocks, a fragment that continues a
  record follows the one before it and one that begins a record follows the
  end of another.  As long as nothing has failed, the file is clean and
  `block_offset_` is the place in the block (`SoundInv`), and it stays clean up to
  the end of every record that only acknowledged ones precede (`GoodInv`);
  to cut a file off keeps its clean prefixes.  The reader's window is a block
  or what is left of the file (`WindowInv`), and on a clean prefix it stands
  between two fragments, has begun a record if and only if the file has, and
  has handed out every record that ends before its position (`ProgressInv`).
  Without the last part the property is not inductive: it only speaks of the
  reader's end.
* `CrashNotReported` (`NoFalseAlarm`).  Until the first crash the file is clean
  before the first failed record (`CrashInv`), so what the crash leaves is clean
  unless something failed; on a clean file no header fails its check, and a
  fragment cut short lies in the last block, which `eof` forgives.

### LSM (`LSMProofs`)

* `ManualNeverDangles` (`Spec => []ManualAlive`).  A caller of
  `TEST_CompactRange` returns only when no background work is scheduled, also
  after an error, and posts its `ManualCompaction` only where none is; so while a
  manual compaction runs, nobody changes `manual_compaction_`.  `ManualInv` adds
  only that the records have the fields that are read.
* `VersionsLiveExactly` and `FilesStayPresent` (`RefsExact`, `FilesPresent`).
  `LSMInv` is `ManualInv`, the levels that manual compactions may name
  (`ManualLevels`) and `StoreInv`: the bag of references counts for every version
  who uses it, `current_`, iterators and the compaction under way (`RefsInv`);
  the files of the current version have numbers of their own and the entries of
  the log (`FileInv`); the outputs of a compaction are pending and none of the
  current version's files (`CompactionInv`).  The recursive functions by which a
  compaction picks and grows its inputs are shown to exist by the least place
  where they would not.

### Cache (`CacheProofs`)

* `ReferencesExact`, `ListsExact`, `TableExact`, `DestructorFreesAll`,
  `CacheTypeCorrect`.  They are one inductive invariant,
  `CacheInv`: types, the lists (no repetitions, disjoint, `lru` the cached
  entries nobody holds), the counts (handles out plus one while cached), freed
  entries are unreferenced, unused ones are untouched, the table is the inverse
  of the cached entries' keys.  The lemmas `RefLists`, `UnrefLists` and
  `EraseLists` state what the private functions do to the lists, and
  `RemovePresent` and `AppendNew` what removal and insertion do to a list
  without repetitions.
* `UsageIsExact` (`UsageExact`).  A sum over a set is a fold along a `CHOOSE`.
  The section on sums shows that the sum exists and that one element more adds
  its value (`SumsExist`, `TotalAdd`), and `UsageInv` follows each private
  function that changes `usage_`.
* `TablesStayUsable` and `NoTableOutlivesFile` (`TableUsable`, `NoStaleTable`).
  `SSTInv` puts `CacheInv` together with what threads hold: a client holds
  exactly the handles it is at work with (`HandlesOwned`), a table belongs to
  file (`OwnTable`), and every cached table is one of a live file (`CachedLive`).

### Recovery (`RecoveryProofs`, `CrashProofs`, `SequenceNumberProofs`)

* `NumbersStayFresh` (`NumbersFresh`).  `NumbersFresh` speaks of an open
  database; what makes it true is what every earlier life left on the disk.
  `RecInv` has six parts.  `DiskInv`: whatever the power cut off, the records of
  every MANIFEST, in every state of the directory, are good: each edit carries a
  next file number that is above the number of the MANIFEST, not below its WAL
  number and above all SST numbers named so far (`GoodRecord`).  `VersionInv`:
  all numbers the VersionSet knows are below `next`.  `OpInv`, `LogInv` and
  `EditInv`: the same of the call under way, of the MANIFEST that is open for
  more, and of the edit on its way to it.  `WalInv`: a WAL file in the directory
  is below `next` or still in the list to be replayed, which is why
  `MarkFileNumberAsUsed` is needed: a WAL file that no edit names yet is the one
  kind of file whose number the MANIFEST may not know.
* `ReadGood` is the lemma that carries it over a restart: from a good MANIFEST,
  or any prefix of one with or without a torn record, `VersionSet::Recover`
  takes numbers with these properties.  Its loop is a fold, and `LoopFiles`
  shows by the smallest set of records that breaks it that every file left was
  named by some record.

* `OpenAlwaysSucceeds` (`OpenSucceeds`), for any number of lives, crashes, power
  failures and failed calls.  `Recover` reports a corruption when CURRENT names no
  MANIFEST, when a MANIFEST has no record with a file number, or names a file
  that is not there.  `CrashInv` is `RecInv` and what every step leaves behind.
  `DirInv`: every state the directory may be left in that has a CURRENT has its
  MANIFEST, with such a record in its synced part; CURRENT only moves on to
  larger numbers; while no reliance was lost, the files named by the MANIFEST
  are there, and, unless `lax`, so they are in every state of the directory and
  for every place where a power failure may cut its MANIFEST.  `KnownInv`: the
  version a process holds in memory is the one the MANIFEST describes, but
  between the append of an edit and its end; `CallInv`, `LogState`, `EditState`,
  `BuildState`, `OutState`: how far the call under way is, that its outputs
  are durable before the edit that names them, and that a file being built has a
  number that no MANIFEST knows.  `RemoveState`: files are only removed when no
  background error has occurred and the MANIFEST is durable to its end, or
  `lax`; this is where reusing a MANIFEST breaks what everything else keeps.
* The lemmas under it are about a MANIFEST as a list of records: a file is left
  if some record names it and none after it deletes it (`FilesLeft`, again by the
  smallest counterexample of a fold), a record more adds and deletes what it says
  (`FilesMore`), and a torn one changes nothing (`FilesTorn`).

* `SequenceStaysFresh` (`SequenceFresh`).  An entry may reach the open database
  through an SST file of the MANIFEST, a WAL file or both, and any of them may be
  newer than the last sequence number the MANIFEST has.  `SeqInv` is about the
  contents of files, as long as no reliance was lost: a last sequence number in a
  MANIFEST is not below an entry of a file that the records up to there name, in
  every state of the directory and for every place where a power failure may
  cut it (`InOrder`, `CurSeq`; `TargetSeq` for the MANIFEST being written);
  `versions.last` is not below an entry of a file of the version, nor of one that
  the current MANIFEST names at all (`VersionSeq`); and an entry in a memtable or
  in a file that recovery has written is not above `versions.last` or
  `max_sequence`, which only differ until `FinishRecover` (`EntrySeq`).
  `EditSeq` is the part that makes it inductive: the last sequence number of an
  edit is the one of the time when the edit was made, writes go on meanwhile,
  and what the record will be appended to must not have a greater entry.
  `OutSeq`: no MANIFEST names the output of a compaction before its edit does,
  so that filling it cannot put an entry under an older number.
* The lemmas under it say of every operation of the file system which files'
  contents it changes (`SameData`, `Fewer`), and that a record more, a torn one or
  a cut keeps the records in order (`InOrderMore`, `InOrderTorn`, `InOrderPrefix`).

### Iterators, comparators (`OrderProofs`)

* `LevelsStaySound`, `GetFindsSnapshot` (`LevelsSound`, `MemGetExact`), theorems
  of `Iterators!Spec`; a step of `MCIterators` is one of its steps with a history
  variable more.  `SkipListInv`: each level is in order and holds only nodes of
  the level below (`Ordered`), every node but the one being inserted is pointed
  to, below a height readers may load (`Reached`), the array `prev` of an
  insertion brackets the new key on the levels still to link (`InsertInv`), and
  the keys are those of the writes so far (`Written`).  `GetInv` adds where a
  `Get` is: on a node of the level it searches, before its key (`OnItsWay`), with
  everything that was in the memtable at first still ahead at level 0 and all
  that is new above its snapshot (`Kept`).
* `SeparatorBetween`, `SuccessorAfter`, `InternalSeparatorBetween`: what the
  comparators' separators promise, for all strings of bytes and every size of a
  byte and a tag.  The last one shows that the internal comparator's separator
  would make the index sound.

### Only model-checked

* Out of the provers' reach: liveness (`WritesReturn`, `ImmFlushed`,
  `CloseReturns`, `RecoveryEnds`), and modules that need `RECURSIVE` operators.
  The library's induction theorems cannot be used, as they take an operator for a
  parameter; where a result needs induction over data it is proved by the least
  counterexample, with a recursive function or a fold shown to exist first.
* `LevelsDisjoint` is not true of every instance (`lsm_gap`), and `ReadExact`,
  `NewerAbove` and `RangeCompacted` rest on it where `CompactRange` is used.
* The rest of `Recovery` (`CrashSafe`, `SyncedSurvive`, `RestartExact`,
  `NoGarbage`): they need, beyond `CrashInv` and `SeqInv`, in which file each
  acknowledged entry is.
* `IterExact` and `GetExact` of SST files, `CursorExact`.

## 5. Plan

Done: the modules above.  Next, in this order:

1. An abstract specification for `LSM`: a map per snapshot that no background
   step changes, and `LSM` as its implementation.  That callers of
   `TEST_CompactRange` return.
2. `HandleTable`: the chains and the growth of the cache's hash table.
3. The asynchronous logger's producers and consumer: `stop_` is set without the
   mutex its waiter holds, and `execute` leaves after one task once it is set.

Proofs planned: `CrashSafe` and `RestartExact` from `CrashInv` and the entries of
the files that MANIFESTs name;
`NewerAbove` for runs without `CompactRange`; `GetExact` of
`SST` from a sound index.

## 6. Not modelled

Byte encodings (varints, batches, footers), CRC and compression arithmetic, the
configuration file, the command line and the asynchronous logger: sequential
conversions or diagnostics on which no state of the database depends.  The Bloom
filter is never created (`filter_policy` is null).  File-system wrappers appear
as the operations their callers use.  `DestroyDB`, and `Open` of a database that
must or must not exist, only remove files or return early; that `Open` ends is
plain, as it has no loop that waits.  A read of a file never fails, nor
does `WriteBatchInternal::InsertInto`.  `RecoverWalFile`'s test for records of
less than 12 bytes and the reference counts of memtables are left out.  Memory order
of atomics is taken as sequentially consistent, but for `max_height_`.
