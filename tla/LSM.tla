-------------------------------- MODULE LSM ---------------------------------
(***************************************************************************)
(* The levels of SST files: flushes, compactions and what reads see through *)
(* them (src/src/db/version_set.cc, and from DBImpl in db_impl.cc           *)
(* WriteToLevel0, CompactMemTable, BackgroundCompaction, DoCompactionWork,  *)
(* RemoveObsoleteFiles, Get, snapshots, TEST_CompactRange).                 *)
(*                                                                          *)
(* An entry is its sequence number; log says what it wrote.  A file is its  *)
(* number and its entries, and a version gives every level its files.  The  *)
(* only writer of versions is the background thread, so that a flush is one *)
(* step here; WritePath takes it apart.  A compaction is a step to choose   *)
(* its inputs, one per entry and one to install it, and memtables may be    *)
(* flushed in between.  Sizes are counted in entries.                       *)
(***************************************************************************)
EXTENDS Integers, FiniteSets, Sequences, SequencesExt, Bags

CONSTANTS
    Ops,                 \* what Put and Delete may write: [key, del]
    MaxWrites,           \* bound on the number of writes
    WriteBufferSize,     \* gDBConfig->write_buffer_size
    NumLevels,           \* gDBConfig->num_levels
    MaxMemCompactLevel,  \* gDBConfig->max_mem_compact_level
    L0Trigger,           \* gDBConfig->l0_compaction_trigger
    MaxBytesForLevel1,   \* MaxBytesForLevel(1), ten times more at each level
    GrandParentLimit,    \* MaxGrandParentOverlapBytes()
    ExpandLimit,         \* ExpandedCompactionByteSizeLimit()
    MaxSSTSize,          \* MaxSSTSizeForLevel()
    MaxSnapshots,        \* bound on the snapshots that exist at once
    Readers,             \* threads that hold an iterator
    Callers,             \* threads that call CompactRange
    Ranges,              \* the ranges it is called for: [lo, hi]
    Faults               \* what may fail: some of "flush", "move", "compaction"

ASSUME LSMAssumption ==
    /\ MaxWrites \in Nat /\ MaxSnapshots \in Nat
    /\ NumLevels \in Nat /\ NumLevels > MaxMemCompactLevel /\ MaxMemCompactLevel \in Nat
    /\ \A n \in {WriteBufferSize, L0Trigger, MaxBytesForLevel1, ExpandLimit, MaxSSTSize} : n \in Nat \ {0}
    /\ GrandParentLimit \in Nat /\ NumLevels > 1
    /\ \A op \in Ops : op.key \in Nat \ {0} /\ op.del \in BOOLEAN

VARIABLES
    log,              \* the writes so far; LastSequence is their number
    mem, imm,         \* the entries in mem_ and imm_; {} if imm_ is null
    current,          \* versions_->current(): level -> set of files
    refs,             \* the references to versions, a bag
    next_file,        \* next_file_number_
    disk,             \* the numbers of the SST files that exist
    pending,          \* pending_outputs_
    compact_pointer,  \* level -> internal key, or NoKey
    seek,             \* sst_to_compact_ and sst_to_compact_level_ of current
    snapshots,        \* snapshots_: sequence numbers, the oldest first
    readers,          \* the version each reader holds
    compaction,       \* the compaction under way
    manual,           \* the calls of CompactRange, each with its ManualCompaction
    manual_compaction_,  \* the caller whose ManualCompaction it points to
    bg_error          \* bg_error_ is set

fileVars == <<current, refs, next_file, disk, pending, compact_pointer, seek>>
manualVars == <<manual, manual_compaction_>>
vars == <<log, mem, imm, fileVars, snapshots, readers, compaction, manualVars, bg_error>>

Levels == 0..(NumLevels - 1)
LastSequence == Len(log)

-----------------------------------------------------------------------------
(***************************************************************************)
(* Keys and files                                                          *)
(***************************************************************************)

(* InternalKeyComparator: user keys up, sequence numbers down. *)
KeyLess(a, b) == a[1] < b[1] \/ (a[1] = b[1] /\ a[2] > b[2])

InternalKey(e) == <<log[e].key, e>>
NoKey == <<0, 0>>

(* kMaxSequenceNumber *)
MaxSequence == MaxWrites + 1

(* The entry of ents that is first, or last, in a file. *)
FirstEntry(ents) ==
    CHOOSE e \in ents : \A x \in ents : x = e \/ KeyLess(InternalKey(e), InternalKey(x))
LastEntry(ents) ==
    CHOOSE e \in ents : \A x \in ents : x = e \/ KeyLess(InternalKey(x), InternalKey(e))

(* SSTMetaData, and what is in the file. *)
SST(num, ents) ==
    [num |-> num, ents |-> ents, smallest_key |-> InternalKey(FirstEntry(ents)),
     largest_key |-> InternalKey(LastEntry(ents))]

Lo(f) == f.smallest_key[1]
Hi(f) == f.largest_key[1]

(* TotalSSTSize *)
TotalSize(files) == Cardinality(UNION {f.ents : f \in files})

(* Builder::OrderBySmallestKey *)
OrderBySmallestKey(f, g) ==
    \/ KeyLess(f.smallest_key, g.smallest_key)
    \/ f.smallest_key = g.smallest_key /\ f.num < g.num

(* ssts_[level] as Builder::SaveTo leaves it. *)
Sorted(files) ==
    [i \in 1..Cardinality(files) |->
        CHOOSE f \in files : Cardinality({g \in files : OrderBySmallestKey(g, f)}) = i - 1]
FirstSST(files) == CHOOSE f \in files : \A g \in files : f = g \/ OrderBySmallestKey(f, g)
LastSST(files) == CHOOSE f \in files : \A g \in files : f = g \/ OrderBySmallestKey(g, f)

(* The number of the first file whose largest key is not before key, by    *)
(* the binary search of FindSST; one more than their number if there is    *)
(* none.                                                                   *)
FindSST(ssts, key) ==
    LET bounds == 1..(Len(ssts) + 1)
        search[l \in bounds, r \in bounds] ==
            LET mid == (l + r) \div 2
            IN  IF l >= r THEN r
                ELSE IF KeyLess(ssts[mid].largest_key, key) THEN search[mid + 1, r]
                     ELSE search[l, mid]
    IN  search[1, Len(ssts) + 1]

(* f and the user keys from lo to hi have a key in common. *)
Overlaps(f, lo, hi) == Lo(f) <= hi /\ lo <= Hi(f)

(* Version::IsOverlapInLevel *)
IsOverlapInLevel(v, level, lo, hi) ==
    IF level = 0 THEN \E f \in v[0] : Overlaps(f, lo, hi)
    ELSE LET ssts == Sorted(v[level])
             i == FindSST(ssts, <<lo, MaxSequence>>)
         IN  i <= Len(ssts) /\ Lo(ssts[i]) <= hi

(* Version::GetOverlapSSTs.  In level 0 the range grows with every file     *)
(* that reaches beyond it.                                                  *)
GetOverlapSSTs(v, level, lo, hi) ==
    LET over(r) == {f \in v[level] : Overlaps(f, r[1], r[2])}
        range[n \in 0..Cardinality(v[level])] ==
            IF n = 0 THEN <<lo, hi>>
            ELSE LET r == range[n - 1]
                 IN  <<Min({r[1]} \cup {Lo(f) : f \in over(r)}),
                       Max({r[2]} \cup {Hi(f) : f \in over(r)})>>
    IN  over(range[IF level = 0 THEN Cardinality(v[0]) ELSE 0])

(* VersionSet::GetRange, as user keys. *)
RangeLo(files) == Min({Lo(f) : f \in files})
RangeHi(files) == Max({Hi(f) : f \in files})

(* The last key of a set of files. *)
FindLargestKey(files) ==
    LET keys == {f.largest_key : f \in files}
    IN  CHOOSE k \in keys : \A x \in keys : x = k \/ KeyLess(x, k)

(* The files that go on with the versions of key's user key. *)
BoundarySSTs(files, key) ==
    {f \in files : KeyLess(key, f.smallest_key) /\ Lo(f) = key[1]}

(* Mutant: a user key may be cut in two. *)
AddBoundaryInputs_Never(files, inputs) == inputs

(* AddBoundaryInputs: no older version of the last key is left behind. *)
AddBoundaryInputs(files, inputs) ==
    LET more(in) == IF in = {} THEN {} ELSE BoundarySSTs(files, FindLargestKey(in))
        add[n \in 0..Cardinality(files)] ==
            IF n = 0 THEN inputs
            ELSE LET in == add[n - 1]
                 IN  IF more(in) = {} THEN in ELSE in \cup {FirstSST(more(in))}
    IN  add[Cardinality(files)]

-----------------------------------------------------------------------------
(***************************************************************************)
(* Reads                                                                   *)
(***************************************************************************)

(* The newest entry for key in ents that a read at seq sees; 0 if none. *)
Newest(ents, key, seq) == Max({0} \cup {e \in ents : log[e].key = key /\ e <= seq})

(* What CallForEachOverlapSST calls Match for: a level and a file.  Below   *)
(* level 0 that is the file FindSST finds, if it begins early enough.       *)
OverlapSSTs(v, key, seq) ==
    LET level(l) == LET ssts == Sorted(v[l])
                        i == FindSST(ssts, <<key, seq>>)
                    IN  {f \in v[l] : i <= Len(ssts) /\ f = ssts[i] /\ Lo(f) <= key}
    IN  {<<0, f>> : f \in {g \in v[0] : Overlaps(g, key, key)}}
            \cup UNION {{<<l, f>> : f \in level(l)} : l \in 1..(NumLevels - 1)}

(* The call that comes first: level by level, and in level 0 NewestFirst. *)
FirstCall(calls) ==
    CHOOSE p \in calls : \A q \in calls :
        p = q \/ p[1] < q[1] \/ (p[1] = q[1] /\ p[2].num > q[2].num)

(* The entry Version::Get stops at. *)
VersionGet(v, key, seq) ==
    LET hits == {p \in OverlapSSTs(v, key, seq) : Newest(p[2].ents, key, seq) # 0}
    IN  IF hits = {} THEN 0 ELSE Newest(FirstCall(hits)[2].ents, key, seq)

(* MemTable::Get, which stops at the newest entry that a read at seq sees. *)
MemTableGet(m, key, seq) == Newest(m, key, seq)

(* DBImpl::Get: the value is the entry that wrote it, 0 if not found. *)
Get(m, im, v, key, seq) ==
    LET inMem == MemTableGet(m, key, seq)
        inImm == MemTableGet(im, key, seq)
        e == CASE inMem # 0 -> inMem
               [] inMem = 0 /\ inImm # 0 -> inImm
               [] OTHER -> VersionGet(v, key, seq)
    IN  IF e # 0 /\ ~log[e].del THEN e ELSE 0

-----------------------------------------------------------------------------
(***************************************************************************)
(* Versions and files                                                      *)
(***************************************************************************)

(* Version::Ref and Unref; a version without references is deleted. *)
One(v) == SetToBag({v})
Ref(r, v) == r (+) One(v)
Unref(r, v) == r (-) One(v)
NoSeek == [level |-> -1]
Numbers(files) == {f.num : f \in files}

(* VersionSet::AddLiveFiles *)
LiveFiles(r) == UNION {Numbers(v[l]) : v \in BagToSet(r), l \in Levels}

(* Mutant: outputs under way are taken for garbage. *)
RemoveObsoleteFiles_LiveOnly(d, r, p) == IF bg_error THEN d ELSE d \cap LiveFiles(r)

(* RemoveObsoleteFiles, with the versions and outputs that are left. *)
RemoveObsoleteFiles(d, r, p) == IF bg_error THEN d ELSE d \cap (LiveFiles(r) \cup p)

(* Mutant: the input version is not released. *)
AppendVersion_Keep(v, released) ==
    /\ current' = v
    /\ refs' = Ref(Unref(refs, current), v)
    /\ seek' = NoSeek

(* VersionSet::AppendVersion, where released are other references that go. *)
AppendVersion(v, released) ==
    /\ current' = v
    /\ refs' = Ref(Unref(refs, current) (-) released, v)
    /\ seek' = NoSeek

(* Finalize: the level that is fullest, as a fraction. *)
Fill(v, level) == IF level = 0 THEN Cardinality(v[0]) ELSE TotalSize(v[level])
MaxBytesForLevel[level \in Levels] ==
    IF level <= 1 THEN MaxBytesForLevel1 ELSE 10 * MaxBytesForLevel[level - 1]
Full(level) == IF level = 0 THEN L0Trigger ELSE MaxBytesForLevel[level]
Score(v, level, other) == Fill(v, level) * Full(other)
CompactionLevel(v) ==
    CHOOSE l \in 0..(NumLevels - 2) :
        \A o \in 0..(NumLevels - 2) :
            IF o < l THEN Score(v, l, o) > Score(v, o, l) ELSE Score(v, l, o) >= Score(v, o, l)
SizeCompaction == Fill(current, CompactionLevel(current)) >= Full(CompactionLevel(current))

-----------------------------------------------------------------------------
(***************************************************************************)
(* Clients                                                                 *)
(***************************************************************************)

NoManual == [level |-> -2]
NoCaller == "null"
ASSUME CallersAssumption == NoCaller \notin Callers

MemHasRoom == Cardinality(mem) < WriteBufferSize

(* A write that MakeRoomForWrite lets pass. *)
Write(op) ==
    /\ Len(log) < MaxWrites /\ MemHasRoom /\ ~bg_error
    /\ log' = Append(log, op)
    /\ mem' = mem \cup {Len(log) + 1}
    /\ UNCHANGED <<imm, fileVars, snapshots, readers, compaction, manualVars, bg_error>>

(* MakeRoomForWrite replaces a memtable that is full or that CompactRange    *)
(* has flushed.  Entries have any size, and so it may be full after any      *)
(* entry.                                                                    *)
SwitchMemTable ==
    /\ imm = {} /\ mem # {} /\ ~bg_error
    /\ imm' = mem /\ mem' = {}
    /\ UNCHANGED <<log, fileVars, snapshots, readers, compaction, manualVars, bg_error>>

GetSnapshot ==
    /\ Len(snapshots) < MaxSnapshots
    /\ snapshots' = Append(snapshots, LastSequence)
    /\ UNCHANGED <<log, mem, imm, fileVars, readers, compaction, manualVars, bg_error>>

ReleaseSnapshot(i) ==
    /\ snapshots' = RemoveAt(snapshots, i)
    /\ UNCHANGED <<log, mem, imm, fileVars, readers, compaction, manualVars, bg_error>>

NoReader == <<>>

(* NewInternalIterator takes a reference to the version, as DBImpl::Get does *)
(* while it searches; WritePath has the references to memtables.            *)
NewIterator(r) ==
    /\ readers[r] = NoReader
    /\ readers' = [readers EXCEPT ![r] = current]
    /\ refs' = Ref(refs, current)
    /\ UNCHANGED <<log, mem, imm, current, next_file, disk, pending, compact_pointer, seek,
                   snapshots, compaction, manualVars, bg_error>>

(* CleanupIteratorState *)
DeleteIterator(r) ==
    /\ readers[r] # NoReader
    /\ refs' = Unref(refs, readers[r])
    /\ readers' = [readers EXCEPT ![r] = NoReader]
    /\ UNCHANGED <<log, mem, imm, current, next_file, disk, pending, compact_pointer, seek,
                   snapshots, compaction, manualVars, bg_error>>

(* UpdateStats: a read at a key that looked into two files has used up the *)
(* seeks allowed to the first.                                             *)
UpdateStats(key, seq) ==
    LET calls == OverlapSSTs(current, key, seq)
        first == FirstCall(calls)
    IN  /\ seek = NoSeek /\ \E p, q \in calls : p # q
        /\ seek' = [file |-> first[2], level |-> first[1]]
        /\ UNCHANGED <<log, mem, imm, current, refs, next_file, disk, pending,
                       compact_pointer, snapshots, readers, compaction, manualVars, bg_error>>

-----------------------------------------------------------------------------
(***************************************************************************)
(* Flushing a memtable                                                     *)
(***************************************************************************)

(* Mutant: only the grandparents count. *)
MayGoBelow_Grandparents(v, level, lo, hi) ==
    level + 2 < NumLevels =>
        TotalSize(GetOverlapSSTs(v, level + 2, lo, hi)) <= GrandParentLimit

(* A file with keys from lo to hi may go below level. *)
MayGoBelow(v, level, lo, hi) ==
    /\ ~IsOverlapInLevel(v, level + 1, lo, hi)
    /\ level + 2 < NumLevels =>
            TotalSize(GetOverlapSSTs(v, level + 2, lo, hi)) <= GrandParentLimit

PickLevelForMemTableCompactionOutput(v, lo, hi) ==
    IF IsOverlapInLevel(v, 0, lo, hi) THEN 0
    ELSE Max({l \in 0..MaxMemCompactLevel : \A k \in 0..(l - 1) : MayGoBelow(v, k, lo, hi)})

NoCompaction == [level |-> -1]

(* BackgroundCall flushes imm_ before anything else; DoCompactionWork looks *)
(* at imm_ before every entry, also after an error.                         *)
FlushDue ==
    /\ imm # {}
    /\ IF compaction = NoCompaction THEN ~bg_error ELSE compaction.todo # {}

CompactMemTable ==
    LET f == SST(next_file, imm)
        level == PickLevelForMemTableCompactionOutput(current, Lo(f), Hi(f))
    IN  /\ FlushDue
        /\ AppendVersion([current EXCEPT ![level] = @ \cup {f}], EmptyBag)
        /\ imm' = {}
        /\ next_file' = next_file + 1
        /\ disk' = RemoveObsoleteFiles(disk \cup {next_file}, refs', pending)
        /\ UNCHANGED <<log, mem, pending, compact_pointer, snapshots, readers, compaction,
                       manualVars, bg_error>>

(* BuildSST fails and removes its file, or LogAndApply fails and leaves it. *)
(* A compaction that goes on may fail to flush again; that only leaves      *)
(* another file behind, and is left out.                                    *)
CompactMemTableFails ==
    /\ "flush" \in Faults /\ FlushDue /\ ~bg_error
    /\ bg_error' = TRUE
    /\ next_file' = next_file + 1
    /\ disk' \in {disk, disk \cup {next_file}}
    /\ UNCHANGED <<log, mem, imm, current, refs, pending, compact_pointer, seek, snapshots,
                   readers, compaction, manualVars>>

-----------------------------------------------------------------------------
(***************************************************************************)
(* Choosing a compaction                                                   *)
(***************************************************************************)

(* SetupOtherInputs, given the files picked from level. *)
SetupOtherInputs(v, level, picked) ==
    LET below(files) == GetOverlapSSTs(v, level + 1, RangeLo(files), RangeHi(files))
        in0 == AddBoundaryInputs(v[level], picked)
        in1 == AddBoundaryInputs(v[level + 1], below(in0))
        all == in0 \cup in1
        expanded0 == AddBoundaryInputs(v[level],
                        GetOverlapSSTs(v, level, RangeLo(all), RangeHi(all)))
        expanded1 == AddBoundaryInputs(v[level + 1], below(expanded0))
        expand == /\ in1 # {} /\ Cardinality(expanded0) > Cardinality(in0)
                  /\ TotalSize(in1) + TotalSize(expanded0) < ExpandLimit
                  /\ Cardinality(expanded1) = Cardinality(in1)
    IN  [level |-> level, version |-> v,
         in0 |-> IF expand THEN expanded0 ELSE in0,
         in1 |-> IF expand THEN expanded1 ELSE in1]

(* The level+2 files that a compaction's keys reach over. *)
Grandparents(c) ==
    LET all == c.in0 \cup c.in1
    IN  IF c.level + 2 < NumLevels
        THEN GetOverlapSSTs(c.version, c.level + 2, RangeLo(all), RangeHi(all)) ELSE {}

(* The first file after compact_pointer_, or the first of all. *)
NextSST(level) ==
    LET after == {f \in current[level] : \/ compact_pointer[level] = NoKey
                                         \/ KeyLess(compact_pointer[level], f.largest_key)}
    IN  FirstSST(IF after = {} THEN current[level] ELSE after)

IsNeedCompaction == SizeCompaction \/ seek # NoSeek

PickCompaction ==
    LET level == IF SizeCompaction THEN CompactionLevel(current) ELSE seek.level
        f == IF SizeCompaction THEN NextSST(level) ELSE seek.file
    IN  SetupOtherInputs(current, level,
            IF level = 0 THEN GetOverlapSSTs(current, 0, Lo(f), Hi(f)) ELSE {f})

IsJustMove(c) ==
    Cardinality(c.in0) = 1 /\ c.in1 = {} /\ TotalSize(Grandparents(c)) <= GrandParentLimit

(* What VersionSet::CompactRange takes from level; above level 0 no more    *)
(* than it needs to fill a file.                                            *)
RangeInputs(level, lo, hi) ==
    LET over == GetOverlapSSTs(current, level, lo, hi)
    IN  {f \in over :
            level > 0 => TotalSize({g \in over : OrderBySmallestKey(g, f)}) < MaxSSTSize}

(* The background thread is free for a compaction. *)
Idle == compaction = NoCompaction /\ imm = {} /\ ~bg_error

SetCompactPointer(c) ==
    compact_pointer' = [compact_pointer EXCEPT ![c.level] = FindLargestKey(c.in0)]

MoveSST ==
    LET c == PickCompaction
    IN  /\ Idle /\ manual_compaction_ = NoCaller /\ IsNeedCompaction /\ IsJustMove(c)
        /\ SetCompactPointer(c)
        /\ \/ /\ AppendVersion([current EXCEPT ![c.level] = @ \ c.in0,
                                               ![c.level + 1] = @ \cup c.in0], EmptyBag)
              /\ UNCHANGED bg_error
           \/ /\ "move" \in Faults /\ bg_error' = TRUE
              /\ UNCHANGED <<current, refs, seek>>
        /\ UNCHANGED <<log, mem, imm, next_file, disk, pending, snapshots, readers,
                       compaction, manualVars>>

(* Mutant: the newest snapshot instead of the oldest. *)
SmallestSnapshot_Newest == IF snapshots = <<>> THEN LastSequence ELSE snapshots[Len(snapshots)]

(* What DoCompactionWork reads before it releases the mutex. *)
SmallestSnapshot == IF snapshots = <<>> THEN LastSequence ELSE snapshots[1]

StartCompactionOf(c, m) ==
    /\ SetCompactPointer(c)
    /\ refs' = Ref(refs, c.version)
    /\ compaction' = [level |-> c.level, version |-> c.version, in0 |-> c.in0, in1 |-> c.in1,
                      m |-> m, smallest_snapshot |-> SmallestSnapshot,
                      todo |-> UNION {f.ents : f \in c.in0 \cup c.in1},
                      open |-> 0, outputs |-> {}]
    /\ UNCHANGED <<log, mem, imm, current, next_file, disk, pending, seek, snapshots, readers,
                   manualVars, bg_error>>

StartCompaction ==
    /\ Idle /\ manual_compaction_ = NoCaller /\ IsNeedCompaction /\ ~IsJustMove(PickCompaction)
    /\ StartCompactionOf(PickCompaction, NoCaller)

StartManual ==
    LET m == manual_compaction_
        inputs == RangeInputs(manual[m].level, manual[m].begin, manual[m].range.hi)
    IN  /\ Idle /\ m # NoCaller /\ inputs # {}
        /\ StartCompactionOf(SetupOtherInputs(current, manual[m].level, inputs), m)

-----------------------------------------------------------------------------
(***************************************************************************)
(* Running a compaction                                                    *)
(***************************************************************************)

(* No level below the output has a file around key. *)
IsBaseLevelForKey(c, key) ==
    \A l \in (c.level + 2)..(NumLevels - 1) :
        LET reach == {f \in c.version[l] : key <= Hi(f)}
        IN  reach # {} => key < Lo(FirstSST(reach))

(* The sequence number of the entry before e if it is for the same key. *)
LastSequenceForKey(c, e) ==
    Min({MaxSequence} \cup
        {x \in UNION {f.ents : f \in c.in0 \cup c.in1} : log[x].key = log[e].key /\ x > e})

Drop(c, e) ==
    \/ LastSequenceForKey(c, e) <= c.smallest_snapshot
    \/ log[e].del /\ e <= c.smallest_snapshot /\ IsBaseLevelForKey(c, log[e].key)

(* A turn of DoCompactionWork's loop.  Values have any size, and so an     *)
(* output file may be full, or stopped for its grandparents, after any     *)
(* entry.                                                                  *)
CompactEntry(finish) ==
    LET c == compaction
        e == FirstEntry(c.todo)
        number == IF c.open = 0 THEN next_file ELSE c.open
        built == IF c.open = 0 THEN {} ELSE (CHOOSE o \in c.outputs : o.num = c.open).ents
    IN  /\ c # NoCompaction /\ c.todo # {}
        /\ \/ /\ Drop(c, e) /\ ~finish
              /\ compaction' = [c EXCEPT !.todo = @ \ {e}]
              /\ UNCHANGED <<next_file, disk, pending>>
           \/ /\ ~Drop(c, e)
              /\ compaction' = [c EXCEPT
                    !.todo = @ \ {e}, !.open = IF finish THEN 0 ELSE number,
                    !.outputs = {o \in @ : o.num # number} \cup {SST(number, built \cup {e})}]
              /\ next_file' = IF c.open = 0 THEN next_file + 1 ELSE next_file
              /\ disk' = disk \cup {number}
              /\ pending' = pending \cup {number}
        /\ UNCHANGED <<log, mem, imm, current, refs, compact_pointer, seek, snapshots, readers,
                       manualVars, bg_error>>

(* Mutant: what is left of the range is forgotten. *)
EndManual_Once(ok) ==
    IF compaction.m = NoCaller THEN UNCHANGED manualVars
    ELSE /\ manual' = [manual EXCEPT ![manual_compaction_].done = TRUE]
         /\ manual_compaction_' = NoCaller

(* BackgroundCompaction, after a manual compaction: it writes to the        *)
(* ManualCompaction that manual_compaction_ points to by now.               *)
EndManual(ok) ==
    IF compaction.m = NoCaller THEN UNCHANGED manualVars
    ELSE /\ manual' = [manual EXCEPT
               ![manual_compaction_].done = ~ok,
               ![manual_compaction_].begin = IF ok THEN Hi(LastSST(compaction.in0)) ELSE @]
         /\ manual_compaction_' = NoCaller

(* InstallCompactionResults, CleanupCompaction, ReleaseInputs and           *)
(* RemoveObsoleteFiles.                                                     *)
InstallCompactionResults ==
    LET c == compaction
    IN  /\ c # NoCompaction /\ c.todo = {}
        /\ AppendVersion([current EXCEPT ![c.level] = @ \ c.in0,
                                         ![c.level + 1] = (@ \ c.in1) \cup c.outputs],
                         One(c.version))
        /\ pending' = pending \ Numbers(c.outputs)
        /\ disk' = RemoveObsoleteFiles(disk, refs', pending')
        /\ compaction' = NoCompaction
        /\ EndManual(TRUE)
        /\ UNCHANGED <<log, mem, imm, next_file, compact_pointer, snapshots, readers, bg_error>>

(* An output file or the MANIFEST cannot be written. *)
CompactionFails ==
    /\ "compaction" \in Faults /\ compaction # NoCompaction
    /\ bg_error' = TRUE
    /\ pending' = pending \ Numbers(compaction.outputs)
    /\ refs' = Unref(refs, compaction.version)
    /\ compaction' = NoCompaction
    /\ EndManual(FALSE)
    /\ UNCHANGED <<log, mem, imm, current, next_file, disk, compact_pointer, seek, snapshots,
                   readers>>

-----------------------------------------------------------------------------
(***************************************************************************)
(* CompactRange                                                            *)
(***************************************************************************)

(* The deepest level with keys of the range; otherwise unless. *)
MaxLevelWithFiles(range, unless) ==
    LET levels == {l \in 1..(NumLevels - 1) : IsOverlapInLevel(current, l, range.lo, range.hi)}
    IN  IF levels = {} THEN unless ELSE Max(levels)

(* DBImpl::CompactRange *)
CompactRange(c, range) ==
    /\ manual[c] = NoManual
    /\ manual' = [manual EXCEPT ![c] = [level |-> -1, range |-> range, written |-> FALSE,
                                        max |-> MaxLevelWithFiles(range, 1)]]
    /\ UNCHANGED <<log, mem, imm, fileVars, snapshots, readers, compaction,
                   manual_compaction_, bg_error>>

(* The null batch of TEST_CompactMemTable: MakeRoomForWrite replaces the    *)
(* memtable, unless the group of another writer takes the batch along.      *)
NullWrite(c) ==
    /\ manual[c].level = -1 /\ ~manual[c].written
    /\ manual' = [manual EXCEPT ![c].written = TRUE]
    /\ \/ imm = {} /\ ~bg_error /\ imm' = mem /\ mem' = {}
       \/ UNCHANGED <<mem, imm>>
    /\ UNCHANGED <<log, fileVars, snapshots, readers, compaction, manual_compaction_, bg_error>>

(* TEST_CompactRange for a level.  goal are the files it is for, and no     *)
(* part of the code.                                                        *)
EnterLevel(c, level, max) ==
    manual' = [manual EXCEPT ![c] =
                   IF level >= max THEN NoManual
                   ELSE [level |-> level, range |-> @.range, max |-> max,
                         begin |-> @.range.lo, done |-> FALSE,
                         goal |-> {f \in current[level] : Overlaps(f, @.range.lo, @.range.hi)}]]

MemTableCompacted(c) ==
    /\ manual[c].level = -1 /\ manual[c].written
    /\ imm = {} \/ bg_error
    /\ EnterLevel(c, 0, MaxLevelWithFiles(manual[c].range, manual[c].max))
    /\ UNCHANGED <<log, mem, imm, fileVars, snapshots, readers, compaction,
                   manual_compaction_, bg_error>>

(* The background thread finds nothing to do in the range. *)
ManualDone ==
    LET m == manual_compaction_
    IN  /\ Idle /\ m # NoCaller
        /\ RangeInputs(manual[m].level, manual[m].begin, manual[m].range.hi) = {}
        /\ manual' = [manual EXCEPT ![m].done = TRUE]
        /\ manual_compaction_' = NoCaller
        /\ UNCHANGED <<log, mem, imm, fileVars, snapshots, readers, compaction, bg_error>>

(* The loop of TEST_CompactRange: manual_compaction_ is free. *)
PostManual(c) ==
    /\ manual[c].level >= 0 /\ ~manual[c].done /\ ~bg_error
    /\ manual_compaction_ = NoCaller
    /\ manual_compaction_' = c
    /\ UNCHANGED <<log, mem, imm, fileVars, snapshots, readers, compaction, manual, bg_error>>

(* Mutant: background_compaction_scheduled_ is reset by an error. *)
Scheduled_Error ==
    ~bg_error /\ (compaction # NoCompaction \/ imm # {} \/ manual_compaction_ # NoCaller
                   \/ IsNeedCompaction)

(* background_compaction_scheduled_: whoever makes work for the background  *)
(* thread calls MaybeScheduleCompaction.                                    *)
Scheduled ==
    \/ compaction # NoCompaction
    \/ ~bg_error /\ (imm # {} \/ manual_compaction_ # NoCaller \/ IsNeedCompaction)

(* TEST_CompactRange returns, once no background work is under way. *)
ReturnManual(c) ==
    /\ manual[c].level >= 0 /\ (manual[c].done \/ bg_error)
    /\ ~Scheduled
    /\ manual_compaction_' = IF manual_compaction_ = c THEN NoCaller ELSE manual_compaction_
    /\ EnterLevel(c, manual[c].level + 1, manual[c].max)
    /\ UNCHANGED <<log, mem, imm, fileVars, snapshots, readers, compaction, bg_error>>

-----------------------------------------------------------------------------

(* An empty database that has just been opened. *)
Init ==
    /\ log = <<>> /\ mem = {} /\ imm = {}
    /\ current = [l \in Levels |-> {}] /\ refs = One(current)
    /\ next_file = 1 /\ disk = {} /\ pending = {}
    /\ compact_pointer = [l \in Levels |-> NoKey] /\ seek = NoSeek
    /\ snapshots = <<>> /\ readers = [r \in Readers |-> NoReader]
    /\ compaction = NoCompaction /\ bg_error = FALSE
    /\ manual = [c \in Callers |-> NoManual] /\ manual_compaction_ = NoCaller

SeqsToRead == {LastSequence} \cup ToSet(snapshots)
Keys == {op.key : op \in Ops}

(* A caller of CompactRange, once it has begun. *)
RangeCaller(c) == NullWrite(c) \/ MemTableCompacted(c) \/ PostManual(c) \/ ReturnManual(c)

Client ==
    \/ \E op \in Ops : Write(op)
    \/ SwitchMemTable
    \/ GetSnapshot
    \/ \E i \in DOMAIN snapshots : ReleaseSnapshot(i)
    \/ \E r \in Readers : NewIterator(r) \/ DeleteIterator(r)
    \/ \E key \in Keys, seq \in SeqsToRead : UpdateStats(key, seq)
    \/ \E c \in Callers : RangeCaller(c) \/ \E range \in Ranges : CompactRange(c, range)

Background ==
    \/ CompactMemTable \/ CompactMemTableFails
    \/ MoveSST \/ StartCompaction \/ StartManual \/ ManualDone
    \/ \E finish \in BOOLEAN : CompactEntry(finish)
    \/ InstallCompactionResults \/ CompactionFails

Next == Client \/ Background

Spec == Init /\ [][Next]_vars

-----------------------------------------------------------------------------
(***************************************************************************)
(* Properties                                                              *)
(***************************************************************************)

Versions ==
    {current} \cup {readers[r] : r \in {x \in Readers : readers[x] # NoReader}}
              \cup (IF compaction = NoCompaction THEN {} ELSE {compaction.version})

(* MaybeAddFile's "Must not overlap": above level 0 the files of a level    *)
(* follow one another, and FindSST may search them.                         *)
LevelsDisjoint ==
    \A l \in 1..(NumLevels - 1) :
        LET ssts == Sorted(current[l])
        IN  \A i \in 2..Len(ssts) : KeyLess(ssts[i - 1].largest_key, ssts[i].smallest_key)

(* What a read of key at seq has to return. *)
Expected(key, seq) ==
    LET e == Newest(1..LastSequence, key, seq) IN IF e # 0 /\ ~log[e].del THEN e ELSE 0

(* Get at the latest sequence number and at every snapshot finds the last   *)
(* write to the key, whatever was flushed, moved, merged or dropped         *)
(* meanwhile.                                                               *)
ReadExact ==
    \A key \in Keys, seq \in SeqsToRead :
        Get(mem, imm, current, key, seq) = Expected(key, seq)

(* The first place DBImpl::Get finds a key in is the newest: entries are    *)
(* newer in mem_ than in imm_, then in the files of level 0 by number, then *)
(* level by level.                                                          *)
NewerAbove ==
    LET newer(A, B) == \A a \in A, b \in B : log[a].key = log[b].key => a > b
        ents(l) == UNION {f.ents : f \in current[l]}
    IN  /\ newer(mem, imm)
        /\ \A l \in Levels : newer(mem \cup imm, ents(l))
        /\ \A f, g \in current[0] : f.num > g.num => newer(f.ents, g.ents)
        /\ \A l, k \in Levels : l < k => newer(ents(l), ents(k))

(* RemoveObsoleteFiles never takes a file that current_, an iterator or the *)
(* compaction under way will read, or one that is being written.            *)
FilesPresent ==
    /\ \A v \in Versions, l \in Levels : Numbers(v[l]) \subseteq disk
    /\ compaction # NoCompaction => Numbers(compaction.outputs) \subseteq disk

(* A version lives as long as somebody uses it and no longer. *)
RefsExact == BagToSet(refs) = Versions

(* When TEST_CompactRange is done with a level, the files it found there    *)
(* with keys of its range have been merged into the next level.             *)
RangeCompacted ==
    \A c \in Callers :
        manual[c].level >= 0 /\ manual[c].done /\ ~bg_error =>
            current[manual[c].level] \cap manual[c].goal = {}

(* manual_compaction_ points to a local of a TEST_CompactRange that has not *)
(* returned, and while a manual compaction runs it is left alone, so that   *)
(* the background thread afterwards writes to the call it worked for.       *)
ManualAlive ==
    /\ manual_compaction_ # NoCaller => manual[manual_compaction_].level >= 0
    /\ compaction # NoCompaction /\ compaction.m # NoCaller => manual_compaction_ = compaction.m
=============================================================================
